---------------------------- MODULE TaskService ----------------------------
(***************************************************************************)
(* What runtime/topo_parallel.cpp promises to a caller of topo_task_spawn, *)
(* whichever thread runs the task and whatever queue it waits in: a task   *)
(* that was spawned runs to its end exactly once, and its handle is freed  *)
(* at most once and not before that.                                       *)
(***************************************************************************)
CONSTANT Tasks

VARIABLES
  phase,    \* phase[t]: "unborn", "pending", "running" or "done"
  freed     \* the handles released

vars == <<phase, freed>>

TypeOK == /\ phase \in [Tasks -> {"unborn", "pending", "running", "done"}]
          /\ freed \subseteq Tasks

Init == phase = [t \in Tasks |-> "unborn"] /\ freed = {}

Moves(t, from, to) == phase[t] = from /\ phase' = [phase EXCEPT ![t] = to]

Spawn(t) == Moves(t, "unborn", "pending") /\ UNCHANGED freed
Start(t) == Moves(t, "pending", "running") /\ UNCHANGED freed

\* The end of a body; a task detached before it is freed with it.
Finish(t) == Moves(t, "running", "done") /\ freed' \in {freed, freed \cup {t}}

\* An await returns, or a finished task is detached.
Free(t) == /\ phase[t] = "done" /\ t \notin freed
           /\ freed' = freed \cup {t}
           /\ UNCHANGED phase

Next == \E t \in Tasks : Spawn(t) \/ Start(t) \/ Finish(t) \/ Free(t)

Spec == Init /\ [][Next]_vars

\* A task waiting for a thread gets one, and a body that runs ends.
FairSpec == Spec /\ \A t \in Tasks : WF_vars(Start(t)) /\ WF_vars(Finish(t))
=============================================================================
