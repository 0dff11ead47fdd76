----------------------------- MODULE MCForkJoin -----------------------------
(***************************************************************************)
(* Fork and join, at both ends: the handle of one task in the runtime, and *)
(* the code that the passes make to spawn tasks and join them, of the      *)
(* stages of a pipeline and of the iterations of a loop.  They meet in     *)
(* the interface only, so one of them steps in a behaviour (focus) and the *)
(* others stay where they are.                                             *)
(***************************************************************************)
EXTENDS TaskHandle, MCLoop, StageFlow

VARIABLE focus

Shapes == INSTANCE StageShapes

Pipelines == Shapes!Shapes
Structs   == Shapes!Structs

\* Every task has been run and awaited.
Handled ==
  /\ runner = [t \in Tasks |-> "gone"] /\ owner = [t \in Tasks |-> "returned"]
  /\ mtx = [t \in Tasks |-> "free"] /\ done = [t \in Tasks |-> TRUE]
  /\ detached = [t \in Tasks |-> FALSE] /\ exception = [t \in Tasks |-> FALSE]
  /\ pending = [t \in Tasks |-> FALSE] /\ captured = [t \in Tasks |-> FALSE]
  /\ frees = [t \in Tasks |-> 1]

ForkJoinInit ==
  /\ focus \in {"handle", "stages", "loop"}
  /\ IF focus = "handle" THEN Init ELSE Handled
  /\ IF focus = "stages" THEN StageInit
     ELSE /\ pipe = Shapes!Diamond /\ parallel = FALSE /\ throws = {} /\ stagePc = "stub"
          /\ body = << >> /\ group = 1 /\ serial = << >> /\ pos = 1
          /\ frame = Begin /\ task = << >>
  /\ LoopInit /\ (focus = "loop" \/ func = Fn(<<TopTested(Map, 2, Never)>>))

ForkJoinNext ==
  /\ UNCHANGED focus
  /\ \/ focus = "handle" /\ Next      /\ UNCHANGED <<stageVars, loopVars>>
     \/ focus = "stages" /\ StageNext /\ UNCHANGED <<vars, loopVars>>
     \/ focus = "loop"   /\ LoopNext  /\ UNCHANGED <<vars, stageVars>>

\* The fairness of the two threads of a handle; in the others only safety counts.
ForkJoinSpec ==
  ForkJoinInit /\ [][ForkJoinNext]_<<focus, vars, stageVars, loopVars>> /\ Fairness

=============================================================================
