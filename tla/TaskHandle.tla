----------------------------- MODULE TaskHandle -----------------------------
(***************************************************************************)
(* The life of a topo_task allocation (runtime/topo_parallel.cpp) at the   *)
(* level of the task's mutex.  Two threads touch the allocation: the       *)
(* runner, which executes the body in run_task_safely, and the owner of    *)
(* the handle, which either awaits or detaches it.  Whichever finishes     *)
(* last frees it.                                                          *)
(*                                                                         *)
(* One action is one critical section boundary or one access outside the   *)
(* mutex.  The queues a task passes through, and the tasks an awaiting     *)
(* thread runs while it waits, are the business of WorkPool.               *)
(***************************************************************************)
EXTENDS Naturals

CONSTANT Tasks      \* the spawned tasks

VARIABLES
  runner,       \* runner[t]: where the thread running t is in run_task_safely
  owner,        \* owner[t]: where the thread holding t's handle is
  mtx,          \* mtx[t]: who holds task->mtx
  done,         \* task->done
  detached,     \* task->detached
  exception,    \* task->exception holds an exception_ptr
  pending,      \* the runner's local: the body threw
  captured,     \* the awaiter's local: the exception it moved out
  frees         \* how many times the allocation was deleted (history)

vars == <<runner, owner, mtx, done, detached, exception, pending, captured, frees>>

RunnerLocs == {"queued", "body", "ended", "locked", "notifying", "freeing", "gone"}
OwnerLocs  == {"holding",
               "polling", "parking", "parklocked", "asleep", "woken",
               "barrier", "barriered", "deleting",
               "detaching", "detlocked", "detdeleting",
               "returned", "threw", "detached"}

\* The owner has given the handle up, by a return or a throw of
\* topo_task_await or by the return of topo_task_detach.
Settled == {"returned", "threw", "detached"}

TypeOK ==
  /\ runner    \in [Tasks -> RunnerLocs]
  /\ owner     \in [Tasks -> OwnerLocs]
  /\ mtx       \in [Tasks -> {"free", "runner", "owner"}]
  /\ done      \in [Tasks -> BOOLEAN]
  /\ detached  \in [Tasks -> BOOLEAN]
  /\ exception \in [Tasks -> BOOLEAN]
  /\ pending   \in [Tasks -> BOOLEAN]
  /\ captured  \in [Tasks -> BOOLEAN]
  /\ frees     \in [Tasks -> Nat]

Init ==
  /\ runner    = [t \in Tasks |-> "queued"]
  /\ owner     = [t \in Tasks |-> "holding"]
  /\ mtx       = [t \in Tasks |-> "free"]
  /\ done      = [t \in Tasks |-> FALSE]
  /\ detached  = [t \in Tasks |-> FALSE]
  /\ exception = [t \in Tasks |-> FALSE]
  /\ pending   = [t \in Tasks |-> FALSE]
  /\ captured  = [t \in Tasks |-> FALSE]
  /\ frees     = [t \in Tasks |-> 0]

-----------------------------------------------------------------------------
RunnerAt(t, from, to) ==
  /\ runner[t] = from
  /\ runner' = [runner EXCEPT ![t] = to]

OwnerAt(t, from, to) ==
  /\ owner[t] = from
  /\ owner' = [owner EXCEPT ![t] = to]

Lock(t, who) ==
  /\ mtx[t] = "free"
  /\ mtx' = [mtx EXCEPT ![t] = who]

Unlock(t) == mtx' = [mtx EXCEPT ![t] = "free"]

Delete(t) == frees' = [frees EXCEPT ![t] = @ + 1]

-----------------------------------------------------------------------------
(***************************************************************************)
(* The runner: ThreadPool::run_task_safely.                                *)
(***************************************************************************)
StartBody(t) ==
  /\ RunnerAt(t, "queued", "body")
  /\ UNCHANGED <<owner, mtx, done, detached, exception, pending, captured, frees>>

\* mutant: no catch clause, a throwing body leaves the worker loop
EndBody_Escapes(t) ==
  /\ \E threw \in BOOLEAN : /\ RunnerAt(t, "body", IF threw THEN "gone" ELSE "ended")
                            /\ pending' = [pending EXCEPT ![t] = threw]
  /\ UNCHANGED <<owner, mtx, done, detached, exception, captured, frees>>

\* The body returns, or throws and the catch clause keeps the exception.
EndBody(t) ==
  /\ RunnerAt(t, "body", "ended")
  /\ \E threw \in BOOLEAN : pending' = [pending EXCEPT ![t] = threw]
  /\ UNCHANGED <<owner, mtx, done, detached, exception, captured, frees>>

RunnerLock(t) ==
  /\ RunnerAt(t, "ended", "locked")
  /\ Lock(t, "runner")
  /\ UNCHANGED <<owner, done, detached, exception, pending, captured, frees>>

\* mutant: the caught exception is not stored in the task
StoreDone_DropsException(t) ==
  /\ RunnerAt(t, "locked", "notifying")
  /\ done' = [done EXCEPT ![t] = TRUE]
  /\ UNCHANGED <<owner, mtx, detached, exception, pending, captured, frees>>

\* A poll of `done` outside the mutex sees it from here on, while the runner
\* is still inside notify_all.
StoreDone(t) ==
  /\ RunnerAt(t, "locked", "notifying")
  /\ exception' = [exception EXCEPT ![t] = @ \/ pending[t]]
  /\ done' = [done EXCEPT ![t] = TRUE]
  /\ UNCHANGED <<owner, mtx, detached, pending, captured, frees>>

\* mutant: the runner never frees, so a detached task leaks
RunnerUnlock_Leaks(t) ==
  /\ RunnerAt(t, "notifying", "gone")
  /\ Unlock(t)
  /\ UNCHANGED <<owner, done, detached, exception, pending, captured, frees>>

RunnerUnlock(t) ==
  /\ RunnerAt(t, "notifying", IF detached[t] THEN "freeing" ELSE "gone")
  /\ Unlock(t)
  /\ UNCHANGED <<owner, done, detached, exception, pending, captured, frees>>

RunnerDelete(t) ==
  /\ RunnerAt(t, "freeing", "gone")
  /\ Delete(t)
  /\ UNCHANGED <<owner, mtx, done, detached, exception, pending, captured>>

-----------------------------------------------------------------------------
(***************************************************************************)
(* The owner: topo_task_await.                                             *)
(***************************************************************************)
BeginAwait(t) ==
  /\ OwnerAt(t, "holding", "polling")
  /\ UNCHANGED <<runner, mtx, done, detached, exception, pending, captured, frees>>

\* mutant: the awaiter deletes as soon as it sees `done`, without the barrier
Poll_NoBarrier(t) ==
  /\ OwnerAt(t, "polling", IF done[t] THEN "deleting" ELSE "parking")
  /\ UNCHANGED <<runner, mtx, done, detached, exception, pending, captured, frees>>

\* while (!task->done.load(acquire)), with nothing to help with
Poll(t) ==
  /\ OwnerAt(t, "polling", IF done[t] THEN "barrier" ELSE "parking")
  /\ UNCHANGED <<runner, mtx, done, detached, exception, pending, captured, frees>>

ParkLock(t) ==
  /\ OwnerAt(t, "parking", "parklocked")
  /\ Lock(t, "owner")
  /\ UNCHANGED <<runner, done, detached, exception, pending, captured, frees>>

\* cv.wait_for tests its predicate first and sleeps only if it is false.
ParkWait(t) ==
  /\ OwnerAt(t, "parklocked", IF done[t] THEN "polling" ELSE "asleep")
  /\ Unlock(t)
  /\ UNCHANGED <<runner, done, detached, exception, pending, captured, frees>>

\* Notified, or the millisecond is over: either way the mutex is taken back.
Wake(t) ==
  /\ OwnerAt(t, "asleep", "woken")
  /\ Lock(t, "owner")
  /\ UNCHANGED <<runner, done, detached, exception, pending, captured, frees>>

Unpark(t) ==
  /\ OwnerAt(t, "woken", "polling")
  /\ Unlock(t)
  /\ UNCHANGED <<runner, done, detached, exception, pending, captured, frees>>

\* The barrier: taking the mutex waits for the runner to leave notify_all.
BarrierLock(t) ==
  /\ OwnerAt(t, "barrier", "barriered")
  /\ Lock(t, "owner")
  /\ captured' = [captured EXCEPT ![t] = exception[t]]
  /\ exception' = [exception EXCEPT ![t] = FALSE]
  /\ UNCHANGED <<runner, done, detached, pending, frees>>

BarrierUnlock(t) ==
  /\ OwnerAt(t, "barriered", "deleting")
  /\ Unlock(t)
  /\ UNCHANGED <<runner, done, detached, exception, pending, captured, frees>>

\* delete task; then rethrow what was captured
AwaitDelete(t) ==
  /\ OwnerAt(t, "deleting", IF captured[t] THEN "threw" ELSE "returned")
  /\ Delete(t)
  /\ UNCHANGED <<runner, mtx, done, detached, exception, pending, captured>>

-----------------------------------------------------------------------------
(***************************************************************************)
(* The owner: topo_task_detach.                                            *)
(***************************************************************************)
BeginDetach(t) ==
  /\ OwnerAt(t, "holding", "detaching")
  /\ UNCHANGED <<runner, mtx, done, detached, exception, pending, captured, frees>>

DetachLock(t) ==
  /\ OwnerAt(t, "detaching", "detlocked")
  /\ Lock(t, "owner")
  /\ UNCHANGED <<runner, done, detached, exception, pending, captured, frees>>

DetachUnlock(t) ==
  /\ OwnerAt(t, "detlocked", IF done[t] THEN "detdeleting" ELSE "detached")
  /\ detached' = [detached EXCEPT ![t] = ~done[t]]
  /\ Unlock(t)
  /\ UNCHANGED <<runner, done, exception, pending, captured, frees>>

DetachDelete(t) ==
  /\ OwnerAt(t, "detdeleting", "detached")
  /\ Delete(t)
  /\ UNCHANGED <<runner, mtx, done, detached, exception, pending, captured>>

-----------------------------------------------------------------------------
RunnerStep(t) ==
  \/ StartBody(t)  \/ EndBody(t)      \/ RunnerLock(t)
  \/ StoreDone(t)  \/ RunnerUnlock(t) \/ RunnerDelete(t)

OwnerStep(t) ==
  \/ BeginAwait(t)  \/ Poll(t)          \/ ParkLock(t)  \/ ParkWait(t)
  \/ Wake(t)        \/ Unpark(t)
  \/ BarrierLock(t) \/ BarrierUnlock(t) \/ AwaitDelete(t)
  \/ BeginDetach(t) \/ DetachLock(t)    \/ DetachUnlock(t) \/ DetachDelete(t)

AllSettled == \A t \in Tasks : runner[t] = "gone" /\ owner[t] \in Settled

\* Every task was run and given up: nothing is left to do.
Finished == AllSettled /\ UNCHANGED vars

Next == (\E t \in Tasks : RunnerStep(t) \/ OwnerStep(t)) \/ Finished

Spec == Init /\ [][Next]_vars

(***************************************************************************)
(* Every thread keeps running.  The mutex is not starved by an awaiter     *)
(* that parks again and again: it sleeps without the mutex between two     *)
(* looks at `done`, so the strong fairness asked of the runner is what a   *)
(* scheduler with a one-millisecond sleeper on the other side provides.    *)
(***************************************************************************)
Fairness == \A t \in Tasks : /\ WF_vars(RunnerStep(t))
                             /\ SF_vars(RunnerLock(t))
                             /\ WF_vars(OwnerStep(t))

FairSpec == Spec /\ Fairness

-----------------------------------------------------------------------------
(***************************************************************************)
(* Once an allocation is deleted neither thread will touch it again: the   *)
(* runner has left run_task_safely (in particular notify_all and the       *)
(* mutex) and the owner has returned.  A second delete is such a touch.    *)
(***************************************************************************)
NoUseAfterFree ==
  \A t \in Tasks : frees[t] > 0 => runner[t] = "gone" /\ owner[t] \in Settled

(***************************************************************************)
(* The comment on topo_task::detached: "exactly one free happens", however *)
(* the runner and an awaiting or detaching owner interleave.               *)
(***************************************************************************)
ExactlyOneFree ==
  \A t \in Tasks :
    /\ frees[t] <= 1
    /\ runner[t] = "gone" /\ owner[t] \in Settled => frees[t] = 1

(***************************************************************************)
(* The exception of a throwing body reaches the awaiter, and an awaiter    *)
(* never throws what the body did not.                                     *)
(***************************************************************************)
ExceptionSurfaces ==
  \A t \in Tasks : /\ owner[t] = "returned" => ~pending[t]
                   /\ owner[t] = "threw"    => pending[t]

(***************************************************************************)
(* topo_task_await and topo_task_detach return, and the allocation is      *)
(* released, whatever the body does.                                       *)
(***************************************************************************)
Released == \A t \in Tasks : <>(owner[t] \in Settled /\ frees[t] = 1)
=============================================================================
