------------------------------ MODULE WorkPool ------------------------------
(***************************************************************************)
(* The work-stealing pool of runtime/topo_parallel.cpp: worker queues,     *)
(* submission, stealing, awaiting with work-helping, detaching, and the    *)
(* life of the pool object behind g_pool (lazy initialisation, init,       *)
(* shutdown).                                                              *)
(*                                                                         *)
(* A thread is a pool worker or a client.  What runs on a thread is a      *)
(* stack of bodies: awaiting from a body runs other tasks on top of it.    *)
(* The bodies are small programs of calls into the runtime; the choice of  *)
(* `prog` in Init ranges over a set of them.  Completion of a task and the *)
(* free of its handle are atomic here: TaskHandle shows what the task's    *)
(* mutex makes of them.                                                    *)
(***************************************************************************)
EXTENDS Naturals, Sequences, FiniteSets

CONSTANTS
  NumWorkers,   \* Config::num_threads, once the default is resolved
  Clients,      \* threads outside the pool
  Tasks,        \* the handles the programs can spawn
  Priority,     \* Priority[t]: 0 Critical, 1 High, 2 Normal, 3 Low, 4 Background
  Programs      \* the programs to run: each maps a body to the calls it makes

Workers == 0 .. NumWorkers - 1
Threads == Workers \cup Clients
Bodies  == Tasks \cup Clients

\* A call into the runtime: `tasks` is the handle, or the array of handles.
Calls == [op : {"spawn", "await", "detach", "throw", "init", "shutdown"}, tasks : Seq(Tasks)]

ASSUME PoolAssumption ==
  /\ NumWorkers \in Nat \ {0}
  /\ Clients \cap (Workers \cup Tasks) = {}
  /\ Priority \in [Tasks -> 0 .. 4]
  /\ Programs \subseteq [Bodies -> Seq(Calls)]
  /\ \A p \in Programs : \A b \in Bodies : \A i \in DOMAIN p[b] :
       /\ p[b][i].op \in {"spawn", "detach"} => Len(p[b][i].tasks) = 1
       /\ p[b][i].op = "await" => p[b][i].tasks # << >>
       \* a worker that stops the pool would join itself
       /\ p[b][i].op \in {"init", "shutdown"} => b \in Clients

\* The contract of parallel_rt.h: a spawn returns a handle of its own, and a
\* handle is released exactly once, by an await or by a detach.
SameUse(op1, op2) == {op1, op2} = {"spawn"} \/ {op1, op2} \subseteq {"await", "detach"}

ASSUME HandleAssumption ==
  \A p \in Programs : \A b, c \in Bodies : \A i \in DOMAIN p[b], j \in DOMAIN p[c] :
    \A k \in DOMAIN p[b][i].tasks, l \in DOMAIN p[c][j].tasks :
      SameUse(p[b][i].op, p[c][j].op) /\ p[b][i].tasks[k] = p[c][j].tasks[l]
        => b = c /\ i = j /\ k = l

VARIABLES
  prog,         \* the program chosen
  queue,        \* queue[w]: WorkerQueue::tasks, front first
  counter,      \* submit_counter modulo the number of workers
  flag,         \* shutdown_flag
  loc,          \* loc[w]: where worker w is in worker_loop: "own", "steal", "idle", "wait", "exited" or "none"
  left,         \* left[w]: the victims w has still to look at in this scan
  stack,        \* stack[th]: the bodies on thread th, the running one first
  gpool,        \* g_pool: the pool published, 0 for nullptr
  alive,        \* the pool object that exists, 0 for none
  born,         \* pool objects made so far
  lifecycle,    \* who holds g_lifecycle_mutex: a set of at most one thread
  spawned,      \* tasks submitted
  done, threw, detached, freed,   \* topo_task's fields, as sets of tasks
  fault         \* uses of a pool that is not there

taskVars == <<spawned, done, threw, detached, freed>>
poolVars == <<gpool, alive, born, lifecycle, flag>>
scanVars == <<loc, left>>
vars == <<prog, queue, counter, scanVars, stack, poolVars, taskVars, fault>>

-----------------------------------------------------------------------------
(***************************************************************************)
(* A frame is a body in progress: `pc` is the call it is at, `at` how far  *)
(* it is inside that call, `pool` the call's snapshot of g_pool, `victims` *)
(* the queues an awaiter has still to look at, `k` the handle it is at in  *)
(* an array, `first` whether it holds an exception to rethrow, `raised`    *)
(* whether the body ended by an exception.                                 *)
(***************************************************************************)
Frame(b) == [body |-> b, pc |-> 1, at |-> "call", pool |-> 0, victims |-> << >>,
             k |-> 1, first |-> FALSE, raised |-> FALSE]

Top(th)     == Head(stack[th])
Returned(f) == f.pc > Len(prog[f.body])
Call(f)     == prog[f.body][f.pc]
Waited(f)   == Call(f).tasks[f.k]      \* the handle an await call is at

\* Thread th runs a body that is at the point `at` of a call `op`.
In(th, op, at) ==
  /\ stack[th] # << >>
  /\ ~Returned(Top(th))
  /\ Top(th).at = at
  /\ Call(Top(th)).op = op

SetTop(th, f) == stack' = [stack EXCEPT ![th] = <<f>> \o Tail(@)]
Goto(th, at)  == SetTop(th, [Top(th) EXCEPT !.at = at])

\* The call returns, or throws and unwinds the body it was made from.
NextCall(f) == [Frame(f.body) EXCEPT !.pc = f.pc + 1]
Unwind(f)   == [Frame(f.body) EXCEPT !.pc = Len(prog[f.body]) + 1, !.raised = TRUE]

Start(th, t) == [stack EXCEPT ![th] = <<Frame(t)>> \o @]

\* The queues in the order a scan that begins at s looks at them.
Rotation(s) == [i \in 1 .. NumWorkers |-> (s + i - 1) % NumWorkers]

\* The same without w, which is not its own victim; p is where w comes.
Others(s, w) ==
  LET p == ((w + NumWorkers - s) % NumWorkers) + 1
  IN [i \in 1 .. NumWorkers - 1 |-> Rotation(s)[IF i < p THEN i ELSE i + 1]]

Front(q) == SubSeq(q, 1, Len(q) - 1)
Last(q)  == q[Len(q)]
EmptyQueues == [w \in Workers |-> << >>]

-----------------------------------------------------------------------------
(***************************************************************************)
(* worker_loop                                                             *)
(***************************************************************************)
\* mutant: the task taken stays in the queue
ScanOwn_NoPop(w) ==
  /\ loc[w] = "own" /\ stack[w] = << >>
  /\ \/ /\ queue[w] # << >>
        /\ stack' = Start(w, Head(queue[w]))
        /\ UNCHANGED scanVars
     \/ /\ queue[w] = << >>
        /\ \E s \in Workers : left' = [left EXCEPT ![w] = Others(s, w)]
        /\ loc' = [loc EXCEPT ![w] = IF NumWorkers > 1 THEN "steal" ELSE "idle"]
        /\ UNCHANGED stack
  /\ UNCHANGED <<prog, queue, counter, poolVars, taskVars, fault>>

\* Try own queue first; otherwise plan the scan of the others.
ScanOwn(w) ==
  /\ loc[w] = "own" /\ stack[w] = << >>
  /\ \/ /\ queue[w] # << >>
        /\ queue' = [queue EXCEPT ![w] = Tail(@)]
        /\ stack' = Start(w, Head(queue[w]))
        /\ UNCHANGED scanVars
     \/ /\ queue[w] = << >>
        /\ \E s \in Workers : left' = [left EXCEPT ![w] = Others(s, w)]
        /\ loc' = [loc EXCEPT ![w] = IF NumWorkers > 1 THEN "steal" ELSE "idle"]
        /\ UNCHANGED <<queue, stack>>
  /\ UNCHANGED <<prog, counter, poolVars, taskVars, fault>>

\* mutant: the thief takes one task and empties the queue
Steal_ClearsVictim(w) ==
  /\ loc[w] = "steal"
  /\ LET v == Head(left[w]) IN
       \/ /\ queue[v] # << >>
          /\ queue' = [queue EXCEPT ![v] = << >>]
          /\ stack' = Start(w, Last(queue[v]))
          /\ loc' = [loc EXCEPT ![w] = "own"]
          /\ left' = [left EXCEPT ![w] = << >>]
       \/ /\ queue[v] = << >>
          /\ left' = [left EXCEPT ![w] = Tail(@)]
          /\ loc' = [loc EXCEPT ![w] = IF Len(left[w]) = 1 THEN "idle" ELSE "steal"]
          /\ UNCHANGED <<queue, stack>>
  /\ UNCHANGED <<prog, counter, poolVars, taskVars, fault>>

\* Steal from the back of one victim.
Steal(w) ==
  /\ loc[w] = "steal"
  /\ LET v == Head(left[w]) IN
       \/ /\ queue[v] # << >>
          /\ queue' = [queue EXCEPT ![v] = Front(@)]
          /\ stack' = Start(w, Last(queue[v]))
          /\ loc' = [loc EXCEPT ![w] = "own"]
          /\ left' = [left EXCEPT ![w] = << >>]
       \/ /\ queue[v] = << >>
          /\ left' = [left EXCEPT ![w] = Tail(@)]
          /\ loc' = [loc EXCEPT ![w] = IF Len(left[w]) = 1 THEN "idle" ELSE "steal"]
          /\ UNCHANGED <<queue, stack>>
  /\ UNCHANGED <<prog, counter, poolVars, taskVars, fault>>

\* No work found: leave if the pool stops, else sleep.
IdleCheck(w) ==
  /\ loc[w] = "idle"
  /\ loc' = [loc EXCEPT ![w] = IF flag THEN "exited" ELSE "wait"]
  /\ UNCHANGED <<prog, queue, counter, left, stack, poolVars, taskVars, fault>>

\* Notified, or the millisecond is over.  The flag is read again, the queues
\* are not.
WaitOver(w) ==
  /\ loc[w] = "wait"
  /\ loc' = [loc EXCEPT ![w] = IF flag THEN "exited" ELSE "own"]
  /\ UNCHANGED <<prog, queue, counter, left, stack, poolVars, taskVars, fault>>

\* mutant: a throwing body unwinds past done and notify
BodyEnds_LosesThrow(th) ==
  /\ stack[th] # << >> /\ Returned(Top(th))
  /\ LET t == Top(th).body IN
       IF t \in Tasks /\ ~Top(th).raised
       THEN /\ done' = done \cup {t}
            /\ freed' = IF t \in detached THEN freed \cup {t} ELSE freed
       ELSE UNCHANGED <<done, freed>>
  /\ stack' = [stack EXCEPT ![th] = Tail(@)]
  /\ UNCHANGED <<prog, queue, counter, scanVars, poolVars, spawned, threw, detached, fault>>

\* mutant: the runner does not look at `detached`
BodyEnds_Leaks(th) ==
  /\ stack[th] # << >> /\ Returned(Top(th))
  /\ LET t == Top(th).body IN
       IF t \in Tasks
       THEN /\ done' = done \cup {t}
            /\ threw' = IF Top(th).raised THEN threw \cup {t} ELSE threw
       ELSE UNCHANGED <<done, threw>>
  /\ stack' = [stack EXCEPT ![th] = Tail(@)]
  /\ UNCHANGED <<prog, queue, counter, scanVars, poolVars, spawned, detached, freed, fault>>

\* run_task_safely after the body, or the end of a client.
BodyEnds(th) ==
  /\ stack[th] # << >> /\ Returned(Top(th))
  /\ LET t == Top(th).body IN
       IF t \in Tasks
       THEN /\ done' = done \cup {t}
            /\ threw' = IF Top(th).raised THEN threw \cup {t} ELSE threw
            /\ freed' = IF t \in detached THEN freed \cup {t} ELSE freed
       ELSE UNCHANGED <<done, threw, freed>>
  /\ stack' = [stack EXCEPT ![th] = Tail(@)]
  /\ UNCHANGED <<prog, queue, counter, scanVars, poolVars, spawned, detached, fault>>

Throw(th) ==
  /\ In(th, "throw", "call")
  /\ SetTop(th, Unwind(Top(th)))
  /\ UNCHANGED <<prog, queue, counter, scanVars, poolVars, taskVars, fault>>

-----------------------------------------------------------------------------
(***************************************************************************)
(* topo_task_spawn and its variants                                        *)
(***************************************************************************)
\* topo_parallel_ensure_init, the fast path
EnsureInit(th) ==
  /\ In(th, "spawn", "call")
  /\ Goto(th, IF gpool # 0 THEN "snap" ELSE "lock")
  /\ UNCHANGED <<prog, queue, counter, scanVars, poolVars, taskVars, fault>>

\* mutant: the check is not repeated under the lock
EnsureInitLocked_NoRecheck(th) ==
  /\ In(th, "spawn", "lock")
  /\ lifecycle = {}
  /\ Goto(th, "start")
  /\ lifecycle' = {th}
  /\ UNCHANGED <<prog, queue, counter, scanVars, gpool, alive, born, flag, taskVars, fault>>

\* Its slow path: the lock, and the check under it.
EnsureInitLocked(th) ==
  /\ In(th, "spawn", "lock")
  /\ lifecycle = {}
  /\ \/ /\ gpool # 0
        /\ Goto(th, "snap")
        /\ UNCHANGED lifecycle
     \/ /\ gpool = 0
        /\ Goto(th, "start")
        /\ lifecycle' = {th}
  /\ UNCHANGED <<prog, queue, counter, scanVars, gpool, alive, born, flag, taskVars, fault>>

Snapshot(th) ==
  /\ In(th, "spawn", "snap")
  /\ SetTop(th, [Top(th) EXCEPT !.at = "submit", !.pool = gpool])
  /\ UNCHANGED <<prog, queue, counter, scanVars, poolVars, taskVars, fault>>

\* mutant: every task goes to the back
Submit_IgnoresPriority(th) ==
  /\ In(th, "spawn", "submit")
  /\ Top(th).pool = alive /\ alive # 0
  /\ LET t == Call(Top(th)).tasks[1] IN
       /\ queue' = [queue EXCEPT ![counter] = Append(@, t)]
       /\ spawned' = spawned \cup {t}
  /\ counter' = (counter + 1) % NumWorkers
  /\ SetTop(th, NextCall(Top(th)))
  /\ UNCHANGED <<prog, scanVars, poolVars, done, threw, detached, freed, fault>>

\* ThreadPool::submit on a pool that exists: round robin, and the urgent go first.
Submit(th) ==
  /\ In(th, "spawn", "submit")
  /\ Top(th).pool = alive /\ alive # 0
  /\ LET t == Call(Top(th)).tasks[1] IN
       /\ queue' = [queue EXCEPT ![counter] = IF Priority[t] < 2 THEN <<t>> \o @ ELSE Append(@, t)]
       /\ spawned' = spawned \cup {t}
  /\ counter' = (counter + 1) % NumWorkers
  /\ SetTop(th, NextCall(Top(th)))
  /\ UNCHANGED <<prog, scanVars, poolVars, done, threw, detached, freed, fault>>

-----------------------------------------------------------------------------
(***************************************************************************)
(* topo_task_await, topo_task_await_all and topo_task_detach               *)
(***************************************************************************)
\* The handle the call is at is done: free it, keep the first exception, go
\* on with the next handle; after the last one return or rethrow.
AwaitDone(th) ==
  /\ In(th, "await", "call")
  /\ Waited(Top(th)) \in done
  /\ LET f == Top(th)
         first == f.first \/ Waited(f) \in threw
     IN SetTop(th, IF f.k < Len(Call(f).tasks)
                   THEN [f EXCEPT !.k = @ + 1, !.first = first]
                   ELSE IF first THEN Unwind(f) ELSE NextCall(f))
  /\ freed' = freed \cup {Waited(Top(th))}
  /\ UNCHANGED <<prog, queue, counter, scanVars, poolVars, spawned, done, threw, detached, fault>>

\* mutant: an awaiter parks and never helps
AwaitSnapshot_ParksOnly(th) ==
  /\ In(th, "await", "call")
  /\ Waited(Top(th)) \notin done
  /\ gpool # 0
  /\ UNCHANGED vars

\* Not done: take a snapshot of g_pool to help it.  Without a pool the
\* awaiter only parks and looks again, which changes nothing.
AwaitSnapshot(th) ==
  /\ In(th, "await", "call")
  /\ Waited(Top(th)) \notin done
  /\ gpool # 0
  /\ SetTop(th, [Top(th) EXCEPT !.at = "seed", !.pool = gpool])
  /\ UNCHANGED <<prog, queue, counter, scanVars, poolVars, taskVars, fault>>

\* try_steal_any: where to begin
HelpSeed(th) ==
  /\ In(th, "await", "seed")
  /\ Top(th).pool = alive
  /\ SetTop(th, [Top(th) EXCEPT !.at = "help", !.victims = Rotation(counter)])
  /\ counter' = (counter + 1) % NumWorkers
  /\ UNCHANGED <<prog, queue, scanVars, poolVars, taskVars, fault>>

\* try_steal_any: one victim.  What is found runs on top of the awaiter;
\* when nothing is found the awaiter parks and looks again.
Help(th) ==
  /\ In(th, "await", "help")
  /\ Top(th).pool = alive
  /\ LET f == Top(th)
         v == Head(f.victims)
         again == [f EXCEPT !.at = "call", !.pool = 0, !.victims = << >>]
     IN \/ /\ queue[v] # << >>
           /\ queue' = [queue EXCEPT ![v] = Front(@)]
           /\ stack' = [stack EXCEPT ![th] = <<Frame(Last(queue[v])), again>> \o Tail(@)]
        \/ /\ queue[v] = << >>
           /\ SetTop(th, IF Len(f.victims) = 1 THEN again ELSE [f EXCEPT !.victims = Tail(@)])
           /\ UNCHANGED queue
  /\ UNCHANGED <<prog, counter, scanVars, poolVars, taskVars, fault>>

\* mutant: the handle is freed whoever is still to run the task
Detach_Frees(th) ==
  /\ In(th, "detach", "call")
  /\ freed' = freed \cup {Call(Top(th)).tasks[1]}
  /\ SetTop(th, NextCall(Top(th)))
  /\ UNCHANGED <<prog, queue, counter, scanVars, poolVars, spawned, done, threw, detached, fault>>

Detach(th) ==
  /\ In(th, "detach", "call")
  /\ LET t == Call(Top(th)).tasks[1] IN
       IF t \in done
       THEN freed' = freed \cup {t} /\ UNCHANGED detached
       ELSE detached' = detached \cup {t} /\ UNCHANGED freed
  /\ SetTop(th, NextCall(Top(th)))
  /\ UNCHANGED <<prog, queue, counter, scanVars, poolVars, spawned, done, threw, fault>>

\* The snapshot is null, or the pool it names is deleted: undefined behaviour.
BadPool(th) ==
  /\ In(th, "spawn", "submit") \/ In(th, "await", "seed") \/ In(th, "await", "help")
  /\ Top(th).pool = 0 \/ Top(th).pool # alive
  /\ fault' = fault \cup {IF Top(th).pool = 0 THEN "null" ELSE "deleted"}
  /\ UNCHANGED <<prog, queue, counter, scanVars, stack, poolVars, taskVars>>

-----------------------------------------------------------------------------
(***************************************************************************)
(* init, shutdown and do_init, under g_lifecycle_mutex                     *)
(***************************************************************************)
Lifecycle(th) ==
  /\ \E op \in {"init", "shutdown"} : In(th, op, "call")
  /\ lifecycle = {}
  /\ \/ /\ gpool # 0                      \* unpublish first, then tear down
        /\ gpool' = 0
        /\ Goto(th, "stop")
        /\ lifecycle' = {th}
     \/ /\ gpool = 0 /\ In(th, "init", "call")
        /\ Goto(th, "start")
        /\ lifecycle' = {th}
        /\ UNCHANGED gpool
     \/ /\ gpool = 0 /\ In(th, "shutdown", "call")
        /\ SetTop(th, NextCall(Top(th)))
        /\ UNCHANGED <<gpool, lifecycle>>
  /\ UNCHANGED <<prog, queue, counter, scanVars, alive, born, flag, taskVars, fault>>

\* ThreadPool::stop: raise the flag and wake everyone,
StopFlag(th) ==
  /\ \E op \in {"init", "shutdown"} : In(th, op, "stop")
  /\ flag' = TRUE
  /\ Goto(th, "join")
  /\ UNCHANGED <<prog, queue, counter, scanVars, gpool, alive, born, lifecycle, taskVars, fault>>

\* join every worker, clear the queues, and delete the pool.
StopJoin(th) ==
  /\ \E op \in {"init", "shutdown"} : In(th, op, "join")
  /\ \A w \in Workers : loc[w] = "exited"
  /\ queue' = EmptyQueues
  /\ alive' = 0
  /\ loc' = [w \in Workers |-> "none"]
  /\ IF In(th, "init", "join")
     THEN Goto(th, "start") /\ UNCHANGED lifecycle
     ELSE SetTop(th, NextCall(Top(th))) /\ lifecycle' = {}
  /\ UNCHANGED <<prog, counter, left, gpool, born, flag, taskVars, fault>>

\* do_init: build a pool and start its workers,
DoInitStart(th) ==
  /\ \E op \in {"init", "spawn"} : In(th, op, "start")
  /\ born' = born + 1
  /\ alive' = born + 1
  /\ flag' = FALSE
  /\ counter' = 0
  /\ loc' = [w \in Workers |-> "own"]
  /\ Goto(th, "publish")
  /\ UNCHANGED <<prog, queue, left, gpool, lifecycle, taskVars, fault>>

\* and publish it last.
DoInitPublish(th) ==
  /\ \E op \in {"init", "spawn"} : In(th, op, "publish")
  /\ gpool' = alive
  /\ lifecycle' = {}
  /\ IF In(th, "init", "publish") THEN SetTop(th, NextCall(Top(th))) ELSE Goto(th, "snap")
  /\ UNCHANGED <<prog, queue, counter, scanVars, alive, born, flag, taskVars, fault>>

-----------------------------------------------------------------------------
Init ==
  /\ prog \in Programs
  /\ queue = EmptyQueues
  /\ counter = 0
  /\ flag = FALSE
  /\ loc = [w \in Workers |-> "none"]
  /\ left = [w \in Workers |-> << >>]
  \* a client that has no call to make has returned
  /\ stack = [th \in Threads |-> IF th \in Clients /\ prog[th] # << >> THEN <<Frame(th)>> ELSE << >>]
  /\ gpool = 0 /\ alive = 0 /\ born = 0
  /\ lifecycle = {}
  /\ spawned = {} /\ done = {} /\ threw = {} /\ detached = {} /\ freed = {}
  /\ fault = {}

WorkerStep(w) == ScanOwn(w) \/ Steal(w) \/ IdleCheck(w) \/ WaitOver(w)

BodyStep(th) ==
  \/ BodyEnds(th) \/ Throw(th)
  \/ EnsureInit(th) \/ EnsureInitLocked(th) \/ Snapshot(th) \/ Submit(th)
  \/ AwaitDone(th) \/ AwaitSnapshot(th) \/ HelpSeed(th) \/ Help(th)
  \/ Detach(th) \/ BadPool(th)
  \/ Lifecycle(th) \/ StopFlag(th) \/ StopJoin(th) \/ DoInitStart(th) \/ DoInitPublish(th)

ThreadStep(th) == (th \in Workers /\ WorkerStep(th)) \/ BodyStep(th)

\* Every client has returned and the pool is gone.
Finished ==
  /\ \A th \in Threads : stack[th] = << >>
  /\ alive = 0
  /\ UNCHANGED vars

Next ==
  \/ fault = {} /\ \E th \in Threads : ThreadStep(th)
  \/ Finished

Spec == Init /\ [][Next]_vars

\* The operating system keeps running every thread.
FairSpec == Spec /\ \A th \in Threads : WF_vars(fault = {} /\ ThreadStep(th))

-----------------------------------------------------------------------------
QueuedAt(t)  == UNION {{<<w, i>> : i \in {j \in DOMAIN queue[w] : queue[w][j] = t}} : w \in Workers}
RunningAt(t) == UNION {{<<th, i>> : i \in {j \in DOMAIN stack[th] : stack[th][j].body = t}} : th \in Threads}

(***************************************************************************)
(* A submitted task is in exactly one queue or on exactly one stack until  *)
(* it is done and nowhere after: stealing from both ends, helping and      *)
(* nesting neither lose a task nor run it twice.                           *)
(***************************************************************************)
NoTaskLost ==
  \A t \in Tasks :
    Cardinality(QueuedAt(t)) + Cardinality(RunningAt(t)) = IF t \in spawned \ done THEN 1 ELSE 0

(***************************************************************************)
(* No set of threads waits for one another: it never happens that each of  *)
(* them awaits a task which is on the stack of one of them.  Helping puts  *)
(* unrelated tasks on top of an awaiting body, so this is a property of    *)
(* the order in which tasks start, not of the awaits as written.           *)
(***************************************************************************)
WaitsOn(th, u) ==
  /\ stack[th] # << >> /\ ~Returned(Top(th)) /\ Call(Top(th)).op = "await"
  /\ \E i \in 1 .. Len(stack[u]) : stack[u][i].body = Waited(Top(th))

NoAwaitCycle ==
  \A S \in (SUBSET Threads) \ {{}} : \E th \in S : \A u \in S : ~WaitsOn(th, u)

(***************************************************************************)
(* In every queue the urgent tasks (Critical and High) are in front of the *)
(* others, so that its worker takes them first.                            *)
(***************************************************************************)
UrgentAhead ==
  \A w \in Workers : \A i, j \in 1 .. Len(queue[w]) :
    i < j /\ Priority[queue[w][j]] < 2 => Priority[queue[w][i]] < 2

(***************************************************************************)
(* Neither the pool pointer nor a handle dangles.  What g_pool points to   *)
(* is the pool there is, started and with all its workers in their loop,   *)
(* however lazy initialisation, init and shutdown of several clients meet: *)
(* a reader is "guaranteed to see a started pool" (topo_parallel.cpp:      *)
(* 331-333) and none can "observe a non-null pointer to a pool that is     *)
(* being stopped/deleted" (350-352).  That is about the load of g_pool,    *)
(* not about a pool loaded a while ago, see SnapshotStaysValid.            *)
(***************************************************************************)
PublishedRuns ==
  gpool # 0 => /\ gpool = alive /\ ~flag
               /\ \A w \in Workers : loc[w] \notin {"none", "exited"}

\* A handle is not freed while some body awaits it, nor before its own body is
\* over: whether the awaiter or the runner of a detached task deletes it, the
\* other one is through with it.
FreedIsOver ==
  \A t \in freed : /\ t \in done
                   /\ \A th \in Threads : \A i \in 1 .. Len(stack[th]) :
                        LET f == stack[th][i] IN
                          /\ f.body # t
                          /\ ~Returned(f) /\ Call(f).op = "await" => t # Waited(f)

NothingDangles == PublishedRuns /\ FreedIsOver

(***************************************************************************)
(* What topo_parallel.cpp:517-522 says of a pool loaded a while ago: under *)
(* "a concurrent shutdown()" an awaiter's "local copy stays valid".  It    *)
(* holds of the workers, which shutdown joins, not of a client that        *)
(* another client's shutdown overtakes.                                    *)
(***************************************************************************)
SnapshotStaysValid ==
  \A th \in Threads : In(th, "await", "seed") \/ In(th, "await", "help") => Top(th).pool = alive

(***************************************************************************)
(* What holds in its place: if nobody is between his load of g_pool and    *)
(* his use of it while the pool is stopped, nobody uses a null or a        *)
(* deleted pool.  A spawn that waits for the lifecycle mutex, or comes     *)
(* after the stop, finds the next pool, and no thread keeps one from       *)
(* before it.  The runtime leaves it to its callers to stop it like that.  *)
(***************************************************************************)
At(th)  == IF stack[th] = << >> THEN "call" ELSE Top(th).at
Holding == {"snap", "submit", "seed", "help"}

QuietStop ==
  \A th \in Threads : At(th) \in {"stop", "join"} => \A u \in Threads : At(u) \notin Holding

PoolValid == fault = {}
PoolOutlivesUses == []QuietStop => []PoolValid

(***************************************************************************)
(* A detached task is freed when its body completes, and it completes.     *)
(***************************************************************************)
DetachedFreed == \A t \in Tasks : t \in detached ~> t \in freed

(***************************************************************************)
(* Every client's calls return: no await, init or shutdown hangs.          *)
(***************************************************************************)
ClientsReturn == \A c \in Clients : <>[](stack[c] = << >>)

\* What the pool promises about tasks, whoever runs them.
phase == [t \in Tasks |-> IF t \notin spawned THEN "unborn"
                         ELSE IF t \in done THEN "done"
                         ELSE IF RunningAt(t) # {} THEN "running" ELSE "pending"]
Service == INSTANCE TaskService
(***************************************************************************)
(* The pool implements TaskService: every task submitted is run to its end *)
(* by someone, once, and its handle is freed once, after that.             *)
(***************************************************************************)
ImplementsService == Service!FairSpec
=============================================================================
