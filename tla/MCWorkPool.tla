----------------------------- MODULE MCWorkPool -----------------------------
(***************************************************************************)
(* Programs for WorkPool: what the bodies call.                            *)
(***************************************************************************)
EXTENDS WorkPool, TLC

CONSTANTS c1, c2, t1, t2, t3, t4

Spawn(t)     == [op |-> "spawn", tasks |-> <<t>>]
Await(ts)    == [op |-> "await", tasks |-> ts]
Detached(t)  == [op |-> "detach", tasks |-> <<t>>]
Throws       == [op |-> "throw", tasks |-> << >>]
InitPool     == [op |-> "init", tasks |-> << >>]
ShutdownPool == [op |-> "shutdown", tasks |-> << >>]

\* A body that is not named makes no call.
Program(calls) == [b \in Bodies |-> IF b \in DOMAIN calls THEN calls[b] ELSE << >>]

Normal == [t \in Tasks |-> 2]
\* t2 is High, t3 is Critical
Mixed  == [t \in Tasks |-> CASE t = t2 -> 1 [] t = t3 -> 0 [] OTHER -> 2]

\* Fork and join: nested, three deep, with a throwing leaf, and over a pool
\* that is shut down and lazily made again.
ForkJoin == {
  Program((c1 :> <<Spawn(t1), Spawn(t2), Await(<<t1, t2>>), ShutdownPool, ShutdownPool>>) @@
          (t1 :> <<Spawn(t3), Await(<<t3>>)>>) @@
          (t2 :> <<Spawn(t4), Await(<<t4>>)>>)),
  Program((c1 :> <<InitPool, Spawn(t1), Await(<<t1>>), InitPool>>) @@
          (t1 :> <<Spawn(t2), Spawn(t3), Await(<<t2, t3>>)>>) @@
          (t3 :> <<Spawn(t4), Await(<<t4>>)>>) @@
          (t2 :> <<Throws>>)),
  Program(c1 :> <<Spawn(t1), Await(<<t1>>), ShutdownPool, Spawn(t2), Detached(t2)>>)}

\* Two clients race to make the pool; urgent and normal tasks, a detached one.
TwoClients == {
  Program((c1 :> <<Spawn(t1), Detached(t1)>>) @@
          (c2 :> <<Spawn(t2), Await(<<t2>>)>>) @@
          (t1 :> <<Spawn(t3), Await(<<t3>>)>>))}

Served == ForkJoin \cup TwoClients

-----------------------------------------------------------------------------
(* One client stops the pool while another one spawns a task and awaits    *)
(* it.                                                                     *)
StoppedOnce == {
  Program((c1 :> <<Spawn(t1), Await(<<t1>>)>>) @@ (c2 :> <<ShutdownPool>>))}

(* The pool is shut down while a body awaits its child.                    *)
NestedAwaitAtShutdown == {
  Program((c1 :> <<Spawn(t1), Detached(t1), ShutdownPool>>) @@
          (t1 :> <<Spawn(t2), Await(<<t2>>)>>))}
=============================================================================
