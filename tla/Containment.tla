----------------------------- MODULE Containment -----------------------------
(***************************************************************************)
(* The containment runtime of runtime/topo_containment.cpp: calls that     *)
(* leave their module are recorded, and written out when the process       *)
(* exits.  The first call registers that handler, between the exchange of  *)
(* a flag and its own record.  exit is external: it runs the handlers that *)
(* are registered when main returns, while other threads may be anywhere.  *)
(***************************************************************************)
EXTENDS Naturals, Sequences

CONSTANTS Threads,
          MaxViolations   \* bound on the records

VARIABLES flag,        \* g_atexitRegistered
          handlers,    \* how often the dump is registered with atexit
          violations,  \* g_violations: the threads that reported, in order
          callPc,      \* a thread inside __topo_containment_violation
          exited, dumped
containVars == <<flag, handlers, violations, callPc, exited, dumped>>

Init ==
  /\ flag = FALSE /\ handlers = 0 /\ violations = << >>
  /\ callPc = [t \in Threads |-> "out"] /\ exited = FALSE /\ dumped = << >>

Goto(t, l) == callPc' = [callPc EXCEPT ![t] = l]

\* A defect: the flag is tested and set in two steps, here seen as never set.
Enter_NoFlag(t) ==
  /\ ~exited /\ callPc[t] = "out" /\ Goto(t, "register")
  /\ UNCHANGED <<flag, handlers, violations, exited, dumped>>

Enter(t) ==
  /\ ~exited /\ callPc[t] = "out"
  /\ flag' = TRUE /\ Goto(t, IF flag THEN "record" ELSE "register")
  /\ UNCHANGED <<handlers, violations, exited, dumped>>

Register(t) ==
  /\ ~exited /\ callPc[t] = "register" /\ Goto(t, "record")
  /\ handlers' = handlers + 1 /\ UNCHANGED <<flag, violations, exited, dumped>>

Record(t) ==
  /\ ~exited /\ callPc[t] = "record" /\ Goto(t, "out") /\ Len(violations) < MaxViolations
  /\ violations' = Append(violations, t) /\ UNCHANGED <<flag, handlers, exited, dumped>>

\* __topo_containment_reset: the records go, the registration stays.
ResetViolations ==
  /\ ~exited /\ violations' = << >>
  /\ UNCHANGED <<flag, handlers, callPc, exited, dumped>>

\* __topo_containment_dump, once for each registration
Dump(n) == IF n = 0 THEN << >> ELSE IF n = 1 THEN violations ELSE violations \o violations

Exit ==
  /\ ~exited /\ exited' = TRUE /\ dumped' = Dump(handlers)
  /\ UNCHANGED <<flag, handlers, violations, callPc>>

Next == Exit \/ ResetViolations \/ \E t \in Threads : Enter(t) \/ Register(t) \/ Record(t)

Spec == Init /\ [][Next]_containVars

-----------------------------------------------------------------------------
\* At exit every recorded violation is written, once, unless a thread has been
\* caught between taking the flag and registering the handler for everyone.
DumpedAtExit ==
  exited /\ (\A t \in Threads : callPc[t] # "register") => dumped = violations
=============================================================================
