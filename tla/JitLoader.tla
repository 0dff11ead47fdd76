------------------------------ MODULE JitLoader ------------------------------
(***************************************************************************)
(* The loader of runtime/topo_jit_api.cpp: every entry point first makes   *)
(* sure the engine library is loaded, once for the process, and then calls *)
(* through the table of pointers the loader filled in, outside its lock.   *)
(*                                                                         *)
(* The libraries on disk are external: each candidate path is Absent or  *)
(* holds an engine with the symbols and the ABI version it was built with. *)
(***************************************************************************)
EXTENDS Naturals, Sequences, SequencesExt, FiniteSets

CONSTANTS Callers,
          Engines   \* what a candidate may hold: [symbols, compatible]

Absent == [symbols |-> {}, compatible |-> FALSE]
Free   == "free"
Required == {"version", "available", "specialize"}
Optional == {"specializeBytes", "dumpIR", "dumpIRBytes"}
NoTable  == [s \in Required \cup Optional |-> Absent]

VARIABLES disk,        \* the candidates of engineSearchCandidates, in order
          lock,        \* g_engineMutex: its owner, or Free
          tried, loaded,
          table,       \* the pointers of g_engine: the library each is in
          mapped,      \* the library that is mapped, or Absent
          loadPc, wants,  \* a caller's place, and the symbol it is after
          wild         \* history: a call through a pointer into nothing
loaderVars == <<disk, lock, tried, loaded, table, mapped, loadPc, wants, wild>>

\* The override is tried first if it is set; without it and without a directory
\* of the executable there is no candidate at all.
Candidates(override, exeDir) == override \o exeDir

Init ==
  /\ \E override \in {<< >>} \cup {<<e>> : e \in Engines \cup {Absent}},
        exeDir \in {<< >>} \cup {<<e, Absent>> : e \in Engines} \cup {<<Absent, e>> : e \in Engines} :
       disk = Candidates(override, exeDir)
  /\ lock = Free /\ tried = FALSE /\ loaded = FALSE /\ table = NoTable /\ mapped = Absent
  /\ loadPc = [c \in Callers |-> "out"] /\ wants = [c \in Callers |-> "available"]
  /\ wild = FALSE

Goto(c, l) == loadPc' = [loadPc EXCEPT ![c] = l]

Call(c, s) ==
  /\ loadPc[c] = "out" /\ wants' = [wants EXCEPT ![c] = s] /\ Goto(c, "enter")
  /\ UNCHANGED <<disk, lock, tried, loaded, table, mapped, wild>>

\* loadEngine returns to its caller.
After(c, ok) == Goto(c, IF ok THEN "use" ELSE "out")

\* A defect: the test is made before the lock is taken.
LoadEnter_Unlocked(c) ==
  /\ loadPc[c] = "enter"
  /\ IF tried THEN After(c, TRUE) /\ UNCHANGED <<lock, tried>>
     ELSE lock = Free /\ lock' = c /\ tried' = TRUE /\ Goto(c, "open")
  /\ UNCHANGED <<disk, loaded, table, mapped, wants, wild>>

LoadEnter(c) ==
  /\ loadPc[c] = "enter" /\ lock = Free
  /\ IF tried THEN After(c, loaded) /\ UNCHANGED <<lock, tried>>
     ELSE lock' = c /\ tried' = TRUE /\ Goto(c, "open")
  /\ UNCHANGED <<disk, loaded, table, mapped, wants, wild>>

\* The candidates that can be opened; the first one is it, whatever it is.
Found == SelectSeq(disk, LAMBDA e : e # Absent)

LoadOpen(c) ==
  /\ loadPc[c] = "open"
  /\ IF Found = << >>
     THEN lock' = Free /\ After(c, FALSE) /\ UNCHANGED mapped
     ELSE mapped' = Head(Found) /\ Goto(c, "resolve") /\ UNCHANGED lock
  /\ UNCHANGED <<disk, tried, loaded, table, wants, wild>>

LoadResolve(c) ==
  /\ loadPc[c] = "resolve" /\ Goto(c, "verify")
  /\ table' = [s \in DOMAIN table |-> IF s \in mapped.symbols THEN mapped ELSE Absent]
  /\ UNCHANGED <<disk, lock, tried, loaded, mapped, wants, wild>>

\* A rejected library is unloaded; the pointers into it stay in the table.
LoadVerify(c) ==
  /\ loadPc[c] = "verify" /\ lock' = Free
  /\ LET good == Required \subseteq mapped.symbols /\ mapped.compatible
     IN /\ loaded' = good /\ After(c, good)
        /\ mapped' = IF good THEN mapped ELSE Absent
  /\ UNCHANGED <<disk, tried, table, wants, wild>>

\* The entry point: a pointer that is null is reported as no engine.
Use(c) ==
  /\ loadPc[c] = "use" /\ Goto(c, "out")
  /\ wild' = (wild \/ table[wants[c]] \notin {Absent, mapped})
  /\ UNCHANGED <<disk, lock, tried, loaded, table, mapped, wants>>

Next == \E c \in Callers :
  \/ \E s \in (Required \cup Optional) \ {"version"} : Call(c, s)
  \/ LoadEnter(c) \/ LoadOpen(c) \/ LoadResolve(c) \/ LoadVerify(c) \/ Use(c)

Spec == Init /\ [][Next]_loaderVars

-----------------------------------------------------------------------------
\* No call goes through a pointer into a library that is not mapped, although
\* the pointers of a rejected engine stay behind, and an engine that is in use
\* is of the right version and has every required symbol.
EngineUsable ==
  /\ ~wild
  /\ \A c \in Callers : loadPc[c] = "use" =>
       /\ loaded /\ mapped.compatible
       /\ \A s \in Required : table[s] = mapped
=============================================================================
