---------------------------- MODULE AdaptiveProofs ----------------------------
(***************************************************************************)
(* Safety of AdaptiveMonitor for every set of pipelines, callers and       *)
(* forcers and every configuration.  What makes the budget hold is not the *)
(* check before a commit (the monitor's own commit has none) but that an   *)
(* entry in flight still has budget left, and that nobody else commits on  *)
(* an entry in flight.                                                     *)
(***************************************************************************)
EXTENDS AdaptiveMonitor, FiniteSetTheorems, TLAPS

\* An entry by itself: its future, and the budget it has left.
EntryOK(e) ==
  /\ e \in Entries
  /\ e.future # "none" <=> e.state = "SPECIALIZING"
  /\ e.versions <= MaxVersions
  /\ e.state = "SPECIALIZING" => e.versions < MaxVersions

EntriesOK == entry \in [Pipelines -> Entries] /\ \A p \in Pipelines : EntryOK(entry[p])

SamplesOK ==
  /\ sample \in [Pipelines -> Costs]
  /\ snapshot \in [Pipelines -> Costs]

\* Only a loaded pipeline is registered, and only a loaded one goes live.
LoadedFirst == registered \subseteq loaded /\ loaded \subseteq Pipelines /\ live \subseteq loaded

IInv == EntriesOK /\ SamplesOK /\ LoadedFirst /\ LiveMatchesState

JitStates == {"VERIFYING", "ACTIVE"}

-----------------------------------------------------------------------------
(* A new entry is in order. *)
LEMMA NewEntryOK == EntryOK(NewEntry)
BY AdaptiveAssumption DEF EntryOK, Entries, NewEntry, States, Futures, Costs

(* One more version, for an entry that has budget left and is not in      *)
(* flight afterwards.                                                      *)
LEMMA VersionAdded ==
  ASSUME NEW e, EntryOK(e), e.versions < MaxVersions
  PROVE  /\ EntryOK([e EXCEPT !.state = "VERIFYING", !.future = "none",
                              !.versions = @ + 1, !.verify = 0])
         /\ e.future = "none" => EntryOK([e EXCEPT !.versions = @ + 1, !.state = "ACTIVE"])
<1>1. PICK n \in Nat : n = e.versions + 1 /\ n <= MaxVersions
  BY AdaptiveAssumption DEF EntryOK, Entries
<1>2. QED
  BY <1>1 DEF EntryOK, Entries, States, Futures

(* monitorLoop's switch keeps an entry in order, whatever the sample. *)
LEMMA MonitoredOK ==
  ASSUME NEW e, EntryOK(e), NEW c \in Costs
  PROVE  EntryOK(Monitored(e, c))
<1> USE AdaptiveAssumption DEF EntryOK, Entries, States, Futures
<1>1. CASE e.state = "WARMUP"
  BY <1>1 DEF Monitored, Commits
<1>2. CASE e.state = "MONITORING"
  BY <1>2 DEF Monitored, Commits
<1>3. CASE e.state = "SPECIALIZING"
  <2>1. CASE e.future = "built"
    <3>1. Monitored(e, c) = [e EXCEPT !.state = "VERIFYING", !.future = "none",
                                           !.versions = @ + 1, !.verify = 0]
      BY <1>3, <2>1 DEF Monitored, Commits
    <3>2. QED
      BY <1>3, <3>1, VersionAdded
  <2>2. CASE e.future = "failed"
    BY <1>3, <2>2 DEF Monitored, Commits
  <2>3. CASE e.future \notin {"built", "failed"}
    BY <1>3, <2>3 DEF Monitored, Commits
  <2>4. QED
    BY <2>1, <2>2, <2>3
<1>4. CASE e.state = "VERIFYING"
  <2>1. CASE c = 0
    BY <1>4, <2>1 DEF Monitored, Commits
  <2>2. CASE c # 0
    <3> DEFINE next == IF ~LastCycle(e) THEN "VERIFYING"
                       ELSE IF Rejected(e, c) THEN "MONITORING" ELSE "ACTIVE"
    <3>1. Monitored(e, c) = [e EXCEPT !.jit = c, !.verify = @ + 1,
                                           !.state = next]
      BY <1>4, <2>2 DEF Monitored, Commits
    <3>2. next \in {"VERIFYING", "MONITORING", "ACTIVE"}
      OBVIOUS
    <3>3. PICK n \in Nat : n = e.verify + 1
      OBVIOUS
    <3> HIDE DEF next
    <3>4. QED
      BY <1>4, <3>1, <3>2, <3>3
  <2>3. QED
    BY <2>1, <2>2
<1>5. CASE e.state = "ACTIVE"
  BY <1>5 DEF Monitored, Commits
<1>6. QED
  BY <1>1, <1>2, <1>3, <1>4, <1>5

(* It commits and withdraws the JIT pointer exactly when the state enters  *)
(* and leaves the states that run JIT code.                                *)
LEMMA MonitoredMovesPointer ==
  ASSUME NEW e, EntryOK(e), NEW c \in Costs
  PROVE  Monitored(e, c).state \in JitStates
           <=> (e.state \in JitStates \/ Commits(e)) /\ ~Withdraws(e, c)
<1> USE DEF EntryOK, Entries, States, JitStates
<1>1. CASE e.state = "WARMUP"
  BY <1>1 DEF Monitored, Commits, Withdraws
<1>2. CASE e.state = "MONITORING"
  BY <1>2 DEF Monitored, Commits, Withdraws
<1>3. CASE e.state = "SPECIALIZING"
  BY <1>3 DEF Monitored, Commits, Withdraws
<1>4. CASE e.state = "VERIFYING"
  BY <1>4 DEF Monitored, Commits, Withdraws
<1>5. CASE e.state = "ACTIVE"
  BY <1>5 DEF Monitored, Commits, Withdraws
<1>6. QED
  BY <1>1, <1>2, <1>3, <1>4, <1>5

-----------------------------------------------------------------------------
(* One pass of the monitor over the entries. *)
LEMMA TickKeepsInv ==
  ASSUME IInv, MonitorTick
  PROVE  IInv'
<1> USE DEF IInv, EntriesOK, SamplesOK, LoadedFirst
<1>1. \A p \in Pipelines : snapshot[p] \in Costs
  OBVIOUS
<1>2. \A p \in Pipelines : entry'[p] = IF p \in registered
                             THEN Monitored(entry[p], snapshot[p])
                             ELSE entry[p]
  BY DEF MonitorTick
<1>3. EntriesOK'
  <2>1. \A p \in Pipelines : EntryOK(entry'[p])
    <3> TAKE p \in Pipelines
    <3>1. EntryOK(entry[p])
      OBVIOUS
    <3>2. EntryOK(Monitored(entry[p], snapshot[p]))
      BY <1>1, <3>1, MonitoredOK
    <3>3. QED
      BY <1>2, <3>1, <3>2
  <2>2. QED
    BY <2>1 DEF MonitorTick, EntryOK
<1>4. SamplesOK'
  <2>1. 0 \in Costs
    BY AdaptiveAssumption DEF Costs
  <2>2. QED
    BY <2>1 DEF MonitorTick
<1>5. LoadedFirst'
  BY DEF MonitorTick
<1>6. LiveMatchesState'
  <2> SUFFICES ASSUME NEW p \in registered
               PROVE  p \in live' <=> entry'[p].state \in JitStates
    BY DEF LiveMatchesState, JitStates, MonitorTick
  <2>1. p \in live <=> entry[p].state \in JitStates
    BY DEF LiveMatchesState, JitStates
  <2>2. p \in live' <=> /\ p \in live \/ Commits(entry[p])
                        /\ ~Withdraws(entry[p], snapshot[p])
    BY DEF MonitorTick
  <2>3. QED
    BY <1>1, <1>2, <2>1, <2>2, MonitoredMovesPointer
<1>7. QED
  BY <1>3, <1>4, <1>5, <1>6

(* A forced specialization commits only on a registered entry that has     *)
(* budget left and is not in flight.                                       *)
LEMMA ForceKeepsInv ==
  ASSUME IInv, NEW f \in Forcers, ForceEnd(f)
  PROVE  IInv'
<1> USE DEF IInv, EntriesOK, SamplesOK, LoadedFirst
<1> DEFINE p == forcer[f][2]
<1>1. CASE MayForce(p) /\ forcer[f][1] = "built"
  <2>1. p \in Pipelines /\ p \in registered
    BY <1>1 DEF MayForce
  <2>2. EntryOK([entry[p] EXCEPT !.versions = @ + 1, !.state = "ACTIVE"])
    <3>1. EntryOK(entry[p]) /\ entry[p].versions < MaxVersions /\ entry[p].future = "none"
      BY <1>1, <2>1 DEF MayForce, InFlight, EntryOK
    <3>2. QED
      BY <3>1, VersionAdded
  <2>3. Commit(p) /\ UNCHANGED <<registered, loaded, sample, snapshot>>
    BY <1>1 DEF ForceEnd, monVars
  <2>4. entry' = [entry EXCEPT ![p] = [entry[p] EXCEPT !.versions = @ + 1, !.state = "ACTIVE"]]
    <3>1. /\ entry' = [entry EXCEPT ![p].versions = @ + 1, ![p].state = "ACTIVE"]
          /\ entry \in [Pipelines -> Entries]
      BY <2>3 DEF Commit
    <3> HIDE DEF p
    <3> QED BY <2>1, <3>1
  <2>5. EntriesOK' /\ SamplesOK' /\ LoadedFirst'
    <3>1. EntriesOK'
      <4> HIDE DEF p
      <4>1. entry \in [Pipelines -> Entries] /\ [entry[p] EXCEPT !.versions = @ + 1, !.state = "ACTIVE"] \in Entries
        BY <2>2 DEF EntryOK
      <4>2. entry' \in [Pipelines -> Entries]
        BY <2>1, <2>4, <4>1
      <4>3. \A q \in Pipelines : EntryOK(entry'[q])
        BY <2>1, <2>2, <2>4, <4>1
      <4> QED BY <4>2, <4>3
    <3>2. SamplesOK' /\ LoadedFirst'
      BY <2>1, <2>3 DEF Commit
    <3> QED BY <3>1, <3>2
  <2>6. LiveMatchesState'
    BY <2>1, <2>2, <2>3, <2>4 DEF LiveMatchesState, Commit, EntryOK, Entries
  <2>7. QED
    BY <2>5, <2>6
<1>2. CASE ~(MayForce(p) /\ forcer[f][1] = "built")
  BY <1>2 DEF ForceEnd, monVars, LiveMatchesState
<1>3. QED
  BY <1>1, <1>2

(* The other steps touch at most one entry's future, or forget them all. *)
LEMMA OtherStepsKeepInv ==
  ASSUME IInv, [Next]_vars, ~MonitorTick, \A f \in Forcers : ~ForceEnd(f)
  PROVE  IInv'
<1> USE DEF IInv, EntriesOK, SamplesOK, LoadedFirst, monVars, ctlVars, stats
<1>1. ASSUME NEW c \in Callers, EndCall(c)
      PROVE  IInv'
  BY <1>1, AdaptiveAssumption DEF EndCall, LiveMatchesState, Costs
<1>2. ASSUME NEW p \in Pipelines, Register(p)
      PROVE  IInv'
  BY <1>2, NewEntryOK DEF Register, LiveMatchesState, EntryOK, NewEntry
<1>3. ASSUME NEW p \in Pipelines, Compiled(p)
      PROVE  IInv'
  <2>1. PICK result \in {"built", "failed"} : entry' = [entry EXCEPT ![p].future = result]
    BY <1>3 DEF Compiled
  <2>2. entry[p].future = "compiling" /\ UNCHANGED <<registered, loaded, live, sample, snapshot>>
    BY <1>3 DEF Compiled
  <2>3. EntryOK([entry[p] EXCEPT !.future = result])
    BY <2>1, <2>2 DEF EntryOK, Entries, Futures
  <2>4. QED
    BY <2>1, <2>2, <2>3 DEF LiveMatchesState, EntryOK, Entries
<1>4. CASE MonitorQuery
  BY <1>4 DEF MonitorQuery, LiveMatchesState
<1>5. CASE ShutdownSwap
  BY <1>5, NewEntryOK DEF ShutdownSwap, LiveMatchesState, EntryOK
<1>6. ASSUME UNCHANGED <<entry, registered, loaded, live, sample, snapshot>>
      PROVE  IInv'
  BY <1>6 DEF LiveMatchesState
<1>7. ASSUME NEW c \in Callers, NEW p \in Pipelines, BeginCall(c, p)
      PROVE  IInv'
  BY <1>6, <1>7 DEF BeginCall
<1>8. CASE MonitorWake
  BY <1>6, <1>8 DEF MonitorWake
<1>9. ASSUME NEW p \in Pipelines, Drained(p)
      PROVE  IInv'
  BY <1>6, <1>9 DEF Drained
<1>10. ASSUME NEW f \in Forcers, ForceCompiled(f) \/ \E p \in Pipelines : ForceBegin(f, p)
       PROVE  IInv'
  BY <1>6, <1>10 DEF ForceCompiled, ForceBegin
<1>11. CASE AdaptiveInit \/ ShutdownFlags \/ ShutdownJoin \/ ShutdownReturn
  BY <1>6, <1>11 DEF AdaptiveInit, ShutdownFlags, ShutdownJoin, ShutdownReturn
<1>12. CASE UNCHANGED vars
  BY <1>6, <1>12 DEF vars
<1>13. QED
  BY <1>1, <1>2, <1>3, <1>4, <1>5, <1>7, <1>8, <1>9, <1>10, <1>11, <1>12
     DEF Next, Monitoring, Compiling, Forcing, Shutdown

-----------------------------------------------------------------------------
(* The invariant holds of every reachable state. *)
THEOREM Inductive == Spec => []IInv
<1>1. Init => IInv
  <2> SUFFICES ASSUME Init PROVE IInv
    OBVIOUS
  <2>1. EntriesOK
    BY NewEntryOK DEF Init, EntriesOK, EntryOK
  <2>2. SamplesOK
    BY AdaptiveAssumption DEF Init, SamplesOK, Costs
  <2>3. QED
    BY <2>1, <2>2 DEF Init, IInv, LoadedFirst, LiveMatchesState
<1>2. IInv /\ [Next]_vars => IInv'
  BY TickKeepsInv, ForceKeepsInv, OtherStepsKeepInv
<1>3. QED
  BY <1>1, <1>2, PTL DEF Spec

(* max_versions bounds the specializations of a pipeline, the monitor's    *)
(* and the forced ones together.                                           *)
THEOREM BudgetKept == Spec => []VersionsBounded
<1>1. IInv => VersionsBounded
  BY DEF IInv, EntriesOK, EntryOK, VersionsBounded
<1>2. QED
  BY <1>1, Inductive, PTL

(* An entry has a future exactly while it is SPECIALIZING. *)
THEOREM FutureNotOrphaned == Spec => []NoOrphanFuture
<1>1. IInv => NoOrphanFuture
  BY DEF IInv, EntriesOK, EntryOK, NoOrphanFuture
<1>2. QED
  BY <1>1, Inductive, PTL

(* The dispatch pointer and the state machine agree. *)
THEOREM PointerFollowsState == Spec => []LiveMatchesState
<1>1. IInv => LiveMatchesState
  BY DEF IInv
<1>2. QED
  BY <1>1, Inductive, PTL

-----------------------------------------------------------------------------
(***************************************************************************)
(* The counter of live pipelines.  A pass of the monitor commits pipelines *)
(* that are not live and withdraws pipelines that are; a forced commit     *)
(* makes at most one more live, and fails to count only an ACTIVE one.     *)
(***************************************************************************)
LiveOnes  == live \cap registered
CountInv  == activeJit \in Nat /\ LiveIsCounted
Committed == {p \in registered : Commits(entry[p])}
Withdrawn == {p \in registered : Withdraws(entry[p], snapshot[p])}

LEMMA LiveOnesFinite ==
  ASSUME IInv
  PROVE  /\ IsFiniteSet(LiveOnes) /\ IsFiniteSet(Committed) /\ IsFiniteSet(Withdrawn)
         /\ Cardinality(LiveOnes) \in Nat
<1>1. registered \in SUBSET Pipelines
  BY DEF IInv, LoadedFirst
<1>2. IsFiniteSet(registered)
  BY <1>1, FS_Subset, AdaptiveAssumption
<1>3. LiveOnes \in SUBSET registered /\ Committed \in SUBSET registered /\ Withdrawn \in SUBSET registered
  BY DEF LiveOnes, Committed, Withdrawn
<1>4. IsFiniteSet(LiveOnes) /\ IsFiniteSet(Committed) /\ IsFiniteSet(Withdrawn)
  BY <1>2, <1>3, FS_Subset
<1> QED BY <1>4, FS_CardinalityType

LEMMA TickCounts ==
  ASSUME IInv, CountInv, MonitorTick
  PROVE  CountInv'
<1> DEFINE C == Committed  W == Withdrawn  L == LiveOnes
<1>1. IsFiniteSet(L) /\ IsFiniteSet(C) /\ IsFiniteSet(W) /\ Cardinality(L) \in Nat
  BY LiveOnesFinite
<1>2. C \cap L = {} /\ W \subseteq L /\ W \subseteq L \cup C
  BY DEF Committed, Withdrawn, LiveOnes, IInv, LiveMatchesState, Commits, Withdraws
<1>3. activeJit' = activeJit + Cardinality(C) - Cardinality(W)
  BY DEF MonitorTick, Committed, Withdrawn
<1>4. LiveOnes' = (L \cup C) \ W
  BY DEF MonitorTick, LiveOnes, Committed, Withdrawn
<1>5. Cardinality(C) \in Nat /\ Cardinality(W) \in Nat
  BY <1>1, FS_CardinalityType
<1> HIDE DEF C, W, L
<1>6. /\ IsFiniteSet(L \cup C)
      /\ Cardinality(L \cup C) = Cardinality(L) + Cardinality(C) - Cardinality(L \cap C)
  BY <1>1, FS_Union
<1>7. L \cap C = {} /\ (L \cup C) \cap W = W
  BY <1>2
<1>8. Cardinality(L \cup C) = Cardinality(L) + Cardinality(C)
  <2>1. Cardinality(L \cap C) = 0
    BY <1>7, FS_EmptySet
  <2> QED BY <1>1, <1>5, <1>6, <2>1
<1>9. /\ IsFiniteSet((L \cup C) \ W)
      /\ Cardinality((L \cup C) \ W) = Cardinality(L \cup C) - Cardinality((L \cup C) \cap W)
  BY <1>6, FS_Difference
<1>10. Cardinality(LiveOnes') = Cardinality(L) + Cardinality(C) - Cardinality(W) /\ Cardinality(LiveOnes') \in Nat
  <2>1. LiveOnes' = (L \cup C) \ W /\ (L \cup C) \cap W = W
    BY <1>4, <1>7
  <2>2. /\ IsFiniteSet(LiveOnes')
        /\ Cardinality(LiveOnes') = Cardinality(L \cup C) - Cardinality(W)
    BY <1>9, <2>1
  <2>3. Cardinality(LiveOnes') \in Nat
    BY <2>2, FS_CardinalityType
  <2> QED BY <1>1, <1>5, <1>8, <2>2, <2>3
<1>11. activeJit \in Nat /\ activeJit >= Cardinality(L)
  BY DEF CountInv, LiveIsCounted, LiveOnes, L
<1>12. activeJit' \in Nat /\ activeJit' >= Cardinality(LiveOnes')
  BY <1>1, <1>3, <1>5, <1>10, <1>11
<1> QED BY <1>12 DEF CountInv, LiveIsCounted, LiveOnes

LEMMA ForceCounts ==
  ASSUME IInv, CountInv, NEW f \in Forcers, ForceEnd(f)
  PROVE  CountInv'
<1> DEFINE p == forcer[f][2]
<1>1. IsFiniteSet(LiveOnes) /\ Cardinality(LiveOnes) \in Nat
  BY LiveOnesFinite
<1>2. activeJit \in Nat /\ activeJit >= Cardinality(LiveOnes)
  BY DEF CountInv, LiveIsCounted, LiveOnes
<1>3. CASE MayForce(p) /\ forcer[f][1] = "built"
  <2>1. /\ p \in registered /\ live' = live \cup {p} /\ registered' = registered
        /\ activeJit' = IF entry[p].state = "ACTIVE" THEN activeJit ELSE activeJit + 1
    BY <1>3 DEF ForceEnd, MayForce, Commit
  <2>2. LiveOnes' = LiveOnes \cup {p}
    BY <2>1 DEF LiveOnes
  <2>3. entry[p].state = "ACTIVE" => p \in LiveOnes
    BY <2>1 DEF IInv, LiveMatchesState, LiveOnes
  <2>4. Cardinality(LiveOnes') = IF p \in LiveOnes THEN Cardinality(LiveOnes) ELSE Cardinality(LiveOnes) + 1
    BY <1>1, <2>2, FS_AddElement
  <2>5. activeJit' \in Nat /\ activeJit' >= Cardinality(LiveOnes')
    BY <1>1, <1>2, <2>1, <2>3, <2>4
  <2> QED BY <2>5 DEF CountInv, LiveIsCounted, LiveOnes
<1>4. CASE ~(MayForce(p) /\ forcer[f][1] = "built")
  BY <1>4 DEF ForceEnd, CountInv, LiveIsCounted
<1> QED BY <1>3, <1>4

LEMMA OtherStepsCount ==
  ASSUME IInv, CountInv, [Next]_vars, ~MonitorTick, \A f \in Forcers : ~ForceEnd(f)
  PROVE  CountInv'
<1> USE DEF CountInv, LiveIsCounted
<1>1. ASSUME NEW p \in Pipelines, Register(p) PROVE CountInv'
  <2>1. live' \cap registered' = live \cap registered /\ activeJit' = activeJit
    BY <1>1 DEF Register, stats, IInv, LoadedFirst
  <2> QED BY <2>1
<1>2. CASE ShutdownSwap
  <2>1. activeJit' = 0 /\ live' \cap registered' = {}
    BY <1>2 DEF ShutdownSwap
  <2> QED BY <2>1, FS_EmptySet
<1>3. ASSUME UNCHANGED <<registered, live, stats>> PROVE CountInv'
  BY <1>3 DEF stats
<1>4. ASSUME NEW c \in Callers, EndCall(c) \/ \E p \in Pipelines : BeginCall(c, p) PROVE CountInv'
  BY <1>3, <1>4 DEF EndCall, BeginCall
<1>5. ASSUME NEW p \in Pipelines, Compiled(p) \/ Drained(p) PROVE CountInv'
  BY <1>3, <1>5 DEF Compiled, Drained
<1>6. ASSUME NEW f \in Forcers, ForceCompiled(f) \/ \E p \in Pipelines : ForceBegin(f, p) PROVE CountInv'
  BY <1>3, <1>6 DEF ForceCompiled, ForceBegin
<1>7. CASE MonitorWake \/ MonitorQuery
  BY <1>3, <1>7 DEF MonitorWake, MonitorQuery
<1>8. CASE AdaptiveInit \/ ShutdownFlags \/ ShutdownJoin \/ ShutdownReturn
  BY <1>3, <1>8 DEF AdaptiveInit, ShutdownFlags, ShutdownJoin, ShutdownReturn
<1>9. CASE UNCHANGED vars
  BY <1>3, <1>9 DEF vars
<1> QED BY <1>1, <1>2, <1>4, <1>5, <1>6, <1>7, <1>8, <1>9
        DEF Next, Monitoring, Compiling, Forcing, Shutdown

(* active_jit never misses a live pipeline, so that withdrawing one does   *)
(* not wrap it around, however forced commits race with the monitor's.     *)
THEOREM CounterCoversLive == Spec => [](activeJit \in Nat /\ LiveIsCounted)
<1>1. Init => CountInv
  <2> SUFFICES ASSUME Init PROVE CountInv
    OBVIOUS
  <2>1. activeJit = 0 /\ live \cap registered = {}
    BY DEF Init
  <2> QED BY <2>1, FS_EmptySet DEF CountInv, LiveIsCounted
<1>2. IInv /\ CountInv /\ [Next]_vars => CountInv'
  BY TickCounts, ForceCounts, OtherStepsCount
<1>3. QED
  BY <1>1, <1>2, Inductive, PTL DEF Spec, CountInv

-----------------------------------------------------------------------------
(* What is left of the type invariant. *)
ControlTypes ==
  /\ specializations \in Nat /\ deoptimizations \in Nat
  /\ monitor \in {"none", "wait", "query", "tick", "exited"}
  /\ initialized \in BOOLEAN /\ stopping \in BOOLEAN
  /\ stopper \in {"idle", "joining", "clearing", "draining"}
  /\ draining \subseteq Pipelines /\ inits \in 0 .. Restarts
  /\ caller \in [Callers -> {<<"idle">>} \cup ({"aot", "jit"} \X Pipelines)]
  /\ forcer \in [Forcers -> {<<"idle">>} \cup ({"compiling", "built", "failed"} \X Pipelines)]

LEMMA ControlTypesNext == IInv /\ ControlTypes /\ [Next]_vars => ControlTypes'
<1> SUFFICES ASSUME IInv, ControlTypes, [Next]_vars PROVE ControlTypes'
  OBVIOUS
<1> USE DEF ControlTypes, monVars, ctlVars, stats
<1>1. ASSUME NEW p \in Pipelines, Register(p) \/ Compiled(p) \/ Drained(p) PROVE ControlTypes'
  BY <1>1 DEF Register, Compiled, Drained
<1>2. CASE MonitorWake \/ MonitorQuery
  BY <1>2 DEF MonitorWake, MonitorQuery
<1>3. CASE MonitorTick
  <2>1. IsFiniteSet(Committed) /\ IsFiniteSet(Withdrawn)
    BY LiveOnesFinite
  <2>2. Cardinality(Committed) \in Nat /\ Cardinality(Withdrawn) \in Nat
    BY <2>1, FS_CardinalityType
  <2>3. /\ specializations' = specializations + Cardinality(Committed)
        /\ deoptimizations' = deoptimizations + Cardinality(Withdrawn)
    BY <1>3 DEF MonitorTick, Committed, Withdrawn
  <2>4. specializations' \in Nat /\ deoptimizations' \in Nat
    BY <2>2, <2>3
  <2> QED BY <1>3, <2>4 DEF MonitorTick
<1>4. ASSUME NEW c \in Callers, EndCall(c) \/ \E p \in Pipelines : BeginCall(c, p) PROVE ControlTypes'
  BY <1>4 DEF EndCall, BeginCall
<1>5. ASSUME NEW f \in Forcers, Forcing(f) \/ \E p \in Pipelines : ForceBegin(f, p) PROVE ControlTypes'
  <2>1. CASE ForceCompiled(f)
    <3>1. forcer[f] \in {"compiling", "built", "failed"} \X Pipelines
      BY <2>1 DEF ForceCompiled
    <3>2. PICK result \in {"built", "failed"} : forcer' = [forcer EXCEPT ![f] = <<result, forcer[f][2]>>]
      BY <2>1 DEF ForceCompiled
    <3>3. <<result, forcer[f][2]>> \in {"compiling", "built", "failed"} \X Pipelines
      BY <3>1, <3>2
    <3> QED BY <2>1, <3>2, <3>3 DEF ForceCompiled
  <2>2. CASE ForceEnd(f)
    <3>1. specializations' \in Nat /\ deoptimizations' \in Nat
      BY <2>2 DEF ForceEnd, Commit
    <3>2. forcer' = [forcer EXCEPT ![f] = <<"idle">>]
      BY <2>2 DEF ForceEnd
    <3> QED BY <2>2, <3>1, <3>2 DEF ForceEnd
  <2>3. ASSUME NEW p \in Pipelines, ForceBegin(f, p) PROVE ControlTypes'
    BY <2>3 DEF ForceBegin
  <2> QED BY <1>5, <2>1, <2>2, <2>3 DEF Forcing
<1>6. CASE AdaptiveInit
  <2>1. inits' \in 0 .. Restarts
    BY <1>6, AdaptiveAssumption DEF AdaptiveInit
  <2>2. initialized' \in BOOLEAN /\ stopping' \in BOOLEAN
    BY <1>6 DEF AdaptiveInit
  <2> QED BY <1>6, <2>1, <2>2 DEF AdaptiveInit
<1>7. CASE ShutdownFlags \/ ShutdownJoin \/ ShutdownReturn
  BY <1>7 DEF ShutdownFlags, ShutdownJoin, ShutdownReturn
<1>8. CASE ShutdownSwap
  BY <1>8 DEF ShutdownSwap, IInv, LoadedFirst
<1>9. CASE UNCHANGED vars
  BY <1>9 DEF vars
<1> HIDE DEF ControlTypes
<1> QED BY <1>1, <1>2, <1>3, <1>4, <1>5, <1>6, <1>7, <1>8, <1>9
        DEF Next, Monitoring, Compiling, Shutdown

(* Every variable keeps its type, the unsigned counters among them.        *)
THEOREM AdaptiveTypeCorrect == Spec => []TypeOK
<1>1. Init => ControlTypes
  <2> SUFFICES ASSUME Init PROVE ControlTypes
    OBVIOUS
  <2>1. specializations \in Nat /\ deoptimizations \in Nat /\ inits \in 0 .. Restarts
    BY AdaptiveAssumption DEF Init
  <2>2. initialized \in BOOLEAN /\ stopping \in BOOLEAN
    BY DEF Init
  <2>3. /\ caller \in [Callers -> {<<"idle">>} \cup ({"aot", "jit"} \X Pipelines)]
        /\ forcer \in [Forcers -> {<<"idle">>} \cup ({"compiling", "built", "failed"} \X Pipelines)]
    BY DEF Init
  <2> QED BY <2>1, <2>2, <2>3 DEF Init, ControlTypes
<1>2. IInv /\ CountInv /\ ControlTypes => TypeOK
  BY DEF TypeOK, IInv, EntriesOK, SamplesOK, LoadedFirst, CountInv, ControlTypes
<1>3. QED
  BY <1>1, <1>2, ControlTypesNext, Inductive, CounterCoversLive, PTL DEF Spec, CountInv
=============================================================================
