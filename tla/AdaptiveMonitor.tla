--------------------------- MODULE AdaptiveMonitor ---------------------------
(***************************************************************************)
(* Adaptive re-specialization (runtime/topo_adaptive.cpp) together with    *)
(* the dispatch code that AdaptiveDispatchPass puts at the entry of every  *)
(* pipeline.  A monitor thread moves each registered pipeline through      *)
(*                                                                         *)
(*   WARMUP -> MONITORING -> SPECIALIZING -> VERIFYING -> ACTIVE           *)
(*                                                                         *)
(* from snapshots of the cost samples; force_specialize, called by other   *)
(* threads, drops the mutex while it compiles.  Callers of a pipeline read *)
(* its dispatch pointer on entry and leave a cost sample on the AOT path.  *)
(*                                                                         *)
(* An action is a critical section of g_mutex, or one step outside it.     *)
(* Costs are small numbers; ratios are compared as fractions <<num, den>>. *)
(***************************************************************************)
EXTENDS Naturals, FiniteSets

CONSTANTS
  Pipelines,
  Callers,        \* threads that call pipelines
  Forcers,        \* threads that call force_specialize
  MaxVersions,    \* Config::max_versions
  MinTrigger,     \* Config::min_trigger_ns
  Deopt,          \* Config::deopt_ratio
  Deviation,      \* Config::deviation_ratio
  VerifyCalls,    \* Config::verify_calls
  MaxCost,        \* bound: averages range over 1 .. MaxCost
  Restarts        \* bound: how often init may be called

Costs == 0 .. MaxCost         \* 0: there is no sample, or no baseline
Ratios == (Nat \ {0}) \X (Nat \ {0})

ASSUME AdaptiveAssumption ==
  /\ MaxVersions \in Nat /\ MinTrigger \in Nat /\ VerifyCalls \in Nat /\ Restarts \in Nat
  /\ MaxCost \in Nat \ {0}
  /\ Deopt \in Ratios /\ Deviation \in Ratios
  /\ IsFiniteSet(Pipelines)

VARIABLES
  entry,          \* entry[p]: the PipelineEntry of p
  registered,     \* the pipelines in g_pipelines
  loaded,         \* the pipelines whose global constructor has run
  live,           \* the pipelines whose jitPtr is not null
  specializations, deoptimizations, activeJit,    \* the three counters
  sample,         \* sample[p]: the average under p's name, 0 for none
  monitor,        \* where the monitor thread is
  snapshot,       \* the monitor's local `costs`
  initialized, stopping,                          \* g_initialized, g_shutdown
  stopper,        \* where the thread calling init and shutdown is
  draining,       \* futures of entries that shutdown has swapped out
  inits,          \* how often init started a monitor
  caller,         \* caller[c]: what c is executing
  forcer          \* forcer[f]: where f is in force_specialize

stats   == <<specializations, deoptimizations, activeJit>>
monVars == <<monitor, snapshot>>
ctlVars == <<initialized, stopping, stopper, draining, inits>>
vars == <<entry, registered, loaded, live, stats, sample, monVars, ctlVars, caller, forcer>>

States  == {"WARMUP", "MONITORING", "SPECIALIZING", "VERIFYING", "ACTIVE"}
Futures == {"none", "compiling", "built", "failed"}

Entries == [state : States, versions : Nat, aot : Costs, jit : Costs,
            verify : Nat, future : Futures]

NewEntry == [state |-> "WARMUP", versions |-> 0, aot |-> 0, jit |-> 0,
             verify |-> 0, future |-> "none"]

Exceeds(a, b, ratio) == a * ratio[2] > b * ratio[1]     \* a / b > ratio
AtLeast(a, b, ratio) == a * ratio[2] >= b * ratio[1]    \* a / b >= ratio

RequiredCycles == IF VerifyCalls = 0 THEN 1 ELSE (VerifyCalls + 9) \div 10

-----------------------------------------------------------------------------
(***************************************************************************)
(* Callers: the entry block AdaptiveDispatchPass generates.                *)
(***************************************************************************)
\* An acquire load of the dispatch pointer picks the path.
BeginCall(c, p) ==
  /\ caller[c] = <<"idle">>
  /\ p \in loaded
  /\ caller' = [caller EXCEPT ![c] = <<IF p \in live THEN "jit" ELSE "aot", p>>]
  /\ UNCHANGED <<entry, registered, loaded, live, stats, sample, monVars, ctlVars, forcer>>

\* topo_cost_begin and topo_cost_end enclose the AOT body; the JIT path is a
\* tail call, and the code it calls was made from IR without them.
EndCall(c) ==
  /\ caller[c] # <<"idle">>
  /\ LET p == caller[c][2] IN
       IF caller[c][1] = "aot"
       THEN \E cost \in 1 .. MaxCost : sample' = [sample EXCEPT ![p] = cost]
       ELSE UNCHANGED sample
  /\ caller' = [caller EXCEPT ![c] = <<"idle">>]
  /\ UNCHANGED <<entry, registered, loaded, live, stats, monVars, ctlVars, forcer>>

\* topo_adaptive_register, from the pipeline's global constructor
Register(p) ==
  /\ p \notin loaded
  /\ loaded' = loaded \cup {p}
  /\ registered' = registered \cup {p}
  /\ entry' = [entry EXCEPT ![p] = NewEntry]
  /\ UNCHANGED <<live, stats, sample, monVars, ctlVars, caller, forcer>>

-----------------------------------------------------------------------------
(***************************************************************************)
(* The monitor thread.                                                     *)
(***************************************************************************)
\* wait_for ends by the period or by a notify; the flag decides.
MonitorWake ==
  /\ monitor = "wait"
  /\ monitor' = IF stopping THEN "exited" ELSE "query"
  /\ UNCHANGED <<entry, registered, loaded, live, stats, sample, snapshot, ctlVars,
                 caller, forcer>>

\* get_cost_samples, before the mutex is taken
MonitorQuery ==
  /\ monitor = "query"
  /\ monitor' = "tick"
  /\ snapshot' = sample
  /\ UNCHANGED <<entry, registered, loaded, live, stats, sample, ctlVars, caller, forcer>>

\* shouldRespecialize, for a pipeline with the sample c
ShouldRespecialize(e, c) ==
  /\ c # 0
  /\ IF e.versions = 0
     THEN c > MinTrigger
     ELSE e.aot > 0 /\ (Exceeds(c, e.aot, Deviation) \/ Exceeds(e.aot, c, Deviation))

\* The JIT code was measured, and is not better.
Rejected(e, c) == e.aot > 0 /\ AtLeast(c, e.aot, Deopt)
\* It was accepted, and has become worse.
Degraded(e, c) == c # 0 /\ e.jit > 0 /\ Exceeds(c, e.jit, Deviation)

\* The outcome of the switch of monitorLoop for an entry e and its sample:
\* the JIT pointer is committed or withdrawn, or only the entry changes.
Commits(e)      == e.state = "SPECIALIZING" /\ e.future = "built"
LastCycle(e)    == e.verify + 1 >= RequiredCycles
\* Mutant: a degraded ACTIVE pipeline keeps its JIT pointer.
Withdraws_KeepsDegraded(e, c) ==
  e.state = "VERIFYING" /\ c # 0 /\ LastCycle(e) /\ Rejected(e, c)

Withdraws(e, c) == \/ e.state = "VERIFYING" /\ c # 0 /\ LastCycle(e) /\ Rejected(e, c)
                   \/ e.state = "ACTIVE" /\ Degraded(e, c)

\* Mutant: a failed compile leaves the entry SPECIALIZING with its future gone.
Monitored_KeepsFailed(e, c) ==
  CASE e.state = "WARMUP" /\ c # 0 ->
         [e EXCEPT !.aot = c, !.state = "MONITORING"]
    [] e.state = "MONITORING" /\ e.versions < MaxVersions /\ ShouldRespecialize(e, c) ->
         [e EXCEPT !.state = "SPECIALIZING", !.future = "compiling"]
    [] Commits(e) ->
         [e EXCEPT !.state = "VERIFYING", !.future = "none", !.versions = @ + 1, !.verify = 0]
    [] e.state = "SPECIALIZING" /\ e.future = "failed" ->
         [e EXCEPT !.future = "none"]
    [] OTHER -> e

Monitored(e, c) ==
  CASE e.state = "WARMUP" /\ c # 0 ->
         [e EXCEPT !.aot = c, !.state = "MONITORING"]
    [] e.state = "MONITORING" /\ e.versions < MaxVersions /\ ShouldRespecialize(e, c) ->
         [e EXCEPT !.state = "SPECIALIZING", !.future = "compiling"]
    [] Commits(e) ->
         [e EXCEPT !.state = "VERIFYING", !.future = "none", !.versions = @ + 1, !.verify = 0]
    [] e.state = "SPECIALIZING" /\ e.future = "failed" ->
         [e EXCEPT !.state = "MONITORING", !.future = "none"]
    [] e.state = "VERIFYING" /\ c # 0 ->
         [e EXCEPT !.jit = c, !.verify = @ + 1,
                   !.state = IF ~LastCycle(e) THEN "VERIFYING"
                             ELSE IF Rejected(e, c) THEN "MONITORING" ELSE "ACTIVE"]
    [] e.state = "ACTIVE" /\ Degraded(e, c) ->
         [e EXCEPT !.state = "MONITORING"]
    [] OTHER -> e

\* One pass over g_pipelines under the mutex.
MonitorTick ==
  /\ monitor = "tick"
  /\ monitor' = "wait"
  /\ LET committed == {p \in registered : Commits(entry[p])}
         withdrawn == {p \in registered : Withdraws(entry[p], snapshot[p])}
     IN /\ live' = (live \cup committed) \ withdrawn
        /\ specializations' = specializations + Cardinality(committed)
        /\ deoptimizations' = deoptimizations + Cardinality(withdrawn)
        /\ activeJit' = activeJit + Cardinality(committed) - Cardinality(withdrawn)
        \* the scoped reset_cost_samples
        /\ sample' = [p \in Pipelines |-> IF p \in committed THEN 0 ELSE sample[p]]
  /\ entry' = [p \in Pipelines |-> IF p \in registered
                                   THEN Monitored(entry[p], snapshot[p])
                                   ELSE entry[p]]
  /\ UNCHANGED <<registered, loaded, snapshot, ctlVars, caller, forcer>>

\* The std::async thread behind jitFuture finishes.
Compiled(p) ==
  /\ entry[p].future = "compiling"
  /\ \E result \in {"built", "failed"} : entry' = [entry EXCEPT ![p].future = result]
  /\ UNCHANGED <<registered, loaded, live, stats, sample, monVars, ctlVars, caller, forcer>>

-----------------------------------------------------------------------------
(***************************************************************************)
(* force_specialize and force_specialize_bytes                             *)
(***************************************************************************)
InFlight(p) == entry[p].state = "SPECIALIZING" /\ entry[p].future # "none"

\* Mutant: a forced specialization ignores the monitor's own.
MayForce_Races(p) == p \in registered /\ entry[p].versions < MaxVersions

MayForce(p) == p \in registered /\ entry[p].versions < MaxVersions /\ ~InFlight(p)

\* The checks under the mutex; then the mutex is dropped for the compile.
ForceBegin(f, p) ==
  /\ forcer[f] = <<"idle">>
  /\ MayForce(p)
  /\ forcer' = [forcer EXCEPT ![f] = <<"compiling", p>>]
  /\ UNCHANGED <<entry, registered, loaded, live, stats, sample, monVars, ctlVars, caller>>

ForceCompiled(f) ==
  /\ forcer[f][1] = "compiling"
  /\ \E result \in {"built", "failed"} :
       forcer' = [forcer EXCEPT ![f] = <<result, forcer[f][2]>>]
  /\ UNCHANGED <<entry, registered, loaded, live, stats, sample, monVars, ctlVars, caller>>

\* Mutant: only a pipeline that was being MONITORED counts.
Commit_CountsMonitored(p) ==
  /\ live' = live \cup {p}
  /\ entry' = [entry EXCEPT ![p].versions = @ + 1, ![p].state = "ACTIVE"]
  /\ specializations' = specializations + 1
  /\ activeJit' = IF entry[p].state = "MONITORING" THEN activeJit + 1 ELSE activeJit

\* commitSpecialization
Commit(p) ==
  /\ live' = live \cup {p}
  /\ entry' = [entry EXCEPT ![p].versions = @ + 1, ![p].state = "ACTIVE"]
  /\ specializations' = specializations + 1
  /\ activeJit' = IF entry[p].state = "ACTIVE" THEN activeJit ELSE activeJit + 1

\* Mutant: the budget is not checked again after the compile.
ForceEnd_StaleBudget(f) ==
  /\ forcer[f][1] \in {"built", "failed"}
  /\ LET p == forcer[f][2] IN
       IF p \in registered /\ ~InFlight(p) /\ forcer[f][1] = "built"
       THEN Commit(p)
       ELSE UNCHANGED <<live, entry, specializations, activeJit>>
  /\ forcer' = [forcer EXCEPT ![f] = <<"idle">>]
  /\ UNCHANGED <<registered, loaded, deoptimizations, sample, monVars, ctlVars, caller>>

\* Under the mutex again: the entry is looked up and checked once more.
ForceEnd(f) ==
  /\ forcer[f][1] \in {"built", "failed"}
  /\ LET p == forcer[f][2] IN
       IF MayForce(p) /\ forcer[f][1] = "built"
       THEN Commit(p)
       ELSE UNCHANGED <<live, entry, specializations, activeJit>>
  /\ forcer' = [forcer EXCEPT ![f] = <<"idle">>]
  /\ UNCHANGED <<registered, loaded, deoptimizations, sample, monVars, ctlVars, caller>>

-----------------------------------------------------------------------------
(***************************************************************************)
(* init and shutdown, called by one thread                                 *)
(***************************************************************************)
AdaptiveInit ==
  /\ stopper = "idle" /\ ~initialized
  /\ inits < Restarts /\ inits' = inits + 1
  /\ initialized' = TRUE
  /\ stopping' = FALSE
  /\ monitor' = "wait"
  /\ UNCHANGED <<entry, registered, loaded, live, stats, sample, snapshot,
                 stopper, draining, caller, forcer>>

\* Mutant: shutdown does not tell the monitor to stop.
ShutdownFlags_Silent ==
  /\ stopper = "idle"
  /\ stopper' = IF initialized THEN "joining" ELSE "clearing"
  /\ initialized' = FALSE
  /\ UNCHANGED <<entry, registered, loaded, live, stats, sample, monVars, stopping,
                 draining, inits, caller, forcer>>

\* The flags, under the mutex; then notify.
ShutdownFlags ==
  /\ stopper = "idle"
  /\ stopper' = IF initialized THEN "joining" ELSE "clearing"
  /\ stopping' = (stopping \/ initialized)
  /\ initialized' = FALSE
  /\ UNCHANGED <<entry, registered, loaded, live, stats, sample, monVars, draining,
                 inits, caller, forcer>>

ShutdownJoin ==
  /\ stopper = "joining"
  /\ monitor = "exited"
  /\ monitor' = "none"
  /\ stopper' = "clearing"
  /\ UNCHANGED <<entry, registered, loaded, live, stats, sample, snapshot, initialized,
                 stopping, draining, inits, caller, forcer>>

\* Swap the entries out and zero the counters, under the mutex.
ShutdownSwap ==
  /\ stopper = "clearing"
  /\ stopper' = "draining"
  /\ draining' = {p \in registered : entry[p].future = "compiling"}
  /\ registered' = {}
  /\ entry' = [p \in Pipelines |-> NewEntry]
  /\ specializations' = 0 /\ deoptimizations' = 0 /\ activeJit' = 0
  /\ UNCHANGED <<loaded, live, sample, monVars, initialized, stopping, inits, caller, forcer>>

\* A compile whose future was swapped out finishes.
Drained(p) ==
  /\ p \in draining
  /\ draining' = draining \ {p}
  /\ UNCHANGED <<entry, registered, loaded, live, stats, sample, monVars, initialized,
                 stopping, stopper, inits, caller, forcer>>

ShutdownReturn ==
  /\ stopper = "draining" /\ draining = {}
  /\ stopper' = "idle"
  /\ UNCHANGED <<entry, registered, loaded, live, stats, sample, monVars, initialized,
                 stopping, draining, inits, caller, forcer>>

-----------------------------------------------------------------------------
Init ==
  /\ entry = [p \in Pipelines |-> NewEntry]
  /\ registered = {} /\ loaded = {} /\ live = {}
  /\ specializations = 0 /\ deoptimizations = 0 /\ activeJit = 0
  /\ sample = [p \in Pipelines |-> 0]
  /\ monitor = "none"
  /\ snapshot = sample
  /\ initialized = FALSE /\ stopping = FALSE /\ stopper = "idle"
  /\ draining = {} /\ inits = 0
  /\ caller = [c \in Callers |-> <<"idle">>]
  /\ forcer = [f \in Forcers |-> <<"idle">>]

Monitoring == MonitorWake \/ MonitorQuery \/ MonitorTick
Shutdown   == ShutdownJoin \/ ShutdownSwap \/ ShutdownReturn
Compiling  == \E p \in Pipelines : Compiled(p) \/ Drained(p)
Forcing(f) == ForceCompiled(f) \/ ForceEnd(f)

Next ==
  \/ \E c \in Callers : EndCall(c) \/ \E p \in Pipelines : BeginCall(c, p)
  \/ \E p \in Pipelines : Register(p)
  \/ Monitoring
  \/ Compiling
  \/ \E f \in Forcers : Forcing(f) \/ \E p \in Pipelines : ForceBegin(f, p)
  \/ AdaptiveInit \/ ShutdownFlags \/ Shutdown

Spec == Init /\ [][Next]_vars

(***************************************************************************)
(* Threads keep running and compiles end.  Nobody is obliged to call a     *)
(* pipeline, force_specialize, init or shutdown.                           *)
(***************************************************************************)
Fairness ==
  /\ WF_vars(Monitoring) /\ WF_vars(Shutdown)
  /\ \A p \in Pipelines : WF_vars(Compiled(p)) /\ WF_vars(Drained(p))
  /\ \A f \in Forcers : WF_vars(Forcing(f))
  /\ \A c \in Callers : WF_vars(EndCall(c))

FairSpec == Spec /\ Fairness

\* The program also keeps calling its pipelines, and does not shut down.
BusySpec ==
  /\ Init /\ [][Next /\ stopper' = "idle"]_vars
  /\ Fairness
  /\ \A c \in Callers, p \in Pipelines : SF_vars(BeginCall(c, p))

-----------------------------------------------------------------------------
\* The type of every variable; that activeJit is in Nat says that the
\* unsigned counter g_activeJit is never taken below zero (topo_adaptive.cpp
\* fetch_sub, lines 321 and 353).
TypeOK ==
  /\ entry \in [Pipelines -> Entries]
  /\ registered \subseteq loaded /\ loaded \subseteq Pipelines /\ live \subseteq loaded
  /\ specializations \in Nat /\ deoptimizations \in Nat /\ activeJit \in Nat
  /\ sample \in [Pipelines -> Costs]
  /\ monitor \in {"none", "wait", "query", "tick", "exited"}
  /\ snapshot \in [Pipelines -> Costs]
  /\ initialized \in BOOLEAN /\ stopping \in BOOLEAN
  /\ stopper \in {"idle", "joining", "clearing", "draining"}
  /\ draining \subseteq Pipelines /\ inits \in 0 .. Restarts
  /\ caller \in [Callers -> {<<"idle">>} \cup ({"aot", "jit"} \X Pipelines)]
  /\ forcer \in [Forcers -> {<<"idle">>} \cup ({"compiling", "built", "failed"} \X Pipelines)]

\* No pipeline is specialized more than max_versions times, however the
\* monitor's commits, whose budget was checked a compile ago, interleave with
\* forced ones (topo_adaptive.cpp 243, 512, 538-541).
VersionsBounded == \A p \in Pipelines : entry[p].versions <= MaxVersions

\* The monitor's future is in the entry exactly while the entry is
\* SPECIALIZING: a forced commit never moves the state on and leaves the
\* async handle behind (the comment at topo_adaptive.cpp 497-502).
NoOrphanFuture ==
  \A p \in Pipelines : entry[p].future # "none" <=> entry[p].state = "SPECIALIZING"

\* Callers are dispatched to JIT code exactly while the state machine says
\* that the pipeline runs it (topo_adaptive.cpp 261-263, 315-318, 347-350, 474).
LiveMatchesState ==
  \A p \in registered : p \in live <=> entry[p].state \in {"VERIFYING", "ACTIVE"}

\* active_jit never misses a live pipeline, so that withdrawing one cannot
\* wrap the counter around (topo_adaptive.cpp 267, 321, 353, 478).  It may count
\* one twice: a forced commit on a VERIFYING pipeline takes only ACTIVE for
\* already live.
LiveIsCounted == activeJit >= Cardinality(live \cap registered)

\* shutdown returns: the monitor sees the flag, and the compiles of the
\* entries it swapped out are waited for outside the mutex (412-453).
ShutdownReturns == stopper # "idle" ~> stopper = "idle"

\* A specialization that was started is committed, given up or discarded
\* by a shutdown; a failed compile does not leave the entry waiting (254-292).
SpecializationSettles ==
  \A p \in Pipelines : entry[p].state = "SPECIALIZING" ~> entry[p].state # "SPECIALIZING"

\* topo_adaptive.cpp 295: VERIFYING is to "wait for enough samples under JIT,
\* then compare".  With every pipeline called again and again, the comparison
\* is made at last.
VerifyDecides ==
  \A p \in Pipelines : entry[p].state = "VERIFYING" ~> entry[p].state # "VERIFYING"
=============================================================================
