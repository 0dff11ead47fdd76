------------------------------ MODULE MCRuntime ------------------------------
(***************************************************************************)
(* The small runtime components side by side.  They share no state, so one *)
(* of them steps in a behaviour (focus) and the others stay where they     *)
(* start: the state spaces add up instead of multiplying.                  *)
(***************************************************************************)
EXTENDS Naturals, Sequences, FiniteSets, TLC

CONSTANTS Threads, Keys, Engines, Spans, MaxTime, MaxCalls, MaxDepth, MaxOpen, MaxViolations,
          WordSize, MallocAlign, DefaultCapacity, Capacities, Sizes, Alignments,
          MaxBlocks, MaxGiven

ASSUME RuntimeAssumption ==
  /\ IsFiniteSet(Threads) /\ "free" \notin Threads
  /\ \A k \in Keys : k \in Seq(STRING) /\ k # << >>
  /\ WordSize \in Nat \ {0} /\ MallocAlign \in 1 .. (WordSize - 1)
  /\ DefaultCapacity \in 1 .. (WordSize - 1) /\ Capacities \subseteq 0 .. (WordSize - 1)
  /\ Sizes \subseteq 0 .. (WordSize - 1) /\ Alignments \subseteq 0 .. (WordSize - 1)

VARIABLES focus,
          now, instrument, life, enrolled, registry, pending, samples, reader,
          frames, truth, disturbed,
          handle, default, blocks, heap, given,
          initialized, rate, initPc, stack, open, straddled, wrong,
          flag, handlers, violations, callPc, exited, dumped,
          disk, lock, tried, loaded, table, mapped, loadPc, wants, wild

Cost    == INSTANCE CostSamples
Arena   == INSTANCE Arena
Observe == INSTANCE Observe
Contain == INSTANCE Containment
Loader  == INSTANCE JitLoader WITH Callers <- Threads

\* What the run gives for Keys and Engines: a stage s of pipeline p, and pipeline q;
\* a good engine, one without the optional entry points, one that lacks a
\* required one, one of another version.
TheKeys == {<<"p", "s">>, <<"q">>}
TheEngines ==
  LET all == {"version", "available", "specialize", "specializeBytes", "dumpIR", "dumpIRBytes"}
  IN {[symbols |-> all, compatible |-> TRUE],
      [symbols |-> {"version", "available", "specialize"}, compatible |-> TRUE],
      [symbols |-> all \ {"available"}, compatible |-> TRUE],
      [symbols |-> all, compatible |-> FALSE]}
ThreadSymmetry == Permutations(Threads)

cost    == <<now, instrument, life, enrolled, registry, pending, samples, reader,
             frames, truth, disturbed>>
arena   == <<handle, default, blocks, heap, given>>
observe == <<initialized, rate, initPc, stack, open, straddled, wrong>>
contain == <<flag, handlers, violations, callPc, exited, dumped>>
loader  == <<disk, lock, tried, loaded, table, mapped, loadPc, wants, wild>>

Init ==
  /\ focus \in {"cost", "arena", "observe", "contain", "loader"}
  /\ Cost!Init /\ Arena!Init /\ Observe!Init /\ Contain!Init
  /\ Loader!Init /\ (focus = "loader" \/ disk = << >>)

Next ==
  /\ UNCHANGED focus
  /\ \/ focus = "cost"    /\ Cost!Next    /\ UNCHANGED <<arena, observe, contain, loader>>
     \/ focus = "arena"   /\ Arena!Next   /\ UNCHANGED <<cost, observe, contain, loader>>
     \/ focus = "observe" /\ Observe!Next /\ UNCHANGED <<cost, arena, contain, loader>>
     \/ focus = "contain" /\ Contain!Next /\ UNCHANGED <<cost, arena, observe, loader>>
     \/ focus = "loader"  /\ Loader!Next  /\ UNCHANGED <<cost, arena, observe, contain>>

Spec == Init /\ [][Next]_<<focus, cost, arena, observe, contain, loader>>

-----------------------------------------------------------------------------
\* What each component promises, stated in its module: the registry of cost maps
\* holds live threads, and samples and averages are the true ones; what an arena
\* gave out is disjoint and its blocks are what malloc handed out; spans end what
\* they began; violations are dumped; only a whole engine is used.
RegistryLive == Cost!RegistryLive
CostsTrue    == Cost!SamplesTrue /\ Cost!AverageOfAll
ArenaSound   == Arena!GivenDisjoint /\ Arena!BlocksAreHeap
SpansSound   == Observe!SpansBalanced /\ Observe!OwnSpanWritten
DumpedAtExit == Contain!DumpedAtExit
EngineUsable == Loader!EngineUsable
=============================================================================
