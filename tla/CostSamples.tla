----------------------------- MODULE CostSamples -----------------------------
(***************************************************************************)
(* The cost sampler of runtime/topo_parallel.cpp: generated code calls     *)
(* topo_cost_begin/topo_cost_end around a pipeline or a stage, each thread *)
(* keeps its open begins and its totals, and readers merge the maps of the *)
(* enrolled threads under g_samples_mutex.                                 *)
(*                                                                         *)
(* A key is a sequence of name components: <<p>> for a pipeline, <<p, s>>  *)
(* for "p::s".  frames, truth and disturbed are history: the calls really  *)
(* open on a thread, what they really cost, and whether a call unwound     *)
(* inside another of the same name.                                        *)
(***************************************************************************)
EXTENDS Naturals, Sequences, Functions, SequencesExt

CONSTANTS Threads, Keys,
          MaxTime,    \* bound of the clock
          MaxCalls,   \* bound on the begins and samples held, over all threads
          MaxDepth    \* bound on the calls open at once on a thread

VARIABLES now, instrument,
          life,       \* a thread: "alive", "leaving" (its destructor has run), "gone"
          enrolled,   \* tls_registration.registered
          registry,   \* g_tls_registrations
          pending,    \* tls_pending_begins
          samples,    \* tls_registration.samples
          reader,
          frames, truth, disturbed

tls      == <<life, enrolled, registry, pending, samples>>
history  == <<frames, truth, disturbed>>
costVars == <<now, instrument, tls, reader, history>>

Zero      == [total |-> 0, count |-> 0]
NoSamples == [k \in Keys |-> Zero]
NoReader  == [reading |-> FALSE, todo |-> << >>, acc |-> NoSamples]

\* g_samples_mutex is free: every other critical section is one step.
Unlocked == ~reader.reading

Add(s, d) == [total |-> s.total + d, count |-> s.count + 1]
Merge(a, b) == [k \in Keys |-> [total |-> a[k].total + b[k].total,
                                count |-> a[k].count + b[k].count]]
Averages(acc) == [k \in {j \in Keys : acc[j].count > 0} |-> acc[k].total \div acc[k].count]
Held(t) == Len(pending[t]) + SumFunction([k \in Keys |-> truth[t][k].count])

Init ==
  /\ now = 0 /\ instrument = TRUE
  /\ life = [t \in Threads |-> "alive"] /\ enrolled = [t \in Threads |-> FALSE]
  /\ registry = << >> /\ reader = NoReader
  /\ pending = [t \in Threads |-> << >>] /\ frames = [t \in Threads |-> << >>]
  /\ samples = [t \in Threads |-> NoSamples] /\ truth = [t \in Threads |-> NoSamples]
  /\ disturbed = [t \in Threads |-> FALSE]

Tick == now < MaxTime /\ now' = now + 1 /\ UNCHANGED <<instrument, tls, reader, history>>

-----------------------------------------------------------------------------
(* The generated calls.                                                    *)

Enrol(t) ==
  /\ enrolled[t] \/ Unlocked
  /\ enrolled' = [enrolled EXCEPT ![t] = TRUE]
  /\ registry' = IF enrolled[t] THEN registry ELSE Append(registry, t)

CostBegin(t, k) ==
  /\ life[t] = "alive" /\ Len(frames[t]) < MaxDepth /\ SumFunction([u \in Threads |-> Held(u)]) < MaxCalls
  /\ frames' = [frames EXCEPT ![t] = Append(@, [name |-> k, tp |-> now])]
  /\ IF instrument
     THEN /\ Enrol(t)
          /\ pending' = [pending EXCEPT ![t] = Append(@, [name |-> k, tp |-> now])]
     ELSE UNCHANGED <<enrolled, registry, pending>>
  /\ UNCHANGED <<now, instrument, life, samples, reader, truth, disturbed>>

\* The begin that an end of k closes: the last one of that name.
Matching(t, k) == SelectLastInSeq(pending[t], LAMBDA b : b.name = k)

\* The AOT path or the task body returns.
CostEnd(t) ==
  /\ frames[t] # << >>
  /\ LET f == Last(frames[t])
         i == Matching(t, f.name)
     IN IF instrument
        THEN /\ truth' = [truth EXCEPT ![t][f.name] = Add(@, now - f.tp)]
             /\ IF i = 0 THEN UNCHANGED <<samples, pending>>
                ELSE /\ Unlocked
                     /\ samples' = [samples EXCEPT ![t][f.name] = Add(@, now - pending[t][i].tp)]
                     /\ pending' = [pending EXCEPT ![t] = RemoveAt(@, i)]
        ELSE UNCHANGED <<truth, samples, pending>>
  /\ frames' = [frames EXCEPT ![t] = Front(@)]
  /\ UNCHANGED <<now, instrument, life, enrolled, registry, reader, disturbed>>

\* It throws: the generated end stands only before returns.
Unwind(t) ==
  /\ frames[t] # << >>
  /\ LET k == Last(frames[t]).name
     IN disturbed' = [disturbed EXCEPT ![t] =
                        @ \/ \E i \in 1..(Len(frames[t]) - 1) : frames[t][i].name = k]
  /\ frames' = [frames EXCEPT ![t] = Front(@)]
  /\ UNCHANGED <<now, instrument, tls, reader, truth>>

-----------------------------------------------------------------------------
(* Threads leave and start; init sets the flag while no call is open.      *)

\* std::remove and erase: s but for every t in it.
Without(s, t) ==
  LET kept[i \in 0 .. Len(s)] ==
        IF i = 0 THEN << >>
        ELSE IF s[i] = t THEN kept[i - 1] ELSE Append(kept[i - 1], s[i])
  IN kept[Len(s)]

\* A defect: the destructor leaves its map in the registry.
Unregister_Leaves(t) ==
  /\ life[t] = "alive" /\ frames[t] = << >>
  /\ life' = [life EXCEPT ![t] = "leaving"]
  /\ UNCHANGED <<now, instrument, enrolled, registry, pending, samples, reader, history>>

\* ~TlsSampleRegistration
Unregister(t) ==
  /\ life[t] = "alive" /\ frames[t] = << >>
  /\ enrolled[t] => Unlocked
  /\ life' = [life EXCEPT ![t] = "leaving"]
  /\ registry' = Without(registry, t)
  /\ UNCHANGED <<now, instrument, enrolled, pending, samples, reader, history>>

DestroyMap(t) ==
  /\ life[t] = "leaving"
  /\ life' = [life EXCEPT ![t] = "gone"] /\ enrolled' = [enrolled EXCEPT ![t] = FALSE]
  /\ pending' = [pending EXCEPT ![t] = << >>]
  /\ samples' = [samples EXCEPT ![t] = NoSamples] /\ truth' = [truth EXCEPT ![t] = NoSamples]
  /\ disturbed' = [disturbed EXCEPT ![t] = FALSE]
  /\ UNCHANGED <<now, instrument, registry, reader, frames>>

\* A worker enrols when it starts, any other thread at its first begin.
ThreadStart(t) ==
  /\ life[t] = "gone" /\ life' = [life EXCEPT ![t] = "alive"]
  /\ Enrol(t) \/ UNCHANGED <<enrolled, registry>>
  /\ UNCHANGED <<now, instrument, pending, samples, reader, history>>

Configure(flag) ==
  /\ \A t \in Threads : frames[t] = << >>
  /\ instrument' = flag
  /\ UNCHANGED <<now, tls, reader, history>>

-----------------------------------------------------------------------------
(* get_cost_samples holds the mutex over its walk of the maps.             *)

GetBegin ==
  /\ Unlocked
  /\ reader' = [reading |-> TRUE, todo |-> registry, acc |-> NoSamples]
  /\ UNCHANGED <<now, instrument, tls, history>>

\* A defect: a later thread's total replaces the earlier ones.
GetMap_Overwrites ==
  /\ reader.reading /\ reader.todo # << >>
  /\ reader' = [reader EXCEPT !.todo = Tail(@), !.acc = [k \in Keys |->
                  LET s == samples[Head(reader.todo)][k] IN IF s.count > 0 THEN s ELSE @[k]]]
  /\ UNCHANGED <<now, instrument, tls, history>>

GetMap ==
  /\ reader.reading /\ reader.todo # << >>
  /\ reader' = [reader EXCEPT !.todo = Tail(@), !.acc = Merge(@, samples[Head(reader.todo)])]
  /\ UNCHANGED <<now, instrument, tls, history>>

\* It returns Averages(reader.acc).
GetEnd ==
  /\ reader.reading /\ reader.todo = << >>
  /\ reader' = NoReader
  /\ UNCHANGED <<now, instrument, tls, history>>

\* Only the maps of enrolled threads are reached.
Reset(erased) ==
  /\ Unlocked
  /\ samples' = [t \in Threads |-> [k \in Keys |->
                   IF t \in ToSet(registry) /\ k \in erased THEN Zero ELSE samples[t][k]]]
  /\ UNCHANGED <<now, instrument, life, enrolled, registry, pending, reader, frames, disturbed>>

ResetAll == Reset(Keys) /\ truth' = [t \in Threads |-> NoSamples]

\* reset_cost_samples(name): the key itself and every key it is a prefix of
ScopedReset(p) ==
  /\ Reset({k \in Keys : IsPrefix(p, k)})
  /\ truth' = [t \in Threads |-> [k \in Keys |-> IF k[1] = p[1] THEN Zero ELSE truth[t][k]]]

Pipelines == {<<k[1]>> : k \in Keys}

Next ==
  \/ Tick \/ GetBegin \/ GetMap \/ GetEnd \/ ResetAll
  \/ \E p \in Pipelines : ScopedReset(p)
  \/ \E flag \in BOOLEAN : Configure(flag)
  \/ \E t \in Threads :
       CostEnd(t) \/ Unwind(t) \/ Unregister(t) \/ DestroyMap(t) \/ ThreadStart(t)
  \/ \E t \in Threads, k \in Keys : CostBegin(t, k)

Spec == Init /\ [][Next]_costVars

-----------------------------------------------------------------------------
\* A reader never walks the map of a thread that has destroyed it, and every
\* thread that has something to read is enrolled, once.
RegistryLive ==
  /\ IsInjective(registry)
  /\ ToSet(registry) = {t \in Threads : enrolled[t] /\ life[t] = "alive"}
  /\ \A t \in Threads : life[t] = "alive" /\ samples[t] # NoSamples => enrolled[t]

\* Every call that returned since the last reset of its key is counted once,
\* with its own duration; a begin left behind by a call that unwound inside
\* another of the same name can only make the duration of the outer shorter.
SamplesTrue ==
  \A t \in {u \in Threads : life[u] = "alive"}, k \in Keys :
    /\ samples[t][k].count = truth[t][k].count
    /\ samples[t][k].total <= truth[t][k].total
    /\ ~disturbed[t] => samples[t][k] = truth[t][k]

\* What get_cost_samples returns is, for each key, the total over the live
\* threads divided once by their count, all as of the moment it returns.
AverageOfAll ==
  reader.reading /\ reader.todo = << >> =>
    LET live == {t \in Threads : life[t] = "alive"}
    IN Averages(reader.acc) = Averages([k \in Keys |->
         [total |-> SumFunction([t \in live |-> samples[t][k].total]),
          count |-> SumFunction([t \in live |-> samples[t][k].count])]])
=============================================================================
