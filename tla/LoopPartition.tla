---------------------------- MODULE LoopPartition ----------------------------
(***************************************************************************)
(* LoopParallelizePass, the partition of loops: which loop of a function   *)
(* is taken, the worker made of its body, and the run of the code that     *)
(* replaces the loop: a task per range of iterations, the join, and the    *)
(* combination of partial results.                                         *)
(*                                                                         *)
(* A loop is its blocks, as lists of the instructions that matter to the   *)
(* legality test, and what scalar evolution says of its trip count.  An    *)
(* iteration is one step: loops whose iterations talk to each other within *)
(* an iteration are those the test declines.  Floating point is left out:  *)
(* its reassociation is licensed by the declaration of the stage.          *)
(***************************************************************************)
EXTENDS Naturals, Sequences, SequencesExt, FiniteSets

CONSTANTS
  Functions,  \* [loops, mates, defined, excluded, enabled, reduction, dynamic]; mates:
              \* the functions in its stage; loops[j]: [shape, simple, header, body,
              \* runs, known, carried, init, throws]; runs: how often the body runs
  MaxParts,   \* maxPartitions, 16 in the code
  ChunkSize,
  Word,       \* integers wrap at Word
  Cells       \* the array that loops store to, 0 .. n

VARIABLES
  func,
  loop,     \* the loop that was partitioned
  trips,    \* the iterations that are partitioned
  parts,    \* the number of partitions
  pc,       \* "serial", "spawning", "joining", "ended", "unwound", "kept"
  mem,      \* what the loop stores to
  part,     \* the ranges of the tasks, in their argument structures
  worker,   \* the tasks: the next iteration, the partial result, whether it threw
  result    \* what the exit block gets

loopVars == <<func, loop, trips, parts, pc, mem, part, worker, result>>

-----------------------------------------------------------------------------
(* The loop as it was written.                                             *)
Code(l) == ToSet(l.header) \cup ToSet(l.body)
Puts(l)  == {c \in Code(l) : c.op = "put"}
Folds(l) == {c \in Code(l) : c.op = "fold"}

Instructions ==
  [op  : {"put", "fold"}, src : {"i", "two", "own", "prev", "acc"}, at : {"own", "first", "none"},
   via : {"store", "call", "unknown", "sync", "atomic", "none"},
   by  : {"add", "mul", "sub", "copy", "none"}]

\* The array has a cell for each iteration; a value is carried if there is an
\* operation that makes the next one, and is read only if it is carried.
WellFormed(l) ==
  /\ l.runs \in Nat /\ l.throws \in Nat /\ l.init \in Nat /\ (0 .. l.runs - 1) \subseteq Cells
  /\ l.header \in Seq(Instructions) /\ l.body \in Seq(Instructions)
  /\ \A c \in Puts(l) : c.via # "none"
  /\ l.carried <=> Folds(l) # {}
  /\ l.carried \/ \A c \in Code(l) : c.src # "acc"

ASSUME LoopAssumption ==
  /\ MaxParts \in Nat \ {0} /\ ChunkSize \in Nat \ {0} /\ Word \in Nat \ {0}
  /\ \A f \in Functions : \A j \in DOMAIN f.loops : WellFormed(f.loops[j])

Cell(at, i) == IF at = "own" THEN i ELSE 0
Read(src, i, e) ==
  CASE src = "i"    -> i
    [] src = "two"  -> 2
    [] src = "own"  -> e.mem[i]
    [] src = "prev" -> e.mem[IF i = 0 THEN 0 ELSE i - 1]
    [] src = "acc"  -> e.acc

Apply(by, a, b) ==
  (CASE by = "add" -> a + b [] by = "mul" -> a * b [] by = "sub" -> a + Word - b [] by = "copy" -> b) % Word

Do(c, i, f) ==
  LET v == Read(c.src, i, f) IN
    IF c.op = "put" THEN [f EXCEPT !.mem[Cell(c.at, i)] = (v + 1) % Word]
    ELSE [f EXCEPT !.acc = Apply(c.by, @, v)]
Iterate(code, i, e) == FoldLeft(LAMBDA f, c : Do(c, i, f), e, code)

-----------------------------------------------------------------------------
(* Which loop is taken.                                                    *)
Parallel(f) == f.enabled /\ f.mates >= 2 /\ f.defined /\ ~ f.excluded

\* Locks, fences, atomics, and calls of unknown functions.
ContainsSync(l) == \E c \in Puts(l) : c.via \in {"sync", "atomic", "unknown"}

\* A loop that both reads and writes memory may carry a recurrence.
MemoryDeps(l) == Puts(l) # {} /\ \E c \in Code(l) : c.src \in {"own", "prev"}

\* The only use of the carried value is the operation that makes the next one.
IsReduction(l) ==
  /\ Cardinality(Folds(l)) = 1
  /\ \A c \in Folds(l) : c.by \in {"add", "mul"}
  /\ \A c \in Puts(l) : c.src # "acc"

Candidate(f, l) ==
  /\ l.simple /\ ~ ContainsSync(l) /\ ~ MemoryDeps(l)
  /\ l.carried => f.reduction /\ IsReduction(l)

\* Scalar evolution counts the runs of the header, if it can.
HeaderTrips(l) == IF ~ l.known THEN 0 ELSE IF l.shape = "top" THEN l.runs + 1 ELSE l.runs
BodyTrips_Header(l) == HeaderTrips(l)
BodyTrips(l) == IF l.shape = "top" THEN HeaderTrips(l) - 1 ELSE HeaderTrips(l)

\* The worker is made of the blocks other than the header.
Outlined(l) == (l.carried => ToSet(l.header) \cap Folds(l) = {}) /\ HeaderTrips(l) > 0 /\ BodyTrips(l) > 0

Taken(f) == {j \in DOMAIN f.loops : Candidate(f, f.loops[j]) /\ Outlined(f.loops[j])}

-----------------------------------------------------------------------------
(* The partition of the iterations.                                        *)
Limit(f) == IF f.dynamic THEN 4 * MaxParts ELSE MaxParts
NumParts(n, max) ==
  LET raw == n \div ChunkSize IN IF raw < 1 THEN 1 ELSE IF raw > max THEN max ELSE raw

Lo(k) == k * (trips \div parts)
Hi_Even(k) == (k + 1) * (trips \div parts)
\* The last partition takes what is left.
Hi(k) == IF k + 1 = parts THEN trips ELSE (k + 1) * (trips \div parts)

\* The operation of a reduction, and its identity.
Reduced(l)  == (CHOOSE c \in Folds(l) : TRUE).by
Identity(l) == IF Reduced(l) = "mul" THEN 1 ELSE 0

Partition ==
  /\ pc = "serial"
  /\ IF Parallel(func) /\ Taken(func) # {}
     THEN \E j \in Taken(func) :
            /\ \A i \in Taken(func) : j <= i
            /\ loop' = func.loops[j] /\ trips' = BodyTrips(func.loops[j])
            /\ parts' = NumParts(BodyTrips(func.loops[j]), Limit(func))
            /\ pc' = "spawning"
     ELSE pc' = "kept" /\ UNCHANGED <<loop, trips, parts>>
  /\ UNCHANGED <<func, mem, part, worker, result>>

\* A worker starts from the identity of the operation.
Start == IF loop.carried THEN Identity(loop) ELSE 0

Spawn ==
  /\ pc = "spawning" /\ Len(part) < parts
  /\ part' = Append(part, [lo |-> Lo(Len(part)), hi |-> Hi(Len(part))])
  /\ worker' = Append(worker, [at |-> Lo(Len(part)), acc |-> Start, threw |-> FALSE])
  /\ UNCHANGED <<func, loop, trips, parts, pc, mem, result>>

Join ==
  /\ pc = "spawning" /\ Len(part) = parts
  /\ pc' = "joining"
  /\ UNCHANGED <<func, loop, trips, parts, mem, part, worker, result>>

PartOver(k) == worker[k].threw \/ worker[k].at >= part[k].hi

\* The next iteration of a worker.
Work(k) ==
  /\ ~ PartOver(k)
  /\ LET i == worker[k].at
         e == Iterate(loop.body, i, [mem |-> mem, acc |-> worker[k].acc])
     IN IF i = loop.throws
        THEN worker' = [worker EXCEPT ![k].threw = TRUE] /\ UNCHANGED mem
        ELSE /\ worker' = [worker EXCEPT ![k].at = i + 1, ![k].acc = e.acc]
             /\ mem' = e.mem
  /\ UNCHANGED <<func, loop, trips, parts, pc, part, result>>

\* The partial results, and the initial value of the loop once.
Combined(l, workers) ==
  Apply(Reduced(l), l.init,
        FoldLeft(LAMBDA a, w : Apply(Reduced(l), a, w.acc), Identity(l), workers))

\* await_all returns, or throws when all the tasks are over.
Awaited ==
  /\ pc = "joining"
  /\ \A k \in DOMAIN part : PartOver(k)
  /\ IF \E k \in DOMAIN part : worker[k].threw
     THEN pc' = "unwound" /\ UNCHANGED result
     ELSE /\ pc' = "ended"
          /\ result' = [i |-> trips, acc |-> IF loop.carried THEN Combined(loop, worker) ELSE 0]
  /\ UNCHANGED <<func, loop, trips, parts, mem, part, worker>>

LoopInit ==
  /\ func \in Functions
  /\ loop = func.loops[1] /\ trips = 0 /\ parts = 0 /\ pc = "serial"
  /\ mem = [c \in Cells |-> 0] /\ part = << >> /\ worker = << >> /\ result = [i |-> 0, acc |-> 0]

Over == pc \in {"ended", "unwound", "kept"} /\ UNCHANGED loopVars

LoopNext == Partition \/ Spawn \/ Join \/ Awaited \/ (\E k \in DOMAIN part : Work(k)) \/ Over
LoopSpec == LoopInit /\ [][LoopNext]_loopVars
-----------------------------------------------------------------------------
\* Once all tasks are spawned every iteration of the loop belongs to exactly one
\* of them (partitionLoop, lines 820-920): none is lost to the rounding of the
\* division and none is run twice.
Owns(k, i) == part[k].lo <= i /\ i < part[k].hi
IterationsCovered ==
  pc \in {"joining", "ended"} =>
    \A i \in 0 .. trips - 1 :
      \E k \in DOMAIN part : Owns(k, i) /\ \A j \in DOMAIN part : Owns(j, i) => j = k

Serial ==
  LET all == [i \in 1 .. loop.runs |-> i - 1]
      e   == FoldLeft(LAMBDA f, i : Iterate(loop.header \o loop.body, i, f),
                      [mem |-> [c \in Cells |-> 0], acc |-> loop.init], all)
  IN IF loop.shape = "top" THEN Iterate(loop.header, loop.runs, e) ELSE e
SerialThrows == loop.throws < loop.runs

\* What the partition takes for granted of a loop and does not look at: the
\* header only counts and tests, stores and known calls go to a cell of the
\* iteration's own, and the carried value is not combined with itself.
Plain(l) ==
  /\ l.shape = "top" /\ l.header = << >>
  /\ \A c \in Puts(l) : c.via \in {"store", "call"} => c.at = "own"
  /\ \A c \in Folds(l) : c.src # "acc"

\* The partitioned loop stores, carries and throws what the serial loop does, in
\* whatever order the tasks run (partitionLoop: "Serial combine: fold every
\* partition's partial into one value per reduction, then apply the original
\* loop init exactly once").
LoopIsSerial ==
  /\ pc = "ended" => ~ SerialThrows /\ (loop.shape = "top" => result.i = loop.runs)
  /\ pc = "ended" /\ Plain(loop) => mem = Serial.mem
  /\ pc = "ended" /\ Plain(loop) /\ loop.carried => result.acc = Serial.acc
  /\ pc = "unwound" => SerialThrows

\* "The worker executes: for (i = start; i < end; i++) { original_body }"
\* (LoopParallelizePass.cpp:506): whatever the shape of the loop, each iteration
\* stores what it stored.
WorkerRunsBody ==
  pc = "ended" /\ (\A c \in Puts(loop) : c.at = "own") => mem = Serial.mem
=============================================================================
