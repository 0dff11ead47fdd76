# A verification of topo-llvm

TLA+ models of topo-llvm, the LLVM backend and the native runtime of the Topo
language, checked with TLC on small instances and, where the argument does not
depend on the size of the instance, proved with TLAPS. All paths below are
relative to the repository (`src/` in `PROJECT.json`).

* [The system](#the-system): its components, their state, what is hard about them
* [The modules](#the-modules): what models what
* [The runs](#the-runs): what is checked, with which bounds and which fairness
* [The proofs](#the-proofs): what holds for every value of the constants, and why
* [What the code does differently](#what-the-code-does-differently)
* [What is not modelled](#what-is-not-modelled) and [the plan](#the-plan)

`PROJECT.json` lists the components, the runs with their properties, for each
property a mutation of the model that breaks it, the source lines of every
definition, the hazards and the findings.

## The system

A build takes LLVM modules made by a host compiler and a Topo program: symbols
with a visibility, and pipelines, which are functions whose body is a graph of
stages. `topo-build-llvm-*` links the modules, maps declared names to functions,
verifies, applies visibility, runs the pass pipeline, embeds what a JIT engine
needs, obfuscates names, verifies again, writes and links. The binary is linked
with small runtime libraries: a task pool, cost sampling, an adaptive monitor
that respecializes pipelines while the program runs, arenas, tracing spans,
containment records, a loader for the JIT engine.

| Component | State it keeps | Operations | Hard about it |
|---|---|---|---|
| task handle, `runtime/topo_parallel.cpp` | mutex, `done`, `detached`, exception, result | complete, await, detach | two sides decide who frees; the mutex lives in what is freed; exceptions cross threads |
| task pool, same file | worker queues, submit counter, `g_pool`, lifecycle mutex | spawn, await (helping), steal, detach, init, shutdown | stealing, awaits nested on one stack, a pool that goes away under its users |
| cost sampling, same file and `topo_cost.cpp` | a map per thread, a registry of maps | begin, end, reset, read all | threads come and go while a reader walks; calls nest, recurse and unwind |
| adaptive monitor, `topo_adaptive*.cpp` | an entry per pipeline (state, versions, future, baselines), counters, the dispatch pointers | register, monitor pass, force, init, shutdown | compiles run without the mutex; what was read before is stale after; a budget with two spenders |
| JIT engine loader, `topo_jit_api.cpp` | the table of entry points, tried once | load, calls through the table | one-time load from several threads, a handshake that may fail half way |
| JIT engine, `lib/JitEngine` | one engine for the process and its lock, a counter, a dylib per request | specialize, dump | a request builds its module without the lock and shares the engine with others; constraints change the graph a body is made of |
| arena, `topo_arena.cpp` | chain of blocks, offset | create, alloc, reset, destroy | size and alignment arithmetic on a word that wraps |
| observability, `topo_observe.cpp` | span stack per thread, sampling rate | begin, end, init, shutdown | spans that straddle init or shutdown, sampling decided twice |
| containment, `topo_containment.cpp` | list of violations, at-exit flag | record, reset, dump | registration of the dump races recording |
| transform backend, `lib/Backend/LLVMTransformBackend.cpp`, `PassPipeline.cpp` | the module, the mapping, reports, JIT exports | one step after another | each pass works on what all the others left; the mapping is never updated |
| mapping and visibility, `SymbolMapper.cpp`, `VisibilityApplier.cpp` | name to function | map, rebind, apply | names that match in several ways, functions without a body |
| verifiers | diagnostics | before and after the passes | look at names that were changed |
| parallelisation passes | bodies | pipeline code generation, spawn/await, loop partition | data flow and memory order of the calls they move |
| layout, lifetime and indirection passes | bodies, layouts | columns for arrays, reorder, prefetch, devirtualize, counts without atomics, arena allocation | what they take from declarations and from the forms they recognize must hold for the code they do not look at |
| inlining passes | attributes, linkage | inline marks, flattening, return specialization | linkage other steps rely on |
| instrumentation passes | inserted calls | spans, containment, ABI check, dispatch | balance of the calls on every path |
| benchmarks | measured variants | pick a winner | stale baselines, winners applied module-wide |
| decompiler | blocks visited, statements so far | lift a function, a region, a block, an instruction | regions share blocks; exceptions; a try given up half way |
| drivers, topo-prof, profile | none that lasts | drive, print | failed steps |

How they interact:

* generated code calls the pool, the cost sampler and the spans; the dispatch
  stub at the entry of a pipeline loads a pointer that the adaptive monitor
  stores, so the monitor, its compiles and every caller share that pointer;
* the monitor reads the averages of the cost sampler through a callback and asks
  the engine, through the loader, for new code;
* the engine resolves the stages of the embedded module from symbols of the
  host binary, so it depends on names and linkage that the backend, the
  inliners, the flattening and the obfuscator all change;
* passes share the module and a mapping of names to function addresses made once.

What makes each component correct:

* *task handle*: a handle is freed exactly once and not touched after that; an
  exception reaches the awaiter; an awaiter or the memory is always released;
* *pool*: a spawned task is run exactly once; awaits help in an order that cannot
  wait for itself; the pool published is one that runs, and nobody uses one that is
  gone; urgent tasks stay ahead;
* *cost sampling*: the registry holds live threads only; samples are the true
  times of the calls; an average covers every thread;
* *adaptive monitor*: no pipeline exceeds its version budget, no future is
  abandoned, the pointer is live exactly in the states that say so, the count of
  active pipelines covers the live ones, shutdown returns;
* *small runtimes*: allocations never overlap or leave their block, spans end
  what they began, violations are dumped at exit, only a whole engine is used;
* *parallelisation passes*: every operand is defined where it is used, the body
  makes the calls of the serial one with the same values in an order the edges of
  the graph allow, and its tasks end before its frame does;
* *passes that rewrite bodies*: on every path, the program that was made reads the
  values, frees the memory, counts the references and calls the functions that
  the program as written does;
* *verifiers*: a program without a complaint does what its declarations say, and
  one compiled as declared is not complained about;
* *decompiler*: the statements do what the graph does, and no block is lost or
  lifted twice;
* *JIT engine*: a request gets a function of its own, made of what was asked for;
* *build*: public functions are exported under their names, exported tables name
  functions that exist, internal functions disappear, the engine finds what the
  embedded module leaves open, no use of an erased function is left.

## The modules

| Module | Models | How state and actions correspond to the code |
|---|---|---|
| `TaskHandle` | one `topo_task` allocation, `topo_parallel.cpp:192-245, 500-610` | an action is a critical section boundary of `task->mtx` or an access outside it; `frees`, `pending` and `captured` stand for the delete and for the two locals that carry the exception |
| `WorkPool` | the pool, `topo_parallel.cpp:120-475` and the pool side of await and detach | `queue` are the deques, `stack[th]` the bodies nested on a thread (helping pushes one), `gpool`/`alive` the pointer and the object it points to; a body is a list of calls, and a step is one lock, one load or one look at a queue |
| `TaskService` | what a pool promises, whoever runs the tasks: unborn, pending, running, done | `WorkPool` implements it through the mapping `phase` |
| `AdaptiveMonitor` | `topo_adaptive.cpp`, `topo_adaptive_state.cpp` and the code `AdaptiveDispatchPass` generates | an action is a critical section of `g_mutex` or a step between two of them; a compile is an interval between two actions, so that everything else can happen in it |
| `CostSamples` | `topo_cost_*` and the registry of thread maps | begins, ends, unwinding past an end, the destructor of a thread's maps, a reader in the middle of the registry |
| `Arena` | `topo_arena.cpp` | words wrap at `WordSize`; `heap` is what malloc gave, `given` what callers hold |
| `Observe` | `topo_observe.cpp` | a stack per thread, `open` the spans that are really open; init in its two stores |
| `Containment` | `topo_containment.cpp` | the exchange of the flag, `atexit`, recording, the exit of the process |
| `JitLoader` | `topo_jit_api.cpp` | the once-only load, symbol by symbol, and callers of the table |
| `Transform` | `LLVMTransformBackend.cpp`, `PassPipeline.cpp`, `main.cpp` of the C++ driver, and the passes that make, rename, relink or erase functions | a function object has an address, a name, a linkage, its calls and its uses; an action is one step of the build; LLVM's own inlining, dead code removal and argument promotion are external choices |
| `StageFlow`, `StageTerms` | `PipelineCodeGenPass.cpp`, `TopoParallelPass.cpp` | `body` is the pipeline's instruction list, first as generated (or written by hand), then rewritten group by group; values are the terms that make them; then the body is called and its tasks run as `TaskService` promises |
| `LoopPartition` | the loop partition of `LoopParallelizePass.cpp` (its second phase) | a loop is the stores and the carried value of its header and of its body; `Candidate` and `Outlined` are the tests that decline a loop, `Partition` takes the first one left; then a task per range runs iteration by iteration, and `Awaited` combines the partial results |
| `Lifter`, `FlowGraphs` | structured lifting, `LLVMLifter.cpp:1243-1876` | a function is a graph of blocks; `LiftBlockRegion`, `LiftBlock`, `LiftLoop`, `LiftArms`, `TryLiftEHRegion` are the functions of those names with the set of visited blocks handed through them; then the statements run against the graph with the same decisions. Dominators and loops are LLVM's (`FlowGraphs`) |
| `LiftCode` | instructions to statements and the compaction of assignments, `LLVMLifter.cpp:86-146, 484-1004` | a step executes an instruction, one more lifts the body; `Perform` is what the statements mean |
| `ArenaPass` | `LifetimeArenaPass.cpp` | `plan` is what the pass makes of a scope; the program as written and as made run the same path with a heap each; `Arena`'s blocks are reduced to memory that lasts until destroy |
| `Indirection` | counts without atomics (10b) and direct calls (10e), `IndirectionPass.cpp` | `source` is a program, `emitted` what the pass leaves of it; then its pipelines run, functions of one stage side by side |
| `DataLayout` | `DataLayoutPass.cpp`: columns by copy (`transformPipelineInlineRewrite`) and in place (`runGlobalImpl`) | `layout` is a function with the forms of its accesses, `mem` and `moved` the memory of the function as written and as rewritten |
| `FnBlocks` | the checks of logic blocks, `Verifier.cpp:105-181, 534-698, 1126-1247` | each check is a set of diagnostics; then the calls run stage by stage in any order within one |
| `Signatures` | `checkSignatures` and `typesMatch`, `Verifier.cpp:185-407` | what was declared, what was written, what the host compiler made of it under the ABI's choices, what is reported |
| `JitEngine` | `topo_jit_engine.cpp`, the contexts of `topo_jit_api.cpp` and the body generation it calls | an action is a step of a request that others can come between; the lock is taken where the code takes it |
| `MC*`, `*Shapes` | instances for TLC and the programs they are given | `MCRuntime` puts the five small runtimes next to each other, `MCForkJoin` `TaskHandle`, `StageFlow` and `LoopPartition`, `MCCompiler` `Transform`, `JitEngine` and the seven from `Lifter` to `Signatures`: one of them (`focus`) steps in a behaviour, the others stay where they are |
| `FoldLemmas`, `ForkJoinProofs`, `StageProofs`, `PoolProofs`, `AdaptiveProofs`, `RuntimeProofs`, `TransformProofs`, `CompilerProofs` | theorems and their proofs | see [the proofs](#the-proofs); `FoldLemmas` holds what the others share: induction over numbers, and what a fold over a sequence computes |

`WorkPool` treats the completion of a task as one step. That is justified by
`TaskHandle`, which models the same lines mutex operation by mutex operation
and shows that the awaiter cannot tell. `AdaptiveMonitor` sees cost sampling as
one average per pipeline that a finished AOT call may change; `CostSamples`
models how that average is made.

`StageFlow` relies on the runtime through what `TaskService` says of it: a spawned
task runs once, at any time, on any thread, and `await_all` returns or throws
when all of its tasks are over. The serial meaning of a body is an operator
(`Serial`), the parallel one is a behaviour; the two are compared at the end of
every behaviour. `LoopPartition` does the same for a loop: `Serial` folds the
iterations from first to last, the behaviour runs them range by range in any
interleaving. `Plain` names what the pass takes for granted of a loop without
looking at it; the comparison of what is stored and carried is made for plain
loops, the coverage of the iterations and the exceptions for all of them.

What was abstracted, and why it is enough: a body is only the calls it makes
into the runtime, since the pool looks at nothing else; a cost is one of a few
numbers, since the monitor only compares; a function body is the set of
functions it calls and of those it takes the address of, since the build steps
above ask for nothing else. Passes that only rewrite bodies have no action in
`Transform`: they leave everything that module keeps as it is.

Counters are bounded in guards only: `Restarts` (calls of init), `MaxCost`,
`MaxTime`, `MaxCalls`, `MaxDepth`, `MaxOpen`, `MaxViolations`, `MaxBlocks` and
`MaxGiven` are named where they are declared. Everything else is bounded by the
code itself.

## The runs

| Run | Bounds | What it shows |
|---|---|---|
| `pool` | 2 workers, 2 clients, 4 tasks | four programs: two nested fork-joins three deep (one with a throwing leaf), a pool shut down and lazily made again, two clients racing to make the pool with urgent, normal and detached tasks. Safety; the programs end; detached tasks are freed; the pool implements `TaskService` |
| `adaptive` | 1 pipeline, 1 caller, 2 forcers, a budget of 2, 2 inits | forced commits, monitor commits, failed compiles, withdrawals, shutdown and restart in every order; liveness |
| `runtime_support` | 2 threads, words of 32 | the five small runtimes |
| `compiler` | `Transform`: a pipeline, its stage, a helper, `main`; 14 program shapes, any visibility of the stage, 6 addresses, the switches in `SomeBuilds`. The others: the shapes of their module, see below | the build step by step; and what each pass and tool makes of the shapes it is given, run next to what it was made of |
| `fork_join` | two handles; diamonds and a group of three, with stages that return a structure, nothing or through sret, missing, declared, variadic and excluded ones, hand-written bodies, every set of stages that throw, with and without parallelization; 13 kinds of loops of 0 to 7 iterations, chunks of 2, at most 2 parts (8 when dynamic), words of 8 | fork and join at both ends. Handles: in every interleaving of await or detach with completion nothing is touched after the delete, there is one delete, exceptions reach the awaiter, both sides finish. Stages: the body that is made is well formed and does what the serial one does, in an order the edges allow, and leaves no task behind. Loops: every iteration belongs to one task, and the partitioned loop stores, carries and throws what the serial one does |
| `pool_shutdown_hangs` | 2 workers | finding 1 |
| `pool_snapshot_deleted` | 2 workers, a client that spawns and awaits, one that stops the pool | finding 7 |
| `adaptive_verify_stuck` | 1 pipeline | finding 2 |
| `stage_result_lost` | the stages of `fork_join` | finding 3 |
| `loop_body_lost` | bottom-tested loops of one block, otherwise as `fork_join` | finding 4 |
| `arena_closed_twice` | a scope whose owner handles an exception | finding 5 |
| `jit_stage_dropped` | the binaries of `compiler` | finding 6 |

Why these bounds. Two handles suffice since handles share nothing (which the
proofs make precise). Two workers are the fewest that steal from each other, and
three levels of nesting are the fewest in which a helper puts an unrelated body
on top of an awaiting one and that body awaits again. In the monitor a budget of
two lets the second commit be the monitor's or a forcer's, after a first of
either kind; two forcers can be between check and commit together. `VerifyCalls =
20` makes verification take three cycles, more than one and more than two. A
word of 32 with a default block of 8 lets padding, alignment and doubling wrap
with sizes 0, 1, 3, 8 and 31. Groups of two and of three stages suffice
for stages: a hoisted call is moved over calls of its own group and of others,
and a third one can throw while its siblings are queued and running. Loops of up
to seven iterations in chunks of two give one, two and three parts, with and
without a remainder, and no iteration at all; words of 8 make products wrap. Six addresses are the four functions of a
program, the SoA clone and a wrapper or replacement; an erased function's address
is given out again.

The shapes of `compiler`:

* *flow*: all reducible graphs of four blocks that end, with and without code in the
  headers of loops, and larger ones by hand (nested arms, a switch, landing pads,
  arms that share a block), in runs of up to four decisions: a loop entered, gone
  round and left, and a decision more;
* *code*: a read-modify-write of one of two variables, by operators the lifter
  has a case for and some it has none for, on words of three bits, where a number
  may be zero, positive or negative;
* *arena*: two allocations and any three uses of them, and scopes with branches,
  helpers, landing pads, declared starts and ends; the owner runs twice, so that
  a second call meets what the first one left;
* *pointers*: three functions in every order of stages of one or two pipelines, that
  copy and drop a shared object in each of the forms the pass looks for, and
  hierarchies of up to three classes with overridden, static, undeclared and
  unmapped members and destructors;
* *layout*: all pairs of accesses to an array of two structs of two fields, in
  eight forms (but for a first read of zeros), two writes and a read, and shorter lists with every other thing the
  rewriting looks at or forgets (other wrappers in the module, exits, pointers,
  initial values, an array inside a larger object). Two elements and two fields are
  the fewest for which a row and a column differ;
* *block*: three operations in up to two stages with any use of one global and of each
  other's values: three, since two may be ordered by a third;
* *signature*: up to two parameters of every kind of type, free and in a class, under
  every choice of the ABI;
* *jit*: two requests on binaries with one or two pipelines (a diamond, a chain, one
  that calls another), with all symbols or without one, under no constraint,
  edges pruned by name or all of them, and costs that leave a stage cold.

Deadlock is checked except in these runs (what ends in `fork_join` and `compiler`
says so with a step of its own): in `runtime_support`, where threads
may simply leave and the process exits, in `pool_shutdown_hangs`, where the
hang is the finding, and in `pool_snapshot_deleted`, where a task cleared from a queue is
awaited for ever. In `pool`, a use of a null or deleted pool (`fault`) would end the
behaviour, so that run shows that its programs, which stop the pool when nobody uses
it, never make one.

Fairness. *Handles*: both threads keep running (WF), and the runner gets the
mutex in the end (SF), since an awaiter that parks sleeps a millisecond without
it. *Pool*: every thread keeps running (WF of its steps); nothing is assumed of
the bodies, whose programs are finite. *Monitor*: the monitor thread, shutdown,
compiles and forced calls that were begun keep running (WF); nobody is obliged
to call anything. Only `adaptive_verify_stuck` assumes that pipelines are
called again and again (SF), since waiting for samples is pointless otherwise:
verification does not end even then.

## The proofs

| Theorem | Module | For every |
|---|---|---|
| `TypeCorrect`, `FreedMemoryUntouched`, `FreedExactlyOnce`, `ExceptionReachesAwaiter` | `ForkJoinProofs` | set of tasks |
| `PoolTypeCorrect` | `PoolProofs` | number of workers, set of clients and of tasks, priorities and programs, as for all of the pool |
| `TasksInOnePlace`, `HandlesOutliveUses`, `UrgentStayAhead`, `PoolImplementsService` | `PoolProofs` | |
| `AwaitsAreAcyclic` | `PoolProofs` | programs whose bodies await tasks they spawned themselves |
| `TasksAreKept` | `PoolProofs` | behaviour in which the pool is stopped in order |
| `UsesEndFirst` | `PoolProofs` | behaviour in which it is stopped while nobody is between a load of `g_pool` and its use |
| `NothingIsDangling` | `PoolProofs` | behaviour, in whatever order the pool is made and stopped |
| `StopsAreOrderly`, `ForkedIsJoined` | `PoolProofs` | programs that never stop the pool, or fork, join and then stop it |
| `BudgetKept`, `FutureNotOrphaned`, `PointerFollowsState`, `CounterCoversLive`, `AdaptiveTypeCorrect` | `AdaptiveProofs` | set of pipelines, callers and forcers, budget, threshold, ratio and number of restarts |
| `IterationsPartitioned`, `PartitionedLoopIsSerial` | `ForkJoinProofs` | set of functions and loops, instructions of a loop, number of iterations, word size, chunk size and limit of partitions |
| `StageFrameOutlivesTasks`, `StageOrder`, `StageParallelIsSerial` | `StageProofs` | set of pipelines that are well formed, with any stages, groups, edges, signatures and bodies, set of stages that throw, and struct types |
| `ViolationsAreDumped`, `OnlyWholeEngines`, `SpansEndWhatTheyBegan`, `PiecesDoNotOverlap`, `RegistryHoldsLiveMaps`, `SamplesAndAveragesTrue` | `RuntimeProofs` | finite set of threads, set of engines and of keys, number of spans and of readings of the clock, word size, alignment of malloc, sizes, alignments and capacities asked for |
| `UsesStayAlive`, `ExportsAreFunctions`, `StagesAreResolved`, `PublicIsExported`, `BinaryShowsWhatIsDeclared` | `TransformProofs` | set of entries, pipelines and stages, program, configuration, and finite set of addresses the program fits into |
| `JitSpecializesAsAsked` | `CompilerProofs` | set of requests, contexts, costs and binaries, with any pipelines, signatures and symbols |
| `StagesAreIndependent` | `CompilerProofs` | set of logic blocks, with any number of operations, stages, calls and globals |
| `LayoutKeepsMeaning` | `CompilerProofs` | set of functions and arrays, of any length and anywhere in their allocation, with any accesses in any forms |
| `SignaturesAreJudged` | `CompilerProofs` | set of functions declared and written, with any number of parameters, and any aliases and classes |
| `IndirectionKeepsMeaning` | `CompilerProofs` | set of programs with finitely many functions of any length, with any hierarchy of classes and any pipelines |

*Task handles.* None of the three safety properties is inductive: that a task
was deleted says nothing about the runner unless one knows how the owner came to
delete it. `HandleInv` adds, for one task at a time, who holds the mutex
(`MutexHeld`), that `done` is stored late and that an owner past the barrier
knows the runner has left (`DoneMeansRan`), that ownership moves to the runner
exactly when the detacher said so (`DetachDecided`), the number of deletes as a
function of the two program counters (`FreesCounted`) and where the exception is
(`ExceptionMoved`). `RunnerFrame` and `OwnerFrame` say that a step on one task
leaves the others alone; `RunnerKeepsInv` and `OwnerKeepsInv` go through the
actions.

*Task pool.* The first half of `PoolProofs` proves the type invariant and sorts the steps of a
thread into what they do to queues and stacks: start a body, spawn, end a body,
clear the queues, go on in a call, or none of it (`StepOf`). The proofs that
follow have one case for each of these instead of one for each action. `PlacesOK`
says that no task is in two places, that what is in a place is spawned and not
done, and that the call that spawned or released a handle is behind its frame;
the contract of handles enters here, as `HandleAssumption`. From it follow that
a deleted handle is out of use (`FreedIsOver`) and, step by step, the
refinement of `TaskService`. `UrgentAhead` is inductive by itself, with a lemma on sequences for
each way in or out of a queue.

That awaits do not form a circle is shown with numbers that are not in the
program: `StartOrder` says that bodies can be numbered by when they started, so
that on a stack numbers fall towards the bottom, and what has been spawned by a
body has a higher one than it. The thread whose running body has the highest
number waits for nobody in the set. `AwaitsOwn` is the hypothesis that makes an awaited
body a later one; every program the runs use satisfies it, and so does all the
compiler generates. Without it the property fails, see below.

What g_pool points to runs, however clients make and stop the pool: a thread inside the
lifecycle functions holds their mutex alone and with `gpool` null, and what it is about to
publish runs (`LifeOK`, `PublishedPoolRuns`); with `HandlesOutliveUses` that is `NothingDangles`. What was loaded from it a moment ago is another matter.
Tasks are lost when the pool is cleared and threads dangle when it is deleted,
so the other two properties depend on when it is stopped. `QuietStop` says that while
a thread stops the workers or joins them no thread is between its load of `g_pool` and its
use of it; as long as that holds, no null or deleted pool is used (`UsesEndFirst`; `pool_snapshot_deleted` shows
that it cannot do without). `OrderlyStop` adds that every task
spawned is done; as long as that holds, no task is lost (`TasksAreKept`). `StopsAreOrderly`
derives it for programs that fork, join and then stop the pool (`ForkJoins`: one
client makes all the calls, and every body, however it ends, has awaited what it
spawned), or never stop it (`NeverStops`): `JoinsOK` keeps for each frame that a body which
is over has no child that is not. Three of the four programs of `pool` fork and
join, the other one never stops; the program of `pool_shutdown_hangs` does
neither, which is what that run is about.

*Adaptive monitor.* The monitor commits a finished compile without looking at
the budget again. `IInv` says why that is sound: an entry in flight
(`SPECIALIZING`) holds the future, still has budget left, and cannot be
committed by a forcer, so its count of versions stands still until the monitor
commits (`EntryOK`). `LoadedFirst` ties registration to the pointers, and
`LiveMatchesState` is a conjunct of its own. `MonitoredOK` treats a pass of the
monitor over one entry, `TickKeepsInv` the pass over all of them,
`ForceKeepsInv` and `OtherStepsKeepInv` the rest. The counter of live pipelines
needs no more: a pass adds to it and takes from it as often as entries become
live and stop being so, which is a statement about the cardinalities of three
sets that the pass splits the entries into.

*Loop partition.* That the ranges cover the iterations once is arithmetic once
one knows two things, which `IInv` keeps: there is at least one part and there
are no more parts than iterations (`SplitOK`, from `NumPartsBounded`), and each
range in the argument structures is the one the division gives (`RangesOK`).
`RangesMeet` shows that each range ends where the next begins, `RangesCover`
and `RangesDisjoint` follow from it.

That the loop computes what it computes serially rests on what the legality
test of `Candidate` leaves (`FitCode`): in a plain loop that is taken, an
iteration stores to its own cell only, reads no memory that is stored to, and
uses the carried value only to make the next one. So what it stores and by what
it raises the carried value depend on its number alone (`IterateEffect`;
`StoredIn` and `Gained` take them from a run on empty memory). `WorkInv` says
that a worker has the reduction over its iterations so far as its partial result
(`WorkedBy`), and that memory holds what the iterations run so far store, in
whatever order they ran (`Stored`). Addition and multiplication are associative
modulo any word (`ApplyFacts`), so combining the parts in order from the identity, and
with the initial value once, is the reduction over all of them (`CarriedMeets`,
`CombinedIs`), which is what the serial loop carries (`SerialIs`).

*Stages.* Bodies are made by folds over the groups and their stages, so
`FoldLemmas` first says what a fold is: there is a walk through the sequence that
starts at the base, takes one step for each element and ends at the fold
(`FoldIs`); what the steps keep then holds at its end, by induction over the
number of steps. `Picks` says of a filtered list that it has the members asked
for at increasing places, and no others.

What a body keeps while it is generated and made parallel, up to the group that is
next, is `BodyOk`: it ends with its only return; every operand is there where it is
used; identities name stages, and every stage is called or was made a task; calls and
tasks stand in the order of the levels of their stages; and what is spawned is
awaited by the join that follows the spawns of its group at once (`Joined`). A group that is parallelized moves its calls to the place of the
first one. Operands stay in because `OperandsReady` has looked at them there, and
levels stay in order because `Candidates` are of one group only and what stands between
the calls of a group is of the same level; this is where the mutant
`Candidates_AllStages` fails.

When the body is called, the tasks there are were spawned before `pos`, what was joined
is done without an exception, and calls before `pos` have returned (`Carried`). What
is done has run (`Outcome`), and what has run or was spawned has everything
upstream of it behind it (`Ordered`): an edge leads to a higher level, and
what is of a lower level stands before `pos`, so that it was called or joined. A pipeline is left by its
return, by an exception of a call, with nothing before it that is not joined, or
by the await, which waits for all tasks of its group. `FrameOutlivesTasks` is the last
conjunct of `Inv`, `EdgesOrder` follows from `Ordered`. The
assumption on the constants, `StageAssumption`, is what the analysis of the DAG promises: stages
are in one group each and edges lead to later groups; a body
written by hand is one block in SSA form, which defines every value once and returns at its end, and calls
the stages group by group. `checkStageOrdering` asks
the latter of its source (`FnBlocks`); a body whose calls are emitted in another
order breaks edges before any of them is parallel, and is left out. TLC evaluates it for
the pipelines of `fork_join`.

That the parallel body does what the serial one does relates two executions of two
bodies, of which only one is in the model's steps. What they have in common is what the
body means, whatever throws: its instructions are equations between
values, and a body that defines its values before it uses them (`Plain`) has exactly one
kind of solution `D` (`Denotes`, `Solves`); the bodies that are given are plain
(`HandMadePlain`), and so are those that are generated (`GeneratedPlain`). `Woven` says where
each instruction of the serial body is in the parallel one: at one place, as itself or as
a spawn, with the fetch of the result after it; only spawns overtake others, and none
another spawn. Each group that is parallelized keeps that (`WovenMore`). So an execution of either body is
described by the same `D` (`Good`): the values and the slots that are there are those of
`D` (`Knows`, `Holds`), every task was given the arguments that `D` gives its call and has the result that goes
with them (`Told`), and the log has the calls that are over, each once and
with its term (`Logs`). The serial execution is a fold, which keeps that as the steps do
(`SerialWalks`, `SerialEndIs`); `SerialInv` says it of the parallel one. At the return
everything was called or joined, in both, so results and logs are those of `D`
(`AfterReturn`). If a call throws, or the join, which throws for the first of its tasks that
threw, then the serial body throws as well, and the same exception if no stage stays a call
that tasks have overtaken (`TurnsBefore`, `AfterThrow`, `AwaitThrows`). None of this holds
once a task's stage returns through sret (`Sretted`), the case that `stage_result_lost` is about: there the load of the serial body
finds nothing in its slot.

*Small runtimes.* Containment: a violation that is recorded finds the handler
registered or its thread about to register it. Loader: a table is in use only
after the one load has ended, and a failed load leaves no pointer behind. Spans:
each frame on a stack belongs to an open span at least as far down, and what was
not disturbed by init or shutdown is at its very place. Arena: `Aligned`
and `Needed` compute modulo the word; `NeedsFacts` shows that what the tests of
the allocator let pass did not wrap, so that the padding leads to an aligned
offset and offset and size stay in the block; the rest is that offsets only grow
until the reset. That the used bytes of the blocks cover all that was given out
(`UsedCovers`) is a statement about two sums, one over blocks and one over
pieces; each step raises the first by at least what it adds to the second.

Cost samples: `CostInv` has four parts. The registry holds the maps of the
threads that are enrolled and alive, each once (`RegistryOK`), and a thread that is
not enrolled has no samples (`PlaceOK`), so that leaving it out of an average
changes nothing. The begins of the calls that are open lie among the pending
begins in the order of nesting (`Opens`), which need not be next to each other,
since a call that unwound leaves its begin behind; as long as nothing of a name
unwound, what is pending of the name after a call belongs to a call inside it
(`OnlyOpen`). So the search from the end in `cost_end` finds the begin of the
innermost call, and removing it leaves the others in order (`OpensEnd`). A
reader that walks the registry has the sums over its first places (`ReadUpto`),
which the mutex protects until the walk is over (`AllRead`).

*Build.* `BuildOK` is the type of the module between two steps with what
each step may rely on: uses stay in the module, names are of their entries, the
mapping holds addresses that were right when it was made. `ModuleClosed`
is a conjunct of it and needs of each pass only what it removes. That the table of exports is right follows from
where its addresses come from. The other two go through all steps. `Rooted`
follows the stages that the embedded module leaves open: after their promotion they
are external, and from there on nothing but `TopoFlattenPass` makes them local
again. `HiddenOK` follows the internal functions: they are local and
marked for inlining from the visibility pass on (`Shaded`), and once the module was
swept, one that is left is taken or on a cycle of calls (`Unseen`). The lemmas
below them say what `Closure`, `Inlined`, `Swept` and `Replaced` compute: a
closure is the least set that holds the roots and is closed (`ClosureHolds`,
`ClosureCloses`, `ClosureLeast`), inlining keeps a cycle of calls a cycle
(`CycleInlined`), sweeping keeps what external functions lead to, moving renames uses
one to one.

Two things came out of the proofs of the build. A stage of a pipeline can be a pipeline itself;
if its SoA clone replaces it, the clone is local and the engine does not find it,
an exception `ExternalStagesResolve` did not name and the instances do not
contain. And guards of a CASE that overlapped had the first one meant, where
TLA+ leaves the choice open; they are IFs now.

*Specialization.* Two requests meet in the engine, the counter and the table of
libraries only, and all three only grow (`Grows`): what one request has found
there stays, whatever step the other takes (`GrowsKeeps`). `RequestOK` says of
one request what is true between its steps: the body it carries is the one of
its own pipeline and context, its number is out of the counter, and its library, once
added, holds its body. Numbers are taken in one step, so no two requests
have the same (`Unique`); the number is part of the name, so that adding a
library never meets another (`NameIsNew`), which the mutant that reads the counter twice
breaks. What a body looks like is a statement about a fold over the nodes: an argument
is an output only if `Upstream` found it over an edge that was kept, from a node called
before (`MatchFinds`, `ArgsFound`, `EmitStays`); what is called but is no source has an edge
from something called, since it was reached over one (`ReachedFrom`,
`RemadeRuns`). Without constraints all edges are kept, so the body is the one made ahead
(`UnprunedIsAhead`), and it links exactly if the process has its stages; the stub of a
pipeline, which calls the placeholder, never does (`StubDoesNotLink`).

*Checks of logic blocks.* That the operations of a stage may run in any order is not
shown by exchanging neighbours. `Leaves` says outright what a set of calls leaves
behind: the values they have as written, and in each global the value of the last one of them
that writes it. A call is `Ready` for a set of calls if what it depends on, as
written before it, is in the set, and nothing that comes after it is: the calls whose values it
takes and those that write a global it reads or writes. The call then finds the same arguments
and globals as it did as written, and its value is the same term (`SameTerm`), so that one
more call leaves what the larger set leaves (`ReadyCall`), whether the calls come in the
order of the text (`WrittenLeaves`) or stage by stage (`RunOk`). What is left is that
the checks make the next call ready: two calls of one stage are a pair that
`checkStageParallelSafety` looks at (`SideBySide`), none of which takes the other's value or
writes what the other uses (`Independent`), and calls of different stages are in the
order of the text (`StagesInOrder`, `NextIsReady`). The proof did not go through for
calls of what no symbol is mapped to and the block does not declare: the checks pass over
them, so nothing says when they run. They are an exception that `Visible` did not name
and the instances did not contain; now they do both. `BlockAssumption` says that the blocks are
well formed: a value that is used is that of a call, and what only reads memory
writes no global.

*Signatures.* The comparison is by position, so what counts is where the parameters
stand. `CompiledIs` says it of every function the host compiler can make: first the
parameters no declaration lists, then one for each that it does, unless a class was
split. The heuristic for the object finds it exactly if it is there (the first half of
`Judged`, where both exceptions of `Compared` are needed), and position by position a type is
accepted for what it becomes (`ParameterMatches`, `ResultMatches`). Three exceptions
came out of the proof, and the instances now contain them: an object of a class
that is not declared, a class that is not declared where it is passed or returned as a scalar, and a
pointer to `void`. In return the verdicts on functions with other parameters hold in whatever
class either function is; `SignatureAssumption` says no more than that parameter lists
are sequences.

*Columns for arrays.* The invariant (`LayoutInv`) says where the running function finds each
field: `Sites` of the rewriting that was kept, `Homes` otherwise. Two fields are never in
one place, and none is in the words around the array (`HomesApart`, `KeptApart`,
`ColumnsApart`), so one access leaves the two memories as alike as they were
(`AccessKeeps`). That each access goes to the site of its field is where what the pass
relies on is used, and all of it: one length for all arrays of the struct makes the first type
that matches the one at hand (`OneArray`, `ForcedIs`), and one answer for all accesses to a field makes
its column the only copy in use (`CopiedIs`). The copies at entry and before a return
are `ScatterIs` and `GatherIs`; an exception needs that nothing was written.
`LayoutAssumption` says that an access is inside the array and that a wrapper a function
names is in its module.

*Indirections.* The invariant (`PointerInv`) counts operations: a reference count is the
number of increments that have run less that of decrements (`Exact`, over the pairs
of a function and a place, `OneMoreDid`), and a count that was read and not yet written back is
still what was read. The latter holds since whoever holds one runs alone: two functions that
run at once are of one stage of the flow (`NotAlone`), and one whose pairs lost
their atomicity has its stage to itself in some pipeline, hence in this one if the
pipelines agree. Without `Agreed` nothing of it is true, which is the first exception the property
names. That a direct call reaches what the virtual one did needs no invariant but a fact about tables
(`DirectIsRight`): for a class without a base whose instance functions are all virtual and
declared, the view of the pass and the table of the compiler pick the same members. For the
proof the lineage of a class is a sequence and its table a fold over it, where both were
recursive functions.

The assumptions on constants are those the code justifies: `AdaptiveAssumption`
(numbers are naturals, ratios are fractions with positive parts, finitely many
pipelines), `LoopAssumption` (chunk size, limit and word are positive; the array has a cell
for each iteration, and a value is carried when an operation makes the next one), `PoolAssumption` (at least one worker, calls are well formed, and a body
does not stop the pool it runs on), `HandleAssumption` (a handle is spawned by one
call and released by one, `parallel_rt.h:30-33`), `RuntimeAssumption` (sizes fit
in a word, threads are finitely many, a key is a sequence of names and not empty), `BlocksAssumption`, `AddressAssumption` and `InputAssumption` (a
program is made of declared entries and fits into the addresses there are), `JitAssumption` (edges and sources are of the nodes, as
the analysis that is embedded has them, and no process defines the placeholder), `BlockAssumption`, `SignatureAssumption`, `LayoutAssumption`,
`IndirectionAssumption` (functions are finitely many, pipelines are made of them, and a call is on a parameter there is). TLC
evaluates them in every run.

What a recursive function computes can be proved although induction schemes
cannot be instantiated: two lemmas, that a set of naturals which is not empty has a
least member (`NatMin`) and that one which holds 0 and the successor of each member
is `Nat` (`AllNumbers`), take a set where a scheme takes a formula. `AllSubsets`
does the same for the subsets of a finite set; with it, `SumAdds` shows that the sum
of a function over a finite set, a fold in the library, adds one value after the other
in whatever order, from which follow the facts about sums that the arena and
the cost samples need.

Only model-checked: of `MCCompiler`, the invariants of `Lifter`, `LiftCode` and `ArenaPass`,
which use RECURSIVE operators, which the prover does not take. Out of its reach is liveness,
since it has no ENABLED.

## What the code does differently

Seven places where the code does something else than the repository says. Each
has a run in which TLC finds a counterexample, and an entry under `findings`.

1. `pool_shutdown_hangs`: `shutdown()` clears `g_pool` before it joins the
   workers, so a body that awaits its child can no longer help, and join waits
   for a body that waits for a queued child (`topo_parallel.cpp:366`).
2. `adaptive_verify_stuck`: only the AOT path is measured, so VERIFYING waits
   for ever for a sample of the JIT path (`topo_adaptive.cpp:297`).
3. `stage_result_lost`: a parallelized stage that returns through sret leaves its
   result in the task's buffer, and the load emitted for the serial call reads the
   slot it no longer writes (`TopoParallelPass.cpp:534`,
   `PipelineCodeGenPass.cpp:231-234`).
4. `loop_body_lost`: the worker of a partitioned loop is cloned from all blocks
   but the header, and a loop of one block, which the gate accepts, has no other
   (`LoopParallelizePass.cpp:624`), where "the worker executes: for (i = start;
   i < end; i++) { original_body }" (line 506).
5. `arena_closed_twice`: without a declared end the arena is destroyed in landing
   pads and before returns; the owner that catches an exception and returns goes
   through both (`LifetimeArenaPass.cpp:486`, where the comment speaks of "exactly
   one destroy").
6. `jit_stage_dropped`: the edges into a cold stage are pruned and the engine then
   drops the stage, where `topo_adaptive.cpp:126-127` says that it is inlined
   sequentially (`topo_jit_engine.cpp:491`).
7. `pool_snapshot_deleted`: an awaiter on a client thread uses its copy of `g_pool`
   after another client's shutdown deleted the pool (`topo_parallel.cpp:524`), where the
   comment above says that "the local copy stays valid" (517-522). Joining the workers
   does not wait for a client that helps. A rendezvous with the users of the pool is
   left to the callers; `QuietStop` says which.

Smaller ones, met on the way and modelled as the code has them:

* a spawn loads `g_pool` after `ensure_init` has let go of the mutex, and finds null when
  a shutdown or an init comes in between (`topo_parallel.cpp:472`, `BadPool`), where the
  comment says "it is non-null here" (469-471);
* a detached task still queued at shutdown is neither run nor freed
  (`topo_parallel.cpp:163, 305`), while `parallel_rt.h:59-60` and
  `ParallelRuntimeTest.cpp:647-649` speak of fire-and-forget tasks completing;
* "higher-priority tasks are dequeued first", but urgent tasks are pushed to the
  front one over the other, so the latest goes first, and Critical does not pass High;
* `topo_arena_create` returns a handle although its first block failed
  (`arena_rt.h:36`);
* `buildConstraintsFromCosts` looks for `<pipeline>::<stage>`, `TopoParallelPass`
  writes the simple name;
* `topo_observe_init` makes tracing live before it stores the rate;
* the end of a span is inserted after the last call of a function only, so a call
  that throws leaves its entry on the stack;
* `TopoFlattenPass` looks into functions that an earlier pass may have erased; the
  comment at `PassPipeline.cpp:271-273` says they are no longer in the mapping, but
  nothing updates the mapping;
* `PipelineCodeGenPass` returns -1 for a failure and the value is taken for a count;
* after obfuscation the second verifier finds hardly more than the public functions;
* `SymbolMapper`'s suffix match walks an unordered map;
* the automatic benchmark stops at the first pipeline that gains and applies the
  variant to the whole module, with a baseline measured before earlier passes;
* a forced commit on a VERIFYING pipeline counts it a second time as active
  (`topo_adaptive.cpp:471`, where only ACTIVE counts as already live);
* a stage whose name maps to no function is skipped, and its consumer takes a
  parameter of the pipeline in its place (`PipelineCodeGenPass.cpp:137, 195-205`);
* a source stage that returns through sret is given a parameter of the pipeline as
  the address of its result (`matchSourceNodeArgs`);
* `TopoParallelPass` takes the calls of a group for straight-line code: those a
  hand-written body makes under a condition would all be made at the first;
* a loop that only stores stays eligible when iterations store to the same cell,
  and the last writer may then be another (`hasCrossIterationMemoryDeps` looks for
  loads together with stores); `Plain` excludes such loops;
* a reduction whose operand is the accumulator itself (`s = s * s`) passes
  `detectReduction`; excluded by `Plain` as well;
* whatever a header does besides counting and testing is dropped with it;
* the induction variable that leaves a bottom-tested loop is replaced by the trip
  count, one more than its last value; the exit value is compared for loops that
  test at the top only;
* when a stage that stays a call is overtaken by tasks, another exception than
  the serial one may surface;
* the SoA clone that replaces a public pipeline keeps its internal linkage, so the
  pipeline is no longer exported (`PassPipeline.cpp:389`, `DataLayoutPass.cpp:1434`);
* a handle awaited by a task that did not spawn it breaks the start order that helping
  relies on (`topo_parallel.cpp:526`); `NoAwaitCycle` is checked for fork-join
  programs, the only ones the compiler makes;
* `topo_adaptive_init` called while `shutdown` has dropped the mutex and not joined
  yet assigns to a joinable thread (`topo_adaptive.cpp:409`); in the model one thread
  calls both;
* a function created by a pass at the address of an erased one passes for it in the
  set of addresses of `SymbolObfuscator.cpp:58`, and gets its hash;
* a private stage promoted for the engine is made local and removable again by
  `TopoFlattenPass` (`TopoFlattenPass.cpp:37`, `IREmbed.cpp:142`).

What a pass or a check takes for granted of the program and does not look at is
named in an operator of its own, right above the property that relies on it.

*Columns for arrays* (`Relied` of `DataLayout`). The copy is right only if all accesses to a
field are in a form that is recognized, or none: a computed field, a merged
pointer, a callee or a second parameter for the same array goes on using the
array, and the copy back at the end overwrites what it wrote. A field 0 that is a
pointer is written to the column and read from the array. A load that spans two
fields is rewritten as field 0. An exception leaves without the copy back and
without the release of the columns. With no class declared for the struct the
first wrapper of the module is taken, of whatever length. In place, two arrays of
one struct with different lengths get the first one's, an array inside a larger
object is laid out over what comes before it (two of the four patterns walk to the
allocation and two do not, where the comment at `DataLayoutPass.cpp:1561-1570` wants "the SAME
base address"), and constant initial values stay in the old order.

*Lifetime arenas.* Memory used after a landing pad is used after the arena; the
arena pointer is never set to null; a start call on some paths only, functions of
the scope that keep or free their parameter, and sites behind one that escapes are
not seen; an exception without a landing pad leaks the arena.

*Indirections.* A function alone in its stage in one pipeline loses the atomicity
of its counts also where another pipeline runs it beside others, and other threads
are not considered; a class counts as final though classes derive from it; slots ignore those
of the base, destructors and non-virtual members; calls on a member of a parameter
are resolved in the parameter's class (`IndirectionPass.cpp:986`).

*Decompiler.* A second call that may unwind in one try gets an inner try with an
empty handler, where `LLVMLifter.h:160-163` excludes "a wrong or empty TryCatch"; `x = a - x` is compacted to
`x -= a`, and temporaries used later are dropped; shifts and exclusive-or become
additions, unsigned operations signed ones; of the header of a loop only the
condition is kept, whatever its polarity; `continue` skips the code of the latch;
arms that share a block leave it to the first; cleanup code is also run without an
exception; the idiomatic level lifts as the direct one.

*JIT engine.* What is embedded are declarations, so a specialized pipeline runs its
stages one after the other; a stage that has a body gets a wrapper that is dropped
with all other bodies, and the request fails; a failure of `PipelineCodeGenPass` is ignored;
a pruned edge moves the other inputs of its stage; narrowed returns and costs
reach no pass; a failed lookup leaves its dylib behind.

*Checks of logic blocks.* Values that pass through locals, globals used further
down, calls of what no symbol is mapped to, and operations declared or called
twice are not seen; calls without debug location sort first.

*Signatures.* A static member function whose first parameter is a pointer loses it
as the object; a class passed in two registers counts as two parameters; an alias
that leads to itself over another one recurses for ever; a member function
with an object is compared with the object as its first parameter if its class is not
declared; a class that is not declared does not match when it is passed as a scalar; a pointer to
`void` is compared as `void`, since the name is tested before the modifier
(`Verifier.cpp:222-235`).

## What is not modelled

Pass events and pass reports (they format what others decided), `topo-prof`,
the profile (queries of the target description), benchmarks (timings; models that
meet their decision leave it open), the instrumentation passes, names and Rust
boxes the decompiler recovers, the checks of const consistency, class members,
instantiations and constraints, the fallbacks of `SymbolMapper`, the
transforms 10a, 10c, 10d and 10f of the indirection pass, the per-node copy of
`DataLayoutPass::run` (which only its unit tests call), the metadata that the first phase of `LoopParallelizePass` puts on loops,
reassociation of floating point, embedding sections and metadata, platform linkers. Of the components
marked `partly` the note in `PROJECT.json` says which operations are missing. The
C++ memory model is not modelled: atomics and mutexes are sequentially
consistent, which for the handle is what the mutex gives. Compilers, LLVM's own
passes, malloc and the dynamic loader are external: they may do whatever their
interface allows.

## The plan

Next to be modelled, each as a further focus of a composite so that a run stays
one question asked of the system:

1. the balance of the calls that the span, containment, cost and dispatch passes
   insert, on every path that returns or unwinds, against `Observe` and `CostSamples`;
2. `SymbolMapper` with its fallbacks, and the choice of a winner by the benchmarks;
3. the remaining checks of `Verifier`; the composition of `JitEngine` with the
   compiles of `AdaptiveMonitor`.

