------------------------------ MODULE Transform ------------------------------
(***************************************************************************)
(* The LLVM transform backend: LLVMTransformBackend::optimize, the order   *)
(* of PassPipeline::run and the steps of topo-build-llvm-cpp around them,  *)
(* at the grain of whole functions: which exist, under which name and      *)
(* linkage, who uses whom, and where the symbol mapping points.            *)
(*                                                                         *)
(* A function object lives at an address.  The mapping made before the     *)
(* passes holds addresses; passes erase and make objects and never update  *)
(* it, and an address that was freed may be given to a new object.  Passes *)
(* that rewrite bodies only (containment, return specialization, prefetch, *)
(* indirection, dispatch, spans, lifetime arenas) leave this state alone   *)
(* and have no action here.                                                *)
(*                                                                         *)
(* External: the visibility policy, LLVM's inliners and dead code          *)
(* elimination, the outcome of the benchmarks and of the verifier's checks *)
(* of signatures and edges.                                                *)
(***************************************************************************)
EXTENDS Naturals, FiniteSets, Functions, FiniteSetsExt

CONSTANTS Entries,    \* qualified names declared in .topo
          Pipelines,  \* those with a pipeline logic block
          Stages,     \* calledFunctions of each pipeline
          Addrs,      \* addresses the allocator hands out
          Programs,   \* what may be compiled: [vis, defined, calls, refs]
          Configs     \* [opt, embed, aggressive, layout, parallel, debug, hint, verify]

Main == "main"
Null == "null"
Gone == [gone |-> TRUE]

\* What TopoParallelPass makes bears no declared name (TopoParallelPass.cpp:183).
ASSUME BlocksAssumption ==
  /\ Pipelines \subseteq Entries /\ Stages \in [Pipelines -> SUBSET Entries]
  /\ "wrapper" \notin Entries

\* A program fits into the addresses there are.
ASSUME AddressAssumption ==
  IsFiniteSet(Addrs) /\ Null \notin Addrs /\ Injection(Entries \cup {Main}, Addrs) # {}

ASSUME InputAssumption ==
  /\ Programs \subseteq [vis : [Entries -> {"public", "protected", "private", "internal", "ignore"}],
                         defined : SUBSET Entries,
                         calls : [Entries \cup {Main} -> SUBSET (Entries \cup {Main})],
                         refs : [Entries \cup {Main} -> SUBSET (Entries \cup {Main})]]
  /\ Configs \subseteq [opt : Nat, embed : BOOLEAN, aggressive : BOOLEAN, layout : BOOLEAN,
                        parallel : BOOLEAN, debug : BOOLEAN, hint : BOOLEAN,
                        verify : {"strict", "warn"}]

Orig(e)   == <<"_Z", e>>
Prefix(e) == <<"__topo_internal__Z", e>>
Hash(e)   == <<"_Zt", e>>
Wrap(e)   == <<".topo_parallel_wrap", e>>

VARIABLES pc, vis, cfg,
          fn,        \* address -> function object, or Gone
          mapping,   \* mapping_.matched: entry -> address, or Null
          snapshot,  \* names the embedded module leaves to the host binary
          jit,       \* jitFuncPtrs: original name and address
          exports,   \* jitExports: original and current name
          soaWon     \* history: a pipeline was replaced by its SoA clone
vars == <<pc, vis, cfg, fn, mapping, snapshot, jit, exports, soaWon>>

-----------------------------------------------------------------------------
\* Modules, as functions from addresses.  An object's uses are its direct
\* calls and the functions whose address it takes.

Alive(f)   == {a \in Addrs : f[a] # Gone}
Unused(f)  == {a \in Addrs : f[a] = Gone}
Uses(f, a) == f[a].calls \cup f[a].refs
Users(f, a)   == {b \in Alive(f) : a \in Uses(f, b)}
Callers(f, a) == {b \in Alive(f) : a \in f[b].calls}
Taken(f, a)   == \E b \in Alive(f) : a \in f[b].refs
Local(f, a)   == f[a].link = "internal"
Named(f, n)   == {a \in Alive(f) : f[a].name = n}
Erase(f, S)   == [a \in Addrs |-> IF a \in S THEN Gone ELSE f[a]]

\* Where next leads from roots, in any number of steps.
Edges(next)     == UNION {{a} \X next[a] : a \in Addrs}
After(edges, S) == {e[2] : e \in {x \in edges : x[1] \in S}}
Closure(next, roots) ==
  LET edges == Edges(next)
      within[n \in 0 .. Cardinality(Addrs)] ==
        IF n = 0 THEN roots ELSE LET w == within[n - 1] IN w \cup After(edges, w)
  IN within[Cardinality(Addrs)]

\* What a calls, through members of S at any depth.
Through(f, a, S) ==
  Closure([b \in Addrs |-> IF b \in S THEN f[b].calls ELSE {}], f[a].calls)

Recursive(f, a) == a \in Through(f, a, Alive(f))

\* LLVM inlines the functions of S wherever they are called directly.
Inlined(f, S) ==
  [a \in Addrs |->
     IF f[a] = Gone THEN Gone
     ELSE LET into == Through(f, a, S)
          IN [f[a] EXCEPT !.calls = into \ S,
                          !.refs = @ \cup UNION {f[b].refs : b \in into \cap S}]]

\* LLVM drops the local functions nothing external leads to.
Swept(f) ==
  Erase(f, Addrs \ Closure([a \in Addrs |-> IF f[a] = Gone THEN {} ELSE Uses(f, a)],
                           {a \in Alive(f) : ~ Local(f, a)}))

\* Objects are replaced by others at to[a]: every use follows, the name and the
\* place in the module too (replaceAllUsesWith, takeName, eraseFromParent).
Replaced(f, to, link) ==
  LET moved(S) == {IF a \in DOMAIN to THEN to[a] ELSE a : a \in S}
      fixed(o) == [o EXCEPT !.calls = moved(@), !.refs = moved(@)]
  IN [x \in Addrs |->
        IF x \in Range(to)
        THEN LET a == CHOOSE b \in DOMAIN to : to[b] = x
             IN [fixed(f[a]) EXCEPT !.link = link]
        ELSE IF x \in DOMAIN to \/ f[x] = Gone THEN Gone ELSE fixed(f[x])]

-----------------------------------------------------------------------------
\* demangle + lookup.  A name that was changed demangles to nothing declared.
Mapped(f) ==
  [e \in Entries |-> IF Named(f, Orig(e)) = {} THEN Null
                     ELSE CHOOSE a \in Named(f, Orig(e)) : TRUE]

AllStages == UNION {Stages[p] : p \in Pipelines}
At(S) == {mapping[e] : e \in S} \ {Null}
EntryAt(a) == {e \in Entries : mapping[e] = a}
OfVisibility(S) == {e \in Entries : vis[e] \in S}

Home == CHOOSE h \in Injection(Entries \cup {Main}, Addrs) : TRUE

\* The host compiler's modules, linked.  Pipelines are stubs.
InitFrom(P, C) ==
  /\ \E program \in P, c \in C :
       LET there == program.defined \cup {Main}
           home == [e \in there |-> Home[e]]
           places(S) == {home[e] : e \in S \cap there}
           object(e) == [of |-> e, name |-> Orig(e), link |-> "external", inl |-> "none",
                         stub |-> e \in Pipelines, calls |-> places(program.calls[e]),
                         refs |-> places(program.refs[e])]
       IN /\ fn = [a \in Addrs |-> IF a \in Range(home)
                                   THEN object(CHOOSE e \in there : home[e] = a) ELSE Gone]
          /\ vis = program.vis /\ cfg = c
  /\ pc = "map" /\ mapping = [e \in Entries |-> Null]
  /\ snapshot = {} /\ jit = {} /\ exports = {} /\ soaWon = FALSE
Init == InitFrom(Programs, Configs)

\* One step of the fixed order.
AtStep(here, there) ==
  /\ pc = here /\ pc' = there /\ UNCHANGED <<vis, cfg>>

MapSymbols ==
  /\ AtStep("map", "verify")
  /\ mapping' = Mapped(fn) /\ UNCHANGED <<fn, snapshot, jit, exports, soaWon>>

\* Verifier::verify before the passes: a declared public function must be there,
\* and its other checks have any outcome.
PublicMissing == \E e \in OfVisibility({"public"}) : mapping[e] = Null
Verify ==
  /\ \/ AtStep("verify", "visibility") /\ (cfg.verify = "strict" => ~ PublicMissing)
     \/ AtStep("verify", "failed") /\ cfg.verify = "strict"
  /\ UNCHANGED <<fn, mapping, snapshot, jit, exports, soaWon>>

\* VisibilityApplier::apply, under the policy: what is not public or ignored
\* becomes local, internal functions are to be inlined, and under --debug-internal
\* they are renamed.
Applied(o, v) ==
  [o EXCEPT !.link = IF v \in {"protected", "private", "internal"} THEN "internal" ELSE @,
            !.inl  = CASE v = "internal" -> "always"
                       [] v = "private" /\ cfg.hint -> "hint"
                       [] OTHER -> @,
            !.name = IF v = "internal" /\ cfg.debug THEN Prefix(o.of) ELSE @]
ApplyVisibility ==
  /\ AtStep("visibility", "embed")
  /\ fn' = [a \in Addrs |-> IF EntryAt(a) = {} THEN fn[a]
                            ELSE Applied(fn[a], vis[CHOOSE e \in EntryAt(a) : TRUE])]
  /\ UNCHANGED <<mapping, snapshot, jit, exports, soaWon>>

\* serializePreCodegenIR keeps the stubs and declares the stages; then the stages
\* are promoted so that the host binary can resolve them.
Embed_NotPromoted ==
  /\ AtStep("embed", IF cfg.opt = 0 THEN "collect" ELSE "codegen")
  /\ snapshot' = IF cfg.embed
                 THEN {[of |-> fn[a].of, name |-> fn[a].name] : a \in At(AllStages)} ELSE {}
  /\ UNCHANGED <<fn, mapping, jit, exports, soaWon>>
Embed ==
  /\ AtStep("embed", IF cfg.opt = 0 THEN "collect" ELSE "codegen")
  /\ IF cfg.embed
     THEN /\ snapshot' = {[of |-> fn[a].of, name |-> fn[a].name] : a \in At(AllStages)}
          /\ fn' = [a \in Addrs |-> IF a \in At(AllStages)
                                    THEN [fn[a] EXCEPT !.link = "external"] ELSE fn[a]]
     ELSE UNCHANGED <<snapshot, fn>>
  /\ UNCHANGED <<mapping, jit, exports, soaWon>>

\* PipelineCodeGenPass: a body that calls the stages replaces each stub.
CodeGen ==
  /\ AtStep("codegen", "inline")
  /\ fn' = [a \in Addrs |->
              IF a \in At(Pipelines) /\ fn[a].stub
              THEN LET p == CHOOSE q \in Pipelines : mapping[q] = a
                   IN [fn[a] EXCEPT !.stub = FALSE, !.calls = At(Stages[p])]
              ELSE fn[a]]
  /\ UNCHANGED <<mapping, snapshot, jit, exports, soaWon>>

\* A node whose arguments have no source: the body was deleted, the pass returns
\* -1, PassPipeline takes it for a count and goes on with a malformed function.
CodeGenFails ==
  /\ AtStep("codegen", "malformed") /\ \E a \in At(Pipelines) : fn[a].stub
  /\ UNCHANGED <<fn, mapping, snapshot, jit, exports, soaWon>>
-----------------------------------------------------------------------------
\* TopoInlinePass.  Step 1 by visibility and callers, step 2 for what pipelines
\* call.  (One call site per caller; the DFS finds the cycles of two or less.)
Hinted(a, v) ==
  IF fn[a].inl # "none" THEN fn[a].inl
  ELSE CASE v = "internal" -> "always"
         [] v = "private" -> IF Cardinality(Callers(fn, a)) <= 1 THEN "always" ELSE "hint"
         [] v = "protected" /\ cfg.opt >= 2 -> "hint"
         [] OTHER -> "none"
FunctorCallees == UNION {Through(fn, a, Alive(fn)) : a \in At(Pipelines)}
TopoInline ==
  /\ AtStep("inline", "always")
  /\ fn' = [a \in Addrs |->
              IF EntryAt(a) = {} THEN fn[a]
              ELSE LET v == vis[CHOOSE e \in EntryAt(a) : TRUE]
                   IN [fn[a] EXCEPT !.inl =
                         IF /\ a \in FunctorCallees /\ ~ Recursive(fn, a)
                            /\ v \in {"private", "internal"}
                         THEN "always" ELSE Hinted(a, v)]]
  /\ UNCHANGED <<mapping, snapshot, jit, exports, soaWon>>

\* AlwaysInlinerPass erases what is local and has no use left.
AlwaysInline_Taken ==
  /\ AtStep("always", "layout")
  /\ LET S == {a \in Alive(fn) : fn[a].inl = "always" /\ ~ Recursive(fn, a)}
     IN fn' = Erase(Inlined(fn, S), {a \in S : Local(fn, a)})
  /\ UNCHANGED <<mapping, snapshot, jit, exports, soaWon>>
AlwaysInline ==
  /\ AtStep("always", "layout")
  /\ LET S == {a \in Alive(fn) : fn[a].inl = "always" /\ ~ Recursive(fn, a)}
         f == Inlined(fn, S)
     IN fn' = Erase(f, {a \in S : Local(f, a) /\ Users(f, a) = {}})
  /\ UNCHANGED <<mapping, snapshot, jit, exports, soaWon>>

\* DataLayoutPass in auto mode: each pipeline whose SoA clone wins its benchmark
\* is replaced by the clone.
Layout ==
  /\ AtStep("layout", "parallel")
  /\ \E S \in SUBSET (At(Pipelines) \cap Alive(fn)) :
       /\ S # {} => cfg.layout
       /\ \E to \in Injection(S, Unused(fn)) : fn' = Replaced(fn, to, "internal")
       /\ soaWon' = (S # {})
  /\ UNCHANGED <<mapping, snapshot, jit, exports>>

\* TopoParallelPass: the calls of one stage group become spawned wrappers.
Spawning(p, S, to) ==
  [x \in Addrs |->
     IF x \in Range(to)
     THEN LET a == CHOOSE b \in S : to[b] = x
          IN [of |-> "wrapper", name |-> Wrap(fn[a].of), stub |-> FALSE,
              link |-> "internal", inl |-> "none", calls |-> {a}, refs |-> {}]
     ELSE IF x = p
     THEN [fn[p] EXCEPT !.calls = @ \ S, !.refs = @ \cup Range(to)]
     ELSE fn[x]]
Parallel ==
  /\ AtStep("parallel", "flatten")
  /\ \/ UNCHANGED fn
     \/ /\ cfg.parallel
        /\ \E p \in At(Pipelines) \cap Alive(fn) :
           \E S \in SUBSET (fn[p].calls \cap At(AllStages)) : S # {} /\
           \E to \in Injection(S, Unused(fn)) : fn' = Spawning(p, S, to)
  /\ UNCHANGED <<mapping, snapshot, jit, exports, soaWon>>

\* TopoFlattenPass: whatever function is at a removable entry's address now.
Removable == OfVisibility({"private"} \cup IF cfg.aggressive THEN {"protected"} ELSE {})
Flatten ==
  /\ AtStep("flatten", "standard")
  /\ fn' = [a \in Addrs |-> IF a \in At(Removable) \cap Alive(fn)
                            THEN [fn[a] EXCEPT !.link = "internal"] ELSE fn[a]]
  /\ UNCHANGED <<mapping, snapshot, jit, exports, soaWon>>

\* runStandardPipeline: LLVM inlines what it likes, drops what is dead, and may
\* replace a local function by one of another signature.
Standard ==
  /\ AtStep("standard", "collect")
  /\ LET able == {a \in Alive(fn) : ~ Recursive(fn, a)}
         must == {a \in able : fn[a].inl = "always"}
     IN \E S \in SUBSET able : must \subseteq S /\
          LET f == Swept(Inlined(fn, S))
          IN \/ fn' = f
             \/ \E a \in Alive(f) : /\ Local(f, a) /\ ~ Taken(f, a)
                                    /\ \E to \in Injection({a}, Unused(f)) :
                                         fn' = Replaced(f, to, "internal")
  /\ UNCHANGED <<mapping, snapshot, jit, exports, soaWon>>
-----------------------------------------------------------------------------
\* The functions an engine may ask for, found by their names before those change.
Collect ==
  /\ AtStep("collect", "obfuscate")
  /\ jit' = IF ~ cfg.embed THEN {}
            ELSE {[name |-> fn[a].name, at |-> a] :
                    a \in UNION {Named(fn, Orig(e)) : e \in AllStages \cup Pipelines}}
  /\ UNCHANGED <<fn, mapping, snapshot, exports, soaWon>>

\* SymbolObfuscator: every entry that is not public and whose address holds a
\* function gets its hash for a name.
Renamed_Public == {e \in Entries : mapping[e] \in Alive(fn)}
Renamed == {e \in Entries \ OfVisibility({"public"}) : mapping[e] \in Alive(fn)}
Obfuscate ==
  /\ AtStep("obfuscate", "promote")
  /\ fn' = [a \in Addrs |-> IF EntryAt(a) \cap Renamed = {} THEN fn[a]
                            ELSE [fn[a] EXCEPT !.name = Hash(CHOOSE e \in EntryAt(a) \cap Renamed : TRUE)]]
  /\ UNCHANGED <<mapping, snapshot, jit, exports, soaWon>>

Promote_OldNames ==
  /\ AtStep("promote", "postverify")
  /\ fn' = [a \in Addrs |-> IF \E j \in jit : j.at = a
                            THEN [fn[a] EXCEPT !.link = "external"] ELSE fn[a]]
  /\ exports' = {[original |-> j.name, current |-> j.name] : j \in jit}
  /\ UNCHANGED <<mapping, snapshot, jit, soaWon>>
Promote ==
  /\ AtStep("promote", "postverify")
  /\ fn' = [a \in Addrs |-> IF \E j \in jit : j.at = a
                            THEN [fn[a] EXCEPT !.link = "external"] ELSE fn[a]]
  /\ exports' = {[original |-> j.name, current |-> fn[j.at].name] : j \in jit}
  /\ UNCHANGED <<mapping, snapshot, jit, soaWon>>

\* The linkage the verifier expects of the entries it still finds by name.
Mismatched ==
  {e \in Entries :
     \E a \in Named(fn, Orig(e)) :
       CASE vis[e] = "public" -> Local(fn, a)
         [] vis[e] \in {"private", "protected", "internal"} -> ~ Local(fn, a)
         [] OTHER -> FALSE}
PostVerify ==
  /\ AtStep("postverify", IF cfg.verify = "strict" /\ Mismatched # {} THEN "failed" ELSE "written")
  /\ UNCHANGED <<fn, mapping, snapshot, jit, exports, soaWon>>

Over == {"failed", "malformed", "written"}
Finished == pc \in Over /\ UNCHANGED vars

Next == \/ MapSymbols \/ Verify \/ ApplyVisibility \/ Embed \/ CodeGen \/ CodeGenFails
        \/ TopoInline \/ AlwaysInline \/ Layout \/ Parallel \/ Flatten \/ Standard
        \/ Collect \/ Obfuscate \/ Promote \/ PostVerify \/ Finished
Spec == Init /\ [][Next]_vars
-----------------------------------------------------------------------------
\* No pass leaves a call or a pointer to a function it erased: the inliner's
\* erasures and the SoA replacement look at every use (PassPipeline.cpp:389-391).
ModuleClosed == \A a \in Alive(fn) : Uses(fn, a) \subseteq Alive(fn)

Exported(e) == \E a \in Named(fn, Orig(e)) : ~ Local(fn, a)
\* What .topo declares public is exported under its own name by the module that
\* is written, whatever was inlined, renamed, moved or erased on the way, unless
\* a pipeline was replaced by its SoA clone.
PublicExported ==
  pc = "written" /\ ~ soaWon => \A e \in OfVisibility({"public"}) : mapping[e] # Null => Exported(e)

\* An optimized binary holds no internal function, unless it is recursive, its
\* address is taken, or the engine needs it as a stage (TopoInlinePass.cpp:122).
InternalGone ==
  pc = "written" /\ cfg.opt > 0 =>
    \A a \in Alive(fn) :
      fn[a].of \in OfVisibility({"internal"}) =>
        \/ Recursive(fn, a) \/ Taken(fn, a)
        \/ cfg.embed /\ fn[a].of \in AllStages

\* The binary shows what .topo declares, no less and no more.
VisibilityKept == PublicExported /\ InternalGone

\* The table given to the linker leads from each original name to exactly one
\* function that the binary defines and exports (LLVMTransformBackend.cpp:177-185).
ExportsNameFunctions ==
  pc \in {"postverify", "written"} =>
    \A x \in exports : \E a \in Addrs : Named(fn, x.current) = {a} /\ ~ Local(fn, a)

Resolves(x) == \E y \in exports : y.original = x.name

\* At run time the engine resolves every stage that the embedded module leaves
\* open, except those TopoFlattenPass made removable after their promotion, those
\* that --debug-internal renamed before it was taken, and pipelines that are stages
\* of others, if an SoA clone replaced one.
ExternalStagesResolve ==
  pc = "written" =>
    \A x \in snapshot : \/ Resolves(x)
                        \/ cfg.opt > 0 /\ x.of \in Removable
                        \/ cfg.debug /\ vis[x.of] = "internal"
                        \/ soaWon /\ x.of \in Pipelines
=============================================================================
