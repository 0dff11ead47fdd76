------------------------------ MODULE JitEngine ------------------------------
(***************************************************************************)
(* Specialization of pipelines at run time: the constraints a caller or    *)
(* the adaptive monitor collects in a Context, what they do to the DAG     *)
(* that IREmbed left in the binary, the body the engine generates of it,   *)
(* and the OrcJIT that all requests share.                                 *)
(*                                                                         *)
(* A request runs on a thread of its own (std::async).  All of it but the  *)
(* creation of the engine and the last part, from the dylib to the lookup, *)
(* runs without a lock.                                                    *)
(*                                                                         *)
(* Types select arguments as in StageFlow; results by sret and fields of   *)
(* structs are left to that module.  Narrowed returns and costs reach the  *)
(* engine but no pass it runs reads them.                                  *)
(***************************************************************************)
EXTENDS Naturals, Sequences, SequencesExt, FiniteSets, FiniteSetsExt, Functions

CONSTANTS
  Binaries,  \* [pipes, calls, host, parallel, bitcode]; pipes: the logic blocks in the order of the table,
             \* each [name, nodes, edges, sources, terminal, params, ret, sig]; nodes in stage order,
             \* sig[n]: [params, ret]; calls[f]: what f calls before its stub is filled, for every function
             \* that has a body; host: the names that the process resolves
  Requests,
  Contexts,  \* what a caller prunes: sets of <<source, target>>, the source may be Wildcard
  Samples    \* costs of stages, as functions from nodes

None == "none"
Nothing == << >>  \* a null pointer
Wildcard == "*"
Placeholder == "pipeline_placeholder"

\* The analysis of a logic block: edges and sources are of its nodes, all of which have
\* a signature.
BlockOk(p) ==
  /\ p.nodes \in Seq(STRING) /\ p.params \in Seq(STRING) /\ p.sources \subseteq ToSet(p.nodes)
  /\ p.edges \in Seq(ToSet(p.nodes) \X ToSet(p.nodes))
  /\ \A n \in ToSet(p.nodes) : p.sig[n].params \in Seq(STRING)

\* The placeholder is declared and never defined.
ASSUME JitAssumption ==
  /\ None \notin Requests
  /\ \A b \in Binaries :
       b.pipes \in Seq(ToSet(b.pipes)) /\ Placeholder \notin b.host /\ \A p \in ToSet(b.pipes) : BlockOk(p)

-----------------------------------------------------------------------------
\* serializePreCodegenIR: the stubs and what they call keep their bodies; the other
\* stages are declarations.
Embedded(b) ==
  LET within[k \in 0 .. Cardinality(DOMAIN b.calls)] ==
        IF k = 0 THEN {p.name : p \in ToSet(b.pipes)} \cap DOMAIN b.calls
        ELSE within[k - 1] \cup (UNION {b.calls[f] : f \in within[k - 1]} \cap DOMAIN b.calls)
  IN within[Cardinality(DOMAIN b.calls)]

\* buildConstraintsFromCosts: a stage below a tenth of the mean is cold, and the
\* edges into it are pruned.
Cold(costs) == {n \in DOMAIN costs : 10 * costs[n] * Cardinality(DOMAIN costs) < FoldFunction(+, 0, costs)}
FromCosts(costs) == {<<Wildcard, n>> : n \in Cold(costs)}

\* applyConstraints, on every pipeline of the binary: the places of the edges it leaves.
Pruned(e, ctx) == \E c \in ctx : (c[1] = Wildcard \/ c[1] = e[1]) /\ (c[2] = Wildcard \/ c[2] = e[2])
Kept(p, ctx)   == {i \in DOMAIN p.edges : ~ Pruned(p.edges[i], ctx)}

\* The nodes that the sources still lead to; the others lose their stage.
Reachable(p, kept) ==
  LET within[k \in 0 .. Len(p.nodes)] ==
        IF k = 0 THEN p.sources
        ELSE within[k - 1] \cup {p.edges[i][2] : i \in {j \in kept : p.edges[j][1] \in within[k - 1]}}
  IN within[Len(p.nodes)]

-----------------------------------------------------------------------------
(* PipelineCodeGenPass on what is left.                                    *)
ParamValues(p) == [k \in DOMAIN p.params |-> [type |-> p.params[k], value |-> <<"param", k>>]]
Upstream(p, kept, outs, n) ==
  [i \in {j \in kept : p.edges[j][2] = n /\ p.edges[j][1] \in outs} |->
     [type |-> p.sig[p.edges[i][1]].ret, value |-> <<"out", p.edges[i][1]>>]]

\* Parameters in order: the first unused value of the type, or else the fallback.
Match(types, values, fallback) ==
  FoldLeft(LAMBDA m, i :
             LET free == {v \in DOMAIN values : values[v].type = types[i] /\ values[v].value \notin ToSet(m.args)}
             IN IF ~ m.ok THEN m
                ELSE IF free # {} THEN [m EXCEPT !.args = Append(@, values[Min(free)].value)]
                ELSE IF fallback[i] # {} THEN [m EXCEPT !.args = Append(@, <<"param", Min(fallback[i])>>)]
                ELSE [m EXCEPT !.ok = FALSE],
           [ok |-> TRUE, args |-> << >>], [i \in DOMAIN types |-> i])

Args(p, kept, outs, n) ==
  LET types == p.sig[n].params IN
    IF n \in p.sources
    THEN Match(types, ParamValues(p), [i \in DOMAIN types |-> {i} \cap DOMAIN p.params])
    ELSE Match(types, Upstream(p, kept, outs, n), [i \in DOMAIN types |-> {k \in DOMAIN p.params : p.params[k] = types[i]}])

\* A body: calls [node, args] and what it returns; malformed when the pass gave up.
Called(body) == {c.node : c \in ToSet(body.calls)}
Emit(p, kept, g, n) ==
  LET m == Args(p, kept, Called(g), n)
  IN IF ~ g.ok \/ n \notin Reachable(p, kept) THEN g
     ELSE [g EXCEPT !.ok = m.ok, !.calls = IF m.ok THEN Append(@, [node |-> n, args |-> m.args]) ELSE @]
Remade(p, kept) ==
  LET g == FoldLeft(LAMBDA a, n : Emit(p, kept, a, n), [ok |-> TRUE, calls |-> << >>], p.nodes)
  IN [ok    |-> g.ok /\ (p.ret = "void" \/ (p.terminal \in Called(g) /\ p.sig[p.terminal].ret = p.ret)),
      calls |-> g.calls,
      ret   |-> IF p.ret = "void" THEN None ELSE p.terminal]
Generated(p, ctx) == Remade(p, Kept(p, ctx))

Stub == [ok |-> TRUE, calls |-> <<[node |-> Placeholder, args |-> << >>]>>, ret |-> None]

\* The pass ends with the first body it cannot make; those after it stay stubs.
Body(b, i, ctx) ==
  IF \E j \in 1 .. i - 1 : ~ Generated(b.pipes[j], ctx).ok THEN Stub ELSE Generated(b.pipes[i], ctx)

\* TopoParallelPass calls a stage that has a body through a wrapper it makes; the
\* engine then drops all bodies but one, the wrapper's too.
Wrapped(b, body) == Called(body) \cap IF b.parallel THEN Embedded(b) ELSE {}
Links(b, body)   == Called(body) \subseteq b.host \ Wrapped(b, body)

-----------------------------------------------------------------------------
VARIABLES
  binary,
  engine,   \* g_jit and g_initialized: "none", "up", "failed"
  mutex,    \* g_jit_mutex: who holds it, or None
  counter,  \* jitCounter
  dylibs,   \* the JITDylibs: name -> body
  req       \* req[r]: [pc, asks, ctx, cold, body, id, result]

jitVars == <<binary, engine, mutex, counter, dylibs, req>>

Request(pc, i, ctx, cold) ==
  [pc |-> pc, asks |-> i, ctx |-> ctx, cold |-> cold, body |-> Stub, id |-> 0, result |-> Nothing]
Fresh == Request("idle", 0, {}, {})

\* The compiler made the pipelines of the binary ahead of time.
MadeAhead(b) == \A p \in ToSet(b.pipes) : Generated(p, {}).ok
JitInitFrom(S) ==
  /\ binary \in {b \in S : MadeAhead(b)} /\ engine = "none" /\ mutex = None /\ counter = 0
  /\ dylibs = [n \in {} |-> Stub] /\ req = [r \in Requests |-> Fresh]
JitInit == JitInitFrom(Binaries)

Goes(r, from, to) == req[r].pc = from /\ req' = [req EXCEPT ![r].pc = to]
Fails(r, from) == req[r].pc = from /\ req' = [req EXCEPT ![r].pc = "done", ![r].result = Nothing]

\* A name that is of no pipeline (0), a caller's context, or that of the monitor.
Ask(r) ==
  /\ req[r].pc = "idle"
  /\ \/ req' = [req EXCEPT ![r] = Request("ensure", 0, {}, {})]
     \/ \E i \in DOMAIN binary.pipes :
          \/ \E ctx \in Contexts : req' = [req EXCEPT ![r] = Request("ensure", i, ctx, {})]
          \/ \E costs \in Samples :
               /\ DOMAIN costs \subseteq ToSet(binary.pipes[i].nodes)
               /\ req' = [req EXCEPT ![r] = Request("ensure", i, FromCosts(costs), Cold(costs))]
  /\ UNCHANGED <<binary, engine, mutex, counter, dylibs>>

\* ensureJIT: the first one makes the engine; a failure is for good.
EnsureJIT(r) ==
  /\ mutex = None
  /\ \E e \in IF engine = "none" THEN {"up", "failed"} ELSE {engine} :
       /\ engine' = e
       /\ IF e = "up" THEN Goes(r, "ensure", "build") ELSE Fails(r, "ensure")
  /\ UNCHANGED <<binary, mutex, counter, dylibs>>

\* Metadata, constraints, bitcode, passes: nothing that is shared.
BuildModule(r) ==
  /\ IF binary.bitcode /\ req[r].asks > 0
     THEN /\ req[r].pc = "build"
          /\ req' = [req EXCEPT ![r].pc = "number", ![r].body = Body(binary, req[r].asks, req[r].ctx)]
     ELSE Fails(r, "build")
  /\ UNCHANGED <<binary, engine, mutex, counter, dylibs>>

\* fetch_add: the read and the write are one step.
Number_Reread(r) ==
  /\ req[r].pc = "number" /\ req' = [req EXCEPT ![r].id = counter + 1, ![r].pc = "lock"]
  /\ counter' \in {counter, counter + 1}
  /\ UNCHANGED <<binary, engine, mutex, dylibs>>
Number(r) ==
  /\ req[r].pc = "number" /\ req' = [req EXCEPT ![r].id = counter + 1, ![r].pc = "lock"]
  /\ counter' = counter + 1
  /\ UNCHANGED <<binary, engine, mutex, dylibs>>

Lock(r) ==
  /\ mutex = None /\ Goes(r, "lock", "add") /\ mutex' = r
  /\ UNCHANGED <<binary, engine, counter, dylibs>>

\* createJITDylib refuses a name that is there; addIRModule.
JitName(r) == <<binary.pipes[req[r].asks].name, req[r].id>>
AddModule(r) ==
  /\ IF JitName(r) \in DOMAIN dylibs
     THEN Fails(r, "add") /\ mutex' = None /\ UNCHANGED dylibs
     ELSE /\ Goes(r, "add", "lookup") /\ UNCHANGED mutex
          /\ dylibs' = [n \in DOMAIN dylibs \cup {JitName(r)} |->
                          IF n = JitName(r) THEN req[r].body ELSE dylibs[n]]
  /\ UNCHANGED <<binary, engine, counter>>

\* lookup compiles the module and links what it calls to the process.  A malformed
\* body gets here, too: nobody looks at what the pass returned.
Lookup(r) ==
  /\ LET body == dylibs[JitName(r)] IN
       \/ Links(binary, body) /\ req[r].pc = "lookup"
          /\ req' = [req EXCEPT ![r].pc = "done", ![r].result = JitName(r)]
       \/ (~ Links(binary, body) \/ ~ body.ok) /\ Fails(r, "lookup")
  /\ mutex' = None
  /\ UNCHANGED <<binary, engine, counter, dylibs>>

JitDone == (\A r \in Requests : req[r].pc = "done") /\ UNCHANGED jitVars

JitNext ==
  \/ \E r \in Requests :
       \/ Ask(r) \/ EnsureJIT(r) \/ BuildModule(r) \/ Number(r) \/ Lock(r)
       \/ req[r].pc = "add" /\ AddModule(r)
       \/ req[r].pc = "lookup" /\ Lookup(r)
  \/ JitDone
JitSpec == JitInit /\ [][JitNext]_jitVars
-----------------------------------------------------------------------------
Asked(r) == binary.pipes[req[r].asks]
Answered(r) == req[r].pc = "done" /\ req[r].result # Nothing
Result(r) == dylibs[req[r].result]

\* The context takes no edge of any pipeline: what the compiler made of them ahead
\* of time is asked for again.
Unconstrained(r) == \A p \in ToSet(binary.pipes) : \A e \in ToSet(p.edges) : ~ Pruned(e, req[r].ctx)

\* A value is a pipeline parameter or the output of an earlier call, over an edge
\* that the caller left.
FedRightly(r) ==
  LET calls == Result(r).calls IN
    \A i \in DOMAIN calls : \A v \in ToSet(calls[i].args) :
      v[1] = "out" => /\ \E j \in 1 .. i - 1 : calls[j].node = v[2]
                      /\ \E e \in ToSet(Asked(r).edges) : e = <<v[2], calls[i].node>> /\ ~ Pruned(e, req[r].ctx)

\* Requests run side by side, with other contexts and names: each gets a function
\* of its own, for what it asked.  What runs in it comes after something
\* that runs, over edges left to it.  Without constraints it is what the
\* compiler made ahead of time, and it is found whenever the process has the
\* stages ("Both AOT and JIT paths must agree", JITRealPathTest.cpp:27).
SpecializedAsAsked ==
  /\ \A r, q \in Requests : Answered(r) /\ Answered(q) /\ r # q => req[r].result # req[q].result
  /\ \A r \in Requests :
       Answered(r) /\ Result(r).ok =>
         /\ FedRightly(r)
         /\ \A n \in Called(Result(r)) \ Asked(r).sources :
              \E e \in ToSet(Asked(r).edges) : e[2] = n /\ e[1] \in Called(Result(r)) /\ ~ Pruned(e, req[r].ctx)
  /\ \A r \in Requests :
       req[r].pc = "done" /\ req[r].asks > 0 /\ Unconstrained(r) /\ engine = "up" /\ binary.bitcode =>
         LET ahead == Generated(Asked(r), {}) IN
           IF Links(binary, ahead) THEN Answered(r) /\ Result(r) = ahead ELSE ~ Answered(r)

\* "the JIT engine will remove it from the parallel DAG, inlining it sequentially"
\* (topo_adaptive.cpp:126-127): a stage that is cold still runs.
ColdStagesStillRun ==
  \A r \in Requests :
    Answered(r) /\ Result(r).ok => req[r].cold \cap Called(Generated(Asked(r), {})) \subseteq Called(Result(r))
=============================================================================
