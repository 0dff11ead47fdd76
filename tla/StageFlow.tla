------------------------------ MODULE StageFlow ------------------------------
(***************************************************************************)
(* The body of a pipeline: PipelineCodeGenPass wires the stages of a DAG   *)
(* into straight-line calls, TopoParallelPass turns the calls of a stage   *)
(* group into tasks, and the result is called.                             *)
(*                                                                         *)
(* A body is a sequence of instructions in SSA form.  What a stage         *)
(* computes is left open: the value of a call is the term <<stage, args>>, *)
(* so two bodies compute the same exactly if their terms are the same.     *)
(* The task runtime is used as TaskService promises it.                    *)
(*                                                                         *)
(* External: the analysis of the DAG (groups, sources, terminal, the order *)
(* of the edges), which topo-core makes.                                   *)
(***************************************************************************)
EXTENDS StageTerms, Naturals, Sequences, SequencesExt, FiniteSets, FiniteSetsExt

CONSTANTS
  Cases,    \* pipelines: [params, ret, groups, sources, edges, terminal, sig, excluded, body];
            \* sig[n]: [params, ret, sret, ir], body is << >> for a stub
  Fields    \* Fields[t]: the field types of the struct type t

Undef == <<"undef", << >>>>

\* The members of S in s, in order; the function f with e at x.
Only(s, S)   == FoldLeft(LAMBDA acc, c : IF c \in S THEN Append(acc, c) ELSE acc, << >>, s)
Put(f, x, e) == [y \in DOMAIN f \cup {x} |-> IF y = x THEN e ELSE f[y]]

Nodes(p) == DOMAIN p.sig
CodeNodes(p) == {n \in Nodes(p) : p.sig[n].ir # "missing"}

VARIABLES
  pipe, parallel, throws,
  stagePc,  \* "stub", "grouping", "running", "broken", "returned", "unwound"
  body, group,
  serial,   \* the body before it was made parallel (history)
  pos,
  frame,    \* the activation: values, memory, the calls that started and ended
  task      \* of each handle: [state, call, args, result]; "queued", "running", "done", "threw"

stageVars == <<pipe, parallel, throws, stagePc, body, group, serial, pos, frame, task>>

\* What LLVM sees of a stage: a result by sret is a first parameter.
LParams(n) == (IF pipe.sig[n].sret THEN <<"ptr">> ELSE << >>) \o pipe.sig[n].params
LRet(n)    == IF pipe.sig[n].sret THEN "void" ELSE pipe.sig[n].ret

Extract(to, n, i) == Ins("extract", "field", n, <<Out(n)>>, <<"field", to, n, i>>)

-----------------------------------------------------------------------------
(* PipelineCodeGenPass: parameters are matched to values by type.          *)
Failed == [ok |-> FALSE, args |-> << >>, used |-> {}]
Matched(args, used) == [ok |-> TRUE, args |-> args, used |-> used]

\* The first pipeline parameter of the type that is not taken, or else the
\* one in the same position.
ByType(m, t) ==
  LET free == {k \in DOMAIN pipe.params : pipe.params[k] = t /\ Param(k) \notin ToSet(m.args)}
      i    == Len(m.args) + 1
  IN IF ~ m.ok THEN m
     ELSE IF free # {} THEN Matched(Append(m.args, Param(Min(free))), {})
     ELSE IF i <= Len(pipe.params) THEN Matched(Append(m.args, Param(i)), {})
     ELSE Failed
SourceArgs(n) == FoldLeft(ByType, Matched(<< >>, {}), LParams(n))

\* The type a node's output has for those downstream.
OutType(n) == IF n \notin pipe.sources THEN pipe.sig[n].ret ELSE LRet(n)

Upstream(n, outs) ==
  LET in == Only(pipe.edges, {e \in ToSet(pipe.edges) : e[2] = n /\ e[1] \in outs})
  IN [i \in DOMAIN in |-> in[i][1]]

\* What u offers: its output, or the fields of a struct.
Offered(u) ==
  IF OutType(u) \in DOMAIN Fields
  THEN [i \in DOMAIN Fields[OutType(u)] |-> [type |-> Fields[OutType(u)][i], from |-> u, field |-> i]]
  ELSE <<[type |-> OutType(u), from |-> u, field |-> 0]>>
Offer(n, o) == IF o.field = 0 THEN Out(o.from) ELSE Extract(n, o.from, o.field).def

\* The values upstream of n, in order.
Available(n, outs) == FoldLeft(LAMBDA acc, u : acc \o Offered(u), << >>, Upstream(n, outs))

Feed(n, avail, m, t) ==
  LET free == {v \in DOMAIN avail \ m.used : avail[v].type = t}
      pars == {k \in DOMAIN pipe.params : pipe.params[k] = t}
  IN IF ~ m.ok THEN m
     ELSE IF free # {} THEN Matched(Append(m.args, Offer(n, avail[Min(free)])), m.used \cup {Min(free)})
     ELSE IF pars # {} THEN Matched(Append(m.args, Param(Min(pars))), m.used)
     ELSE Failed
InnerArgs(n, outs) ==
  LET avail == Available(n, outs)
  IN FoldLeft(LAMBDA m, t : Feed(n, avail, m, t),
              Matched(IF pipe.sig[n].sret THEN <<Slot(n)>> ELSE << >>, {}), pipe.sig[n].params)

Extracts(n, outs) ==
  LET fields == Only(Available(n, outs), {o \in ToSet(Available(n, outs)) : o.field # 0})
  IN [i \in DOMAIN fields |-> Extract(n, fields[i].from, fields[i].field)]

\* A stage whose name maps to no function is left out.
Emit(g, n) ==
  LET source == n \in pipe.sources
      m      == IF source THEN SourceArgs(n) ELSE InnerArgs(n, g.outs)
      slot   == pipe.sig[n].sret /\ ~ source
  IN IF ~ g.ok \/ n \notin CodeNodes(pipe) THEN g
     ELSE [ok   |-> m.ok,
           outs |-> g.outs \cup {n},
           code |-> g.code
                    \o (IF source THEN << >> ELSE Extracts(n, g.outs))
                    \o (IF slot THEN <<Ins("alloca", n, n, << >>, Slot(n))>> ELSE << >>)
                    \o <<Ins("call", n, n, m.args, IF LRet(n) = "void" THEN None ELSE Out(n))>>
                    \o (IF slot THEN <<Ins("load", n, n, <<Slot(n)>>, Out(n))>> ELSE << >>)]

\* The terminal's output, or its first field of the pipeline's type.
Return(g) ==
  LET t    == pipe.terminal
      from == {i \in DOMAIN Fields[OutType(t)] : Fields[OutType(t)][i] = pipe.ret}
  IN CASE pipe.ret = "void" -> <<Ins("ret", "ret", t, << >>, None)>>
       [] pipe.ret # "void" /\ t \notin g.outs -> << >>
       [] OTHER ->
          IF OutType(t) = pipe.ret THEN <<Ins("ret", "ret", t, <<Out(t)>>, None)>>
          ELSE IF OutType(t) \in DOMAIN Fields /\ from # {}
          THEN LET e == Extract("ret", t, Min(from)) IN <<e, Ins("ret", "ret", t, <<e.def>>, None)>>
          ELSE << >>

EmitGroup(g, ns) == FoldLeft(Emit, g, ns)
Generated == FoldLeft(EmitGroup, [ok |-> TRUE, outs |-> {}, code |-> << >>], pipe.groups)

Generate ==
  /\ stagePc = "stub"
  /\ LET g == Generated
         b == IF pipe.body # << >> THEN pipe.body ELSE g.code \o Return(g)
     IN IF pipe.body = << >> /\ (~ g.ok \/ Return(g) = << >>)
        THEN stagePc' = "broken" /\ UNCHANGED <<body, serial>>
        ELSE stagePc' = "grouping" /\ body' = b /\ serial' = b
  /\ UNCHANGED <<pipe, parallel, throws, group, pos, frame, task>>

-----------------------------------------------------------------------------
(* TopoParallelPass, one stage group at a time.                            *)
Candidates_AllStages(ns) == {n \in Nodes(pipe) : pipe.sig[n].ir = "defined" /\ n \notin pipe.excluded}
Candidates(ns) == {n \in ToSet(ns) : pipe.sig[n].ir = "defined" /\ n \notin pipe.excluded}

Targets(b, ns) == {i \in DOMAIN b : b[i].op = "call" /\ b[i].node \in Candidates(ns)}

\* The value exists before instruction i.
Dominates(b, v, i) == v[1] = "param" \/ \E j \in 1 .. i - 1 : b[j].def = v
OperandsReady(b, T) == \A i \in T : \A v \in ToSet(b[i].args) : Dominates(b, v, Min(T))

StageSpawn(c) == Ins("spawn", c.id, c.node, Only(c.args, ToSet(c.args) \ {Slot(c.node)}), Task(c.id))
Fetch(c)      == Ins("fetch", c.id, c.node, << >>, c.def)

\* The calls, those with a result, and the code from the first one on without them.
CallsOf(b, T) == Only(b, {b[i] : i \in T})
Valued(cs)    == Only(cs, {c \in ToSet(cs) : c.def # None})
Kept(b, T)    == Only(SubSeq(b, Min(T), Len(b)), ToSet(b) \ {b[i] : i \in T})
Spawns(cs)    == [i \in DOMAIN cs |-> StageSpawn(cs[i])]
Fetches(cs)   == [i \in DOMAIN cs |-> Fetch(cs[i])]
Await(cs)     == Ins("await", "await", "await", [i \in DOMAIN cs |-> Task(cs[i].id)], None)

Scaffold_LoadsFirst(b, T) ==
  LET cs == CallsOf(b, T) IN
    SubSeq(b, 1, Min(T) - 1) \o Spawns(cs) \o Fetches(Valued(cs)) \o <<Await(cs)>> \o Kept(b, T)
\* Spawns, the join and the loads of the results take the place of the first
\* call; the calls are erased.
Scaffold(b, T) ==
  LET cs == CallsOf(b, T) IN
    SubSeq(b, 1, Min(T) - 1) \o Spawns(cs) \o <<Await(cs)>> \o Fetches(Valued(cs)) \o Kept(b, T)

Grouped(b, ns) ==
  LET T == Targets(b, ns) IN IF T # {} /\ OperandsReady(b, T) THEN Scaffold(b, T) ELSE b

Parallelize ==
  /\ stagePc = "grouping"
  /\ IF parallel /\ group <= Len(pipe.groups)
     THEN body' = Grouped(body, pipe.groups[group]) /\ group' = group + 1 /\ UNCHANGED stagePc
     ELSE stagePc' = "running" /\ UNCHANGED <<body, group>>
  /\ UNCHANGED <<pipe, parallel, throws, serial, pos, frame, task>>

-----------------------------------------------------------------------------
(* The pipelines that are given: what the analysis of the DAG promises of  *)
(* them, and what is LLVM IR; a body written by hand calls all the stages, *)
(* group by group.                                                         *)
Terms ==
  ({"param"} \X Nat) \cup ({"out", "slot"} \X STRING) \cup ({"field"} \X STRING \X STRING \X Nat) \cup {None}
StageCode ==
  [op : {"call", "compute", "extract", "alloca", "load", "ret"},
   id : STRING, node : STRING, args : Seq(Terms), def : Terms]

Level(p, n) == CHOOSE k \in DOMAIN p.groups : n \in ToSet(p.groups[k])

\* Every operand exists where it is used.
OperandsIn(b) == \A i \in DOMAIN b : \A v \in ToSet(b[i].args) : Dominates(b, v, i)

\* A block of LLVM IR: values are defined once, and what ends it is a return.
HandMade(p, b) ==
  LET calls == {i \in DOMAIN b : b[i].op = "call"} IN
  /\ b \in Seq(StageCode) /\ OperandsIn(b) /\ \A i \in DOMAIN b : b[i].op = "ret" <=> i = Len(b)
  /\ \A i, j \in DOMAIN b : b[i].def = b[j].def /\ b[i].def # None => i = j
  /\ {b[i].node : i \in calls} = CodeNodes(p)
  /\ \A i, j \in calls : /\ b[i].id = b[j].id => i = j
                         /\ i < j => Level(p, b[i].node) <= Level(p, b[j].node)

PipelineOk(p) ==
  /\ Nodes(p) \subseteq STRING \ {"none"} /\ p.terminal \in Nodes(p) /\ p.params \in Seq(STRING)
  /\ \A n \in Nodes(p) : p.sig[n].params \in Seq(STRING \ {"void"}) /\ p.sig[n].ret \in STRING
  /\ p.groups \in Seq(Seq(Nodes(p))) /\ \A k \in DOMAIN p.groups : IsInjective(p.groups[k])
  /\ \A n \in Nodes(p) : \E k \in DOMAIN p.groups : \A l \in DOMAIN p.groups : n \in ToSet(p.groups[l]) <=> l = k
  /\ p.edges \in Seq(Nodes(p) \X Nodes(p))
  /\ \A e \in ToSet(p.edges) : Level(p, e[1]) < Level(p, e[2])
  /\ p.body = << >> \/ HandMade(p, p.body)

ASSUME StageAssumption ==
  /\ \A p \in Cases : PipelineOk(p)
  /\ "void" \notin DOMAIN Fields /\ \A t \in DOMAIN Fields : Fields[t] \in Seq(STRING)

-----------------------------------------------------------------------------
(* The call of the pipeline.                                               *)
Value(f, v) == IF v[1] = "param" THEN v ELSE IF v \in DOMAIN f.env THEN f.env[v] ELSE Undef
Values(f, c) == [i \in DOMAIN c.args |-> Value(f, c.args[i])]
Bind(f, v, t) == IF v = None THEN f ELSE [f EXCEPT !.env = Put(@, v, t)]

Begin == [env |-> << >>, mem |-> << >>, ran |-> << >>, result |-> Undef, exc |-> "none"]

\* A stage runs to its end; `at` is the slot its result goes to, if any.
Call(f, c, args) ==
  LET t == <<c.node, args>>
      g == [f EXCEPT !.ran = Append(@, <<c.id, t>>)]
  IN IF c.node \in throws THEN [g EXCEPT !.exc = c.node]
     ELSE IF pipe.sig[c.node].sret THEN [g EXCEPT !.mem = Put(@, c.id, t)]
     ELSE Bind(g, c.def, t)

Step(f, c) ==
  CASE c.op = "call"    -> Call(f, c, Values(f, StageSpawn(c)))
    [] c.op = "extract" -> Bind(f, c.def, <<"field", <<c.def[4], Values(f, c)[1]>>>>)
    [] c.op = "compute" -> Bind(f, c.def, <<"compute", Values(f, c)>>)
    [] c.op = "load"    -> Bind(f, c.def, IF c.id \in DOMAIN f.mem THEN f.mem[c.id] ELSE Undef)
    [] c.op = "ret"     -> [f EXCEPT !.result = IF c.args = << >> THEN None ELSE Values(f, c)[1]]
    [] OTHER            -> f

Here == body[pos]
Straight ==
  /\ Here.op \notin {"spawn", "await", "fetch"}
  /\ frame' = Step(frame, Here)
  /\ stagePc' = IF frame'.exc # "none" THEN "unwound" ELSE IF Here.op = "ret" THEN "returned" ELSE stagePc
  /\ UNCHANGED task

\* The arguments are copied into the argument structure.
SpawnTask ==
  /\ Here.op = "spawn"
  /\ task' = Put(task, Here.def, [state |-> "queued", call |-> Here, args |-> Values(frame, Here), result |-> Undef])
  /\ UNCHANGED <<frame, stagePc>>

TaskOver == {"done", "threw"}
AwaitAll_LeavesAtFirst ==
  /\ Here.op = "await"
  /\ \/ \A i \in DOMAIN Here.args : task[Here.args[i]].state \in TaskOver
     \/ \E i \in DOMAIN Here.args : task[Here.args[i]].state = "threw"
  /\ LET threw == {i \in DOMAIN Here.args : task[Here.args[i]].state = "threw"}
     IN IF threw = {} THEN UNCHANGED <<frame, stagePc>>
        ELSE /\ frame' = [frame EXCEPT !.exc = task[Here.args[Min(threw)]].call.node]
             /\ stagePc' = "unwound"
  /\ UNCHANGED task
\* await_all drains every task, then throws the first exception.
AwaitAll ==
  /\ Here.op = "await"
  /\ \A i \in DOMAIN Here.args : task[Here.args[i]].state \in TaskOver
  /\ LET threw == {i \in DOMAIN Here.args : task[Here.args[i]].state = "threw"}
     IN IF threw = {} THEN UNCHANGED <<frame, stagePc>>
        ELSE /\ frame' = [frame EXCEPT !.exc = task[Here.args[Min(threw)]].call.node]
             /\ stagePc' = "unwound"
  /\ UNCHANGED task

FetchResult ==
  /\ Here.op = "fetch"
  /\ frame' = Bind(frame, Here.def, task[Task(Here.id)].result)
  /\ UNCHANGED <<stagePc, task>>

Exec ==
  /\ stagePc = "running"
  /\ Straight \/ SpawnTask \/ AwaitAll \/ FetchResult
  /\ pos' = pos + 1
  /\ UNCHANGED <<pipe, parallel, throws, body, group, serial>>

\* The wrapper of a task, on whatever thread.
TaskBegins(id) ==
  /\ task[id].state = "queued"
  /\ task' = [task EXCEPT ![id].state = "running"]
  /\ UNCHANGED <<pipe, parallel, throws, stagePc, body, group, serial, pos, frame>>

TaskEnds(id) ==
  /\ task[id].state = "running"
  /\ LET c == task[id].call
         t == <<c.node, task[id].args>>
     IN /\ task' = [task EXCEPT ![id].state = IF c.node \in throws THEN "threw" ELSE "done",
                                ![id].result = IF c.node \in throws THEN @ ELSE t]
        /\ frame' = [frame EXCEPT !.ran = Append(@, <<c.id, t>>)]
  /\ UNCHANGED <<pipe, parallel, throws, stagePc, body, group, serial, pos>>

StageInit ==
  /\ pipe \in Cases /\ parallel \in BOOLEAN /\ throws \in SUBSET CodeNodes(pipe)
  /\ stagePc = "stub" /\ body = << >> /\ group = 1 /\ serial = << >> /\ pos = 1
  /\ frame = Begin /\ task = << >>

Ended == stagePc \in {"broken", "returned", "unwound"} /\ UNCHANGED stageVars

StageNext == Generate \/ Parallelize \/ Exec \/ (\E id \in DOMAIN task : TaskBegins(id) \/ TaskEnds(id)) \/ Ended
StageSpec == StageInit /\ [][StageNext]_stageVars
-----------------------------------------------------------------------------
\* Every operand is defined before it is used: "decline to parallelize the
\* whole stage rather than emit broken IR" (TopoParallelPass.cpp:347-352).
OperandsDominate == OperandsIn(body)

\* The body before it was made parallel, run to its end.
SerialEnd == FoldLeft(LAMBDA f, c : IF f.exc # "none" THEN f ELSE Step(f, c), Begin, serial)
Times(s, x) == Cardinality({i \in DOMAIN s : s[i] = x})

\* Stages that stay calls, between tasks that were hoisted over them.
Outsiders == {n \in CodeNodes(pipe) : pipe.sig[n].ir # "defined"} \cup pipe.excluded

SameResult ==
  /\ stagePc = "returned" => /\ frame.result = SerialEnd.result /\ SerialEnd.exc = "none"
                        /\ \A x \in ToSet(frame.ran \o SerialEnd.ran) : Times(frame.ran, x) = Times(SerialEnd.ran, x)
  /\ stagePc = "unwound"  => IF Outsiders = {} THEN frame.exc = SerialEnd.exc ELSE SerialEnd.exc # "none"
SretTasks == \E id \in DOMAIN task : pipe.sig[task[id].call.node].sret

\* The parallel body makes the calls of the serial one with the same arguments
\* and returns the same, and throws what that throws (or anything, if stages that
\* stay calls are overtaken); but for stages that return through sret (TopoParallelPass.cpp:440-540).
ParallelIsSerial == SretTasks \/ SameResult

\* "Replace original call results with loads from result buffers"
\* (TopoParallelPass.cpp:526), for all stages.
ResultsReplaced == SameResult

\* The frame of the pipeline, with the argument structures and result buffers,
\* outlives the tasks that use it, also when one of them throws (await_all).
FrameOutlivesTasks ==
  stagePc \in {"returned", "unwound"} => \A id \in DOMAIN task : task[id].state \in TaskOver

\* A stage starts after all the stages upstream of it have returned, whether
\* or not they hand it a value, and does not start when one has thrown.
EndedNodes   == {frame.ran[i][2][1] : i \in DOMAIN frame.ran} \ throws
StartedNodes == {frame.ran[i][2][1] : i \in DOMAIN frame.ran}
                  \cup {task[id].call.node : id \in {j \in DOMAIN task : task[j].state = "running"}}
EdgesOrder ==
  \A i \in DOMAIN pipe.edges :
    LET u == pipe.edges[i][1] IN
      pipe.edges[i][2] \in StartedNodes /\ u \in CodeNodes(pipe) => u \in EndedNodes

\* Operands and edges order the stages.
StagesOrdered == OperandsDominate /\ EdgesOrder
=============================================================================
