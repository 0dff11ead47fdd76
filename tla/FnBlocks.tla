------------------------------- MODULE FnBlocks -------------------------------
(***************************************************************************)
(* The Verifier's checks of the body of a logic block: that it calls what  *)
(* the block declares, in the order of the stages, with the terminal node  *)
(* last, and that operations of one stage do not depend on each other; and *)
(* what such a body does when the operations of a stage run in any order,  *)
(* as the block declares them, next to what it does as written.            *)
(*                                                                         *)
(* What an operation computes is left open: its value is a term over its   *)
(* arguments and the globals it reads.                                     *)
(***************************************************************************)
EXTENDS Naturals, Sequences, SequencesExt, FiniteSets

CONSTANT LogicBlocks
  \* [ops, pipeline, terminal, body, mapped, effects]
  \* ops: the declared [fn, stage]; body: the calls in the order of the IR, each
  \* [fn, pos, args, keep]; pos: its debug location, 0 for none; args: <<"call", i>>
  \* for the value of call i, <<"local", x>> for a load, <<"const">>; keep: the local
  \* the value is stored to, or NoName; effects[f]: [defined, reads, writes, readonly,
  \* hidden], hidden: globals it reads and writes through other calls or expressions

NoName == "none"

\* A value that is used is that of a call of the body, an operation has a stage, and
\* what only reads memory writes no global.
Formed(b) ==
  /\ b.ops \in Seq(ToSet(b.ops)) /\ b.body \in Seq(ToSet(b.body)) /\ \A o \in ToSet(b.ops) : o.stage \in Nat
  /\ \A c \in ToSet(b.body) :
       /\ c.fn \in DOMAIN b.effects
       /\ \A a \in ToSet(c.args) : a[1] = "call" => \E i \in DOMAIN b.body : a = <<"call", i>>
  /\ \A f \in DOMAIN b.effects : b.effects[f].readonly => b.effects[f].writes = {}
ASSUME BlockAssumption == \A b \in LogicBlocks : Formed(b)

-----------------------------------------------------------------------------
(* What the checks look at.                                                *)
DeclaredOps(b) == {o.fn : o \in ToSet(b.ops)}
Topo(b)      == {i \in DOMAIN b.body : b.body[i].fn \in b.mapped}
CalledOps(b) == {b.body[i].fn : i \in Topo(b)}

\* The last declaration of an operation counts.
StageOf(b, f) == LET at == {k \in DOMAIN b.ops : b.ops[k].fn = f}
                 IN b.ops[CHOOSE k \in at : \A l \in at : l <= k].stage

\* checkLogicBlockConsistency
Inconsistent(b) ==
  IF b.pipeline THEN {}
  ELSE {<<"not called", f>> : f \in DeclaredOps(b) \ CalledOps(b)} \cup {<<"not declared", f>> : f \in CalledOps(b) \ DeclaredOps(b)}

\* checkStageOrdering: by source position, and by emission where there is none.
Earlier(b, i, j) ==
  \/ b.body[i].pos < b.body[j].pos
  \/ b.body[i].pos = b.body[j].pos /\ i < j
Staged(b) == {i \in Topo(b) : b.body[i].fn \in DeclaredOps(b)}
StageAt(b, i) == StageOf(b, b.body[i].fn)
Disordered(b) ==
  {<<"stage order", j>> : j \in {k \in Staged(b) : \E i \in Staged(b) : Earlier(b, i, k) /\ StageAt(b, k) < StageAt(b, i)}}

\* checkPipelineEdges: the node called last in the text.
Nodes(b) == {i \in Topo(b) : b.body[i].fn \in DeclaredOps(b)}
NotTerminal(b) ==
  {<<"terminal", i>> : i \in {k \in Nodes(b) : /\ b.pipeline /\ b.terminal # NoName /\ \A j \in Nodes(b) : j <= k
                                               /\ b.body[k].fn # b.terminal}}

\* checkStageParallelSafety: pairs of calls of one stage that declares two operations.
WideStages(b) == {s \in {o.stage : o \in ToSet(b.ops)} : Cardinality({k \in DOMAIN b.ops : b.ops[k].stage = s}) >= 2}
Pairs(b) ==
  {p \in Topo(b) \X Topo(b) :
     /\ ~ b.pipeline /\ p[1] < p[2]
     /\ \E s \in WideStages(b) : \A i \in {p[1], p[2]} : \E o \in ToSet(b.ops) : o.fn = b.body[i].fn /\ o.stage = s}
Dependent(b) ==
  {<<"dependency", p>> : p \in {q \in Pairs(b) : \/ <<"call", q[1]>> \in ToSet(b.body[q[2]].args)
                                                 \/ <<"call", q[2]>> \in ToSet(b.body[q[1]].args)}}
Globals(b, i) == LET e == b.effects[b.body[i].fn] IN e.reads \cup e.writes
Racing_BothWrite(b) ==
  {<<"race", p>> : p \in {q \in Pairs(b) :
     /\ \A i \in {q[1], q[2]} : b.effects[b.body[i].fn].defined
     /\ Globals(b, q[1]) \cap Globals(b, q[2]) # {}
     /\ \A i \in {q[1], q[2]} : ~ b.effects[b.body[i].fn].readonly}}
Racing(b) ==
  {<<"race", p>> : p \in {q \in Pairs(b) :
     /\ \A i \in {q[1], q[2]} : b.effects[b.body[i].fn].defined
     /\ Globals(b, q[1]) \cap Globals(b, q[2]) # {}
     /\ \E i \in {q[1], q[2]} : ~ b.effects[b.body[i].fn].readonly}}

Diagnostics(b) == Inconsistent(b) \cup Disordered(b) \cup NotTerminal(b) \cup Dependent(b) \cup Racing(b)

-----------------------------------------------------------------------------
(* What a body does: globals, locals and the values of the calls.          *)
Idle(b) ==
  LET touched == UNION {b.effects[f].reads \cup b.effects[f].writes \cup b.effects[f].hidden : f \in DOMAIN b.effects}
  IN [global |-> [g \in touched |-> <<g>>], local |-> [x \in {"x", "y"} |-> <<"undef">>],
      value  |-> [i \in DOMAIN b.body |-> <<"undef">>]]

Argument(st, a) == CASE a[1] = "call" -> st.value[a[2]] [] a[1] = "local" -> st.local[a[2]] [] OTHER -> a
Does(b, st, i) ==
  LET c == b.body[i]
      e == b.effects[c.fn]
      v == <<c.fn, [k \in DOMAIN c.args |-> Argument(st, c.args[k])],
             [g \in e.reads \cup e.hidden |-> st.global[g]]>>
  IN [global |-> [g \in DOMAIN st.global |-> IF g \in e.writes \cup e.hidden THEN <<g, v>> ELSE st.global[g]],
      local  |-> [x \in DOMAIN st.local |-> IF x = c.keep THEN v ELSE st.local[x]],
      value  |-> [st.value EXCEPT ![i] = v]]
AsWritten(b) == FoldLeft(LAMBDA st, i : Does(b, st, i), Idle(b), [i \in DOMAIN b.body |-> i])

VARIABLES block, verdict, done, world, blockPc
blockVars == <<block, verdict, done, world, blockPc>>

BlockInitFrom(S) ==
  /\ block \in S /\ verdict = {} /\ done = {} /\ world = Idle(block) /\ blockPc = "verify"
BlockInit == BlockInitFrom(LogicBlocks)

VerifyBlock ==
  /\ blockPc = "verify" /\ blockPc' = "run" /\ verdict' = Diagnostics(block)
  /\ UNCHANGED <<block, done, world>>

\* As declared: stage by stage, in any order within a stage.
RunCall ==
  /\ blockPc = "run" /\ verdict = {}
  /\ \E i \in Staged(block) \ done :
       /\ \A j \in Staged(block) \ done : StageAt(block, i) <= StageAt(block, j)
       /\ world' = Does(block, world, i) /\ done' = done \cup {i}
  /\ UNCHANGED <<block, verdict, blockPc>>

BlockOver == (verdict # {} \/ done = Staged(block)) /\ blockPc = "run" /\ UNCHANGED blockVars
BlockNext == VerifyBlock \/ RunCall \/ BlockOver
BlockSpec == BlockInit /\ [][BlockNext]_blockVars
-----------------------------------------------------------------------------
\* What the checks cannot see: values that pass through locals, globals that are
\* not operands of the callee itself, callees without a body, calls of what no
\* symbol is mapped to, operations that are declared or called more than once, and
\* calls that the compiler emitted in another order than the source has them in.
Visible(b) ==
  /\ Topo(b) = DOMAIN b.body
  /\ \A i \in DOMAIN b.body : b.body[i].keep = NoName /\ b.effects[b.body[i].fn].hidden = {}
  /\ \A i \in DOMAIN b.body : b.effects[b.body[i].fn].defined
  /\ \A i, j \in DOMAIN b.body : b.body[i].fn = b.body[j].fn => i = j
  /\ \A k, l \in DOMAIN b.ops : b.ops[k].fn = b.ops[l].fn => k = l
  /\ \A i, j \in DOMAIN b.body : i < j => Earlier(b, i, j)

\* A body that passes without an error or a warning does what its block declares:
\* stage after stage and, within a stage, in any order, it leaves the same globals
\* and computes the same values as written, and no value is used before it is
\* there.
StagesCommute ==
  blockPc = "run" /\ verdict = {} /\ Visible(block) /\ ~ block.pipeline /\ done = Staged(block) =>
    Staged(block) = DOMAIN block.body /\ world = AsWritten(block)
=============================================================================
