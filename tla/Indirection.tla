------------------------------ MODULE Indirection ------------------------------
(***************************************************************************)
(* Two transforms of the IndirectionPass that trust what the declarations  *)
(* say of other code: the reference counts of a stage that runs alone lose *)
(* their atomicity (10b), and virtual calls on a parameter become direct   *)
(* calls by its declared class (10e).  The pipeline then runs, a stage at  *)
(* a time, the functions of a stage side by side, on objects of any class  *)
(* the parameters admit.                                                   *)
(*                                                                         *)
(* External: how the host compiler lays out a class (VTable), and memory,  *)
(* which is sequentially consistent, so that an ordering taken from an     *)
(* atomic operation is not seen.                                           *)
(***************************************************************************)
EXTENDS Integers, Sequences, SequencesExt, FiniteSets

CONSTANT Sources
  \* [classes, functions, pipelines]
  \* classes[c]:   [bases, known, members], bases: from the root down; known: it is in a .topo
  \*               file; members: its own functions, each [name, type, static, virtual, declared, mapped]
  \* functions[f]: [params, body, allowed], params: the class of each object
  \* pipelines:    a set of functions from the stage functions to their stages

\* What the IR and the declarations are made of: a dispatch is on no parameter (0) or on
\* one there is, of a class there is.
ASSUME IndirectionAssumption ==
  \A s \in Sources :
    /\ IsFiniteSet(DOMAIN s.functions)
    /\ \A p \in s.pipelines : DOMAIN p \subseteq DOMAIN s.functions /\ \A f \in DOMAIN p : p[f] \in Nat
    /\ \A c \in DOMAIN s.classes : s.classes[c].members \in Seq(ToSet(s.classes[c].members))
    /\ \A f \in DOMAIN s.functions :
         LET fn == s.functions[f]
         IN /\ fn.body \in Seq(ToSet(fn.body))
            /\ \A op \in ToSet(fn.body) :
                 /\ op.do \in {"sub", "add", "arith", "memory", "dispatch"}
                 /\ op.do = "dispatch" =>
                      /\ op.slot \in Nat /\ op.param \in {0} \cup DOMAIN fn.params
                      /\ op.param # 0 => fn.params[op.param] \in DOMAIN s.classes

Itself == "itself"

VARIABLES
  source, switches,  \* the program and [optimize.indirection]
  emitted,           \* emitted[f]: the body of f after the pass
  flow, given,       \* the pipeline that runs, and the class of each object it is given
  step, held,        \* step[f]: the next operation; held[f]: a count read and not yet written
  counts,            \* counts[c]: how far the reference count c is from where it began
  misled             \* calls <<f, i>> that reached another function than they named
indirectionVars == <<source, switches, emitted, flow, given, step, held, counts, misled>>

-----------------------------------------------------------------------------
(* What the pass reads from the declarations.                              *)
Members(c)  == source.classes[c].members
Bases(c)    == source.classes[c].bases
Known       == {c \in DOMAIN source.classes : source.classes[c].known}

\* The view of a class that a slot is looked up in.
Picked(s, K) == FlattenSeq([k \in DOMAIN s |-> IF k \in K THEN <<s[k]>> ELSE << >>])
ClassMethods(c) == Picked(Members(c), {k \in DOMAIN Members(c) : Members(c)[k].declared /\ ~ Members(c)[k].static})

\* No class derives from it, or it derives from one.
Concrete(c) ==
  /\ c \in Known
  /\ (\A d \in Known : Bases(d) # << >> => Last(Bases(d)) # c) \/ Bases(c) # << >>

Exclusive_UpToTwo(p, f) == Cardinality({g \in DOMAIN p : p[g] = p[f]}) <= 2
Exclusive(p, f) == \A g \in DOMAIN p \ {f} : p[g] # p[f]

-----------------------------------------------------------------------------
(* What the host compiler makes of a class: the slots of its base, with    *)
(* the functions it overrides, and then its own.                           *)
SameSlot(m, n) == m.name = n.name /\ m.type = n.type
Slot(c, m)     == [class |-> c, name |-> m.name, type |-> m.type]

Lay(above, c) ==
  LET ms == Members(c)
      own == {k \in DOMAIN ms : ms[k].virtual}
      Overridden(s) == \E k \in own : SameSlot(ms[k], s)
      new == Picked(ms, {k \in own : \A j \in DOMAIN above : ~ SameSlot(ms[k], above[j])})
  IN [k \in DOMAIN above |-> IF Overridden(above[k]) THEN [above[k] EXCEPT !.class = c] ELSE above[k]]
     \o [k \in DOMAIN new |-> Slot(c, new[k])]
VTable(c) == FoldLeft(Lay, << >>, Append(Bases(c), c))

\* The classes an object passed for c may have.
Admits(c) == {d \in DOMAIN source.classes : c = d \/ c \in ToSet(Bases(d))}

-----------------------------------------------------------------------------
(* 10e: a call through slot op.slot of the object in parameter op.param    *)
(* (0: not traced to one; a slot computed at run time is not constant), or *)
(* of a member of that object, of class op.member: the trace goes through  *)
(* loads, too.                                                             *)
Operations(f) == source.functions[f].body
Static(f, op) == source.functions[f].params[op.param]
Reached(op, c) == IF op.member = Itself THEN c ELSE op.member
CallType(f, op) == VTable(Reached(op, Static(f, op)))[op.slot + 1].type

Devirtualized(f, op) ==
  /\ op.do = "dispatch" /\ op.constant /\ op.param # 0
  /\ Concrete(Static(f, op))
  /\ op.slot < Len(ClassMethods(Static(f, op)))
  /\ LET m == ClassMethods(Static(f, op))[op.slot + 1] IN m.mapped /\ m.type = CallType(f, op)
Direct(f, op) == [do |-> "direct", to |-> Slot(Static(f, op), ClassMethods(Static(f, op))[op.slot + 1]), was |-> op]

(* 10b: a decrement and the increment of the same count that follows it in *)
(* its block, with nothing between that touches memory.                    *)
Paired(body) ==
  {p \in (DOMAIN body) \X (DOMAIN body) :
     /\ p[1] < p[2] /\ body[p[1]].do = "sub" /\ body[p[2]].do = "add" /\ body[p[1]].at = body[p[2]].at
     /\ \A k \in p[1] + 1 .. p[2] - 1 : body[k].do = "arith"}
NotAtomic(op) == [do |-> "plain", at |-> op.at, by |-> IF op.do = "sub" THEN -1 ELSE 1]

InPipeline(f)  == source.functions[f].allowed /\ \E p \in source.pipelines : f \in DOMAIN p
RunsAlone(f)   == \E p \in source.pipelines : f \in DOMAIN p /\ Exclusive(p, f)
EmittedFor(f) ==
  LET pairs == IF switches.shared /\ InPipeline(f) /\ RunsAlone(f) THEN Paired(Operations(f)) ELSE {}
      plain == UNION {{p[1], p[2]} : p \in pairs}
  IN [i \in DOMAIN Operations(f) |->
        IF i \in plain THEN NotAtomic(Operations(f)[i])
        ELSE IF switches.devirtualize /\ InPipeline(f) /\ Devirtualized(f, Operations(f)[i]) THEN Direct(f, Operations(f)[i])
        ELSE Operations(f)[i]]

-----------------------------------------------------------------------------
Absent == << >>
Functions == DOMAIN source.functions
Counts == {op.at : op \in UNION {{o \in ToSet(Operations(f)) : o.do \in {"sub", "add"}} : f \in Functions}}

IndirectionInitFrom(S) ==
  /\ source \in S /\ switches \in [shared : BOOLEAN, devirtualize : BOOLEAN]
  /\ emitted = Absent /\ flow = Absent /\ given = Absent
  /\ step = [f \in Functions |-> 1] /\ held = [f \in Functions |-> Absent]
  /\ counts = [c \in Counts |-> 0] /\ misled = {}
IndirectionInit == IndirectionInitFrom(Sources)

RunIndirection ==
  /\ emitted = Absent /\ emitted' = [f \in Functions |-> EmittedFor(f)]
  /\ UNCHANGED <<source, switches, flow, given, step, held, counts, misled>>

Objects(f) ==
  LET ps == source.functions[f].params
  IN {o \in [DOMAIN ps -> DOMAIN source.classes] : \A i \in DOMAIN ps : o[i] \in Admits(ps[i])}

\* The program calls a pipeline.
CallPipeline ==
  /\ emitted # Absent /\ flow = Absent /\ flow' \in source.pipelines
  /\ given' \in {g \in [Functions -> UNION {Objects(f) : f \in Functions}] : \A f \in Functions : g[f] \in Objects(f)}
  /\ UNCHANGED <<source, switches, emitted, step, held, counts, misled>>

AtEnd(f) == step[f] > Len(Operations(f))
Running(f)  == /\ flow # Absent /\ f \in DOMAIN flow /\ ~ AtEnd(f)
               /\ \A g \in DOMAIN flow : flow[g] < flow[f] => AtEnd(g)
Advance(f)    == step' = [step EXCEPT ![f] = @ + 1]

\* An atomic operation on a count, or one that does not matter here.
Atomic(f) ==
  LET op == emitted[f][step[f]]
  IN /\ op.do \in {"sub", "add", "arith", "memory"} /\ Advance(f)
     /\ counts' = IF op.do \in {"sub", "add"} THEN [counts EXCEPT ![op.at] = @ + IF op.do = "sub" THEN -1 ELSE 1]
                  ELSE counts
     /\ UNCHANGED <<held, misled>>
Load(f) ==
  LET op == emitted[f][step[f]]
  IN /\ op.do = "plain" /\ held[f] = Absent /\ held' = [held EXCEPT ![f] = <<counts[op.at]>>]
     /\ UNCHANGED <<step, counts, misled>>
Store(f) ==
  LET op == emitted[f][step[f]]
  IN /\ op.do = "plain" /\ held[f] # Absent /\ held' = [held EXCEPT ![f] = Absent]
     /\ counts' = [counts EXCEPT ![op.at] = held[f][1] + op.by] /\ Advance(f)
     /\ UNCHANGED misled
\* What the object's own class has in the slot, and what the call reaches.
Dispatch(f) ==
  LET op == emitted[f][step[f]]
  IN /\ op.do \in {"dispatch", "direct"} /\ Advance(f)
     /\ misled' = IF op.do = "direct" /\ op.to # VTable(Reached(op.was, given[f][op.was.param]))[op.was.slot + 1]
                  THEN misled \cup {<<f, step[f]>>} ELSE misled
     /\ UNCHANGED <<held, counts>>
Execute ==
  /\ \E f \in Functions : Running(f) /\ (Atomic(f) \/ Load(f) \/ Store(f) \/ Dispatch(f))
  /\ UNCHANGED <<source, switches, emitted, flow, given>>

FlowOver == flow # Absent /\ (\A f \in DOMAIN flow : AtEnd(f)) /\ UNCHANGED indirectionVars
IndirectionNext == RunIndirection \/ CallPipeline \/ Execute \/ FlowOver
IndirectionSpec == IndirectionInit /\ [][IndirectionNext]_indirectionVars

-----------------------------------------------------------------------------
\* A function that is alone in its stage in one pipeline is so in all of them.
Agreed(f) == RunsAlone(f) => \A p \in source.pipelines : f \in DOMAIN p => Exclusive(p, f)
\* The parameter itself, of a class of its own, whose instance functions are all virtual and all declared.
Flat(op, c) ==
  /\ op.member = Itself
  /\ Bases(c) = << >> /\ Admits(c) = {c}
  /\ \A m \in ToSet(Members(c)) : m.static = ~ m.virtual /\ (m.static \/ m.declared)

\* The operations of the flow that do this to a count.
Counted(do, c) ==
  {fi \in UNION {{f} \X DOMAIN Operations(f) : f \in DOMAIN flow} :
     LET op == Operations(fi[1])[fi[2]] IN op.do = do /\ op.at = c}

\* After the pass a pipeline leaves every reference count where its functions
\* take it, however they interleave, and every virtual call reaches the function
\* of the object's class: as long as the pipelines agree on who is alone in its
\* stage, and the object is the parameter, of the class the declarations tell.
PipelineKeepsMeaning ==
  /\ flow # Absent /\ (\A f \in DOMAIN flow : AtEnd(f)) /\ (\A f \in DOMAIN flow : Agreed(f)) =>
       \A c \in Counts : counts[c] = Cardinality(Counted("add", c)) - Cardinality(Counted("sub", c))
  /\ \A fi \in misled : LET op == Operations(fi[1])[fi[2]] IN ~ Flat(op, Static(fi[1], op))
=============================================================================
