-------------------------------- MODULE Lifter --------------------------------
(***************************************************************************)
(* LLVMLifter at the structured level: the control flow of a function as   *)
(* statements.  A function is a graph of blocks; what a block computes is  *)
(* its number, if it computes anything at all (work).  The statements are  *)
(* run against the graph with the same decisions.                          *)
(*                                                                         *)
(* External: dominators and loops, which LLVM computes, and the meaning of *)
(* the statements, which the emitters of the transpiler give them.         *)
(***************************************************************************)
EXTENDS FlowGraphs, FiniteSetsExt

CONSTANTS
  Funcs,       \* functions, as in FlowGraphs
  MaxChoices   \* decisions of a run

-----------------------------------------------------------------------------
(* Statements.                                                             *)
Code(f, b) == IF b \in f.work THEN <<[k |-> "code", b |-> b]>> ELSE << >>
Ret(b)     == <<[k |-> "ret", b |-> b]>>
Call(b)    == <<[k |-> "call", b |-> b]>>
If(b, t, e)     == <<[k |-> "if", b |-> b, arms |-> <<t, e>>]>>
Switch(b, arms) == <<[k |-> "switch", b |-> b, arms |-> arms]>>
Repeat(b, kind, always, body) == <<[k |-> "loop", b |-> b, as |-> kind, always |-> always, body |-> body]>>
Try(b, body, catches, final) == <<[k |-> "try", b |-> b, body |-> body, catches |-> catches, final |-> final]>>
Jump(kind) == <<[k |-> kind, b |-> Null]>>

\* liftInstruction on the terminator of a block, where it makes a statement
Flat(f, b) ==
  CASE Op(f, b) = "ret"    -> Ret(b)
    [] Op(f, b) = "invoke" -> Call(b)
    [] Op(f, b) = "cond"   -> If(b, << >>, << >>)
    [] Op(f, b) = "switch" -> Switch(b, [i \in DOMAIN f.term[b].to |-> << >>])
    [] OTHER -> << >>

\* Direct level: the blocks one after another.
LiftFunctionDirect(f) == FlattenSeq([b \in 1 .. Cardinality(Blocks(f)) |-> Code(f, b) \o Flat(f, b)])

-----------------------------------------------------------------------------
(* Loops.                                                                  *)
DetectCountedLoop(f, h) == h \in f.counted /\ Op(f, h) = "cond"

Exits(f, h) == UNION {Succs(f, b) : b \in Loop(f, h)} \ Loop(f, h)

\* The blocks of a loop, flat: a branch out is a break, one to the header or to
\* the latch a continue.
LoopBlock(f, h, b) ==
  Code(f, b) \o
  (CASE Op(f, b) = "cond" -> << >>
     [] Op(f, b) = "br" ->
          LET to == f.term[b].to[1] IN
            IF to \in Exits(f, h) THEN Jump("break")
            ELSE IF to = h \/ Latches(f, h) = {to} THEN Jump("continue")
            ELSE << >>
     [] OTHER -> Flat(f, b))

LoopBody(f, h, v) ==
  FlattenSeq([i \in 1 .. Cardinality(Loop(f, h) \ (v \cup {h})) |->
                LoopBlock(f, h, Ordered(Loop(f, h) \ (v \cup {h}))[i])])

LiftLoop(f, h, v) ==
  Repeat(h, IF DetectCountedLoop(f, h) THEN "for" ELSE "while", Op(f, h) # "cond", LoopBody(f, h, v))

-----------------------------------------------------------------------------
(* Regions.  v: the blocks that were visited, eh: the entries of protected *)
(* regions being built.                                                    *)
RECURSIVE Scan(_, _, _, _)
\* The blocks that the search for invokes looks at, on normal edges.
Scan(f, from, entry, exit) ==
  LET onward(b) == IF Op(f, b) = "invoke" THEN {f.term[b].to[1]}
                   ELSE IF IsHeader(f, b) /\ b # entry THEN {} ELSE Succs(f, b)
      more == UNION {onward(b) : b \in from} \ (from \cup {exit})
  IN IF more = {} THEN from ELSE Scan(f, from \cup more, entry, exit)

Invokes(f, entry, exit) == {b \in Scan(f, {entry}, entry, exit) : Op(f, b) = "invoke"}
Pads(f, invokes) == {f.term[b].to[2] : b \in invokes}

Understood(pad) ==
  /\ \A i \in DOMAIN pad.clauses : pad.clauses[i] \in {"typed", "all"}
  /\ pad.clauses # << >> \/ pad.cleanup

RECURSIVE LiftBlockRegion(_, _, _, _, _), LiftEach(_, _, _, _, _)

\* Regions in turn, each with the blocks that the ones before it visited.
LiftEach(f, entries, exit, v, eh) ==
  IF entries = << >> THEN [s |-> << >>, v |-> v]
  ELSE LET first == LiftBlockRegion(f, Head(entries), exit, v, eh)
           rest  == LiftEach(f, Tail(entries), exit, first.v, eh)
       IN [s |-> <<first.s>> \o rest.s, v |-> rest.v]

Then(s, r) == [s |-> s \o r.s, v |-> r.v]

TryLiftEHRegion(f, entry, exit, v, eh) ==
  LET invokes == Invokes(f, entry, exit) IN
  IF \/ entry \in eh \/ IsPad(f, entry) \/ ~ f.itanium \/ f.funclet
     \/ Cardinality(Pads(f, invokes)) # 1
  THEN [ok |-> FALSE, s |-> << >>, v |-> v]
  ELSE
    LET pad   == CHOOSE p \in Pads(f, invokes) : TRUE
        join  == Converge(f, {f.term[b].to[1] : b \in invokes})
        conv  == IF join = Null THEN exit ELSE join
        body  == LiftBlockRegion(f, entry, conv, v \cup {pad}, eh \cup {entry})
        after == IF pad \in v THEN body.v ELSE body.v \ {pad}
        cl    == f.pads[pad]
        hand  == LiftBlockRegion(f, pad, conv, after, eh)
        \* only the first clause has the handlers
        catches == [i \in DOMAIN cl.clauses |->
                      [type |-> cl.clauses[i], body |-> IF i = 1 THEN hand.s ELSE << >>]]
        final   == IF cl.clauses = << >> THEN hand.s ELSE << >>
    IN IF ~ Understood(cl) THEN [ok |-> FALSE, s |-> << >>, v |-> after]
       ELSE LET rest == LiftBlockRegion(f, IF conv = exit THEN Null ELSE conv, exit, hand.v, eh)
            IN [ok |-> TRUE, s |-> Try(pad, body.s, catches, final) \o rest.s, v |-> rest.v]

LiftArms_Afresh(f, b, conv, v, eh) ==
  [s |-> [i \in DOMAIN f.term[b].to |-> LiftBlockRegion(f, f.term[b].to[i], conv, v, eh).s], v |-> v]
LiftArms(f, b, conv, v, eh) == LiftEach(f, f.term[b].to, conv, v, eh)

LiftBlock(f, b, exit, v, eh) ==
  LET to == f.term[b].to IN
  IF IsHeader(f, b)
  THEN LET rest == LiftEach(f, Ordered(Exits(f, b)), exit, v \cup Loop(f, b), eh)
       IN [s |-> LiftLoop(f, b, v) \o FlattenSeq(rest.s), v |-> rest.v]
  ELSE
  CASE Op(f, b) \in {"cond", "switch"} ->
         LET conv == Converge(f, Succs(f, b))
             arms == LiftArms(f, b, conv, v, eh)
             stmt == IF Op(f, b) = "cond" THEN If(b, arms.s[1], arms.s[2]) ELSE Switch(b, arms.s)
         IN Then(Code(f, b) \o stmt, LiftBlockRegion(f, conv, exit, arms.v, eh))
    [] Op(f, b) = "invoke" ->
         Then(Code(f, b) \o Call(b), LiftBlockRegion(f, to[1], exit, v, eh))
    [] Op(f, b) = "br" -> Then(Code(f, b), LiftBlockRegion(f, to[1], exit, v, eh))
    [] Op(f, b) = "ret" -> [s |-> Code(f, b) \o Ret(b), v |-> v]
    [] OTHER -> [s |-> Code(f, b), v |-> v]

LiftBlockRegion(f, entry, exit, v, eh) ==
  IF entry \in v \cup {Null, exit} THEN [s |-> << >>, v |-> v]
  ELSE LET t == TryLiftEHRegion(f, entry, exit, v, eh) IN
         IF t.ok \/ entry \in t.v THEN [s |-> t.s, v |-> t.v]
         ELSE LiftBlock(f, entry, exit, t.v \cup {entry}, eh)

LiftFunctionStructured(f) == LiftBlockRegion(f, 1, Null, {}, {}).s

-----------------------------------------------------------------------------
(* What statements do: a run is a trace of code, calls and returns, that   *)
(* takes its decisions from a list and stops where the list ends.          *)
Take(m) == IF m.in = << >> THEN [m EXCEPT !.out = "stop"] ELSE [m EXCEPT !.in = Tail(@)]
Say(m, what, b) == [m EXCEPT !.trace = Append(@, <<what, b>>)]

RECURSIVE Play(_, _, _)
PlayOne(f, st, m) ==
  LET c    == Head(m.in)
      next == Take(m)
  IN
  CASE st.k = "code" -> Say(m, "code", st.b)
    [] st.k = "ret"  -> [Say(m, "ret", st.b) EXCEPT !.out = "ret"]
    [] st.k \in {"break", "continue"} -> [m EXCEPT !.out = st.k]
    [] st.k = "call" ->
         LET said == Say(m, "call", st.b) IN
           IF m.in = << >> THEN [said EXCEPT !.out = "stop"]
           ELSE IF c = 2 THEN [said EXCEPT !.in = Tail(@), !.out = "throw"] ELSE [said EXCEPT !.in = Tail(@)]
    [] st.k \in {"if", "switch"} -> IF next.out = "stop" THEN next ELSE Play(f, st.arms[c], next)
    [] st.k = "loop" ->
         LET go  == IF st.always THEN m ELSE next
             end == Play(f, st.body, go)
         IN IF go.out = "stop" \/ (~ st.always /\ c = 2) THEN go
            ELSE IF end.out \in {"next", "continue"} /\ end.in # m.in THEN Play(f, <<st>>, [end EXCEPT !.out = "next"])
            ELSE IF end.out = "break" THEN [end EXCEPT !.out = "next"]
            ELSE end
    [] st.k = "try" ->
         LET end  == Play(f, st.body, m)
             \* a typed clause whose pad tests the selector takes the next decision
             tests == Op(f, st.b) = "cond"
             goes == tests /\ end.in # << >> /\ Head(end.in) = 2
         IN IF end.out # "throw" THEN
              (IF end.out = "stop" THEN end
               ELSE LET fin == Play(f, st.final, [end EXCEPT !.out = "next"])
                    IN IF fin.out = "next" THEN [fin EXCEPT !.out = end.out] ELSE fin)
            ELSE IF st.catches = << >> THEN
              LET fin == Play(f, st.final, [end EXCEPT !.out = "next"])
              IN IF fin.out = "next" THEN [fin EXCEPT !.out = "throw"] ELSE fin
            ELSE IF goes THEN [end EXCEPT !.in = Tail(@)]
            ELSE Play(f, st.catches[1].body, [end EXCEPT !.out = "next"])

Play(f, s, m) ==
  IF s = << >> \/ m.out # "next" THEN m ELSE Play(f, Tail(s), PlayOne(f, Head(s), m))

Meaning(f, s, choices) ==
  LET end == Play(f, s, [trace |-> << >>, in |-> choices, out |-> "next"]) IN
    [trace |-> end.trace, out |-> end.out]

-----------------------------------------------------------------------------
VARIABLES
  fn, level, lifted,
  at,        \* the block that runs next, Null when the run is over
  trace, choices, how

liftVars == <<fn, level, lifted, at, trace, choices, how>>

LiftInitFrom(S) ==
  /\ fn \in S /\ level \in {"direct", "structured"} /\ lifted = << >> /\ at = Null
  /\ trace = << >> /\ choices = << >> /\ how = "unlifted"
LiftInit == LiftInitFrom(Funcs)

Lift ==
  /\ how = "unlifted"
  /\ IF level = "structured"
     THEN lifted' = LiftFunctionStructured(fn) /\ at' = 1 /\ how' = "running"
     ELSE lifted' = LiftFunctionDirect(fn) /\ at' = Null /\ how' = "listed"
  /\ UNCHANGED <<fn, level, trace, choices>>

Worked == IF at \in fn.work THEN <<<<"code", at>>>> ELSE << >>

\* A block that ends in a jump.
Run ==
  /\ how = "running" /\ Op(fn, at) = "br"
  /\ trace' = trace \o Worked /\ at' = fn.term[at].to[1]
  /\ UNCHANGED <<fn, level, lifted, choices, how>>

\* A block that ends in a decision; that of an invoke is whether the callee throws.
Decide ==
  /\ how = "running" /\ Op(fn, at) \in {"cond", "switch", "invoke"}
  /\ Len(choices) < MaxChoices
  /\ \E c \in DOMAIN fn.term[at].to : at' = fn.term[at].to[c] /\ choices' = Append(choices, c)
  /\ trace' = trace \o Worked \o (IF Op(fn, at) = "invoke" THEN <<<<"call", at>>>> ELSE << >>)
  /\ UNCHANGED <<fn, level, lifted, how>>

Leave ==
  /\ how = "running"
  /\ \/ /\ Op(fn, at) = "ret"    /\ how' = "ret"
        /\ trace' = trace \o Worked \o <<<<"ret", at>>>>
     \/ Op(fn, at) = "resume" /\ how' = "throw" /\ trace' = trace \o Worked
  /\ at' = Null /\ UNCHANGED <<fn, level, lifted, choices>>

LiftOver == UNCHANGED liftVars /\ (how \in {"ret", "throw", "listed"} \/ Len(choices) = MaxChoices)

LiftNext == Lift \/ Run \/ Decide \/ Leave \/ LiftOver
LiftSpec == LiftInit /\ [][LiftNext]_liftVars
-----------------------------------------------------------------------------
RECURSIVE Emitted(_)
\* The blocks whose code is in a list of statements, once per occurrence.
Emitted(s) ==
  IF s = << >> THEN << >>
  ELSE LET st == Head(s)
           inner == CASE st.k \in {"if", "switch"} -> FlattenSeq([i \in DOMAIN st.arms |-> Emitted(st.arms[i])])
                      [] st.k = "loop" -> Emitted(st.body)
                      [] st.k = "try" -> Emitted(st.body) \o Emitted(st.final)
                             \o FlattenSeq([i \in DOMAIN st.catches |-> Emitted(st.catches[i].body)])
                      [] st.k = "code" -> <<st.b>>
                      [] OTHER -> << >>
       IN inner \o Emitted(Tail(s))

\* A pad that gives up takes the blocks it was tried with along, and pads that
\* belong to no try are not reached at all.
AllHandled(f) == \A b \in Blocks(f) : Op(f, b) # "invoke"

\* The code of a block is lifted once: not twice, when two regions share it, and not
\* never, when a loop or an arm ends early.  The header of a loop is the exception:
\* of it only the condition remains.  The direct level lists all blocks.
OnceEach ==
  LET blocks == Emitted(lifted) IN
    /\ IsInjective(blocks)
    /\ (AllHandled(fn) \/ level = "direct") => {b \in fn.work : ~ IsHeader(fn, b)} \subseteq ToSet(blocks)

\* What the structuring takes for granted: arms share no block before they join,
\* a loop is a test that continues on true and a body without decisions, whose
\* latch computes nothing unless it is the whole body, and the one call that may
\* unwind, if any, begins the function and has a single handler, that goes where
\* the call returns to.
Disjoint(f, b) ==
  LET conv == Converge(f, Succs(f, b))
  IN \A i, j \in DOMAIN f.term[b].to :
       i # j => From(f, f.term[b].to[i], {conv}) \cap From(f, f.term[b].to[j], {conv}) = {}
SimpleLoop(f, h) ==
  LET body == Loop(f, h) \ {h} IN
  /\ Op(f, h) = "cond" /\ h \notin f.work /\ body # {}
  /\ f.term[h].to[1] \in body /\ f.term[h].to[2] \notin body \cup {h}
  /\ \A b \in body : Op(f, b) = "br" /\ f.term[b].to[1] \in Loop(f, h)
  /\ Cardinality(Latches(f, h)) = 1 /\ (Latches(f, h) \cap f.work = {} \/ Cardinality(body) = 1)
WellNested(f) ==
  /\ \A b \in Blocks(f) :
       IF IsHeader(f, b) THEN SimpleLoop(f, b)
       ELSE Op(f, b) \in {"cond", "switch"} => Disjoint(f, b)
  /\ \A b \in Blocks(f) : Op(f, b) = "invoke" =>
       /\ b = 1 /\ f.itanium /\ ~ f.funclet
       /\ f.pads[f.term[b].to[2]] \in [clauses : {<<"typed">>, <<"all">>}, cleanup : {FALSE}]
       /\ f.term[b].to[1] \in PostDoms(f, f.term[b].to[2])

Agrees == LET m == Meaning(fn, lifted, choices) IN m.trace = trace /\ m.out = how

\* Whatever the shape of the graph, no block is lifted twice and none is lost; and
\* the statements made of a well nested graph run as the graph does, whatever it
\* decides: no arm, no iteration, no code after a join is lost, added or moved.
LiftedAsWritten ==
  /\ how # "unlifted" => OnceEach
  /\ how \in {"ret", "throw"} /\ WellNested(fn) => Agrees
=============================================================================
