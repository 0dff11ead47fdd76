----------------------------- MODULE LiftShapes -----------------------------
(* Graphs for Lifter: all small ones, and shapes that need more blocks; and  *)
(* programs for LiftCode: two variables, a read-modify-write of one of them, *)
(* and a result.                                                             *)
EXTENDS FlowGraphs

T(op, to) == [op |-> op, to |-> to]
Br(b) == T("br", <<b>>)
Cond(t, e) == T("cond", <<t, e>>)
Return == T("ret", << >>)

F(term) == [term |-> term, work |-> DOMAIN term, pads |-> << >>, counted |-> {},
            itanium |-> TRUE, funclet |-> FALSE]
NoPads == [b \in {} |-> << >>]
Fun(term, work) == [F(term) EXCEPT !.work = work, !.pads = NoPads]

\* Every graph of four blocks whose blocks are all reached and all end; in
\* numbering an order in which the first edges go forward.
Terms(n, b) ==
  {Return} \cup {Br(t) : t \in 2 .. n} \cup {Cond(t, e) : t, e \in 2 .. n}
Graphs(n) ==
  {g \in {Fun(term, 1 .. n) : term \in [1 .. n -> Terms(n, 1)]} :
     /\ \A b \in 2 .. n : \E a \in 1 .. b - 1 : b \in Succs(g, a)
     /\ \A b \in 1 .. n : From(g, b, {}) \cap Ends(g) # {}
     \* reducible: an edge back goes to a header that dominates its source
     /\ \A b \in 1 .. n : \A t \in Succs(g, b) : t <= b => Dominates(g, t, b)
     /\ \A b \in 1 .. n : Op(g, b) = "cond" => g.term[b].to[1] # g.term[b].to[2]}

\* Headers that only test.
BareHeaders(g) == [g EXCEPT !.work = {b \in @ : ~ IsHeader(g, b)}]
Counted(g) == [g EXCEPT !.counted = {b \in Blocks(g) : IsHeader(g, b)}]

Nested == Fun(<<Cond(2, 6), Cond(3, 4), Br(5), Br(5), Br(7), Br(7), Return>>, 1 .. 7)
Cases  == Fun(<<T("switch", <<2, 3, 4>>), Br(5), Cond(5, 6), Br(5), Return, Return>>, {2, 3, 4, 5})
Joined == Fun(<<T("switch", <<2, 3, 4>>), Br(4), Br(4), Return>>, 1 .. 4)
LoopInArm == Fun(<<Cond(2, 5), Cond(3, 4), Br(2), Br(6), Br(6), Return>>, {1, 3, 4, 5, 6})
LongBody == Fun(<<Br(2), Cond(3, 5), Br(4), Br(2), Return>>, {1, 3, 5})
ArmInLoop == Fun(<<Br(2), Cond(3, 6), Cond(4, 5), Br(5), Br(2), Return>>, {1, 3, 4, 5, 6})
AndElse == Fun(<<Cond(2, 4), Cond(3, 4), Br(5), Br(5), Return>>, 1 .. 5)

Pad(clauses, cleanup) == [clauses |-> clauses, cleanup |-> cleanup]
\* one call, its landing pad, the handler and where they meet
OneCall(pad, itanium) ==
  [Fun(<<T("invoke", <<2, 3>>), Br(4), Br(4), Return>>, 1 .. 4)
     EXCEPT !.pads = [b \in {3} |-> pad], !.itanium = itanium]
\* the handler goes where the call returns to
Resumed(pad) == [Fun(<<T("invoke", <<2, 3>>), Cond(4, 5), Br(2), Return, Return>>, 1 .. 5)
                   EXCEPT !.pads = [b \in {3} |-> pad]]
Typed == Pad(<<"typed">>, FALSE)
Tested == [Fun(<<T("invoke", <<2, 3>>), Br(6), Cond(4, 5), Br(6), T("resume", << >>), Return>>, {1, 2, 4, 6})
             EXCEPT !.pads = [b \in {3} |-> Typed]]

Handlers == {Resumed(Typed), Resumed(Pad(<<"all">>, FALSE)), Resumed(Pad(<< >>, TRUE)),
             OneCall(Typed, TRUE), OneCall(Pad(<<"all">>, FALSE), TRUE), OneCall(Pad(<<"typed", "all">>, TRUE), TRUE),
             Tested, OneCall(Pad(<<"filter">>, FALSE), TRUE), OneCall(Pad(<<"unnamed">>, FALSE), TRUE),
             OneCall(Typed, FALSE), [OneCall(Typed, TRUE) EXCEPT !.funclet = TRUE]}

Shapes == UNION {{g, BareHeaders(g), Counted(BareHeaders(g))} : g \in Graphs(4)}
          \cup {Nested, Cases, Joined, LoopInArm, LongBody, ArmInLoop, AndElse} \cup Handlers
-----------------------------------------------------------------------------
I(op, by, def, args) == [op |-> op, by |-> by, def |-> def, args |-> args]
Name(x) == <<"name", x>>
Lit(n)  == <<"lit", n>>

Operators == {"add", "sub", "mul", "sdiv", "srem", "udiv", "shl", "slt", "ult", "eq"}
Modify(by, from, args, to) ==
  <<I("load", "", "t", <<Name(from)>>), I("binop", by, "u", args), I("store", "", to, <<Name("u")>>)>>
Results == {<<I("ret", "", "result", <<r>>)>> : r \in {Name("t"), Name("u"), Lit(1)}}
  \cup {<<I("load", "", "w", <<Name("x")>>),
          I("select", "", "s", <<Name("w"), Name("w"), Lit(2)>>), I("ret", "", "result", <<Name("s")>>)>>}

\* t op v, v op t, t op t
ReadModifyWrite ==
  {Modify(by, from, args, "x") \o r :
     by \in Operators, from \in {"x", "y"}, r \in Results,
     args \in {<<Name("t"), Lit(3)>>, <<Lit(3), Name("t")>>, <<Name("t"), Name("y")>>, <<Name("t"), Name("t")>>}}

Values == {0, 3, 6}
Memories == [{"x", "y"} -> Values]
=============================================================================
