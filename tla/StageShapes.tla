---------------------------- MODULE StageShapes -----------------------------
(* Pipelines for StageFlow: load -> {enhance, detect} -> compose, as lists of *)
(* edges and signatures that differ in what the passes look at.              *)
EXTENDS StageTerms, Sequences, TLC

Structs == "pair" :> <<"int", "flt">>

Sig(params, ret)  == [params |-> params, ret |-> ret, sret |-> FALSE, ir |-> "defined"]
Sret(params, ret) == [params |-> params, ret |-> ret, sret |-> TRUE, ir |-> "defined"]
Int1 == Sig(<<"int">>, "int")
Plain == [load |-> Int1, enhance |-> Int1, detect |-> Int1, compose |-> Sig(<<"int", "int">>, "int")]

Diamond == [
  params |-> <<"int">>, ret |-> "int",
  groups |-> <<<<"load">>, <<"enhance", "detect">>, <<"compose">>>>,
  sources |-> {"load"},
  edges |-> <<<<"load", "enhance">>, <<"load", "detect">>, <<"enhance", "compose">>, <<"detect", "compose">>>>,
  terminal |-> "compose", sig |-> Plain, excluded |-> {}, body |-> << >>]

With(n, s)  == [Diamond EXCEPT !.sig[n] = s]
Ir(n, kind) == [Diamond EXCEPT !.sig[n].ir = kind]

\* a third stage in the middle group
Wide == [Diamond EXCEPT !.groups[2] = <<"enhance", "label", "detect">>,
                        !.edges = @ \o <<<<"load", "label">>, <<"label", "compose">>>>,
                        !.sig = ("label" :> Int1) @@ [Plain EXCEPT !["compose"].params = <<"int", "int", "int">>]]

C(id, n, args) == Ins("call", id, n, args, Out(id))
\* bodies written by hand: a value computed between two calls and used by the
\* second, used by none of them, a stage called twice
Between(arg) == <<C("load", "load", <<Param(1)>>), C("enhance", "enhance", <<Out("load")>>),
                  Ins("compute", "mid", "mid", <<Out("enhance")>>, Out("mid")),
                  C("detect", "detect", <<arg>>),
                  C("compose", "compose", <<Out("mid"), Out("detect")>>),
                  Ins("ret", "ret", "ret", <<Out("compose")>>, None)>>
Twice == <<C("load", "load", <<Param(1)>>), C("e1", "enhance", <<Out("load")>>),
           C("e2", "enhance", <<Param(1)>>), C("detect", "detect", <<Out("load")>>),
           C("compose", "compose", <<Out("e1"), Out("e2")>>),
           Ins("ret", "ret", "ret", <<Out("compose")>>, None)>>
ByHand(b) == [Diamond EXCEPT !.body = b]

Shapes == {
  Diamond,
  \* load offers a struct; each consumer extracts its field
  [With("load", Sig(<<"int">>, "pair")) EXCEPT !.sig["detect"] = Sig(<<"flt">>, "int")],
  \* stages without a result: only the order of the edges binds them
  [With("enhance", Sig(<<"int">>, "void")) EXCEPT !.sig["compose"] = Int1],
  [With("load", Sig(<<"int">>, "void")) EXCEPT !.ret = "void", !.sig["compose"].ret = "void"],
  [Diamond EXCEPT !.ret = "void", !.sig = [n \in DOMAIN Plain |-> [Plain[n] EXCEPT !.ret = "void"]]],
  \* results through sret
  [With("enhance", Sret(<<"int">>, "pair")) EXCEPT !.sig["compose"] = Sig(<<"int", "flt">>, "int")],
  [With("detect", Sret(<<"int">>, "pair")) EXCEPT !.sig["compose"] = Sig(<<"int", "flt">>, "int")],
  [With("compose", Sret(<<"int", "int">>, "pair")) EXCEPT !.ret = "flt"],
  \* functions that are not there, only declared, variadic or excluded
  Ir("detect", "missing"), Ir("enhance", "declared"), Ir("detect", "variadic"),
  [Diamond EXCEPT !.excluded = {"enhance"}], Wide, [Wide EXCEPT !.excluded = {"label"}],
  \* nothing matches
  With("compose", Sig(<<"int", "flt">>, "int")), [Diamond EXCEPT !.ret = "flt"],
  ByHand(Between(Out("mid"))), ByHand(Between(Out("load"))), ByHand(Twice)}
=============================================================================
