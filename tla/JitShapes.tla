------------------------------ MODULE JitShapes ------------------------------
(* Embeddings for JitEngine.                                                  *)
EXTENDS Naturals, Sequences, SequencesExt

Sig(params, ret) == [params |-> params, ret |-> ret]
Pipe(name, nodes, edges, sources, terminal, sig) ==
  [name |-> name, nodes |-> nodes, edges |-> edges, sources |-> sources, terminal |-> terminal,
   params |-> <<"int">>, ret |-> "int", sig |-> sig]

\* a, then b and c side by side, then d
Names == {"a", "b", "c", "d"}
Ints(arity) == [n \in Names |-> Sig([i \in 1 .. arity[n] |-> "int"], "int")]
Diamond == Pipe("render", <<"a", "b", "c", "d">>, <<<<"a", "b">>, <<"a", "c">>, <<"b", "d">>, <<"c", "d">>>>,
                {"a"}, "d", Ints([a |-> 1, b |-> 1, c |-> 1, d |-> 2]))
\* c gives what only d takes: without it d has no argument
Typed == [Diamond EXCEPT !.sig = [@ EXCEPT !.c = Sig(<<"int">>, "vec"), !.d = Sig(<<"int", "vec">>, "int")]]
\* another pipeline with stages of the same names
Chain == Pipe("tick", <<"a", "c">>, <<<<"a", "c">>>>, {"a"}, "c", Ints([a |-> 1, b |-> 1, c |-> 1, d |-> 1]))
Logged == [Chain EXCEPT !.name = "log", !.ret = "void"]

\* a stage that is a pipeline itself
Nested == Pipe("frame", <<"a", "tick">>, <<<<"a", "tick">>>>, {"a"}, "tick",
               [n \in {"a", "tick"} |-> Sig(<<"int">>, "int")])

\* the stubs call nothing but the placeholder, and the stages each other
Calls(pipes) == [f \in {p.name : p \in ToSet(pipes)} \cup Names |-> IF f = "b" THEN {"a"} ELSE {}]
Binary(pipes, host, parallel) ==
  [pipes |-> pipes, calls |-> Calls(pipes), host |-> host, parallel |-> parallel, bitcode |-> TRUE]

Simple   == Binary(<<Diamond>>, Names, TRUE)
Complete == {Binary(ps, Names, TRUE) : ps \in {<<Diamond>>, <<Typed, Diamond>>, <<Chain, Typed>>, <<Logged>>}}
Others   == {Binary(<<Diamond>>, Names \ {"c"}, TRUE), [Binary(<<Chain>>, Names, FALSE) EXCEPT !.bitcode = FALSE],
             Binary(<<Nested, Chain>>, Names \cup {"tick"}, TRUE), Binary(<<Nested, Chain>>, Names \cup {"tick"}, FALSE)}
Embeddings == Complete \cup Others

Prunes == {{}, {<<"*", "c">>}, {<<"b", "d">>}, {<<"*", "*">>}, {<<"x", "y">>}}
Costs  == {[a |-> 50, b |-> 50, c |-> 1], [a |-> 1, b |-> 40, c |-> 40], [a |-> 50, c |-> 2]}
=============================================================================
