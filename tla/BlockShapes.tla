----------------------------- MODULE BlockShapes -----------------------------
(* Logic blocks for FnBlocks: three operations in up to two stages, with any  *)
(* use of a global and of each other's values, and shapes the checks are not  *)
(* made for.                                                                  *)
EXTENDS Naturals, Sequences

Fns == {"f", "g", "h"}
Effect(r, w, ro) == [defined |-> TRUE, reads |-> r, writes |-> w, readonly |-> ro, hidden |-> {}]
Pure   == Effect({}, {}, TRUE)
Reader == Effect({"G"}, {}, TRUE)
Effects == {Pure, Reader, Effect({"G"}, {}, FALSE), Effect({}, {"G"}, FALSE), Effect({"G"}, {"G"}, FALSE)}

Call(fn, args) == [fn |-> fn, pos |-> 0, args |-> args, keep |-> "none"]
Bodies == {<<Call("f", <<<<"const">>>>), Call("g", a), Call("h", c)>> :
             a \in {<< >>, <<<<"call", 1>>>>}, c \in {<< >>, <<<<"call", 1>>>>, <<<<"call", 2>>>>, <<<<"call", 1>>, <<"call", 2>>>>}}
Ops(stages) == [k \in 1 .. 3 |-> [fn |-> <<"f", "g", "h">>[k], stage |-> stages[k]]]

Block(ops, body, effects) ==
  [ops |-> ops, pipeline |-> FALSE, terminal |-> "none", body |-> body, mapped |-> Fns, effects |-> effects]
Regular == {Block(Ops(s), b, [f |-> x, g |-> y, h |-> z]) :
              s \in [1 .. 3 -> 0 .. 1], b \in Bodies, x \in Effects, y \in Effects \ {Pure}, z \in {Pure, Reader, Effect({"G"}, {"G"}, FALSE)}}

Quiet == [f \in Fns |-> Pure]
Some == Block(Ops(<<0, 0, 1>>), <<Call("f", << >>), Call("g", << >>), Call("h", <<<<"call", 1>>, <<"call", 2>>>>)>>, Quiet)
At(body, ps) == [i \in DOMAIN body |-> [body[i] EXCEPT !.pos = ps[i]]]
Special ==
  {[Some EXCEPT !.body = At(@, <<1, 2, 3>>)], [Some EXCEPT !.body = At(@, <<2, 1, 3>>)], [Some EXCEPT !.body = At(@, <<2, 3, 1>>)],
   [Some EXCEPT !.body = SubSeq(@, 1, 2)], [Some EXCEPT !.ops = SubSeq(@, 1, 2)], [Some EXCEPT !.mapped = {"f", "g"}],
   [Some EXCEPT !.mapped = {"f", "g"}, !.ops = SubSeq(@, 1, 2)],
   [Some EXCEPT !.body[1].keep = "x", !.body[2].args = <<<<"local", "x">>>>],
   [Some EXCEPT !.effects.f.hidden = {"G"}, !.effects.g.hidden = {"G"}],
   [Some EXCEPT !.ops = Append(@, [fn |-> "f", stage |-> 2])],
   [Some EXCEPT !.pipeline = TRUE, !.terminal = "h"], [Some EXCEPT !.pipeline = TRUE, !.terminal = "g"],
   [Some EXCEPT !.pipeline = TRUE, !.body = << >>, !.terminal = "h"]}
Bodied == Special \cup Regular
=============================================================================
