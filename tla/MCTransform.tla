----------------------------- MODULE MCTransform -----------------------------
(***************************************************************************)
(* One pipeline p with a stage s and a helper h, in a program whose main   *)
(* calls p and may call h or take its address.                             *)
(***************************************************************************)
EXTENDS Transform

Names3    == {"p", "s", "h"}
OneBlock  == {"p"}
OneStage  == [p |-> {"s"}]
Uses4(m, p, s, h) ==
  [e \in Names3 \cup {Main} |-> CASE e = Main -> m [] e = "p" -> p [] e = "s" -> s [] e = "h" -> h]

\* The helper shared by main and the stage, recursive, calling the stage back,
\* or with its address taken; and programs where a function is not there.
Shapes ==
  {[defined |-> Names3, calls |-> Uses4(m, {}, {"h"}, h), refs |-> Uses4(r, {}, {}, {})] :
     m \in {{"p"}, {"p", "h"}}, h \in {{}, {"h"}, {"s"}}, r \in {{}, {"h"}}}
  \cup {[defined |-> d, calls |-> Uses4({"p"}, {}, {}, {}), refs |-> Uses4({}, {}, {}, {})] :
     d \in {{"p", "h"}, {"s", "h"}}}

Visibilities == {"public", "protected", "private", "internal", "ignore"}

Cases ==
  {[defined |-> x.defined, calls |-> x.calls, refs |-> x.refs, vis |-> [p |-> vp, s |-> vs, h |-> vh]] :
     x \in Shapes, vp \in {"public", "private"}, vs \in Visibilities, vh \in {"private", "internal"}}

Builds ==
  [opt : {0, 2}, embed : BOOLEAN, aggressive : BOOLEAN, layout : BOOLEAN, parallel : BOOLEAN,
   debug : BOOLEAN, hint : BOOLEAN, verify : {"strict", "warn"}]
\* The switches that matter to each other are combined, the others vary alone.
SomeBuilds ==
  {c \in Builds :
     /\ c.opt = 0 => ~ (c.aggressive \/ c.layout \/ c.parallel \/ c.hint)
     /\ c.verify = "warn" => c.opt = 2 /\ c.embed /\ c.layout /\ ~ c.debug
     /\ c.debug => ~ (c.hint \/ c.parallel \/ c.layout)
     /\ c.hint => ~ (c.layout \/ c.aggressive \/ c.parallel)
     /\ c.aggressive => ~ (c.parallel \/ c.layout)}
=============================================================================
