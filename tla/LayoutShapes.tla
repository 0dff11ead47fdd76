----------------------------- MODULE LayoutShapes -----------------------------
(* Functions for DataLayout: all pairs of accesses to an array of two structs  *)
(* of two fields, in every form, and shorter lists of accesses with the other  *)
(* things a layout depends on.                                                 *)
EXTENDS Naturals, Sequences

Access(hows, f) == [how : hows, write : BOOLEAN, i : 0 .. 1, f : {f}]
Both == {"wrapper", "member", "array", "operator", "callee", "opaque"}
All    == Access(Both \cup {"first", "wide"}, 0) \cup Access(Both, 1)
Common == Access({"wrapper", "first"}, 0) \cup Access({"array"}, 1)

P(n) == [of |-> "P", length |-> n]
Q == [of |-> "Q", length |-> 1]
Simple ==
  [variant |-> "auto", types |-> <<P(2)>>, named |-> << >>, length |-> 2, first |-> TRUE, class |-> "same",
   scalar |-> TRUE, initial |-> "zero", member |-> 0, ops |-> << >>, exit |-> "return"]
Variants == {"auto", "force"}
\* A read of an array of zeros that nothing has written tells nothing.
Telling(l) == l.initial = "values" \/ l.ops[1].write
Pairs == {l \in {[Simple EXCEPT !.variant = v, !.initial = IF v = "auto" THEN "values" ELSE "zero", !.ops = <<a, b>>] :
                   v \in Variants, a \in All, b \in All} : Telling(l)}

\* Two writes and a read.
Triples == {[Simple EXCEPT !.variant = v, !.ops = <<a, b, c>>] :
              v \in Variants, a \in {o \in Common : o.write}, b \in {o \in Common : o.write}, c \in {o \in Common : ~ o.write}}

Few == {<<a, b>> : a \in {o \in Common : o.write}, b \in Common}
Varied ==
  {[Simple EXCEPT !.types = ts, !.class = k, !.ops = os] :
     ts \in {<<P(2), P(1)>>, <<P(1), P(2)>>, <<P(0), P(2)>>, <<P(3), P(2)>>, <<Q, P(2)>>, <<P(2), Q>>}, k \in {"same", "other", "none"}, os \in Few}
  \cup {[Simple EXCEPT !.variant = "force", !.types = ts, !.ops = os] :
          ts \in {<<P(1), P(2)>>, <<P(0), P(2)>>, <<P(3), P(2)>>, <<Q, P(2)>>}, os \in Few}
  \cup {[Simple EXCEPT !.variant = v, !.types = ts, !.named = ns, !.ops = <<a, b>>] :
          v \in Variants, ts \in {<< >>, <<P(0)>>, <<Q>>}, ns \in {<<P(2)>>, <<P(0), P(2)>>},
          a \in {o \in Access({"first"}, 0) \cup Access({"array"}, 1) : o.write}, b \in Access({"first", "operator"}, 0) \cup Access({"array"}, 1)}
  \cup {[Simple EXCEPT !.variant = v, !.scalar = s, !.member = m, !.initial = w, !.exit = e, !.ops = os] :
          v \in Variants, s \in BOOLEAN, m \in 0 .. 1, w \in {"zero", "values"}, e \in {"return", "throw", "never"}, os \in Few}
  \cup {[Simple EXCEPT !.first = FALSE, !.ops = os] : os \in Few}
  \cup {[Simple EXCEPT !.exit = "throw", !.initial = "values", !.ops = <<a, b>>] : a \in Common, b \in Common}

Shapes == Pairs \cup (Triples \cup Varied)
=============================================================================
