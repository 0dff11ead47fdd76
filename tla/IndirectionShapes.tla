--------------------------- MODULE IndirectionShapes ---------------------------
(* Programs for Indirection: stages that copy and drop what they share, and   *)
(* stages that call through the table of a class of a small hierarchy.        *)
EXTENDS Naturals, Sequences, SequencesExt

Sub(c) == [do |-> "sub", at |-> c]
Add(c) == [do |-> "add", at |-> c]
Arith  == [do |-> "arith"]
Memory == [do |-> "memory"]
Drops == {<<Sub("r"), Add("r")>>, <<Sub("r"), Arith, Add("r")>>, <<Sub("r"), Memory, Add("r")>>,
          <<Sub("r"), Sub("r"), Add("r")>>, <<Sub("r"), Add("s"), Add("r")>>, <<Add("r"), Sub("r")>>}

Fn(params, body) == [params |-> params, body |-> body, allowed |-> TRUE]
Flows == {[f |-> 0, g |-> 0, h |-> 1], [f |-> 0, g |-> 1, h |-> 1], [f |-> 0, g |-> 1, h |-> 2]}
Counting ==
  {[classes |-> << >>, pipelines |-> P,
    functions |-> [f |-> [Fn(<< >>, bf) EXCEPT !.allowed = a], g |-> Fn(<< >>, bg), h |-> Fn(<< >>, <<Sub("r"), Add("r")>>)]] :
     P \in {{p} : p \in Flows} \cup {{p, q} : p, q \in Flows}, bf \in Drops, bg \in {<<Sub("r"), Add("r")>>, <<Add("r"), Sub("r")>>},
     a \in BOOLEAN}

Member(name, static, virtual) ==
  [name |-> name, type |-> "num", static |-> static, virtual |-> virtual, declared |-> TRUE, mapped |-> TRUE]
Make == Member("make", TRUE, FALSE)
Name == Member("name", FALSE, FALSE)
Area == Member("area", FALSE, TRUE)
Size == Member("size", FALSE, TRUE)
Text == [Size EXCEPT !.name = "text", !.type = "text"]
\* A destructor has two slots, and is never in the list of member functions.
Dtor == [Member("~", FALSE, TRUE) EXCEPT !.declared = FALSE, !.type = "void"]
Free == [Dtor EXCEPT !.name = "~free"]

Bases == {<<Area, Size>>, <<Make, Area, Size>>, <<Area, Make, Text>>, <<Size, Text, Area>>, <<Name, Area, Size>>, <<Dtor, Free, Area>>,
          <<[Area EXCEPT !.mapped = FALSE], Size>>, <<[Area EXCEPT !.declared = FALSE], Size>>}
Derived == {<< >>, <<Area>>, <<Size, Area>>, <<Text>>, <<Area, Text>>}

Class(bases, members) == [bases |-> bases, known |-> TRUE, members |-> members]
Hierarchies ==
  {[C |-> Class(<< >>, m)] : m \in Bases}
  \cup {[C |-> Class(<< >>, m), D |-> Class(<<"C">>, d)] : m \in Bases, d \in Derived}
  \cup {[C |-> Class(<< >>, m), D |-> [Class(<<"C">>, d) EXCEPT !.known = FALSE]] : m \in Bases, d \in Derived}
  \cup {[C |-> Class(<< >>, m), D |-> Class(<<"C">>, d), E |-> Class(<<"C", "D">>, <<Area>>)] : m \in Bases, d \in Derived}

Slots(h, c) ==
  LET Own(k) == SelectSeq(h[k].members, LAMBDA m : m.virtual)
      New(k, above) == SelectSeq(Own(k), LAMBDA m : \A a \in ToSet(above) : a.name # m.name)
      OfC == Own("C")
  IN Len(OfC) + IF c = "C" THEN 0 ELSE Len(New("D", OfC))
Through(p, s, k) == [do |-> "dispatch", param |-> p, slot |-> s, constant |-> k, member |-> "itself"]
\* f calls slot s of a member of class M of its parameter.
OnMember ==
  {[classes |-> [C |-> Class(<< >>, m), M |-> Class(<< >>, n)], pipelines |-> {[f |-> 0]},
    functions |-> [f |-> Fn(<<"C">>, <<[Through(1, s, TRUE) EXCEPT !.member = "M"]>>)]] :
     m \in Bases, n \in {<<Area, Size>>, <<Size, Text, Area>>}, s \in 0 .. 1}
Calls(h) == {cs \in ({"C", "D"} \cap DOMAIN h) \X (0 .. 3) : cs[2] < Slots(h, cs[1])}
Calling ==
  UNION {{[classes |-> h, pipelines |-> {[f |-> 0]}, functions |-> [f |-> Fn(<<cs[1]>>, <<Through(p, cs[2], k)>>)]] :
            cs \in Calls(h), p \in 0 .. 1, k \in BOOLEAN} : h \in Hierarchies}
Empty   == [classes |-> << >>, pipelines |-> {}, functions |-> << >>]
Shapes  == Counting \cup Calling \cup OnMember
=============================================================================
