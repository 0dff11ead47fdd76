--------------------------- MODULE SignatureShapes ---------------------------
(* Functions for Signatures: up to two parameters of any kind of type, free  *)
(* and in a class, with an object and without.                               *)
EXTENDS Naturals, Sequences

T(name) == [name |-> name, mod |-> "value"]
Ref(name) == [name |-> name, mod |-> "ref"]
Using == [Real |-> T("double"), Number |-> T("Real"), int |-> T("int")]

Types == {T("int"), T("Number"), T("text"), T("Vec"), Ref("Other")}
Params == {<< >>} \cup {<<t>> : t \in Types} \cup {<<t, u>> : t \in {T("int"), Ref("Vec")}, u \in {T("integer"), T("Vec")}}
Fun(ps, r, m, c) == [params |-> ps, ret |-> r, multi |-> m, of |-> c]
Declarations == {Fun(ps, r, FALSE, c) : ps \in Params, r \in {T("int"), T("Vec")}, c \in {"none", "Vec"}}
                \cup {Fun(ps, T("void"), TRUE, "none") : ps \in Params}
                \cup {Fun(<<t>>, T("int"), FALSE, "none") : t \in {T("unsigned"), T("boolean"), T("Odd"), [Ref("void") EXCEPT !.mod = "ptr"]}}
                \cup {Fun(ps, T("Odd"), FALSE, "Odd") : ps \in {<< >>, <<T("int")>>}}
Nullary == [params |-> << >>, ret |-> T("int"), multi |-> FALSE, of |-> "none", object |-> FALSE]
Definitions == {[params |-> f.params, ret |-> f.ret, multi |-> f.multi, of |-> f.of, object |-> o] :
                  f \in Declarations, o \in BOOLEAN}
=============================================================================
