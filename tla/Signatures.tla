------------------------------ MODULE Signatures ------------------------------
(***************************************************************************)
(* Verifier::checkSignatures and typesMatch: declared functions next to    *)
(* the functions the host compiler made of their sources.                  *)
(*                                                                         *)
(* External: how the host compiler lowers a signature (results by hidden   *)
(* pointer, a pointer to the object, small classes as scalars, references  *)
(* as pointers).                                                           *)
(***************************************************************************)
EXTENDS Naturals, Sequences, SequencesExt, FiniteSets

CONSTANTS
  Declared,  \* functions in .topo: [params, ret, multi, of]; of: the class whose member it is, or NoClass
  Written,   \* functions in the source: the same with [object]: whether it takes an object
  Aliases,   \* type names -> types
  Classes    \* the declared classes

NoClass == "none"
ASSUME SignatureAssumption ==
  /\ \A f \in Declared \cup Written : f.params \in Seq(ToSet(f.params))
  /\ \A f \in Written : f.object \in BOOLEAN

\* The names a declaration may use for an LLVM type.
Names == [bool |-> "i1", char |-> "i8", int8 |-> "i8", short |-> "i16", int |-> "i32", int32 |-> "i32",
          long |-> "i64", int64 |-> "i64", float |-> "float", double |-> "double"]
Integers == {"i1", "i8", "i16", "i32", "i64"}
Kinds == [integer |-> Integers, unsigned |-> Integers, floating |-> {"float", "double"}, boolean |-> {"i1"},
          text |-> {"ptr", "struct"}]

\* An alias is followed unless its target has its own name.
Resolved(t) ==
  LET follow(u) == IF u.name \in DOMAIN Aliases /\ Aliases[u.name].name # u.name THEN Aliases[u.name] ELSE u
      steps[k \in 0 .. Cardinality(DOMAIN Aliases)] == IF k = 0 THEN t ELSE
        LET u == steps[k - 1] IN IF u.mod \in {"ref", "ptr"} \/ u.name = "void" THEN u ELSE follow(u)
  IN steps[Cardinality(DOMAIN Aliases)]

\* typesMatch, of a type without its lifetime.
TypesMatch(ir, t) ==
  LET u == Resolved(t) IN
    IF u.name = "void" THEN ir = "void"
    ELSE IF u.mod \in {"ref", "ptr"} THEN ir = "ptr"
    ELSE IF u.name \in DOMAIN Kinds THEN ir \in Kinds[u.name]
    ELSE IF u.name \in DOMAIN Names THEN ir = Names[u.name]
    ELSE ir \in {"struct", "ptr"} \/ u.name \in Classes

-----------------------------------------------------------------------------
\* The host compiler: the scalars that stand for a type, which are none for a class.
\* What it takes an abstract kind for depends on the language.
Abstract == [integer |-> {"i8", "i16", "i32", "i64"}, unsigned |-> {"i8", "i16", "i32", "i64"},
             floating |-> {"float", "double"}, boolean |-> {"i1"}, text |-> {"ptr"}]
Scalars(t) ==
  LET u == Resolved(t) IN
    IF u.mod \in {"ref", "ptr"} THEN {"ptr"}
    ELSE IF u.name = "void" THEN {"void"}
    ELSE IF u.name \in DOMAIN Abstract THEN Abstract[u.name]
    ELSE IF u.name \in DOMAIN Names THEN {Names[u.name]}
    ELSE {}

\* As a parameter and as a result; the size of a class and the ABI decide between the
\* ways of its own, as they do for several results.
AsParams(t) == IF Scalars(t) # {} THEN {<<s>> : s \in Scalars(t)}
               ELSE {<<"ptr">>, <<"i64">>, <<"double", "double">>}
ByABI == {[ret |-> "void", sret |-> TRUE], [ret |-> "i64", sret |-> FALSE], [ret |-> "struct", sret |-> FALSE]}
AsResult(t) == IF Scalars(t) # {} THEN {[ret |-> s, sret |-> FALSE] : s \in Scalars(t)} ELSE ByABI

\* The choice for each parameter is made by its type.
Results(w) == IF w.multi THEN ByABI ELSE AsResult(w.ret)
Chosen(w) ==
  {f \in [DOMAIN w.params -> UNION {AsParams(w.params[i]) : i \in DOMAIN w.params}] :
     \A i \in DOMAIN f : f[i] \in AsParams(w.params[i])}
Pointer(there) == IF there THEN <<"ptr">> ELSE << >>
Function(w, r, p) ==
  [args |-> Pointer(r.sret) \o Pointer(w.object) \o FlattenSeq([i \in DOMAIN w.params |-> p[i]]),
   sret |-> r.sret, ret |-> r.ret, split |-> \E i \in DOMAIN w.params : Len(p[i]) # 1]
Lowered(w) == {Function(w, r, p) : r \in Results(w), p \in Chosen(w)}

-----------------------------------------------------------------------------
\* checkSignatures: the parameters that no declaration lists.
HiddenResult(ir) == IF ir.sret THEN 1 ELSE 0
HiddenObject_ResultFirst(d, ir) ==
  IF d.of \in Classes /\ Len(ir.args) > 0 /\ ir.args[1] = "ptr" THEN 1 ELSE 0
HiddenObject(d, ir) ==
  LET at == 1 + HiddenResult(ir) IN
    IF d.of \in Classes /\ Len(ir.args) >= at /\ ir.args[at] = "ptr" THEN 1 ELSE 0
Skipped(d, ir) == HiddenResult(ir) + HiddenObject(d, ir)

Mismatches(d, ir) ==
  IF Len(ir.args) - Skipped(d, ir) # Len(d.params) THEN {"count"}
  ELSE {"return" : x \in IF d.multi THEN {y \in {ir} : ~ y.sret /\ y.ret = "void"}
                         ELSE {y \in {ir} : ~ (y.sret /\ y.ret = "void") /\ ~ TypesMatch(y.ret, d.ret)}}
       \cup {"parameter" : i \in {k \in DOMAIN d.params : ~ TypesMatch(ir.args[k + Skipped(d, ir)], d.params[k])}}

VARIABLES declared, written, compiled, reported, signaturePc
signatureVars == <<declared, written, compiled, reported, signaturePc>>

Uncompiled == [args |-> << >>, sret |-> FALSE, ret |-> "void", split |-> FALSE]
SignatureInitFrom(D, W) ==
  /\ declared \in D /\ written \in {w \in W : w.object => w.of # NoClass}
  /\ compiled = Uncompiled /\ reported = {} /\ signaturePc = "source"
SignatureInit == SignatureInitFrom(Declared, Written)

Compile ==
  /\ signaturePc = "source" /\ signaturePc' = "compiled" /\ compiled' \in Lowered(written)
  /\ UNCHANGED <<declared, written, reported>>
CheckSignature ==
  /\ signaturePc = "compiled" /\ signaturePc' = "checked" /\ reported' = Mismatches(declared, compiled)
  /\ UNCHANGED <<declared, written, compiled>>
SignatureOver == signaturePc = "checked" /\ UNCHANGED signatureVars
SignatureNext == Compile \/ CheckSignature \/ SignatureOver
SignatureSpec == SignatureInit /\ [][SignatureNext]_signatureVars
-----------------------------------------------------------------------------
\* A member function without an object whose first parameter is a pointer is taken
\* for one with an object, one with an object of a class that is not declared for a
\* function, and a class passed in two registers for two parameters.
TakenForObject ==
  /\ declared.of \in Classes /\ ~ written.object
  /\ LET at == IF compiled.sret THEN 2 ELSE 1 IN Len(compiled.args) >= at /\ compiled.args[at] = "ptr"
TakenForFunction == written.object /\ declared.of \notin Classes
Compared == ~ compiled.split /\ ~ TakenForObject /\ ~ TakenForFunction

\* A class that is not declared may be taken for another type, and a pointer to void
\* for void.
Unknown(t) ==
  LET u == Resolved(t) IN
    \/ Scalars(t) = {} /\ u.name \notin Classes
    \/ u.name = "void" /\ u.mod \in {"ref", "ptr"}
Same ==
  /\ declared = [params |-> written.params, ret |-> written.ret, multi |-> written.multi, of |-> written.of]
  /\ \A i \in DOMAIN declared.params : ~ Unknown(declared.params[i])
  /\ declared.multi \/ ~ Unknown(declared.ret)
\* The scalars of one are none of the other's.
Differ(t, u) == Scalars(t) # {} /\ Scalars(u) # {} /\ \A s \in Scalars(u) : ~ TypesMatch(s, t)

\* A function compiled as it is declared is not reported, whatever its ABI does
\* with its result, its object and its classes; one with another number of
\* parameters is, and so is one with a parameter of another scalar type.
SignaturesJudged ==
  signaturePc = "checked" /\ Compared =>
    /\ Same => reported = {}
    /\ Len(declared.params) # Len(written.params) => "count" \in reported
    /\ Len(declared.params) = Len(written.params)
         /\ (\E i \in DOMAIN declared.params : Differ(declared.params[i], written.params[i])) => "parameter" \in reported
=============================================================================
