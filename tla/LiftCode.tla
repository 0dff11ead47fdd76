------------------------------- MODULE LiftCode -------------------------------
(***************************************************************************)
(* LLVMLifter on the instructions of a block: each becomes a declaration   *)
(* or an assignment over names, and a load, an operation and a store of    *)
(* the same variable become a compound assignment.  Numbers are words of   *)
(* Bits bits; the statements compute with signed ones, as the types that   *)
(* the lifter gives them say.                                              *)
(***************************************************************************)
EXTENDS Integers, Sequences, SequencesExt, FiniteSets

CONSTANTS
  Programs,   \* sequences of [op, by, def, args]; an argument is <<"lit", n>> or <<"name", x>>
  Inputs,     \* what the variables hold at first
  Bits

Size == 2 ^ Bits
Signed(n) == IF n >= Size \div 2 THEN n - Size ELSE n
Wrap(n)   == n % Size

-----------------------------------------------------------------------------
(* The instructions.                                                       *)
Quotient(a, b) ==   \* towards zero
  LET abs(x) == IF x < 0 THEN -x ELSE x
      q == abs(a) \div abs(b)
  IN IF (a < 0) = (b < 0) THEN q ELSE -q
SDiv(a, b) == IF b = 0 THEN 0 ELSE Wrap(Quotient(Signed(a), Signed(b)))
SRem(a, b) == IF b = 0 THEN 0 ELSE Wrap(Signed(a) - Quotient(Signed(a), Signed(b)) * Signed(b))
Bool(c) == IF c THEN 1 ELSE 0

Compute(by, a, b) ==
  CASE by = "add"  -> Wrap(a + b)
    [] by = "sub"  -> Wrap(a - b)
    [] by = "mul"  -> Wrap(a * b)
    [] by = "sdiv" -> SDiv(a, b)
    [] by = "srem" -> SRem(a, b)
    [] by = "udiv" -> IF b = 0 THEN 0 ELSE a \div b
    [] by = "urem" -> IF b = 0 THEN 0 ELSE a % b
    [] by = "shl"  -> Wrap(a * 2 ^ b)
    [] by = "eq"   -> Bool(a = b)
    [] by = "slt"  -> Bool(Signed(a) < Signed(b))
    [] by = "ult"  -> Bool(a < b)
    [] by = "sge"  -> Bool(Signed(a) >= Signed(b))

Arg(env, x) == IF x[1] = "lit" THEN Wrap(x[2]) ELSE env[x[2]]
Set(env, x, n) == [y \in DOMAIN env \cup {x} |-> IF y = x THEN n ELSE env[y]]

Execute(env, i) ==
  CASE i.op = "load"   -> Set(env, i.def, Arg(env, i.args[1]))
    [] i.op = "store"  -> Set(env, i.def, Arg(env, i.args[1]))
    [] i.op = "binop"  -> Set(env, i.def, Compute(i.by, Arg(env, i.args[1]), Arg(env, i.args[2])))
    [] i.op = "select" ->
         Set(env, i.def, IF Arg(env, i.args[1]) # 0 THEN Arg(env, i.args[2]) ELSE Arg(env, i.args[3]))
    [] i.op = "ret"    -> Set(env, "result", Arg(env, i.args[1]))

-----------------------------------------------------------------------------
(* The statements.                                                         *)
\* mapBinaryOp and mapICmpPredicate: what has no operator of its own is an addition
MapBinaryOp(by) ==
  CASE by \in {"add", "sub", "mul"} -> by
    [] by \in {"sdiv", "udiv"} -> "div"
    [] by \in {"srem", "urem"} -> "mod"
    [] by \in {"slt", "ult"}   -> "less"
    [] by = "eq"  -> "eq"
    [] by = "sge" -> "greaterEq"
    [] OTHER -> "add"
Evaluate(op, a, b) ==
  Compute(CASE op = "div" -> "sdiv" [] op = "mod" -> "srem" [] op = "less" -> "slt"
            [] op = "greaterEq" -> "sge" [] OTHER -> op, a, b)

Decl(name, init)     == [k |-> "decl", name |-> name, init |-> init]
Assign(name, init)   == [k |-> "assign", name |-> name, init |-> init]
Compound(name, op, value) == [k |-> "compound", name |-> name, init |-> [e |-> op, args |-> <<value>>]]
Ref(x) == [e |-> "ref", args |-> <<x>>]

LiftInstruction(i) ==
  CASE i.op = "load"   -> Decl(i.def, Ref(i.args[1]))
    [] i.op = "store"  -> Assign(i.def, Ref(i.args[1]))
    [] i.op = "binop"  -> Decl(i.def, [e |-> MapBinaryOp(i.by), args |-> i.args])
    [] i.op = "select" -> Decl(i.def, [e |-> "ternary", args |-> i.args])
    [] i.op = "ret"    -> Assign("result", Ref(i.args[1]))

IsName(init, x) == init.e = "ref" /\ init.args[1] = <<"name", x>>

Compacts_AnyTarget(a, b, c) ==
  /\ a.k = "decl" /\ a.init.e = "ref" /\ a.init.args[1][1] = "name"
  /\ b.k = "decl" /\ b.init.e \notin {"ref", "ternary"}
  /\ <<"name", a.name>> \in ToSet(b.init.args)
  /\ c.k = "assign" /\ IsName(c.init, b.name)

\* t = x; u = t op v; x = u
Compacts(a, b, c) ==
  /\ a.k = "decl" /\ a.init.e = "ref" /\ a.init.args[1][1] = "name"
  /\ b.k = "decl" /\ b.init.e \notin {"ref", "ternary"}
  /\ <<"name", a.name>> \in ToSet(b.init.args)
  /\ c.k = "assign" /\ c.name = a.init.args[1][2] /\ IsName(c.init, b.name)

LhsOf(a, b) == b.init.args[1] = <<"name", a.name>>
Compacted(a, b, c) ==
  Compound(c.name, b.init.e, IF LhsOf(a, b) THEN b.init.args[2] ELSE b.init.args[1])

RECURSIVE Compact(_)
Compact(s) ==
  IF Len(s) < 3 THEN s
  ELSE IF Compacts(s[1], s[2], s[3])
       \* the statement made may begin a pattern, but none begins with it
       THEN Compact(<<Compacted(s[1], s[2], s[3])>> \o SubSeq(s, 4, Len(s)))
  ELSE <<s[1]>> \o Compact(Tail(s))

LiftBody(p) == Compact([i \in DOMAIN p |-> LiftInstruction(p[i])])

ValueOf(env, e) ==
  CASE e.e = "ref" -> Arg(env, e.args[1])
    [] e.e = "ternary" -> IF Arg(env, e.args[1]) # 0 THEN Arg(env, e.args[2]) ELSE Arg(env, e.args[3])
    [] OTHER -> Evaluate(e.e, Arg(env, e.args[1]), Arg(env, e.args[2]))

Perform(env, s) ==
  Set(env, s.name, IF s.k = "compound" THEN Evaluate(s.init.e, env[s.name], Arg(env, s.init.args[1]))
                   ELSE ValueOf(env, s.init))

-----------------------------------------------------------------------------
VARIABLES program, input, body, state, codePc
codeVars == <<program, input, body, state, codePc>>

CodeInitFrom(P, I) ==
  /\ program \in P /\ input \in I
  /\ body = << >> /\ state = input /\ codePc = 0
CodeInit == CodeInitFrom(Programs, Inputs)

\* The instructions in order; the body is lifted when the function is.
LiftCode == codePc = 0 /\ body' = LiftBody(program) /\ codePc' = 1 /\ UNCHANGED <<program, input, state>>
ExecuteNext ==
  /\ codePc \in DOMAIN program
  /\ state' = Execute(state, program[codePc]) /\ codePc' = codePc + 1
  /\ UNCHANGED <<program, input, body>>
CodeOver == codePc > Len(program) /\ UNCHANGED codeVars

CodeNext == LiftCode \/ ExecuteNext \/ CodeOver
CodeSpec == CodeInit /\ [][CodeNext]_codeVars
-----------------------------------------------------------------------------
\* What a pattern that is compacted must be like: the variable is the left operand
\* or the operation commutes, and the two temporaries are not used again.
Uses(p, x) == {i \in DOMAIN p : <<"name", x>> \in ToSet(p[i].args)}
Compactable(p) ==
  \A i \in 1 .. Len(p) - 2 :
    LET a == LiftInstruction(p[i]) b == LiftInstruction(p[i + 1]) c == LiftInstruction(p[i + 2]) IN
    Compacts(a, b, c) =>
      /\ b.init.args[1] # b.init.args[2]
      /\ LhsOf(a, b) \/ b.init.e \in {"add", "mul", "eq"}
      /\ Uses(p, a.name) = {i + 1} /\ Uses(p, b.name) = {i + 2}
\* Operators that statements have.
Exact(p) == \A i \in DOMAIN p : p[i].op = "binop" => p[i].by \notin {"shl", "udiv", "urem", "ult"}

\* The statements leave the variables and the result that the instructions do, for
\* code that keeps to the operators statements have and to patterns that can be
\* compacted: no store is lost and no operand exchanged.
StatementsCompute ==
  codePc > Len(program) /\ Exact(program) /\ Compactable(program) =>
    LET end == FoldLeft(Perform, input, body) IN
      \A x \in DOMAIN input \cup {"result"} : end[x] = state[x]
=============================================================================
