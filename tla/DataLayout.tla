------------------------------ MODULE DataLayout ------------------------------
(***************************************************************************)
(* DataLayoutPass: the accesses of a function to a fixed-size array of     *)
(* structs, moved to one column for each field.  The automatic variant     *)
(* copies the fields it rewrites into columns of its own at entry and back *)
(* before each return, the forced one lays the columns out in place of     *)
(* the array, in the whole module.  The function as written (mem) and as   *)
(* rewritten (moved) run the same accesses side by side.                   *)
(*                                                                         *)
(* A cell is <<object, word>>: object 0 is the allocation the array is     *)
(* part of, object 1 + f the column of field f.  A field is one word.      *)
(***************************************************************************)
EXTENDS Integers, Sequences, SequencesExt

CONSTANT Layouts
  \* [variant, types, named, length, first, class, scalar, initial, member, ops, exit]
  \* types: the array wrappers of the module, in its order, each [of, length], "P"
  \* the struct at hand and "Q" another one; named: those in names of functions only;
  \* first: no other pointer parameter comes before the array; class: whether the
  \* class declared for P has as many members ("same", "other"; "none": no class);
  \* scalar: field 0 is a number, not a pointer; initial: "zero" or "values" the array
  \* holds before its first access; member: words before the array in its allocation;
  \* ops: the accesses [how, write, i, f]; exit: "return", "throw", or "never" for a
  \* function that does not return
  \* how: "wrapper" wrapper[0][0][i][f]; "member" &wrapper[0][0][i], then its field;
  \* "array" &([N x P])[0][i], then its field; "first" that element itself, for field 0;
  \* "wide" the same, for fields 0 and 1 at once; "operator" the field of a call of
  \* operator[], which is declared only; "callee" "wrapper" in a function given the
  \* array; "opaque" the rest:
  \* computed fields, merged pointers, other names of the array

Fields == 0 .. 1
Wild == 0 - 1

\* What is accessed is the array at hand, and a wrapper that is named is in the module.
Own(l) == [of |-> "P", length |-> l.length]
NamesWrapper(l) == \E op \in ToSet(l.ops) : op.how \in {"wrapper", "member", "callee"}
ASSUME LayoutAssumption ==
  \A l \in Layouts :
    /\ l.length \in Nat /\ l.member \in Nat /\ l.variant \in {"auto", "force"}
    /\ l.types \in Seq([of : {"P", "Q"}, length : Nat]) /\ l.named \in Seq([of : {"P", "Q"}, length : Nat])
    /\ l.ops \in Seq(ToSet(l.ops))
    /\ \A op \in ToSet(l.ops) : op.write \in BOOLEAN /\ op.i \in 0 .. l.length - 1 /\ op.f \in Fields
    /\ NamesWrapper(l) => Own(l) \in ToSet(l.types)
    /\ l.exit \in {"return", "throw", "never"}

-----------------------------------------------------------------------------
(* Which arrays the pass finds, and which accesses to them.                *)

\* isFixedSizeArrayOfStruct: an array of length 0 is declined.
Qualifies_Empty(t) == TRUE
Qualifies(t) == t.length > 0
\* The first type of the module, or of its names, that is in a set.
FirstIn(ts, S) == ts[Min({k \in DOMAIN ts : ts[k] \in S})]
Wrappers(l) == {t \in ToSet(l.types) : Qualifies(t)}
Listed(l) == IF l.variant = "force" /\ Wrappers(l) = {} THEN l.named ELSE l.types
ArrayTypes(l) == {t \in ToSet(Listed(l)) : Qualifies(t)}

\* Automatic: a use names the wrapper, or else the first wrapper of the module is
\* taken; only the first pointer parameter that has one is rewritten.
Usable(l, t) == t.of = "Q" \/ l.class # "other"
Candidates(l) ==
  IF ~ l.first THEN {}
  ELSE IF NamesWrapper(l) /\ l.class = "same" THEN {Own(l)}
  ELSE {t \in Wrappers(l) : Usable(l, t)}
Param(l) == FirstIn(l.types, Candidates(l))

Recognized(l, t, op) ==
  /\ t.of = "P"
  /\ \/ op.how \in {"wrapper", "member"} /\ t = Own(l)
     \/ op.how \in {"array", "wide"}
     \/ op.how = "first" /\ (op.write \/ l.scalar)
     \/ op.how = "operator" /\ l.variant = "force"
     \/ op.how = "callee" /\ l.variant = "force" /\ t = Own(l)
Rewritten(l, t) == {k \in DOMAIN l.ops : Recognized(l, t, l.ops[k])}
Live(l, t) == {l.ops[k].f : k \in Rewritten(l, t)}

\* transformPipelineInlineRewrite: nothing is done without a parameter, a return or
\* an access.
Transforms(l) == Candidates(l) # {} /\ l.exit # "never" /\ Rewritten(l, Param(l)) # {}

-----------------------------------------------------------------------------
(* Where an access goes, as written and as rewritten.                      *)
Cell(l, i, f) == <<0, l.member + i * 2 + f>>
Column(f, i) == <<1 + f, i>>

\* The address the columns start at: most patterns walk back to the allocation.
Base(l, op) == IF op.how \in {"member", "operator", "callee"} THEN l.member ELSE 0
\* The arrays an access is found for; the first of them rewrites it.
Matches(l, op) == {t \in ArrayTypes(l) : Recognized(l, t, op)}
Forced(l, op) ==
  IF Matches(l, op) = {} THEN Cell(l, op.i, op.f)
  ELSE <<0, Base(l, op) + op.f * FirstIn(Listed(l), Matches(l, op)).length + op.i>>
Target(l, op) ==
  CASE l.variant = "force" -> Forced(l, op)
    [] l.variant = "auto" /\ Recognized(l, Param(l), op) -> Column(op.f, op.i)
    [] OTHER -> Cell(l, op.i, op.f)

\* The words of an access that starts at a cell.
Cells(op, c) == IF op.how = "wide" THEN <<c, <<c[1], c[2] + 1>>>> ELSE <<c>>
Value(m, c) == IF c \in DOMAIN m THEN m[c] ELSE Wild
Put(k, w) == 10 * k + w
Accessed(m, op, k, c) ==
  LET cs == Cells(op, c)
      at(d) == {w \in DOMAIN cs : cs[w] = d}
  IN IF op.write THEN [d \in DOMAIN m |-> IF at(d) # {} THEN Put(k, CHOOSE w \in at(d) : TRUE) ELSE m[d]] ELSE m
Seen(m, op, c) == IF op.write THEN << >> ELSE [w \in DOMAIN Cells(op, c) |-> Value(m, Cells(op, c)[w])]

\* The loops run once before they compare with the length.
Rows(n) == 0 .. (IF n > 0 THEN n ELSE 1) - 1
Columns(l, t) == {Column(f, i) : f \in Live(l, t), i \in Rows(t.length)}
Scatter(l, t, m) ==
  [c \in DOMAIN m \cup Columns(l, t) |-> IF c[1] = 0 THEN m[c] ELSE Value(m, Cell(l, c[2], c[1] - 1))]
Gather(l, t, m) ==
  [c \in {d \in DOMAIN m : d[1] = 0} |->
     LET from == {p \in Columns(l, t) : Cell(l, p[2], p[1] - 1) = c}
     IN IF from = {} THEN m[c] ELSE m[CHOOSE p \in from : TRUE]]

-----------------------------------------------------------------------------
VARIABLES layout, mem, moved, chosen, access, same, layoutPc
layoutVars == <<layout, mem, moved, chosen, access, same, layoutPc>>

Storage(l) == {0} \X (0 .. l.member + 2 * l.length)
Initially(l) == [c \in Storage(l) |-> IF l.initial = "zero" THEN 0 ELSE 0 - 2 - c[2]]
LayoutInitFrom(S) ==
  /\ layout \in S /\ mem = Initially(layout) /\ moved = mem
  /\ chosen = FALSE /\ access = 1 /\ same = TRUE /\ layoutPc = "rewrite"
LayoutInit == LayoutInitFrom(Layouts)

\* generateVariants leaves a clone that PassPipeline keeps or drops by its measured
\* time; runForceSoA rewrites whatever it finds.
RewriteLayout ==
  /\ layoutPc = "rewrite" /\ layoutPc' = "enter"
  /\ \/ layout.variant = "auto" /\ Transforms(layout) /\ chosen' \in BOOLEAN
     \/ layout.variant = "auto" /\ ~ Transforms(layout) /\ chosen' = FALSE
     \/ layout.variant = "force" /\ chosen' = TRUE
  /\ UNCHANGED <<layout, mem, moved, access, same>>

Copies == chosen /\ layout.variant = "auto"
EnterFunction ==
  /\ layoutPc = "enter" /\ layoutPc' = "run"
  /\ moved' = IF Copies THEN Scatter(layout, Param(layout), moved) ELSE moved
  /\ UNCHANGED <<layout, mem, chosen, access, same>>

AccessArray ==
  /\ layoutPc = "run" /\ access <= Len(layout.ops)
  /\ LET op == layout.ops[access]
         home == Cell(layout, op.i, op.f)
         new == IF chosen THEN Target(layout, op) ELSE home
     IN /\ mem' = Accessed(mem, op, access, home)
        /\ moved' = Accessed(moved, op, access, new)
        /\ same' = (same /\ Seen(mem, op, home) = Seen(moved, op, new))
  /\ access' = access + 1
  /\ UNCHANGED <<layout, chosen, layoutPc>>

\* An exception passes the copy back and the release of the columns by.
LeaveFunction ==
  /\ layoutPc = "run" /\ access > Len(layout.ops) /\ layout.exit # "never"
  /\ layoutPc' = "over"
  /\ moved' = IF Copies /\ layout.exit = "return" THEN Gather(layout, Param(layout), moved) ELSE moved
  /\ UNCHANGED <<layout, mem, chosen, access, same>>

LayoutOver ==
  /\ layoutPc = "over" \/ (layoutPc = "run" /\ access > Len(layout.ops) /\ layout.exit = "never")
  /\ UNCHANGED layoutVars
LayoutNext == RewriteLayout \/ EnterFunction \/ AccessArray \/ LeaveFunction \/ LayoutOver
LayoutSpec == LayoutInit /\ [][LayoutNext]_layoutVars

-----------------------------------------------------------------------------
\* What the rewriting relies on and does not look at.  For both variants: one length
\* for all arrays of the struct, no access that spans two fields and no pointer read
\* as field 0.  For the copy: all accesses to a field in forms it recognizes, or none,
\* and nothing written before an exception.  In place: all accesses recognized,
\* an array at the start of its allocation, and no values but those the
\* program writes.
Forms(l) == {"wrapper", "member", "array", "first"} \cup (IF l.variant = "force" THEN {"operator", "callee"} ELSE {})
Unwritten(l) == \A op \in ToSet(l.ops) : ~ op.write
Relied(l) ==
  /\ \A t \in ToSet(l.types) \cup ToSet(l.named) : t.of = "P" => t.length \in {0, l.length}
  /\ \A op \in ToSet(l.ops) : op.how # "wide" /\ (op.how = "first" => l.scalar)
  /\ l.variant = "auto" =>
       /\ \A f \in Fields : LET hows == {op.how : op \in {o \in ToSet(l.ops) : o.f = f}}
                            IN hows \subseteq Forms(l) \/ hows \cap Forms(l) = {}
       /\ l.exit = "throw" => Unwritten(l)
  /\ l.variant = "force" =>
       /\ \A op \in ToSet(l.ops) : op.how \in Forms(l)
       /\ l.initial = "zero" /\ l.member = 0

\* The cell of the rewritten program that holds a field between its functions.
KeptAt(l, i, f) ==
  IF l.variant = "force" /\ \E t \in ArrayTypes(l) : t.of = "P" THEN <<0, f * l.length + i>> ELSE Cell(l, i, f)

\* A rewritten function reads from the array what it read before, and leaves every
\* field with the value it left before, and the words around the array alone.
LayoutKeepsValues ==
  Relied(layout) =>
    /\ same
    /\ layoutPc = "over" =>
         /\ \A i \in 0 .. layout.length - 1, f \in Fields : mem[Cell(layout, i, f)] = moved[KeptAt(layout, i, f)]
         /\ \A c \in DOMAIN mem : c[2] < layout.member \/ c[2] >= layout.member + 2 * layout.length => mem[c] = moved[c]
=============================================================================
