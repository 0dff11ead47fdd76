------------------------------ MODULE FlowGraphs ------------------------------
(***************************************************************************)
(* Functions as graphs of blocks, with the dominators and the natural      *)
(* loops that LLVM computes for the decompiler.  A function is             *)
(* [term, work, pads, counted, itanium, funclet]: term[b] = [op, to], how  *)
(* block b ends; work, the blocks that compute something; pads[b], the     *)
(* clauses of a landing pad; counted, the headers with an induction        *)
(* variable.  Execution begins in block 1.                                 *)
(***************************************************************************)
EXTENDS Naturals, Sequences, SequencesExt, FiniteSets

Null == 0
Blocks(f)   == DOMAIN f.term
Op(f, b)    == f.term[b].op
Succs(f, b) == ToSet(f.term[b].to)
IsPad(f, b) == b \in DOMAIN f.pads

-----------------------------------------------------------------------------
(* Dominators and natural loops.                                           *)
RECURSIVE Reach(_, _, _)
Reach(f, from, avoid) ==
  LET more == UNION {Succs(f, b) : b \in from} \ (from \cup avoid)
  IN IF more = {} THEN from ELSE Reach(f, from \cup more, avoid)

From(f, b, avoid) == IF b \in avoid THEN {} ELSE Reach(f, {b}, avoid)
Ends(f) == {b \in Blocks(f) : f.term[b].to = << >>}
PostDoms(f, b) == {p \in Blocks(f) : From(f, b, {p}) \cap Ends(f) = {}}

\* findNearestCommonDominator of the post-dominator tree
Converge(f, bs) ==
  LET common == {p \in Blocks(f) : \A b \in bs : p \in PostDoms(f, b)}
      near   == {p \in common : PostDoms(f, p) = common}
  IN IF near = {} THEN Null ELSE CHOOSE p \in near : TRUE

Dominates(f, d, b) == b \notin From(f, 1, {d})
Latches(f, h) == {b \in Blocks(f) : h \in Succs(f, b) /\ Dominates(f, h, b)}
IsHeader(f, b) == Latches(f, b) # {}
Loop(f, h) == {h} \cup {b \in Blocks(f) : Dominates(f, h, b) /\ From(f, b, {h}) \cap Latches(f, h) # {}}
Ordered(S) == SetToSortSeq(S, <)
=============================================================================
