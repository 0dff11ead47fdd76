------------------------------- MODULE MCLoop -------------------------------
(* Functions with loops for LoopPartition.                                   *)
EXTENDS LoopPartition

CONSTANT MaxTrips

Write(src, at, via) == [op |-> "put", src |-> src, at |-> at, via |-> via, by |-> "none"]
Fold(by, src)     == [op |-> "fold", src |-> src, at |-> "none", via |-> "none", by |-> by]

Never == MaxTrips + 1

\* What a loop does: a map, a map through a known function, through an unknown
\* one, under a lock, a recurrence through memory, an update in place, reductions,
\* a running sum that is stored, a difference, a value carried over, two cells.
Bodies == {
  <<Write("i", "own", "store")>>, <<Write("i", "own", "call")>>, <<Write("i", "first", "unknown")>>,
  <<Write("i", "first", "sync")>>, <<Write("prev", "own", "store")>>, <<Write("own", "own", "store")>>,
  <<Fold("add", "i")>>, <<Fold("mul", "two")>>, <<Fold("add", "own")>>,
  <<Fold("add", "i"), Write("acc", "own", "store")>>, <<Fold("sub", "two")>>, <<Fold("copy", "i")>>,
  <<Fold("add", "two"), Write("i", "own", "store")>>}

TopTested(code, n, t) ==
  [shape |-> "top", simple |-> TRUE, header |-> << >>, body |-> code, runs |-> n, known |-> TRUE,
   carried |-> \E c \in ToSet(code) : c.op = "fold", init |-> 3, throws |-> t]
\* The body and the test in one block, as rotation leaves a small loop.
OneBlock(code, n) ==
  [TopTested(code, n, Never) EXCEPT !.shape = "single", !.header = code, !.body = << >>]

Fn(ls) == [loops |-> ls, mates |-> 2, defined |-> TRUE, excluded |-> FALSE,
           enabled |-> TRUE, reduction |-> TRUE, dynamic |-> FALSE]

Several(f) == {f, [f EXCEPT !.mates = 1], [f EXCEPT !.excluded = TRUE], [f EXCEPT !.defined = FALSE],
               [f EXCEPT !.enabled = FALSE], [f EXCEPT !.reduction = FALSE], [f EXCEPT !.dynamic = TRUE]}

Map    == <<Write("i", "own", "store")>>
Called == <<Write("i", "own", "call")>>
Sum    == <<Fold("add", "i")>>

Loops ==
  {Fn(<<TopTested(b, n, Never)>>) : b \in Bodies, n \in 0 .. MaxTrips}
  \cup {Fn(<<TopTested(Called, n, t)>>) : n \in {2, 5}, t \in {0, 1, 4}}
  \cup Several(Fn(<<TopTested(Sum, MaxTrips, Never)>>))
  \cup {Fn(<<[TopTested(Map, 2, Never) EXCEPT !.known = FALSE]>>),
        Fn(<<[TopTested(Map, 2, Never) EXCEPT !.simple = FALSE]>>),
        Fn(<<OneBlock(Sum, 3), TopTested(Map, 3, Never)>>)}

Rotated == {Fn(<<OneBlock(b, n)>>) : b \in Bodies, n \in 2 .. MaxTrips}
=============================================================================
