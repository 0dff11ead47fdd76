--------------------------- MODULE ForkJoinProofs ---------------------------
(***************************************************************************)
(* The two halves of a parallel loop, for every number of tasks, every     *)
(* legal loop, modulus, chunk size and limit.                              *)
(*                                                                         *)
(* The partition: the ranges handed to the tasks cover the iterations      *)
(* exactly once, and what the tasks compute, in any order, is what the     *)
(* loop computes serially.  A worker that has got from lo to at has stored *)
(* what iterations lo .. at - 1 store, each from nothing but its own       *)
(* number, and has their reduction from the identity as its partial        *)
(* result.  Combining the partial results in the order of the ranges gives *)
(* the reduction over all iterations because the operation is associative  *)
(* modulo the word.                                                        *)
(*                                                                         *)
(* The handle of a task: its memory is freed exactly once and never        *)
(* touched afterwards, and an exception of the body reaches the awaiter.   *)
(***************************************************************************)
EXTENDS LoopPartition, TaskHandle, FoldLemmas

-----------------------------------------------------------------------------
(***************************************************************************)
(* Arithmetic modulo the word.                                             *)
(***************************************************************************)
\* What division and remainder are.
LEMMA DivMod ==
  ASSUME NEW w \in Nat \ {0}, NEW a \in Nat
  PROVE  /\ a \div w \in Nat /\ a % w \in 0 .. w - 1
         /\ a = w * (a \div w) + (a % w)
OBVIOUS

\* The remainder is the only one there is.
LEMMA OneRemainder ==
  ASSUME NEW w \in Nat \ {0}, NEW p \in Nat, NEW q \in Nat,
         NEW x \in 0 .. w - 1, NEW y \in 0 .. w - 1, w * p + x = w * q + y
  PROVE  x = y
<1>1. CASE p = q
  BY <1>1
<1>2. ASSUME NEW m \in Nat, NEW n \in Nat, m < n, NEW c \in 0 .. w - 1, NEW d \in 0 .. w - 1
      PROVE  w * m + c # w * n + d
  <2>1. PICK k \in Nat : n = m + 1 + k
    <3>1. n - m - 1 \in Nat /\ n = m + 1 + (n - m - 1)
      BY <1>2
    <3> QED BY <3>1
  <2>2. w * n = w * m + w + w * k /\ w * k \in Nat /\ w * m \in Nat
    BY <2>1
  <2> QED BY <2>2
<1>3. CASE p # q
  <2>1. p < q \/ q < p
    BY <1>3
  <2> QED BY <1>2, <2>1
<1> QED BY <1>1, <1>3

\* Multiples of the word do not show in the remainder.
LEMMA ModShift ==
  ASSUME NEW w \in Nat \ {0}, NEW k \in Nat, NEW y \in Nat
  PROVE  (w * k + y) % w = y % w
<1> DEFINE x == w * k + y
<1>1. w * k \in Nat /\ x \in Nat
  OBVIOUS
<1>2. /\ x \div w \in Nat /\ x % w \in 0 .. w - 1 /\ x = w * (x \div w) + (x % w)
      /\ y \div w \in Nat /\ y % w \in 0 .. w - 1 /\ y = w * (y \div w) + (y % w)
  BY <1>1, DivMod
<1> DEFINE p == x \div w  q == y \div w  c == x % w  d == y % w
<1>3. w * (k + q) = w * k + w * q
  BY <1>2
<1>4. w * p + c = w * (k + q) + d /\ k + q \in Nat
  <2> HIDE DEF p, q, c, d
  <2>1. x = w * p + c /\ y = w * q + d /\ q \in Nat
    BY <1>2 DEF p, q, c, d
  <2> HIDE DEF x
  <2>2. w * p + c = w * k + y
    BY <2>1 DEF x
  <2>3. w * k \in Nat /\ w * q \in Nat /\ d \in Nat
    BY <1>2, <2>1 DEF d
  <2> QED BY <1>3, <2>1, <2>2, <2>3
<1>5. p \in Nat /\ k + q \in Nat /\ c \in 0 .. w - 1 /\ d \in 0 .. w - 1
  BY <1>2
<1>6. c = d
  <2> HIDE DEF p, q, c, d
  <2> QED BY <1>4, <1>5, OneRemainder
<1> QED BY <1>6

\* The arguments of a sum or a product may be reduced first.
LEMMA ModArgs ==
  ASSUME NEW w \in Nat \ {0}, NEW a \in Nat, NEW b \in Nat
  PROVE  ((a % w) + b) % w = (a + b) % w /\ ((a % w) * b) % w = (a * b) % w
<1> DEFINE q == a \div w  r == a % w
<1>1. q \in Nat /\ r \in Nat /\ a = w * q + r
  BY DivMod
<1> HIDE DEF q, r
<1>2. a + b = w * q + (r + b) /\ r + b \in Nat
  BY <1>1
<1>3. a * b = w * (q * b) + r * b
  <2>1. (w * q + r) * b = (w * q) * b + r * b
    BY <1>1
  <2>2. (w * q) * b = w * (q * b)
    BY <1>1
  <2> QED BY <1>1, <2>1, <2>2
<1>4. r * b \in Nat /\ q * b \in Nat
  BY <1>1
<1>5. (a + b) % w = (r + b) % w
  <2> DEFINE y == r + b
  <2>1. a + b = w * q + y /\ y \in Nat
    BY <1>2
  <2> HIDE DEF y
  <2>2. (w * q + y) % w = y % w
    BY <1>1, <2>1, ModShift
  <2> QED BY <2>1, <2>2 DEF y
<1>6. (a * b) % w = (r * b) % w
  <2> DEFINE y == r * b  k == q * b
  <2>1. a * b = w * k + y /\ y \in Nat /\ k \in Nat
    BY <1>3, <1>4
  <2> HIDE DEF y, k
  <2>2. (w * k + y) % w = y % w
    BY <2>1, ModShift
  <2> QED BY <2>1, <2>2 DEF y
<1> QED BY <1>5, <1>6 DEF r

\* Additions and multiplications of words can be grouped as one likes.
Reductions == {"add", "mul"}

\* A reduction yields a natural and is associative.
LEMMA ApplyFacts ==
  \A by \in Reductions, a, b, c \in Nat :
    Apply(by, a, b) \in Nat /\ Apply(by, Apply(by, a, b), c) = Apply(by, a, Apply(by, b, c))
<1> SUFFICES ASSUME NEW by \in Reductions, NEW a \in Nat, NEW b \in Nat, NEW c \in Nat
             PROVE  /\ Apply(by, a, b) \in Nat
                    /\ Apply(by, Apply(by, a, b), c) = Apply(by, a, Apply(by, b, c))
  OBVIOUS
<1>1. Word \in Nat \ {0}
  BY LoopAssumption
<1>2. CASE by = "add"
  <2>1. \A x, y : Apply(by, x, y) = (x + y) % Word
    BY <1>2 DEF Apply
  <2> DEFINE p == a + b  q == b + c
  <2>2. p \in Nat /\ q \in Nat /\ p + c = q + a /\ a + (q % Word) = (q % Word) + a
    <3>1. q % Word \in Nat
      BY <1>1
    <3> HIDE DEF q
    <3>2. a + (q % Word) = (q % Word) + a
      BY <3>1
    <3> QED BY <3>2 DEF q
  <2> HIDE DEF p, q
  <2>3. ((p % Word) + c) % Word = (p + c) % Word /\ ((q % Word) + a) % Word = (q + a) % Word
    BY <1>1, <2>2, ModArgs
  <2>4. p % Word \in Nat
    BY <1>1, <2>2
  <2> QED BY <2>1, <2>2, <2>3, <2>4 DEF p, q
<1>3. CASE by = "mul"
  <2>1. \A x, y : Apply(by, x, y) = (x * y) % Word
    BY <1>3 DEF Apply
  <2> DEFINE p == a * b  q == b * c
  <2>2. p \in Nat /\ q \in Nat /\ p * c = q * a /\ a * (q % Word) = (q % Word) * a
    <3>1. p \in Nat /\ q \in Nat /\ p * c = q * a
      OBVIOUS
    <3> DEFINE r == q % Word
    <3>2. r \in Nat
      <4> HIDE DEF q
      <4> QED BY <1>1, <3>1
    <3> HIDE DEF r
    <3>3. a * r = r * a
      BY <3>2
    <3> QED BY <3>1, <3>3 DEF r
  <2> HIDE DEF p, q
  <2>3. ((p % Word) * c) % Word = (p * c) % Word /\ ((q % Word) * a) % Word = (q * a) % Word
    BY <1>1, <2>2, ModArgs
  <2>4. p % Word \in Nat
    BY <1>1, <2>2
  <2> QED BY <2>1, <2>2, <2>3, <2>4 DEF p, q
<1> QED BY <1>2, <1>3 DEF Reductions

\* The identity of the operation, taken in on the way.
LEMMA IdentityFacts ==
  ASSUME NEW l, Reduced(l) \in Reductions, NEW a \in Nat, NEW b \in Nat
  PROVE  /\ Identity(l) \in Nat
         /\ Apply(Reduced(l), a, Apply(Reduced(l), Identity(l), b)) = Apply(Reduced(l), a, b)
<1> DEFINE by == Reduced(l)  z == Identity(l)
<1>1. z \in Nat /\ by \in Reductions
  BY DEF Identity
<1>2. Apply(by, a, z) = a % Word
  <2>1. CASE by = "add"
    BY <2>1 DEF Identity, Apply
  <2>2. CASE by = "mul"
    BY <2>2 DEF Identity, Apply
  <2> QED BY <1>1, <2>1, <2>2 DEF Reductions
<1>3. Apply(by, Apply(by, a, z), b) = Apply(by, a, b)
  <2>1. Word \in Nat \ {0}
    BY LoopAssumption
  <2>2. ((a % Word) + b) % Word = (a + b) % Word /\ ((a % Word) * b) % Word = (a * b) % Word
    BY <2>1, ModArgs
  <2> HIDE DEF by, z
  <2>3. CASE by = "add"
    BY <1>2, <2>2, <2>3 DEF Apply
  <2>4. CASE by = "mul"
    BY <1>2, <2>2, <2>4 DEF Apply
  <2> QED BY <1>1, <2>3, <2>4 DEF Reductions
<1>4. Apply(by, Apply(by, a, z), b) = Apply(by, a, Apply(by, z, b))
  <2> HIDE DEF by, z
  <2> QED BY <1>1, ApplyFacts
<1> QED BY <1>1, <1>3, <1>4

-----------------------------------------------------------------------------
(***************************************************************************)
(* What an iteration does.                                                 *)
(***************************************************************************)
States == [mem : [Cells -> Nat], acc : Nat]

\* A loop that is taken.
Fit(l) ==
  WellFormed(l) /\ ~ ContainsSync(l) /\ ~ MemoryDeps(l) /\ (l.carried => IsReduction(l))

\* The instructions of the body are code of the loop.
LEMMA InCode ==
  ASSUME NEW l, WellFormed(l), NEW j \in 1 .. Len(l.body)
  PROVE  l.body[j] \in Code(l) /\ l.body[j] \in Instructions
<1>1. l.body \in Seq(Instructions) /\ DOMAIN l.body = 1 .. Len(l.body)
  BY DEF WellFormed
<1> QED BY <1>1 DEF Code, ToSet

\* A loop that carries a value and is taken has one operation that makes the next one.
LEMMA OneFold ==
  ASSUME NEW l, Fit(l), l.carried
  PROVE  /\ Reduced(l) \in Reductions /\ Folds(l) # {}
         /\ \A c \in Folds(l) : c.by = Reduced(l)
<1>1. IsFiniteSet(Folds(l)) /\ Cardinality(Folds(l)) = 1
  <2>1. l.header \in Seq(Instructions) /\ l.body \in Seq(Instructions)
    BY DEF Fit, WellFormed
  <2>2. IsFiniteSet(ToSet(l.header)) /\ IsFiniteSet(ToSet(l.body))
    <3>1. ASSUME NEW s \in Seq(Instructions) PROVE IsFiniteSet(ToSet(s))
      <4>1. IsFiniteSet(1 .. Len(s))
        BY FS_Interval
      <4>2. ToSet(s) = {s[i] : i \in 1 .. Len(s)}
        BY DEF ToSet
      <4>3. s \in Surjection(1 .. Len(s), ToSet(s))
        BY <4>2 DEF Surjection
      <4> QED BY <4>1, <4>3, FS_Surjection
    <3> QED BY <2>1, <3>1
  <2>3. IsFiniteSet(Code(l))
    BY <2>2, FS_Union DEF Code
  <2>4. Folds(l) \subseteq Code(l)
    BY DEF Folds
  <2> QED BY <2>3, <2>4, FS_Subset DEF Fit, IsReduction
<1>2. PICK x : Folds(l) = {x}
  BY <1>1, FS_Singleton
<1>3. (CHOOSE c \in Folds(l) : TRUE) = x
  BY <1>2
<1>4. x.by \in {"add", "mul"}
  BY <1>2 DEF Fit, IsReduction
<1> QED BY <1>2, <1>3, <1>4 DEF Reduced, Reductions

\* An instruction of the body keeps memory and the carried value natural.
LEMMA DoType ==
  ASSUME NEW l, Fit(l), NEW c \in Code(l), c \in Instructions, NEW i \in 0 .. l.runs - 1, NEW f \in States
  PROVE  Do(c, i, f) \in States
<1>1. l.runs \in Nat /\ i \in Cells /\ 0 \in Cells /\ i \in Nat /\ (i # 0 => i - 1 \in Cells)
  <2> DEFINE n == l.runs
  <2>1. n \in Nat /\ 0 .. n - 1 \subseteq Cells
    BY DEF Fit, WellFormed
  <2>2. i \in 0 .. n - 1
    OBVIOUS
  <2> HIDE DEF n
  <2>3. i \in Nat /\ 0 \in 0 .. n - 1 /\ (i # 0 => i - 1 \in 0 .. n - 1)
    BY <2>1, <2>2
  <2> QED BY <2>1, <2>2, <2>3 DEF n
<1>2. f.mem \in [Cells -> Nat] /\ f.acc \in Nat /\ f = [mem |-> f.mem, acc |-> f.acc]
  BY DEF States
<1>3. Read(c.src, i, f) \in Nat
  <2>1. c.src \in {"i", "two", "own", "prev", "acc"}
    BY DEF Instructions
  <2> QED BY <1>1, <1>2, <2>1 DEF Read
<1> DEFINE v == Read(c.src, i, f)
<1>4. Word \in Nat \ {0}
  BY LoopAssumption
<1>5. CASE c.op = "put"
  <2> DEFINE a == Cell(c.at, i)  x == (v + 1) % Word
  <2>1. x \in Nat
    <3> HIDE DEF v
    <3> QED BY <1>3, <1>4 DEF v
  <2>2. Do(c, i, f) = [f EXCEPT !.mem = [@ EXCEPT ![a] = x]]
    BY <1>5 DEF Do
  <2> HIDE DEF a, x
  <2>3. [f.mem EXCEPT ![a] = x] \in [Cells -> Nat]
    BY <1>2, <2>1
  <2> QED BY <1>2, <2>2, <2>3 DEF States
<1>6. CASE c.op # "put"
  <2>1. c \in Folds(l)
    BY <1>6 DEF Folds, Instructions
  <2>2. l.carried
    BY <2>1 DEF Fit, WellFormed
  <2>3. c.by \in Reductions
    BY <2>1, <2>2, OneFold
  <2> HIDE DEF v
  <2>4. Apply(c.by, f.acc, v) \in Nat
    <3>1. v \in Nat
      BY <1>3 DEF v
    <3> QED BY <1>2, <2>3, <3>1, ApplyFacts
  <2>5. Do(c, i, f) = [f EXCEPT !.acc = Apply(c.by, f.acc, v)]
    BY <1>6 DEF Do, v
  <2> QED BY <1>2, <2>4, <2>5 DEF States
<1> QED BY <1>5, <1>6

\* The iteration goes through its instructions.
Goes(code, i, e, w) ==
  /\ w \in [0 .. Len(code) -> States] /\ w[0] = e
  /\ \A j \in 1 .. Len(code) : w[j] = Do(code[j], i, w[j - 1])

\* An iteration is the fold over its instructions, one after the other.
LEMMA IterateGoes ==
  ASSUME NEW l, Fit(l), NEW i \in 0 .. l.runs - 1, NEW e \in States
  PROVE  \E w : Goes(l.body, i, e, w) /\ Iterate(l.body, i, e) = w[Len(l.body)]
<1> DEFINE code == l.body  n == Len(code)
           F == [p \in States \X (1 .. n) |-> Do(code[p[2]], i, p[1])]
           Runs(G) == G = [s \in SUBSET (DOMAIN code) |->
                             IF s = {} THEN e ELSE Do(code[Max(s)], i, G[s \ {Max(s)}])]
           I == CHOOSE G : Runs(G)
<1>1. code \in Seq(Instructions) /\ n \in Nat /\ DOMAIN code = 1 .. n /\ Len(code) = n
  BY DEF Fit, WellFormed
<1>2. Iterate(code, i, e) = I[DOMAIN code]
  BY DEF Iterate, FoldLeft, MapThenFoldSet
<1>3. F \in [States \X (1 .. n) -> States]
  <2>1. ASSUME NEW p \in States \X (1 .. n) PROVE Do(code[p[2]], i, p[1]) \in States
    <3>1. p[1] \in States /\ p[2] \in 1 .. n
      OBVIOUS
    <3>2. code[p[2]] \in Code(l) /\ code[p[2]] \in Instructions
      BY <3>1, InCode DEF Fit
    <3> QED BY <3>1, <3>2, DoType
  <2> HIDE DEF code, n
  <2> QED BY <2>1
<1>4. \A a \in States, j \in 1 .. n : F[<<a, j>>] = Do(code[j], i, a)
  <2> HIDE DEF code, n
  <2> QED OBVIOUS
<1> HIDE DEF F, code, n
<1>5. \E G \in [SUBSET (1 .. n) -> States] : Folding(n, e, F, G)
  BY <1>1, <1>3, FoldingExists
<1>6. ASSUME NEW G \in [SUBSET (1 .. n) -> States], Folding(n, e, F, G) PROVE Runs(G)
  <2>1. ASSUME NEW s \in SUBSET (1 .. n)
        PROVE  G[s] = IF s = {} THEN e ELSE Do(code[Max(s)], i, G[s \ {Max(s)}])
    <3>1. CASE s # {}
      <4>1. Max(s) \in 1 .. n /\ s \ {Max(s)} \in SUBSET (1 .. n)
        BY <1>1, <3>1, GreatestIn
      <4>2. G[s \ {Max(s)}] \in States
        BY <4>1
      <4>3. G[s] = F[<<G[s \ {Max(s)}], Max(s)>>]
        BY <1>6, <3>1 DEF Folding
      <4> QED BY <1>4, <3>1, <4>1, <4>2, <4>3
    <3>2. CASE s = {}
      BY <1>6, <3>2 DEF Folding
    <3> QED BY <3>1, <3>2
  <2>2. G = [s \in SUBSET (1 .. n) |-> G[s]]
    OBVIOUS
  <2>3. G = [s \in SUBSET (1 .. n) |-> IF s = {} THEN e ELSE Do(code[Max(s)], i, G[s \ {Max(s)}])]
    BY <2>1, <2>2
  <2> QED BY <1>1, <2>3
<1>7. Runs(I)
  <2>1. \E G : Runs(G)
    <3> HIDE DEF Runs
    <3> QED BY <1>5, <1>6
  <2> HIDE DEF Runs
  <2> QED BY <2>1
<1> HIDE DEF I
<1>8. I = [s \in SUBSET (1 .. n) |-> IF s = {} THEN e ELSE Do(code[Max(s)], i, I[s \ {Max(s)}])]
  BY <1>1, <1>7
<1> HIDE DEF Runs
<1> DEFINE w == [j \in 0 .. n |-> I[1 .. j]]
<1>9. w[0] = e /\ 0 \in 0 .. n
  <2>1. 1 .. 0 = {} /\ 0 \in 0 .. n /\ {} \in SUBSET (1 .. n)
    BY <1>1
  <2> QED BY <1>8, <2>1
<1>10. ASSUME NEW j \in 1 .. n PROVE w[j] = Do(code[j], i, w[j - 1])
  <2>1. j \in 0 .. n /\ j - 1 \in 0 .. n /\ 1 .. j \in SUBSET (1 .. n)
    BY <1>1
  <2>2. 1 .. j # {} /\ Max(1 .. j) = j /\ (1 .. j) \ {Max(1 .. j)} = 1 .. (j - 1)
    BY <1>1, Shortened
  <2>3. I[1 .. j] = Do(code[j], i, I[1 .. (j - 1)])
    BY <1>8, <2>1, <2>2
  <2> QED BY <2>1, <2>3
<1>11. I[DOMAIN code] = w[n]
  BY <1>1
<1> HIDE DEF w
<1> DEFINE K == {j \in Nat : j <= n => w[j] \in States}
<1>12. 0 \in K
  BY <1>9
<1>13. ASSUME NEW j \in K PROVE j + 1 \in K
  <2> SUFFICES ASSUME j + 1 <= n PROVE w[j + 1] \in States
    OBVIOUS
  <2>1. j + 1 \in 1 .. n /\ (j + 1) - 1 = j /\ w[j] \in States
    BY <1>1
  <2>2. w[j + 1] = Do(code[j + 1], i, w[j])
    BY <1>10, <2>1
  <2>3. code[j + 1] \in Code(l) /\ code[j + 1] \in Instructions
    BY <2>1, InCode DEF Fit, code, n
  <2> QED BY <2>1, <2>2, <2>3, DoType
<1>14. K = Nat
  <2>1. K \in SUBSET Nat
    OBVIOUS
  <2> HIDE DEF K
  <2> QED BY <1>12, <1>13, <2>1, AllNumbers
<1>15. w \in [0 .. n -> States]
  <2>1. \A j \in 0 .. n : w[j] \in States
    BY <1>1, <1>14
  <2>2. w = [j \in 0 .. n |-> w[j]]
    BY DEF w
  <2> QED BY <2>1, <2>2
<1>16. Goes(code, i, e, w) /\ Iterate(code, i, e) = w[n]
  BY <1>1, <1>2, <1>9, <1>10, <1>11, <1>15 DEF Goes
<1> QED BY <1>1, <1>16 DEF code

\* Where an iteration is looked at on its own: memory as at the start, nothing carried yet.
Zeros    == [c \in Cells |-> 0]
Blank(l) == [mem |-> Zeros, acc |-> Identity(l)]
StoredIn(l, i) == Iterate(l.body, i, Blank(l)).mem[i]
Gained(l, i)   == Iterate(l.body, i, Blank(l)).acc

\* A loop that is taken stores to the cell of the iteration, and neither reads the
\* carried value nor memory that it stores to.
LEMMA FitCode ==
  ASSUME NEW l, Fit(l), Plain(l), NEW c \in Code(l), c \in Instructions
  PROVE  /\ c.src \in {"i", "two", "own", "prev"}
         /\ c.src \in {"own", "prev"} => Puts(l) = {}
         /\ c.op = "put" => c.at = "own"
         /\ c.op # "put" => c \in Folds(l) /\ l.carried /\ c.by = Reduced(l)
<1>1. c.op = "put" => c \in Puts(l)
  BY DEF Puts
<1>2. c.op # "put" => c \in Folds(l) /\ l.carried
  BY DEF Folds, Instructions, Fit, WellFormed
<1>3. c.src # "acc"
  <2>1. CASE c.op = "put"
    BY <1>1, <2>1 DEF Fit, WellFormed, IsReduction
  <2>2. CASE c.op # "put"
    BY <1>2, <2>2 DEF Plain
  <2> QED BY <2>1, <2>2
<1>4. c.src \in {"own", "prev"} => Puts(l) = {}
  BY DEF Fit, MemoryDeps
<1>5. c.op = "put" => c.at = "own"
  <2> SUFFICES ASSUME c.op = "put" PROVE c.at = "own"
    OBVIOUS
  <2>1. c.via \in {"store", "call", "unknown", "sync", "atomic", "none"}
    BY DEF Instructions
  <2>2. c.via \notin {"sync", "atomic", "unknown"} /\ c.via # "none"
    BY <1>1 DEF Fit, ContainsSync, WellFormed
  <2> QED BY <1>1, <2>1, <2>2 DEF Plain
<1>6. c.src \in {"i", "two", "own", "prev", "acc"}
  BY DEF Instructions
<1> QED BY <1>2, <1>3, <1>4, <1>5, <1>6, OneFold

\* An iteration has a cell, and so has the one before it.
LEMMA CellFacts ==
  ASSUME NEW l, Fit(l), NEW i \in 0 .. l.runs - 1
  PROVE  i \in Nat /\ i \in Cells /\ 0 \in Cells /\ (i # 0 => i - 1 \in Cells)
<1>1. l.runs \in Nat /\ (0 .. l.runs - 1) \subseteq Cells
  BY DEF Fit, WellFormed
<1>2. 0 \in 0 .. l.runs - 1 /\ i \in Nat /\ (i # 0 => i - 1 \in 0 .. l.runs - 1)
  BY <1>1
<1> QED BY <1>1, <1>2

\* The state an iteration is looked at from is a state.
LEMMA BlankType == ASSUME NEW l PROVE Blank(l) \in States
BY DEF Blank, Zeros, States, Identity

\* Two runs of an iteration, from e and from nothing, after j instructions.
Alike(l, i, e, w, v, j) ==
  LET put  == \E m \in 1 .. j : l.body[m].op = "put"
      fold == \E m \in 1 .. j : l.body[m].op # "put"
  IN /\ put => w[j].mem = [e.mem EXCEPT ![i] = v[j].mem[i]]
     /\ ~ put => w[j].mem = e.mem /\ v[j].mem = Zeros
     /\ fold => w[j].acc = Apply(Reduced(l), e.acc, v[j].acc)
     /\ ~ fold => w[j].acc = e.acc /\ v[j].acc = Identity(l)

\* Two runs that did alike so far do alike with the next instruction.
LEMMA AlikeStep ==
  ASSUME NEW l, Fit(l), Plain(l), NEW i \in 0 .. l.runs - 1, NEW e \in States,
         Puts(l) = {} => e.mem = Zeros,
         NEW w, NEW v, Goes(l.body, i, e, w), Goes(l.body, i, Blank(l), v),
         NEW j \in Nat, j + 1 <= Len(l.body), Alike(l, i, e, w, v, j)
  PROVE  Alike(l, i, e, w, v, j + 1)
<1> DEFINE c == l.body[j + 1]  f == w[j]  g == v[j]
           put(m) == \E k \in 1 .. m : l.body[k].op = "put"
           fold(m) == \E k \in 1 .. m : l.body[k].op # "put"
<1>1. Len(l.body) \in Nat /\ j \in 0 .. Len(l.body) /\ j + 1 \in 1 .. Len(l.body) /\ (j + 1) - 1 = j
  BY DEF Fit, WellFormed
<1>2. c \in Code(l) /\ c \in Instructions
  BY <1>1, InCode DEF Fit
<1>3. f \in States /\ g \in States /\ w[j + 1] = Do(c, i, f) /\ v[j + 1] = Do(c, i, g)
  BY <1>1 DEF Goes
<1>4. /\ c.src \in {"i", "two", "own", "prev"}
      /\ c.src \in {"own", "prev"} => Puts(l) = {}
      /\ c.op = "put" => c.at = "own"
      /\ c.op # "put" => c \in Folds(l) /\ l.carried /\ c.by = Reduced(l)
  BY <1>2, FitCode
<1>5. Puts(l) = {} => ~ put(j)
  <2>1. ASSUME NEW k \in 1 .. j PROVE l.body[k].op = "put" => l.body[k] \in Puts(l)
    <3>1. k \in 1 .. Len(l.body)
      BY <1>1
    <3> QED BY <3>1, InCode DEF Fit, Puts
  <2> QED BY <2>1
<1>6. /\ put(j) => f.mem = [e.mem EXCEPT ![i] = g.mem[i]]
      /\ ~ put(j) => f.mem = e.mem /\ g.mem = Zeros
      /\ fold(j) => f.acc = Apply(Reduced(l), e.acc, g.acc)
      /\ ~ fold(j) => f.acc = e.acc /\ g.acc = Identity(l)
  BY DEF Alike
<1>7. /\ put(j + 1) <=> put(j) \/ c.op = "put"
      /\ fold(j + 1) <=> fold(j) \/ c.op # "put"
  <2>1. \A k \in 1 .. (j + 1) : k \in 1 .. j \/ k = j + 1
    OBVIOUS
  <2>2. \A k \in 1 .. j : k \in 1 .. (j + 1)
    OBVIOUS
  <2>3. j + 1 \in 1 .. (j + 1)
    OBVIOUS
  <2> QED BY <2>1, <2>2, <2>3
<1> HIDE DEF put, fold, f, g
<1> DEFINE x == Read(c.src, i, f)
<1>8. Read(c.src, i, g) = x /\ x \in Nat
  <2>1. f.mem \in [Cells -> Nat] /\ i \in Cells /\ 0 \in Cells /\ i \in Nat /\ (i # 0 => i - 1 \in Cells)
    BY <1>3, CellFacts DEF States
  <2>2. CASE c.src \in {"i", "two"}
    BY <2>1, <2>2 DEF Read
  <2>3. CASE c.src \in {"own", "prev"}
    <3>1. f.mem = g.mem
      BY <1>4, <1>5, <1>6, <2>3
    <3> QED BY <2>1, <2>3, <3>1 DEF Read
  <2> QED BY <1>4, <2>2, <2>3
<1> HIDE DEF c
<1>9. CASE c.op = "put"
  <2> DEFINE y == (x + 1) % Word
  <2>1. Do(c, i, f) = [f EXCEPT !.mem[i] = y] /\ Do(c, i, g) = [g EXCEPT !.mem[i] = y]
    BY <1>4, <1>8, <1>9 DEF Do, Cell
  <2> HIDE DEF y, x
  <2>2. /\ f.mem \in [Cells -> Nat] /\ g.mem \in [Cells -> Nat] /\ e.mem \in [Cells -> Nat] /\ i \in Cells
        /\ f = [mem |-> f.mem, acc |-> f.acc] /\ g = [mem |-> g.mem, acc |-> g.acc]
    BY <1>3, CellFacts DEF States
  <2>3. /\ w[j + 1].mem = [f.mem EXCEPT ![i] = y] /\ w[j + 1].acc = f.acc
        /\ v[j + 1].mem = [g.mem EXCEPT ![i] = y] /\ v[j + 1].acc = g.acc
    BY <1>3, <2>1, <2>2
  <2>4. [f.mem EXCEPT ![i] = y] = [e.mem EXCEPT ![i] = y]
    <3>1. f.mem = e.mem \/ f.mem = [e.mem EXCEPT ![i] = g.mem[i]]
      BY <1>6
    <3> QED BY <2>2, <3>1
  <2>5. v[j + 1].mem[i] = y
    BY <2>2, <2>3
  <2>6. put(j + 1) /\ (fold(j + 1) <=> fold(j))
    BY <1>7, <1>9
  <2>7. w[j + 1].mem = [e.mem EXCEPT ![i] = v[j + 1].mem[i]]
    BY <2>3, <2>4, <2>5
  <2> QED BY <1>6, <2>3, <2>6, <2>7 DEF Alike, put, fold
<1>10. CASE c.op # "put"
  <2>1. /\ Do(c, i, f) = [f EXCEPT !.acc = Apply(Reduced(l), f.acc, x)]
        /\ Do(c, i, g) = [g EXCEPT !.acc = Apply(Reduced(l), g.acc, x)]
    BY <1>4, <1>8, <1>10 DEF Do
  <2> HIDE DEF x
  <2>2. /\ f.acc \in Nat /\ g.acc \in Nat /\ e.acc \in Nat
        /\ f = [mem |-> f.mem, acc |-> f.acc] /\ g = [mem |-> g.mem, acc |-> g.acc]
    BY <1>3 DEF States
  <2>3. /\ w[j + 1].mem = f.mem /\ w[j + 1].acc = Apply(Reduced(l), f.acc, x)
        /\ v[j + 1].mem = g.mem /\ v[j + 1].acc = Apply(Reduced(l), g.acc, x)
    BY <1>3, <2>1, <2>2
  <2>4. Reduced(l) \in Reductions
    BY <1>4, <1>10, OneFold
  <2>5. Apply(Reduced(l), f.acc, x) = Apply(Reduced(l), e.acc, Apply(Reduced(l), g.acc, x))
    <3>1. CASE fold(j)
      <4>1. Apply(Reduced(l), f.acc, x) = Apply(Reduced(l), Apply(Reduced(l), e.acc, g.acc), x)
        BY <1>6, <3>1
      <4>2. x \in Nat
        BY <1>8
      <4> DEFINE by == Reduced(l)  p == e.acc  q == g.acc
      <4>3. by \in Reductions /\ p \in Nat /\ q \in Nat
        BY <2>2, <2>4
      <4> HIDE DEF by, p, q
      <4>4. Apply(by, Apply(by, p, q), x) = Apply(by, p, Apply(by, q, x))
        BY <4>2, <4>3, ApplyFacts
      <4> QED BY <4>1, <4>4 DEF by, p, q
    <3>2. CASE ~ fold(j)
      BY <1>6, <1>8, <2>2, <2>4, <3>2, IdentityFacts
    <3> QED BY <3>1, <3>2
  <2>6. fold(j + 1) /\ (put(j + 1) <=> put(j))
    BY <1>7, <1>10
  <2> QED BY <1>6, <2>3, <2>5, <2>6 DEF Alike, put, fold
<1> QED BY <1>9, <1>10

\* An iteration stores to its cell and takes in its share, whatever came before.
LEMMA IterateEffect ==
  ASSUME NEW l, Fit(l), Plain(l), NEW i \in 0 .. l.runs - 1, NEW e \in States,
         Puts(l) = {} => e.mem = Zeros
  PROVE  LET r == Iterate(l.body, i, e) IN
         /\ r.mem = IF Puts(l) = {} THEN e.mem ELSE [e.mem EXCEPT ![i] = StoredIn(l, i)]
         /\ l.carried => r.acc = Apply(Reduced(l), e.acc, Gained(l, i))
         /\ StoredIn(l, i) \in Nat /\ Gained(l, i) \in Nat
<1> DEFINE n == Len(l.body)
<1>1. PICK w : Goes(l.body, i, e, w) /\ Iterate(l.body, i, e) = w[n]
  BY IterateGoes
<1>2. PICK v : Goes(l.body, i, Blank(l), v) /\ Iterate(l.body, i, Blank(l)) = v[n]
  BY BlankType, IterateGoes
<1>3. n \in Nat
  BY DEF Fit, WellFormed
<1> DEFINE K == {j \in Nat : j <= n => Alike(l, i, e, w, v, j)}
<1>4. 0 \in K
  <2>1. 1 .. 0 = {} /\ w[0] = e /\ v[0] = Blank(l)
    BY <1>1, <1>2 DEF Goes
  <2> QED BY <2>1 DEF Alike, Blank
<1>5. ASSUME NEW j \in K PROVE j + 1 \in K
  BY <1>1, <1>2, <1>3, AlikeStep
<1>6. K = Nat
  <2>1. K \in SUBSET Nat
    OBVIOUS
  <2> HIDE DEF K
  <2> QED BY <1>4, <1>5, <2>1, AllNumbers
<1>7. Alike(l, i, e, w, v, n)
  BY <1>3, <1>6
<1>8. w[n] \in States /\ v[n] \in States /\ i \in Cells
  <2>1. n \in 0 .. n
    BY <1>3
  <2> QED BY <1>1, <1>2, <2>1, CellFacts DEF Goes
<1>9. l.header = << >> /\ Code(l) = {l.body[m] : m \in 1 .. n}
  <2>1. DOMAIN l.body = 1 .. n /\ ToSet(<< >>) = {}
    BY DEF Fit, WellFormed, ToSet
  <2> QED BY <2>1 DEF Plain, Code, ToSet
<1>10. /\ Puts(l) = {} <=> ~ \E m \in 1 .. n : l.body[m].op = "put"
       /\ l.carried => \E m \in 1 .. n : l.body[m].op # "put"
  <2>1. Puts(l) = {} <=> ~ \E m \in 1 .. n : l.body[m].op = "put"
    BY <1>9 DEF Puts
  <2>2. l.carried => Folds(l) # {}
    BY DEF Fit, WellFormed
  <2>3. \A c \in Folds(l) : c.op # "put" /\ c \in Code(l)
    BY DEF Folds
  <2> QED BY <1>9, <2>1, <2>2, <2>3
<1>11. StoredIn(l, i) = v[n].mem[i] /\ Gained(l, i) = v[n].acc
  BY <1>2 DEF StoredIn, Gained
<1> HIDE DEF n
<1> QED BY <1>1, <1>7, <1>8, <1>10, <1>11 DEF Alike, States

-----------------------------------------------------------------------------
(***************************************************************************)
(* The reduction over a range of iterations.                               *)
(***************************************************************************)
\* w[m]: what is carried before iteration m by who starts from a at iteration lo.
Carries(l, a, lo, w) ==
  /\ w \in [0 .. l.runs -> Nat]
  /\ \A m \in 0 .. lo : w[m] = a
  /\ \A m \in lo + 1 .. l.runs : w[m] = Apply(Reduced(l), w[m - 1], Gained(l, m - 1))
Carried(l, a, lo) == CHOOSE w : Carries(l, a, lo, w)

\* What an iteration gains and stores is a natural.
LEMMA GainedType ==
  ASSUME NEW l, Fit(l), Plain(l), NEW i \in 0 .. l.runs - 1
  PROVE  Gained(l, i) \in Nat /\ StoredIn(l, i) \in Nat
<1>1. Puts(l) = {} => Blank(l).mem = Zeros
  BY DEF Blank
<1> QED BY <1>1, BlankType, IterateEffect

\* The reduction over a range exists.
LEMMA CarriedFacts ==
  ASSUME NEW l, Fit(l), Plain(l), l.carried, NEW a \in Nat, NEW lo \in 0 .. l.runs
  PROVE  Carries(l, a, lo, Carried(l, a, lo))
<1> DEFINE n == l.runs  by == Reduced(l)
           F == [p \in Nat \X (1 .. n) |-> IF p[2] <= lo THEN a ELSE Apply(by, p[1], Gained(l, p[2] - 1))]
<1>1. n \in Nat /\ by \in Reductions
  BY OneFold DEF Fit, WellFormed
<1>2. F \in [Nat \X (1 .. n) -> Nat]
  <2>1. ASSUME NEW p \in Nat \X (1 .. n)
        PROVE  (IF p[2] <= lo THEN a ELSE Apply(by, p[1], Gained(l, p[2] - 1))) \in Nat
    <3>1. p[1] \in Nat /\ p[2] - 1 \in 0 .. n - 1
      BY <1>1
    <3>2. Gained(l, p[2] - 1) \in Nat
      BY <3>1, GainedType
    <3> HIDE DEF by
    <3>3. Apply(by, p[1], Gained(l, p[2] - 1)) \in Nat
      BY <1>1, <3>1, <3>2, ApplyFacts
    <3> QED BY <3>3
  <2> HIDE DEF by, n
  <2> QED BY <2>1
<1>3. \A x \in Nat, m \in 1 .. n : F[<<x, m>>] = IF m <= lo THEN a ELSE Apply(by, x, Gained(l, m - 1))
  <2> HIDE DEF by, n
  <2> QED OBVIOUS
<1> HIDE DEF F
<1>4. PICK G \in [SUBSET (1 .. n) -> Nat] : Folding(n, a, F, G)
  <2> HIDE DEF n
  <2> QED BY <1>1, <1>2, FoldingExists
<1> DEFINE w == [m \in 0 .. n |-> G[1 .. m]]
<1>5. Walk(n, a, F, w)
  <2> HIDE DEF n
  <2> QED BY <1>1, <1>4, FoldWalks
<1>6. w \in [0 .. n -> Nat]
  <2>1. \A m \in 0 .. n : 1 .. m \in SUBSET (1 .. n)
    BY <1>1
  <2> HIDE DEF n
  <2> QED BY <1>4, <2>1
<1> HIDE DEF w
<1>7. ASSUME NEW m \in 1 .. n
      PROVE  w[m] = IF m <= lo THEN a ELSE Apply(by, w[m - 1], Gained(l, m - 1))
  <2>1. m - 1 \in 0 .. n
    BY <1>1
  <2> HIDE DEF n, by
  <2>2. w[m - 1] \in Nat /\ w[m] = F[<<w[m - 1], m>>]
    BY <1>5, <1>6, <2>1 DEF Walk
  <2> QED BY <1>3, <2>2
<1>8. Carries(l, a, lo, w)
  <2>1. w[0] = a
    BY <1>5 DEF Walk
  <2>2. \A m \in 0 .. lo : m = 0 \/ (m \in 1 .. n /\ m <= lo)
    BY <1>1
  <2>3. \A m \in lo + 1 .. n : m \in 1 .. n /\ ~ (m <= lo)
    BY <1>1
  <2> QED BY <1>6, <1>7, <2>1, <2>2, <2>3 DEF Carries
<1> QED BY <1>8 DEF Carried

\* Who goes on from lo with what was carried until there, and who starts anew and
\* is combined with it afterwards, have the same.
LEMMA CarriedMeets ==
  ASSUME NEW l, Fit(l), Plain(l), l.carried, NEW a \in Nat,
         NEW lo \in 0 .. l.runs, NEW m \in lo + 1 .. l.runs
  PROVE  Carried(l, a, 0)[m]
           = Apply(Reduced(l), Carried(l, a, 0)[lo], Carried(l, Identity(l), lo)[m])
<1> DEFINE n == l.runs  by == Reduced(l)  u == Carried(l, a, 0)  v == Carried(l, Identity(l), lo)
           G(k) == Gained(l, k)  b == u[lo]
<1>1. n \in Nat /\ by \in Reductions /\ 0 \in 0 .. n /\ Identity(l) \in Nat
  BY OneFold DEF Fit, WellFormed, Identity
<1>2. Carries(l, a, 0, u) /\ Carries(l, Identity(l), lo, v)
  BY <1>1, CarriedFacts
<1>3. ASSUME NEW k \in 1 .. n PROVE u[k] = Apply(by, u[k - 1], G(k - 1))
  BY <1>2 DEF Carries
<1>4. ASSUME NEW k \in lo + 1 .. n PROVE v[k] = Apply(by, v[k - 1], G(k - 1))
  BY <1>2 DEF Carries
<1>5. u \in [0 .. n -> Nat] /\ v \in [0 .. n -> Nat] /\ v[lo] = Identity(l)
  BY <1>2 DEF Carries
<1>6. ASSUME NEW k \in 0 .. n - 1 PROVE G(k) \in Nat
  BY GainedType
<1>7. b \in Nat
  BY <1>5
<1> HIDE DEF u, v, G, b
<1> DEFINE K == {k \in Nat : lo < k /\ k <= n => u[k] = Apply(by, b, v[k])}
<1>8. 0 \in K
  BY <1>1
<1>9. ASSUME NEW k \in K PROVE k + 1 \in K
  <2> SUFFICES ASSUME lo < k + 1, k + 1 <= n PROVE u[k + 1] = Apply(by, b, v[k + 1])
    OBVIOUS
  <2>1. /\ k + 1 \in 1 .. n /\ k + 1 \in lo + 1 .. n /\ (k + 1) - 1 = k /\ k \in 0 .. n - 1 /\ k \in 0 .. n
        /\ (k = lo \/ lo < k)
    BY <1>1
  <2>2. u[k + 1] = Apply(by, u[k], G(k)) /\ v[k + 1] = Apply(by, v[k], G(k))
    BY <1>3, <1>4, <2>1
  <2>3. u[k] \in Nat /\ v[k] \in Nat /\ G(k) \in Nat
    BY <1>5, <1>6, <2>1
  <2>4. CASE k = lo
    <3>1. Apply(by, b, Apply(by, Identity(l), G(k))) = Apply(by, b, G(k))
      BY <1>1, <1>7, <2>3, IdentityFacts
    <3> QED BY <1>5, <2>2, <2>4, <3>1 DEF b
  <2>5. CASE lo < k
    <3>1. u[k] = Apply(by, b, v[k])
      BY <2>1, <2>5
    <3> DEFINE p == v[k]  g == G(k)
    <3>2. p \in Nat /\ g \in Nat
      BY <2>3
    <3> HIDE DEF by, p, g
    <3>3. Apply(by, Apply(by, b, p), g) = Apply(by, b, Apply(by, p, g))
      BY <1>1, <1>7, <3>2, ApplyFacts
    <3> QED BY <2>2, <3>1, <3>3 DEF p, g
  <2> QED BY <2>1, <2>4, <2>5
<1>10. K = Nat
  <2>1. K \in SUBSET Nat
    OBVIOUS
  <2> HIDE DEF K
  <2> QED BY <1>8, <1>9, <2>1, AllNumbers
<1>11. u[m] = Apply(by, b, v[m])
  <2>1. m \in Nat /\ lo < m /\ m <= n
    BY <1>1
  <2> QED BY <1>10, <2>1
<1> QED BY <1>11 DEF u, v, b

-----------------------------------------------------------------------------
(***************************************************************************)
(* What the partial results combine to, and what the serial loop computes. *)
(***************************************************************************)
WorkerStates == [at : Nat, acc : Nat, threw : BOOLEAN]

\* The partial results are combined one after the other.
LEMMA CombineGoes ==
  ASSUME NEW l, Reduced(l) \in Reductions, NEW ts \in Seq(WorkerStates)
  PROVE  \E w : /\ w[0] = Identity(l)
                /\ \A j \in 1 .. Len(ts) : w[j] = Apply(Reduced(l), w[j - 1], ts[j].acc)
                /\ Combined(l, ts) = Apply(Reduced(l), l.init, w[Len(ts)])
<1> DEFINE n == Len(ts)  by == Reduced(l)  z == Identity(l)
           F == [p \in Nat \X (1 .. n) |-> Apply(by, p[1], ts[p[2]].acc)]
           Runs(G) == G = [s \in SUBSET (DOMAIN ts) |->
                             IF s = {} THEN z ELSE Apply(by, G[s \ {Max(s)}], ts[Max(s)].acc)]
           I == CHOOSE G : Runs(G)
<1>1. n \in Nat /\ DOMAIN ts = 1 .. n /\ z \in Nat
  BY DEF Identity
<1>2. Combined(l, ts) = Apply(by, l.init, I[DOMAIN ts])
  BY DEF Combined, FoldLeft, MapThenFoldSet
<1>3. \A j \in 1 .. n : ts[j].acc \in Nat
  <2>1. \A j \in 1 .. n : ts[j] \in WorkerStates
    BY <1>1
  <2> QED BY <2>1 DEF WorkerStates
<1>4. F \in [Nat \X (1 .. n) -> Nat]
  <2>1. ASSUME NEW p \in Nat \X (1 .. n) PROVE Apply(by, p[1], ts[p[2]].acc) \in Nat
    <3>1. p[1] \in Nat /\ p[2] \in 1 .. n /\ ts[p[2]].acc \in Nat
      BY <1>3
    <3> HIDE DEF by
    <3> QED BY <3>1, ApplyFacts DEF by
  <2> HIDE DEF by, n
  <2> QED BY <2>1
<1>5. \A a \in Nat, j \in 1 .. n : F[<<a, j>>] = Apply(by, a, ts[j].acc)
  <2> HIDE DEF by, n
  <2> QED OBVIOUS
<1> HIDE DEF F, n, z, by
<1>6. \E G \in [SUBSET (1 .. n) -> Nat] : Folding(n, z, F, G)
  BY <1>1, <1>4, FoldingExists
<1>7. ASSUME NEW G \in [SUBSET (1 .. n) -> Nat], Folding(n, z, F, G) PROVE Runs(G)
  <2>1. ASSUME NEW s \in SUBSET (1 .. n)
        PROVE  G[s] = IF s = {} THEN z ELSE Apply(by, G[s \ {Max(s)}], ts[Max(s)].acc)
    <3>1. CASE s # {}
      <4>1. Max(s) \in 1 .. n /\ s \ {Max(s)} \in SUBSET (1 .. n)
        BY <1>1, <3>1, GreatestIn
      <4>2. G[s \ {Max(s)}] \in Nat
        BY <4>1
      <4>3. G[s] = F[<<G[s \ {Max(s)}], Max(s)>>]
        BY <1>7, <3>1 DEF Folding
      <4> QED BY <1>5, <3>1, <4>1, <4>2, <4>3
    <3>2. CASE s = {}
      BY <1>7, <3>2 DEF Folding
    <3> QED BY <3>1, <3>2
  <2>2. G = [s \in SUBSET (1 .. n) |-> G[s]]
    OBVIOUS
  <2>3. G = [s \in SUBSET (1 .. n) |-> IF s = {} THEN z ELSE Apply(by, G[s \ {Max(s)}], ts[Max(s)].acc)]
    BY <2>1, <2>2
  <2> QED BY <1>1, <2>3
<1>8. Runs(I)
  <2>1. \E G : Runs(G)
    <3> HIDE DEF Runs
    <3> QED BY <1>6, <1>7
  <2> HIDE DEF Runs
  <2> QED BY <2>1
<1> HIDE DEF I
<1>9. I = [s \in SUBSET (1 .. n) |-> IF s = {} THEN z ELSE Apply(by, I[s \ {Max(s)}], ts[Max(s)].acc)]
  BY <1>1, <1>8
<1> HIDE DEF Runs
<1> DEFINE w == [j \in 0 .. n |-> I[1 .. j]]
<1>10. w[0] = z
  <2>1. 1 .. 0 = {} /\ 0 \in 0 .. n /\ {} \in SUBSET (1 .. n)
    BY <1>1
  <2> QED BY <1>9, <2>1
<1>11. ASSUME NEW j \in 1 .. n PROVE w[j] = Apply(by, w[j - 1], ts[j].acc)
  <2>1. j \in 0 .. n /\ j - 1 \in 0 .. n /\ 1 .. j \in SUBSET (1 .. n)
    BY <1>1
  <2>2. 1 .. j # {} /\ Max(1 .. j) = j /\ (1 .. j) \ {Max(1 .. j)} = 1 .. (j - 1)
    BY <1>1, Shortened
  <2>3. I[1 .. j] = Apply(by, I[1 .. (j - 1)], ts[j].acc)
    BY <1>9, <2>1, <2>2
  <2> QED BY <2>1, <2>3
<1>12. I[DOMAIN ts] = w[n]
  BY <1>1
<1> HIDE DEF w
<1> QED BY <1>2, <1>10, <1>11, <1>12 DEF n, z, by

\* Nothing to iterate.
LEMMA IterateNothing == ASSUME NEW i, NEW e PROVE Iterate(<< >>, i, e) = e
<1> DEFINE code == << >>
           Runs(G) == G = [s \in SUBSET (DOMAIN code) |->
                             IF s = {} THEN e ELSE Do(code[Max(s)], i, G[s \ {Max(s)}])]
           I == CHOOSE G : Runs(G)
<1>1. Iterate(code, i, e) = I[DOMAIN code]
  BY DEF Iterate, FoldLeft, MapThenFoldSet
<1>2. DOMAIN code = {}
  OBVIOUS
<1> HIDE DEF code
<1>3. Runs([s \in SUBSET {} |-> e])
  <2>1. \A s \in SUBSET {} : s = {}
    OBVIOUS
  <2> QED BY <1>2, <2>1
<1>4. Runs(I)
  <2> HIDE DEF Runs
  <2> QED BY <1>3
<1> HIDE DEF I
<1>5. I[{}] = e
  BY <1>2, <1>4
<1> QED BY <1>1, <1>2, <1>5 DEF code

\* The serial loop, after m iterations.
LEMMA SerialGoes ==
  ASSUME Fit(loop), Plain(loop)
  PROVE  \E w : /\ w \in [0 .. loop.runs -> States] /\ w[0] = [mem |-> Zeros, acc |-> loop.init]
                /\ \A m \in 1 .. loop.runs : w[m] = Iterate(loop.body, m - 1, w[m - 1])
                /\ Serial = w[loop.runs]
<1> DEFINE n == loop.runs  all == [i \in 1 .. n |-> i - 1]  e == [mem |-> Zeros, acc |-> loop.init]
           code == loop.header \o loop.body
           F == [p \in States \X (1 .. n) |-> Iterate(loop.body, p[2] - 1, p[1])]
           Runs(G) == G = [s \in SUBSET (DOMAIN all) |->
                             IF s = {} THEN e ELSE Iterate(code, all[Max(s)], G[s \ {Max(s)}])]
           I == CHOOSE G : Runs(G)
<1>1. n \in Nat /\ DOMAIN all = 1 .. n /\ e \in States /\ code = loop.body
  <2>1. loop.body \in Seq(Instructions) /\ loop.header = << >>
    BY DEF Fit, WellFormed, Plain
  <2> QED BY <2>1 DEF Fit, WellFormed, States, Zeros
<1>2. Serial = Iterate(loop.header, n, I[DOMAIN all])
  <2>1. loop.shape = "top"
    BY DEF Plain
  <2> QED BY <2>1 DEF Serial, FoldLeft, MapThenFoldSet, Zeros
<1>3. Serial = I[DOMAIN all]
  <2>1. loop.header = << >>
    BY DEF Plain
  <2> HIDE DEF I, all, n
  <2> QED BY <1>2, <2>1, IterateNothing
<1>4. ASSUME NEW i \in 0 .. n - 1, NEW f \in States PROVE Iterate(loop.body, i, f) \in States
  <2>1. PICK w : Goes(loop.body, i, f, w) /\ Iterate(loop.body, i, f) = w[Len(loop.body)]
    BY <1>4, IterateGoes
  <2>2. Len(loop.body) \in Nat
    BY DEF Fit, WellFormed
  <2>3. Len(loop.body) \in 0 .. Len(loop.body)
    BY <2>2
  <2> QED BY <2>1, <2>3 DEF Goes
<1>5. F \in [States \X (1 .. n) -> States]
  <2>1. ASSUME NEW p \in States \X (1 .. n) PROVE Iterate(loop.body, p[2] - 1, p[1]) \in States
    <3>1. p[1] \in States /\ p[2] - 1 \in 0 .. n - 1
      BY <1>1
    <3> QED BY <1>4, <3>1
  <2> HIDE DEF n
  <2> QED BY <2>1
<1>6. \A a \in States, j \in 1 .. n : F[<<a, j>>] = Iterate(loop.body, j - 1, a)
  <2> HIDE DEF n
  <2> QED OBVIOUS
<1>7. \A j \in 1 .. n : all[j] = j - 1
  OBVIOUS
<1> HIDE DEF F, n, all, e, code
<1>8. \E G \in [SUBSET (1 .. n) -> States] : Folding(n, e, F, G)
  BY <1>1, <1>5, FoldingExists
<1>9. ASSUME NEW G \in [SUBSET (1 .. n) -> States], Folding(n, e, F, G) PROVE Runs(G)
  <2>1. ASSUME NEW s \in SUBSET (1 .. n)
        PROVE  G[s] = IF s = {} THEN e ELSE Iterate(code, all[Max(s)], G[s \ {Max(s)}])
    <3>1. CASE s # {}
      <4>1. Max(s) \in 1 .. n /\ s \ {Max(s)} \in SUBSET (1 .. n)
        BY <1>1, <3>1, GreatestIn
      <4>2. G[s \ {Max(s)}] \in States /\ all[Max(s)] = Max(s) - 1
        BY <1>7, <4>1
      <4>3. G[s] = F[<<G[s \ {Max(s)}], Max(s)>>]
        BY <1>9, <3>1 DEF Folding
      <4> QED BY <1>1, <1>6, <3>1, <4>1, <4>2, <4>3
    <3>2. CASE s = {}
      BY <1>9, <3>2 DEF Folding
    <3> QED BY <3>1, <3>2
  <2>2. G = [s \in SUBSET (1 .. n) |-> G[s]]
    OBVIOUS
  <2>3. G = [s \in SUBSET (1 .. n) |-> IF s = {} THEN e ELSE Iterate(code, all[Max(s)], G[s \ {Max(s)}])]
    BY <2>1, <2>2
  <2> QED BY <1>1, <2>3
<1>10. Runs(I)
  <2>1. \E G : Runs(G)
    <3> HIDE DEF Runs
    <3> QED BY <1>8, <1>9
  <2> HIDE DEF Runs
  <2> QED BY <2>1
<1> HIDE DEF I
<1>11. I = [s \in SUBSET (1 .. n) |-> IF s = {} THEN e ELSE Iterate(loop.body, all[Max(s)], I[s \ {Max(s)}])]
  BY <1>1, <1>10
<1> HIDE DEF Runs
<1> DEFINE w == [j \in 0 .. n |-> I[1 .. j]]
<1>12. w[0] = e /\ 0 \in 0 .. n
  <2>1. 1 .. 0 = {} /\ 0 \in 0 .. n /\ {} \in SUBSET (1 .. n)
    BY <1>1
  <2> QED BY <1>11, <2>1
<1>13. ASSUME NEW j \in 1 .. n PROVE w[j] = Iterate(loop.body, j - 1, w[j - 1])
  <2>1. j \in 0 .. n /\ j - 1 \in 0 .. n /\ 1 .. j \in SUBSET (1 .. n)
    BY <1>1
  <2>2. 1 .. j # {} /\ Max(1 .. j) = j /\ (1 .. j) \ {Max(1 .. j)} = 1 .. (j - 1)
    BY <1>1, Shortened
  <2>3. I[1 .. j] = Iterate(loop.body, j - 1, I[1 .. (j - 1)])
    BY <1>7, <1>11, <2>1, <2>2
  <2> QED BY <2>1, <2>3
<1>14. I[DOMAIN all] = w[n]
  BY <1>1
<1>15. w = [j \in 0 .. n |-> w[j]]
  OBVIOUS
<1> HIDE DEF w
<1> DEFINE K == {j \in Nat : j <= n => w[j] \in States}
<1>16. 0 \in K
  BY <1>1, <1>12
<1>17. ASSUME NEW j \in K PROVE j + 1 \in K
  <2> SUFFICES ASSUME j + 1 <= n PROVE w[j + 1] \in States
    OBVIOUS
  <2>1. j + 1 \in 1 .. n /\ (j + 1) - 1 = j /\ w[j] \in States /\ j \in 0 .. n - 1
    BY <1>1
  <2> QED BY <1>4, <1>13, <2>1
<1>18. K = Nat
  <2>1. K \in SUBSET Nat
    OBVIOUS
  <2> HIDE DEF K
  <2> QED BY <1>16, <1>17, <2>1, AllNumbers
<1>19. w \in [0 .. n -> States]
  <2>1. \A j \in 0 .. n : w[j] \in States
    BY <1>1, <1>18
  <2> QED BY <1>15, <2>1
<1> QED BY <1>3, <1>12, <1>13, <1>14, <1>19 DEF n, e

\* The serial loop stores what each iteration stores, and carries what they gain.
LEMMA SerialIs ==
  ASSUME Fit(loop), Plain(loop)
  PROVE  /\ Serial.mem = [c \in Cells |-> IF Puts(loop) # {} /\ c \in 0 .. loop.runs - 1 THEN StoredIn(loop, c) ELSE 0]
         /\ loop.carried => Serial.acc = Carried(loop, loop.init, 0)[loop.runs]
<1> DEFINE l == loop  n == loop.runs  u == Carried(loop, loop.init, 0)
           Mem(m) == [c \in Cells |-> IF Puts(l) # {} /\ c \in 0 .. m - 1 THEN StoredIn(l, c) ELSE 0]
<1>1. PICK w : /\ w \in [0 .. n -> States] /\ w[0] = [mem |-> Zeros, acc |-> loop.init]
               /\ \A m \in 1 .. n : w[m] = Iterate(loop.body, m - 1, w[m - 1])
               /\ Serial = w[n]
  BY SerialGoes
<1>2. n \in Nat /\ loop.init \in Nat /\ 0 \in 0 .. n
  BY DEF Fit, WellFormed
<1>3. l.carried => Carries(l, loop.init, 0, u)
  BY <1>2, CarriedFacts
<1> HIDE DEF u
<1> DEFINE Good(m) == w[m].mem = Mem(m) /\ (l.carried => w[m].acc = u[m])
           K == {m \in Nat : m <= n => Good(m)}
<1>4. 0 \in K
  <2>1. Mem(0) = Zeros
    <3>1. 0 .. 0 - 1 = {}
      OBVIOUS
    <3> QED BY <3>1 DEF Zeros
  <2>2. l.carried => u[0] = loop.init
    BY <1>2, <1>3 DEF Carries
  <2> QED BY <1>1, <2>1, <2>2
<1>5. ASSUME NEW m \in K PROVE m + 1 \in K
  <2> SUFFICES ASSUME m + 1 <= n PROVE Good(m + 1)
    <3>1. m + 1 \in Nat
      OBVIOUS
    <3> HIDE DEF Good
    <3> QED BY <3>1
  <2>1. m \in 0 .. n - 1 /\ m \in 0 .. n /\ m + 1 \in 1 .. n /\ m + 1 \in 0 + 1 .. n /\ (m + 1) - 1 = m /\ m <= n
    BY <1>2
  <2>2. Good(m)
    <3> HIDE DEF Good
    <3> QED BY <2>1
  <2> DEFINE e == w[m]  r == w[m + 1]
  <2>3. e \in States /\ r = Iterate(l.body, m, e)
    BY <1>1, <2>1
  <2>4. Puts(l) = {} => e.mem = Zeros
    BY <2>2 DEF Zeros
  <2>5. /\ r.mem = IF Puts(l) = {} THEN e.mem ELSE [e.mem EXCEPT ![m] = StoredIn(l, m)]
        /\ l.carried => r.acc = Apply(Reduced(l), e.acc, Gained(l, m))
    <3> HIDE DEF e, r
    <3> QED BY <2>1, <2>3, <2>4, IterateEffect
  <2>6. l.carried => u[m + 1] = Apply(Reduced(l), u[m], Gained(l, m))
    BY <1>3, <2>1 DEF Carries
  <2>7. r.mem = Mem(m + 1)
    <3>1. CASE Puts(l) = {}
      BY <2>2, <2>5, <3>1
    <3>2. CASE Puts(l) # {}
      <4>1. 0 .. (m + 1) - 1 = (0 .. m - 1) \cup {m}
        BY <2>1
      <4>2. e.mem = Mem(m)
        BY <2>2
      <4>3. [Mem(m) EXCEPT ![m] = StoredIn(l, m)] = Mem(m + 1)
        BY <3>2, <4>1
      <4> QED BY <2>5, <3>2, <4>2, <4>3
    <3> QED BY <3>1, <3>2
  <2> HIDE DEF Mem
  <2> QED BY <2>2, <2>5, <2>6, <2>7
<1>6. K = Nat
  <2>1. K \in SUBSET Nat
    OBVIOUS
  <2> HIDE DEF K
  <2> QED BY <1>4, <1>5, <2>1, AllNumbers
<1>7. Good(n)
  <2> HIDE DEF Good
  <2> QED BY <1>2, <1>6
<1> QED BY <1>1, <1>7 DEF u

-----------------------------------------------------------------------------
(***************************************************************************)
(* The ranges of the tasks.                                                *)
(***************************************************************************)
Begun == {"spawning", "joining", "ended", "unwound"}

\* There is at least one partition, and none is without iterations.
SplitOK ==
  /\ func \in Functions
  /\ trips \in Nat /\ parts \in Nat
  /\ pc \in Begun => parts >= 1 /\ parts <= trips

\* The ranges are those that the division gives, in order.
RangesOK ==
  /\ part \in Seq([lo : Nat, hi : Nat])
  /\ pc = "serial" => Len(part) = 0
  /\ pc \in {"joining", "ended"} => Len(part) = parts
  /\ Len(part) <= parts
  /\ \A k \in 1 .. Len(part) : part[k].lo = Lo(k - 1) /\ part[k].hi = Hi(k - 1)

IInv == SplitOK /\ RangesOK

-----------------------------------------------------------------------------
(* About numbers.                                                          *)
\* What the quotient bounds.
LEMMA DivBounds ==
  ASSUME NEW n \in Nat, NEW d \in Nat \ {0}
  PROVE  /\ n \div d \in Nat
         /\ (n \div d) * d <= n
         /\ n < (n \div d + 1) * d
PROOF OBVIOUS

\* Multiplication is monotone.
LEMMA MulMonotone ==
  ASSUME NEW a \in Nat, NEW b \in Nat, NEW c \in Nat, a <= b
  PROVE  a * c <= b * c
PROOF OBVIOUS

\* The number of partitions is at least one and at most the number of iterations.
LEMMA NumPartsBounded ==
  ASSUME NEW n \in Nat, n > 0, NEW max \in Nat \ {0}
  PROVE  NumParts(n, max) \in Nat /\ 1 <= NumParts(n, max) /\ NumParts(n, max) <= n
<1> DEFINE raw == n \div ChunkSize
<1>1. ChunkSize \in Nat \ {0}
  BY LoopAssumption
<1>2. raw \in Nat /\ raw * ChunkSize <= n
  BY <1>1, DivBounds
<1>3. raw <= raw * ChunkSize
  BY <1>1, <1>2
<1>4. raw <= n
  BY <1>1, <1>2, <1>3
<1> QED
  BY <1>2, <1>4 DEF NumParts
\* Where the ranges begin and end: they follow each other, from 0 to n.
LEMMA RangesMeet ==
  ASSUME SplitOK, pc \in Begun, NEW k \in 0 .. parts - 1
  PROVE  /\ Lo(k) \in Nat /\ Hi(k) \in Nat
         /\ Hi(k) <= trips
         /\ k + 1 < parts => Hi(k) = Lo(k + 1)
         /\ k + 1 = parts => Hi(k) = trips
<1> DEFINE size == trips \div parts
<1>1. parts \in Nat \ {0} /\ trips \in Nat
  BY DEF SplitOK
<1>2. size \in Nat /\ size * parts <= trips
  BY <1>1, DivBounds
<1>3. (k + 1) * size <= parts * size
  BY <1>1, <1>2, MulMonotone
<1>4. k * size \in Nat /\ (k + 1) * size \in Nat
  BY <1>1, <1>2
<1>5. parts * size <= trips
  BY <1>1, <1>2
<1> QED
  BY <1>1, <1>3, <1>4, <1>5 DEF Lo, Hi

\* Every iteration is in a range.
LEMMA RangesCover ==
  ASSUME SplitOK, pc \in Begun, NEW i \in 0 .. trips - 1
  PROVE  \E k \in 0 .. parts - 1 : Lo(k) <= i /\ i < Hi(k)
<1> DEFINE size == trips \div parts
<1>1. parts \in Nat \ {0} /\ trips \in Nat /\ parts <= trips /\ i \in Nat /\ i < trips
  BY DEF SplitOK
<1>2. size \in Nat /\ trips < (size + 1) * parts
  BY <1>1, DivBounds
<1>3. size # 0
  BY <1>1, <1>2
<1> DEFINE q == i \div size
<1>4. q \in Nat /\ q * size <= i /\ i < (q + 1) * size
  BY <1>1, <1>2, <1>3, DivBounds
<1>5. CASE q < parts
  <2>1. q \in 0 .. parts - 1
    BY <1>1, <1>4, <1>5
  <2>2. Lo(q) <= i /\ i < Hi(q)
    BY <1>1, <1>4 DEF Lo, Hi
  <2> QED
    BY <2>1, <2>2
<1>6. CASE q >= parts
  <2>1. parts - 1 \in 0 .. parts - 1 /\ parts - 1 <= q
    BY <1>1, <1>4, <1>6
  <2>2. (parts - 1) * size <= q * size
    BY <1>1, <1>2, <1>4, <2>1, MulMonotone
  <2>3. Lo(parts - 1) <= i
    BY <1>1, <1>2, <1>4, <2>2 DEF Lo
  <2>4. Hi(parts - 1) = trips
    BY <1>1 DEF Hi
  <2> QED
    BY <1>1, <2>1, <2>3, <2>4
<1> QED
  BY <1>1, <1>4, <1>5, <1>6

\* No iteration is in two ranges.
LEMMA RangesDisjoint ==
  ASSUME SplitOK, pc \in Begun,
         NEW j \in 0 .. parts - 1, NEW k \in 0 .. parts - 1, j < k
  PROVE  Hi(j) <= Lo(k)
<1> DEFINE size == trips \div parts
<1>1. parts \in Nat \ {0} /\ trips \in Nat
  BY DEF SplitOK
<1>2. size \in Nat
  BY <1>1, DivBounds
<1>3. (j + 1) * size <= k * size
  BY <1>1, <1>2, MulMonotone
<1>4. Hi(j) = (j + 1) * size
  BY <1>1 DEF Hi
<1> QED
  BY <1>3, <1>4 DEF Lo

-----------------------------------------------------------------------------
\* Nothing is partitioned at the start.
LEMMA InitInv == LoopInit => IInv
BY DEF LoopInit, IInv, SplitOK, RangesOK, Begun

\* The partition of a loop makes at least one part and none that is empty.
LEMMA PartitionKeepsInv ==
  ASSUME IInv, Partition
  PROVE  IInv'
<1>1. CASE pc' = "kept" /\ UNCHANGED <<loop, trips, parts>>
  BY <1>1 DEF Partition, IInv, SplitOK, RangesOK, Begun, Lo, Hi
<1>2. ASSUME NEW j \in Taken(func),
             trips' = BodyTrips(func.loops[j]),
             parts' = NumParts(BodyTrips(func.loops[j]), Limit(func)),
             pc' = "spawning"
      PROVE  IInv'
  <2> DEFINE n == BodyTrips(func.loops[j])
  <2>1. func \in Functions /\ j \in DOMAIN func.loops /\ n > 0 /\ HeaderTrips(func.loops[j]) > 0
    BY DEF Taken, Outlined, IInv, SplitOK
  <2>2. func.loops[j].runs \in Nat
    BY <2>1, LoopAssumption DEF WellFormed
  <2>3. HeaderTrips(func.loops[j]) \in Nat
    BY <2>2 DEF HeaderTrips
  <2>4. n \in Nat
    BY <2>1, <2>3 DEF BodyTrips
  <2>5. Limit(func) \in Nat \ {0}
    BY LoopAssumption DEF Limit
  <2>6. parts' \in Nat /\ 1 <= parts' /\ parts' <= trips'
    BY <1>2, <2>1, <2>4, <2>5, NumPartsBounded
  <2>7. SplitOK'
    BY <1>2, <2>1, <2>4, <2>6 DEF Partition, SplitOK
  <2>8. part' = part /\ part \in Seq([lo : Nat, hi : Nat]) /\ Len(part) = 0
    BY DEF Partition, IInv, RangesOK
  <2>9. RangesOK'
    BY <1>2, <2>6, <2>8 DEF RangesOK
  <2> QED
    BY <2>7, <2>9 DEF IInv
<1> QED
  BY <1>1, <1>2 DEF Partition

\* The range of the next task follows the last one.
LEMMA SpawnKeepsInv ==
  ASSUME IInv, Spawn
  PROVE  IInv'
<1> DEFINE k == Len(part)
<1>1. part \in Seq([lo : Nat, hi : Nat]) /\ k \in 0 .. parts - 1 /\ pc = "spawning" /\ SplitOK
  BY DEF IInv, RangesOK, SplitOK, Spawn
<1>2. [lo |-> Lo(k), hi |-> Hi(k)] \in [lo : Nat, hi : Nat]
  BY <1>1, RangesMeet DEF Begun
<1>3. part' = Append(part, [lo |-> Lo(k), hi |-> Hi(k)])
  BY DEF Spawn
<1>4. /\ part' \in Seq([lo : Nat, hi : Nat]) /\ Len(part') = k + 1
      /\ part'[k + 1] = [lo |-> Lo(k), hi |-> Hi(k)]
      /\ \A i \in 1 .. k : part'[i] = part[i]
  BY <1>1, <1>2, <1>3
<1>5. UNCHANGED <<func, pc, trips, parts>>
  BY DEF Spawn
<1>6. SplitOK'
  BY <1>1, <1>5 DEF SplitOK
<1>7. \A i \in 1 .. Len(part') : part'[i].lo = Lo(i - 1) /\ part'[i].hi = Hi(i - 1)
  <2> TAKE i \in 1 .. Len(part')
  <2>1. CASE i \in 1 .. k
    BY <1>4, <2>1 DEF IInv, RangesOK
  <2>2. CASE i = k + 1
    BY <1>1, <1>4, <2>2
  <2> QED
    BY <1>1, <1>4, <2>1, <2>2
<1>8. RangesOK'
  BY <1>1, <1>4, <1>5, <1>7 DEF RangesOK, SplitOK, Lo, Hi
<1> QED
  BY <1>6, <1>8 DEF IInv

\* The steps that touch neither the ranges nor their number.
LEMMA OtherStepsKeepInv ==
  ASSUME IInv,
         \/ Join \/ Awaited \/ (\E k \in DOMAIN part : Work(k)) \/ Over
         \/ UNCHANGED loopVars
  PROVE  IInv'
<1>1. UNCHANGED <<func, trips, parts, part>>
  BY DEF Join, Awaited, Work, Over, loopVars
<1>2. CASE Join
  BY <1>1, <1>2 DEF Join, IInv, SplitOK, RangesOK, Begun, Lo, Hi
<1>3. CASE Awaited
  BY <1>1, <1>3 DEF Awaited, IInv, SplitOK, RangesOK, Begun, Lo, Hi
<1>4. CASE UNCHANGED pc
  BY <1>1, <1>4 DEF IInv, SplitOK, RangesOK, Begun, Lo, Hi
<1> QED
  BY <1>2, <1>3, <1>4 DEF Work, Over, loopVars

\* The ranges cover the iterations once.
LEMMA InvCovers == IInv => IterationsCovered
<1> SUFFICES ASSUME IInv, pc \in {"joining", "ended"}, NEW i \in 0 .. trips - 1
             PROVE  \E k \in DOMAIN part : Owns(k, i) /\ \A j \in DOMAIN part : Owns(j, i) => j = k
  BY DEF IterationsCovered
<1>1. SplitOK /\ RangesOK /\ pc \in Begun
  BY DEF IInv, Begun
<1>2. parts \in Nat /\ trips \in Nat /\ DOMAIN part = 1 .. parts
  BY <1>1 DEF SplitOK, RangesOK
<1>3. \A k \in 1 .. parts : part[k].lo = Lo(k - 1) /\ part[k].hi = Hi(k - 1)
  BY <1>1, <1>2 DEF RangesOK
<1>4. \A k \in 0 .. parts - 1 : Lo(k) \in Nat /\ Hi(k) \in Nat
  BY <1>1, RangesMeet
<1>5. PICK q \in 0 .. parts - 1 : Lo(q) <= i /\ i < Hi(q)
  BY <1>1, RangesCover
<1>6. Owns(q + 1, i) /\ q + 1 \in DOMAIN part
  BY <1>2, <1>3, <1>5 DEF Owns
<1>7. ASSUME NEW j \in DOMAIN part, Owns(j, i)
      PROVE  j = q + 1
  <2>1. j - 1 \in 0 .. parts - 1 /\ Lo(j - 1) <= i /\ i < Hi(j - 1)
    BY <1>2, <1>3, <1>7 DEF Owns
  <2>2. CASE j - 1 < q
    <3>1. Hi(j - 1) <= Lo(q)
      BY <1>1, <2>1, <2>2, RangesDisjoint
    <3> QED
      BY <1>4, <1>5, <2>1, <3>1
  <2>3. CASE q < j - 1
    <3>1. Hi(q) <= Lo(j - 1)
      BY <1>1, <2>1, <2>3, RangesDisjoint
    <3> QED
      BY <1>4, <1>5, <2>1, <3>1
  <2> QED
    BY <1>2, <2>1, <2>2, <2>3
<1> QED
  BY <1>6, <1>7

\* Whatever the loop, the chunk size and the limit, every iteration is given to
\* exactly one task (partitionLoop: part_size = N / num_parts, the last one up to N).
THEOREM IterationsPartitioned == LoopSpec => []IterationsCovered
<1>1. LoopInit => IInv
  BY InitInv
<1>2. IInv /\ [LoopNext]_loopVars => IInv'
  BY PartitionKeepsInv, SpawnKeepsInv, OtherStepsKeepInv DEF LoopNext
<1> QED
  BY <1>1, <1>2, InvCovers, PTL DEF LoopSpec

-----------------------------------------------------------------------------
(***************************************************************************)
(* The work of the tasks.  A worker has gone through the iterations from   *)
(* its first one up to where it is; the cells of these hold what the       *)
(* iterations store, and its partial result is the reduction over them.    *)
(***************************************************************************)
KnownOK ==
  /\ pc \in {"serial", "kept"} \cup Begun
  /\ pc = "kept" => Len(part) = 0
  /\ pc \in Begun => Fit(loop) /\ trips = loop.runs

\* Worker w of range p.
WorkedBy(l, p, w) ==
  /\ p.lo <= w.at /\ w.at <= p.hi
  /\ w.threw => w.at = l.throws /\ w.at < p.hi
  /\ ~ (p.lo <= l.throws /\ l.throws < w.at)
  /\ Plain(l) /\ l.carried => w.acc = Carried(l, Identity(l), p.lo)[w.at]
Worked(k) == WorkedBy(loop, part[k], worker[k])

\* The iterations that were run.
Iterated == {i \in 0 .. trips - 1 : \E k \in 1 .. Len(part) : part[k].lo <= i /\ i < worker[k].at}

Stored ==
  Plain(loop) =>
    mem = [c \in Cells |-> IF Puts(loop) # {} /\ c \in Iterated THEN StoredIn(loop, c) ELSE 0]

WorkersOK ==
  /\ worker \in Seq(WorkerStates) /\ Len(worker) = Len(part) /\ mem \in [Cells -> Nat]
  /\ pc = "serial" => mem = Zeros
  /\ pc \in Begun => Stored /\ \A k \in 1 .. Len(part) : Worked(k)

EndOK ==
  /\ pc = "ended" =>
       /\ \A k \in 1 .. Len(part) : worker[k].at = part[k].hi /\ ~ worker[k].threw
       /\ result = [i |-> trips, acc |-> IF loop.carried THEN Combined(loop, worker) ELSE 0]
  /\ pc = "unwound" => \E k \in 1 .. Len(part) : worker[k].threw

WorkInv == KnownOK /\ WorkersOK /\ EndOK

\* No range is empty.
LEMMA RangesLast ==
  ASSUME SplitOK, pc \in Begun, NEW k \in 0 .. parts - 1
  PROVE  Lo(k) \in Nat /\ Hi(k) \in Nat /\ Lo(k) < Hi(k) /\ Hi(k) <= trips
<1> DEFINE size == trips \div parts
<1>1. parts \in Nat \ {0} /\ trips \in Nat /\ parts <= trips
  BY DEF SplitOK
<1>2. Lo(k) \in Nat /\ Hi(k) \in Nat /\ Hi(k) <= trips
  BY RangesMeet
<1>3. size \in Nat /\ size * parts <= trips /\ trips < (size + 1) * parts
  BY <1>1, DivBounds
<1>4. size >= 1
  <2>1. size # 0
    BY <1>1, <1>3
  <2> QED BY <1>3, <2>1
<1>5. (k + 1) * size <= parts * size /\ k * size + 1 <= (k + 1) * size
  <2>1. k + 1 <= parts /\ k + 1 \in Nat /\ k \in Nat
    BY <1>1
  <2>2. (k + 1) * size <= parts * size
    BY <1>1, <1>3, <2>1, MulMonotone
  <2> HIDE DEF size
  <2>3. (k + 1) * size = k * size + size /\ k * size \in Nat
    BY <1>3, <2>1
  <2> QED BY <1>3, <1>4, <2>2, <2>3
<1>6. Lo(k) < Hi(k)
  <2>1. Lo(k) = k * size
    BY DEF Lo
  <2>2. Hi(k) = trips \/ Hi(k) = (k + 1) * size
    BY DEF Hi
  <2>3. parts * size <= trips /\ parts * size \in Nat /\ (k + 1) * size \in Nat
    BY <1>1, <1>3
  <2> HIDE DEF size
  <2> QED BY <1>1, <1>2, <1>5, <2>1, <2>2, <2>3
<1> QED BY <1>2, <1>6

\* What a range in an argument structure is.
LEMMA PartFacts ==
  ASSUME IInv, pc \in Begun, NEW k \in 1 .. Len(part)
  PROVE  /\ k - 1 \in 0 .. parts - 1 /\ part[k].lo = Lo(k - 1) /\ part[k].hi = Hi(k - 1)
         /\ part[k].lo \in Nat /\ part[k].hi \in Nat /\ part[k].lo < part[k].hi /\ part[k].hi <= trips
<1>1. /\ Len(part) \in Nat /\ Len(part) <= parts /\ parts \in Nat /\ SplitOK
      /\ part[k].lo = Lo(k - 1) /\ part[k].hi = Hi(k - 1)
  BY DEF IInv, RangesOK, SplitOK
<1>2. k - 1 \in 0 .. parts - 1
  BY <1>1
<1> QED BY <1>1, <1>2, RangesLast

\* Nothing is worked at the start.
LEMMA WorkInit == LoopInit => WorkInv
<1> SUFFICES ASSUME LoopInit PROVE WorkInv
  OBVIOUS
<1>1. pc \notin Begun /\ pc # "ended" /\ pc # "unwound"
  BY DEF LoopInit, Begun
<1>2. worker \in Seq(WorkerStates) /\ Len(worker) = Len(part) /\ mem \in [Cells -> Nat] /\ mem = Zeros
  BY DEF LoopInit, Zeros
<1>3. KnownOK
  BY DEF KnownOK, LoopInit, Begun
<1> QED BY <1>1, <1>2, <1>3 DEF WorkInv, WorkersOK, EndOK

\* A loop that is taken is fit, and its trip count is how often it runs.
LEMMA PartitionWorks ==
  ASSUME IInv, WorkInv, Partition
  PROVE  WorkInv'
<1>1. pc = "serial" /\ UNCHANGED <<mem, part, worker, result>>
  BY DEF Partition
<1>2. part = << >> /\ Len(part) = 0 /\ mem = Zeros /\ worker \in Seq(WorkerStates)
      /\ Len(worker) = Len(part) /\ mem \in [Cells -> Nat]
  BY <1>1 DEF IInv, RangesOK, WorkInv, WorkersOK
<1>3. CASE pc' = "kept"
  BY <1>1, <1>2, <1>3 DEF WorkInv, KnownOK, WorkersOK, EndOK, Begun
<1>4. ASSUME NEW j \in Taken(func), loop' = func.loops[j], trips' = BodyTrips(func.loops[j]), pc' = "spawning"
      PROVE  WorkInv'
  <2> DEFINE l == func.loops[j]
  <2>1. j \in DOMAIN func.loops /\ Candidate(func, l) /\ Outlined(l)
    BY DEF Taken
  <2>2. WellFormed(l)
    BY <2>1, LoopAssumption DEF IInv, SplitOK
  <2>3. Fit(l)
    BY <2>1, <2>2 DEF Fit, Candidate
  <2>4. BodyTrips(l) = l.runs
    <3>1. l.known /\ l.runs \in Nat
      BY <2>1, <2>2 DEF Outlined, HeaderTrips, WellFormed
    <3> HIDE DEF l
    <3> QED BY <3>1 DEF BodyTrips, HeaderTrips
  <2>5. KnownOK'
    BY <1>4, <2>3, <2>4 DEF KnownOK, Begun
  <2>6. Iterated' = {}
    BY <1>1, <1>2 DEF Iterated
  <2>7. Stored'
    BY <1>1, <1>2, <2>6 DEF Stored, Zeros
  <2>8. WorkersOK'
    BY <1>1, <1>2, <1>4, <2>7 DEF WorkersOK
  <2> QED BY <1>4, <2>5, <2>8 DEF WorkInv, EndOK
<1> QED BY <1>3, <1>4 DEF Partition

\* A task starts at its first iteration, from the identity.
LEMMA SpawnWorks ==
  ASSUME IInv, WorkInv, Spawn
  PROVE  WorkInv'
<1>0. PICK n \in Nat : n = Len(part)
  BY DEF IInv, RangesOK
<1> DEFINE new == [at |-> Lo(n), acc |-> Start, threw |-> FALSE]
<1>1. /\ pc = "spawning" /\ worker' = Append(worker, new)
      /\ part' = Append(part, [lo |-> Lo(n), hi |-> Hi(n)])
      /\ UNCHANGED <<func, loop, trips, parts, pc, mem, result>>
  BY <1>0 DEF Spawn
<1>2. /\ worker \in Seq(WorkerStates) /\ Len(worker) = n /\ mem \in [Cells -> Nat]
      /\ Stored /\ \A k \in 1 .. n : Worked(k)
  BY <1>0, <1>1 DEF WorkInv, WorkersOK, Begun
<1>3. part \in Seq([lo : Nat, hi : Nat]) /\ n \in Nat /\ n < parts
  BY <1>0 DEF IInv, RangesOK, Spawn
<1>4. n \in 0 .. parts - 1 /\ SplitOK /\ pc \in Begun
  BY <1>1, <1>3 DEF IInv, SplitOK, Begun
<1>5. Lo(n) \in Nat /\ Hi(n) \in Nat
  BY <1>4, RangesMeet
<1>6. Fit(loop) /\ trips = loop.runs
  BY <1>4 DEF WorkInv, KnownOK
<1>7. Start \in Nat
  BY DEF Start, Identity
<1>8. new \in WorkerStates
  BY <1>5, <1>7 DEF WorkerStates
<1> HIDE DEF new
<1>9. /\ worker' \in Seq(WorkerStates) /\ Len(worker') = n + 1 /\ worker'[n + 1] = new
      /\ \A k \in 1 .. n : worker'[k] = worker[k]
  BY <1>1, <1>2, <1>8
<1>10. /\ Len(part') = n + 1 /\ part'[n + 1] = [lo |-> Lo(n), hi |-> Hi(n)]
       /\ \A k \in 1 .. n : part'[k] = part[k]
  BY <1>0, <1>1, <1>3, <1>5
<1>11. pc' \in Begun /\ n + 1 \in 1 .. Len(part')
  BY <1>1, <1>3, <1>10 DEF Begun
<1>12. part'[n + 1].lo < part'[n + 1].hi /\ part'[n + 1].hi <= trips
  BY <1>4, <1>10, RangesLast
<1> DEFINE p == [lo |-> Lo(n), hi |-> Hi(n)]
<1>13. WorkedBy(loop, p, new)
  <2>1. p.lo = Lo(n) /\ p.hi = Hi(n) /\ new.at = Lo(n) /\ new.threw = FALSE /\ new.acc = Start
    BY DEF new
  <2>2. loop.throws \in Nat /\ loop.runs \in Nat
    BY <1>6 DEF Fit, WellFormed
  <2>3. ASSUME Plain(loop), loop.carried
        PROVE  Start = Carried(loop, Identity(loop), Lo(n))[Lo(n)]
    <3>1. Lo(n) \in 0 .. loop.runs /\ Lo(n) \in 0 .. Lo(n)
      BY <1>5, <1>6, <1>10, <1>12, <2>2
    <3>2. Carries(loop, Identity(loop), Lo(n), Carried(loop, Identity(loop), Lo(n)))
      BY <1>6, <2>3, <3>1, CarriedFacts DEF Identity
    <3> QED BY <2>3, <3>1, <3>2 DEF Carries, Start
  <2>4. Lo(n) < Hi(n)
    BY <1>10, <1>12
  <2> HIDE DEF p
  <2> QED BY <1>5, <2>1, <2>2, <2>3, <2>4 DEF WorkedBy
<1>14. ASSUME NEW k \in 1 .. n PROVE WorkedBy(loop', part'[k], worker'[k])
  BY <1>1, <1>2, <1>9, <1>10 DEF Worked
<1>15. \A k \in 1 .. Len(part') : Worked(k)'
  <2>1. \A k \in 1 .. Len(part') : k \in 1 .. n \/ k = n + 1
    BY <1>3, <1>10
  <2>2. \A k \in 1 .. Len(part') : WorkedBy(loop', part'[k], worker'[k])
    BY <1>1, <1>9, <1>10, <1>13, <1>14, <2>1
  <2> QED BY <2>2 DEF Worked
<1>16. Iterated' = Iterated
  <2>1. ASSUME NEW i \in Nat
        PROVE  (\E k \in 1 .. n + 1 : part'[k].lo <= i /\ i < worker'[k].at)
                 <=> \E k \in 1 .. n : part[k].lo <= i /\ i < worker[k].at
    <3>1. \A k \in 1 .. n + 1 : k \in 1 .. n \/ k = n + 1
      BY <1>3
    <3>2. \A k \in 1 .. n : k \in 1 .. n + 1
      BY <1>3
    <3>3. ~ (part'[n + 1].lo <= i /\ i < worker'[n + 1].at)
      BY <1>5, <1>9, <1>10 DEF new
    <3> QED BY <1>9, <1>10, <3>1, <3>2, <3>3
  <2>2. trips \in Nat
    BY <1>4 DEF SplitOK
  <2>3. \A i \in 0 .. trips - 1 : i \in Nat
    BY <2>2
  <2>4. Iterated' = {i \in 0 .. trips - 1 : \E k \in 1 .. n + 1 : part'[k].lo <= i /\ i < worker'[k].at}
    BY <1>1, <1>10 DEF Iterated
  <2>5. Iterated = {i \in 0 .. trips - 1 : \E k \in 1 .. n : part[k].lo <= i /\ i < worker[k].at}
    BY <1>0 DEF Iterated
  <2> QED BY <2>1, <2>3, <2>4, <2>5
<1>17. Stored'
  BY <1>1, <1>2, <1>16 DEF Stored
<1>18. KnownOK' /\ EndOK'
  BY <1>1, <1>6 DEF KnownOK, EndOK, Begun
<1> QED BY <1>1, <1>2, <1>9, <1>10, <1>15, <1>17, <1>18 DEF WorkInv, WorkersOK

\* The joiner begins to wait.
LEMMA JoinWorks ==
  ASSUME WorkInv, Join
  PROVE  WorkInv'
<1>1. UNCHANGED <<loop, trips, parts, mem, part, worker>> /\ pc = "spawning" /\ pc' = "joining"
  BY DEF Join
<1>2. Stored' /\ \A k \in 1 .. Len(part) : Worked(k)'
  BY <1>1 DEF WorkInv, WorkersOK, Stored, Iterated, Worked, Begun
<1> QED BY <1>1, <1>2 DEF WorkInv, KnownOK, WorkersOK, EndOK, Begun

\* All tasks are over; the partial results are combined, or an exception is passed on.
LEMMA AwaitedWorks ==
  ASSUME IInv, WorkInv, Awaited
  PROVE  WorkInv'
<1>1. /\ UNCHANGED <<loop, trips, parts, mem, part, worker>> /\ pc = "joining" /\ pc' \in {"ended", "unwound"}
      /\ \A k \in DOMAIN part : PartOver(k)
  BY DEF Awaited
<1>2. DOMAIN part = 1 .. Len(part)
  BY DEF IInv, RangesOK
<1>3. Stored' /\ \A k \in 1 .. Len(part) : Worked(k)'
  BY <1>1 DEF WorkInv, WorkersOK, Stored, Iterated, Worked, Begun
<1>4. EndOK'
  <2>1. ASSUME pc' = "unwound" PROVE \E k \in 1 .. Len(part) : worker[k].threw
    BY <1>2, <2>1 DEF Awaited
  <2>2. ASSUME pc' = "ended"
        PROVE  /\ \A k \in 1 .. Len(part) : worker[k].at = part[k].hi /\ ~ worker[k].threw
               /\ result' = [i |-> trips, acc |-> IF loop.carried THEN Combined(loop, worker) ELSE 0]
    <3>1. /\ \A k \in DOMAIN part : ~ worker[k].threw
          /\ result' = [i |-> trips, acc |-> IF loop.carried THEN Combined(loop, worker) ELSE 0]
      BY <2>2 DEF Awaited
    <3>2. ASSUME NEW k \in 1 .. Len(part) PROVE worker[k].at = part[k].hi /\ ~ worker[k].threw
      <4>1. worker[k].at >= part[k].hi /\ ~ worker[k].threw
        BY <1>1, <1>2, <3>1 DEF PartOver
      <4>2. worker[k].at <= part[k].hi
        BY <1>1 DEF WorkInv, WorkersOK, Worked, WorkedBy, Begun
      <4>3. worker[k].at \in Nat /\ part[k].hi \in Nat
        <5>1. worker[k] \in WorkerStates
          BY DEF WorkInv, WorkersOK
        <5>2. pc \in Begun
          BY <1>1 DEF Begun
        <5> QED BY <5>1, <5>2, PartFacts DEF WorkerStates
      <4> QED BY <4>1, <4>2, <4>3
    <3> QED BY <3>1, <3>2
  <2>3. Combined(loop', worker') = Combined(loop, worker)
    BY <1>1
  <2> QED BY <1>1, <2>1, <2>2, <2>3 DEF EndOK
<1> QED BY <1>1, <1>3, <1>4 DEF WorkInv, KnownOK, WorkersOK, Begun

\* A worker runs its next iteration, or that iteration throws.
LEMMA WorkWorks ==
  ASSUME IInv, WorkInv, NEW k \in DOMAIN part, Work(k)
  PROVE  WorkInv'
<1> DEFINE w == worker[k]  i == w.at  e == [mem |-> mem, acc |-> w.acc]  r == Iterate(loop.body, i, e)
<1>1. /\ k \in 1 .. Len(part) /\ Len(part) \in Nat /\ ~ PartOver(k)
      /\ UNCHANGED <<func, loop, trips, parts, pc, part, result>>
  BY DEF IInv, RangesOK, Work
<1>2. pc \in Begun
  <2>1. pc \in {"serial", "kept"} \/ pc \in Begun
    BY DEF WorkInv, KnownOK
  <2>2. pc \in {"serial", "kept"} => Len(part) = 0
    BY DEF IInv, RangesOK, WorkInv, KnownOK
  <2> QED BY <1>1, <2>1, <2>2
<1>3. Fit(loop) /\ trips = loop.runs /\ loop.runs \in Nat /\ loop.throws \in Nat
  BY <1>2 DEF WorkInv, KnownOK, Fit, WellFormed
<1>4. /\ worker \in Seq(WorkerStates) /\ Len(worker) = Len(part) /\ mem \in [Cells -> Nat]
      /\ Stored /\ \A m \in 1 .. Len(part) : Worked(m)
  BY <1>2 DEF WorkInv, WorkersOK
<1>5. /\ w \in WorkerStates /\ w.at \in Nat /\ w.acc \in Nat /\ w.threw \in BOOLEAN
      /\ w = [at |-> w.at, acc |-> w.acc, threw |-> w.threw]
  <2>1. w \in WorkerStates
    BY <1>1, <1>4
  <2> QED BY <2>1 DEF WorkerStates
<1>6. part[k].lo \in Nat /\ part[k].hi \in Nat /\ part[k].hi <= trips
  BY <1>1, <1>2, PartFacts
<1>7. ~ w.threw /\ i < part[k].hi /\ part[k].lo <= i /\ i \in 0 .. loop.runs - 1
  <2>1. ~ w.threw /\ ~ (w.at >= part[k].hi) /\ part[k].lo <= w.at
    BY <1>1, <1>4 DEF PartOver, Worked, WorkedBy
  <2> HIDE DEF w
  <2> QED BY <1>3, <1>5, <1>6, <2>1
<1>8. pc # "serial"
  BY <1>2 DEF Begun
<1>9. EndOK'
  <2>1. pc # "ended"
    <3>1. pc = "ended" => w.at = part[k].hi
      BY <1>1 DEF WorkInv, EndOK
    <3> QED BY <1>6, <1>7, <3>1
  <2>2. ASSUME pc = "unwound" PROVE \E m \in 1 .. Len(part) : worker'[m].threw
    <3>1. PICK m \in 1 .. Len(part) : worker[m].threw
      BY <2>2 DEF WorkInv, EndOK
    <3>2. m # k
      BY <1>7, <3>1
    <3>3. worker'[m] = worker[m]
      BY <1>4, <3>2 DEF Work
    <3> QED BY <3>1, <3>3
  <2> QED BY <1>1, <2>1, <2>2 DEF EndOK
<1>10. ASSUME i = loop.throws, worker' = [worker EXCEPT ![k].threw = TRUE], UNCHANGED mem
       PROVE  WorkInv'
  <2> DEFINE x == [w EXCEPT !.threw = TRUE]
  <2>1. worker' = [worker EXCEPT ![k] = x]
    BY <1>10
  <2>3. x \in WorkerStates /\ x.at = w.at /\ x.acc = w.acc /\ x.threw = TRUE
    <3> HIDE DEF w
    <3> QED BY <1>5 DEF WorkerStates
  <2> HIDE DEF x
  <2>2. /\ worker' \in Seq(WorkerStates) /\ Len(worker') = Len(part) /\ worker'[k] = x
        /\ \A m \in 1 .. Len(part) : m # k => worker'[m] = worker[m]
    BY <1>1, <1>4, <2>1, <2>3
  <2>4. \A m \in 1 .. Len(part) : worker'[m].at = worker[m].at /\ worker'[m].acc = worker[m].acc
    BY <2>2, <2>3
  <2>5. Stored'
    BY <1>1, <1>4, <1>10, <2>4 DEF Stored, Iterated
  <2>6. ASSUME NEW m \in 1 .. Len(part) PROVE WorkedBy(loop', part'[m], worker'[m])
    <3>1. CASE m = k
      <4>1. WorkedBy(loop, part[k], w)
        BY <1>1, <1>4 DEF Worked
      <4>2. w.at = loop.throws /\ w.at < part[k].hi
        BY <1>7, <1>10
      <4>3. WorkedBy(loop, part[k], x)
        <5> HIDE DEF w
        <5> QED BY <2>3, <4>1, <4>2 DEF WorkedBy
      <4> QED BY <1>1, <2>2, <3>1, <4>3
    <3>2. CASE m # k
      BY <1>1, <1>4, <2>2, <3>2 DEF Worked
    <3> QED BY <3>1, <3>2
  <2>7. \A m \in 1 .. Len(part') : Worked(m)'
    BY <1>1, <2>6 DEF Worked
  <2>8. KnownOK'
    BY <1>1, <1>2, <1>3 DEF WorkInv, KnownOK
  <2> QED BY <1>1, <1>4, <1>8, <1>9, <1>10, <2>2, <2>5, <2>7, <2>8 DEF WorkInv, WorkersOK
<1>11. ASSUME i # loop.throws, worker' = [worker EXCEPT ![k].at = i + 1, ![k].acc = r.acc], mem' = r.mem
       PROVE  WorkInv'
  <2> DEFINE x == [w EXCEPT !.at = i + 1, !.acc = r.acc]
  <2>1. e \in States /\ e.mem = mem /\ e.acc = w.acc
    BY <1>4, <1>5 DEF States
  <2>2. r \in States
    <3>1. PICK u : Goes(loop.body, i, e, u) /\ r = u[Len(loop.body)]
      <4> HIDE DEF e, i
      <4> QED BY <1>3, <1>7, <2>1, IterateGoes
    <3>2. Len(loop.body) \in Nat
      BY <1>3 DEF Fit, WellFormed
    <3> HIDE DEF r, e
    <3> QED BY <3>1, <3>2 DEF Goes
  <2>3. r.mem \in [Cells -> Nat] /\ r.acc \in Nat
    <3> HIDE DEF r
    <3> QED BY <2>2 DEF States
  <2>4. x \in WorkerStates /\ x.at = i + 1 /\ x.acc = r.acc /\ x.threw = w.threw
    <3>1. i + 1 \in Nat
      BY <1>5
    <3> HIDE DEF r, w, i
    <3> QED BY <1>5, <2>3, <3>1 DEF WorkerStates
  <2>5. worker' = [worker EXCEPT ![k] = x]
    BY <1>11
  <2> HIDE DEF x
  <2>6. /\ worker' \in Seq(WorkerStates) /\ Len(worker') = Len(part) /\ worker'[k] = x
        /\ \A m \in 1 .. Len(part) : m # k => worker'[m] = worker[m]
    BY <1>1, <1>4, <2>4, <2>5
  <2>7. i \in Nat /\ i \in 0 .. trips - 1
    BY <1>3, <1>5, <1>7
  <2>8. ASSUME Plain(loop)
        PROVE  /\ r.mem = IF Puts(loop) = {} THEN mem ELSE [mem EXCEPT ![i] = StoredIn(loop, i)]
               /\ loop.carried => r.acc = Apply(Reduced(loop), w.acc, Gained(loop, i))
    <3>1. Puts(loop) = {} => mem = Zeros
      BY <1>4, <2>8 DEF Stored, Zeros
    <3> HIDE DEF e, i
    <3> QED BY <1>3, <1>7, <2>1, <2>8, <3>1, IterateEffect
  <2>9. Iterated' = Iterated \cup {i}
    <3>1. ASSUME NEW j \in 0 .. trips - 1
          PROVE  (\E m \in 1 .. Len(part) : part[m].lo <= j /\ j < worker'[m].at)
                   <=> (j = i \/ \E m \in 1 .. Len(part) : part[m].lo <= j /\ j < worker[m].at)
      <4>1. part[k].lo <= j /\ j < worker'[k].at <=> (j = i \/ (part[k].lo <= j /\ j < worker[k].at))
        <5>1. worker'[k].at = i + 1 /\ worker[k].at = i /\ part[k].lo <= i /\ j \in Nat
          BY <1>7, <2>4, <2>6, <1>3
        <5> HIDE DEF i
        <5> QED BY <1>6, <2>7, <5>1
      <4> HIDE DEF i
      <4> QED BY <1>1, <2>6, <4>1
    <3>2. Iterated' = {j \in 0 .. trips - 1 : \E m \in 1 .. Len(part) : part[m].lo <= j /\ j < worker'[m].at}
      BY <1>1 DEF Iterated
    <3>3. Iterated = {j \in 0 .. trips - 1 : \E m \in 1 .. Len(part) : part[m].lo <= j /\ j < worker[m].at}
      BY DEF Iterated
    <3> HIDE DEF i
    <3> QED BY <2>7, <3>1, <3>2, <3>3
  <2>10. Stored'
    <3> SUFFICES ASSUME Plain(loop)
                 PROVE  mem' = [c \in Cells |-> IF Puts(loop) # {} /\ c \in Iterated' THEN StoredIn(loop, c) ELSE 0]
      BY <1>1 DEF Stored
    <3>1. mem = [c \in Cells |-> IF Puts(loop) # {} /\ c \in Iterated THEN StoredIn(loop, c) ELSE 0]
      BY <1>4 DEF Stored
    <3>2. mem' = IF Puts(loop) = {} THEN mem ELSE [mem EXCEPT ![i] = StoredIn(loop, i)]
      BY <1>11, <2>8
    <3> HIDE DEF i
    <3> QED BY <2>9, <3>1, <3>2
  <2>11. WorkedBy(loop, part[k], w)
    BY <1>1, <1>4 DEF Worked
  <2>12. WorkedBy(loop, part[k], x)
    <3>1. ASSUME Plain(loop), loop.carried
          PROVE  x.acc = Carried(loop, Identity(loop), part[k].lo)[x.at]
      <4> DEFINE lo == part[k].lo  u == Carried(loop, Identity(loop), part[k].lo)
      <4>1. lo \in 0 .. loop.runs /\ Identity(loop) \in Nat
        <5>1. part[k].lo <= i /\ i \in 0 .. loop.runs - 1
          BY <1>7
        <5> HIDE DEF i
        <5> QED BY <1>3, <1>6, <5>1 DEF Identity
      <4>2. Carries(loop, Identity(loop), lo, u)
        BY <1>3, <3>1, <4>1, CarriedFacts
      <4>3. w.acc = u[i]
        BY <2>11, <3>1 DEF WorkedBy
      <4>4. i + 1 \in lo + 1 .. loop.runs /\ (i + 1) - 1 = i
        <5>1. part[k].lo <= i /\ i \in 0 .. loop.runs - 1
          BY <1>7
        <5> HIDE DEF i
        <5> QED BY <1>3, <1>6, <5>1
      <4>5. r.acc = Apply(Reduced(loop), w.acc, Gained(loop, i))
        BY <2>8, <3>1
      <4> HIDE DEF u, lo, r, w, i
      <4>6. u[i + 1] = Apply(Reduced(loop), u[i], Gained(loop, i))
        BY <4>2, <4>4 DEF Carries
      <4> QED BY <2>4, <4>3, <4>5, <4>6 DEF u
    <3>2. /\ part[k].lo <= x.at /\ x.at <= part[k].hi
          /\ ~ (part[k].lo <= loop.throws /\ loop.throws < x.at)
      <4>1. ~ (part[k].lo <= loop.throws /\ loop.throws < i)
        BY <2>11 DEF WorkedBy
      <4>2. part[k].lo <= i /\ i < part[k].hi
        BY <1>7
      <4> HIDE DEF i
      <4> QED BY <1>3, <1>6, <1>11, <2>4, <2>7, <4>1, <4>2
    <3>3. x.threw = FALSE
      BY <1>5, <1>7, <2>4
    <3> QED BY <3>1, <3>2, <3>3 DEF WorkedBy
  <2>13. ASSUME NEW m \in 1 .. Len(part) PROVE WorkedBy(loop', part'[m], worker'[m])
    <3>1. CASE m = k
      BY <1>1, <2>6, <2>12, <3>1
    <3>2. CASE m # k
      BY <1>1, <1>4, <2>6, <3>2 DEF Worked
    <3> QED BY <3>1, <3>2
  <2>14. \A m \in 1 .. Len(part') : Worked(m)'
    BY <1>1, <2>13 DEF Worked
  <2>15. KnownOK'
    BY <1>1, <1>2, <1>3 DEF WorkInv, KnownOK
  <2>16. mem' \in [Cells -> Nat]
    BY <1>11, <2>3
  <2> QED BY <1>1, <1>8, <1>9, <2>6, <2>10, <2>14, <2>15, <2>16 DEF WorkInv, WorkersOK
<1> QED BY <1>10, <1>11 DEF Work

\* Every step keeps what is known of the work of the tasks.
LEMMA NextWorks == IInv /\ WorkInv /\ [LoopNext]_loopVars => WorkInv'
<1> SUFFICES ASSUME IInv, WorkInv, [LoopNext]_loopVars PROVE WorkInv'
  OBVIOUS
<1>1. CASE UNCHANGED loopVars
  <2>1. /\ UNCHANGED <<func, loop, trips, parts, pc, mem, part, worker, result>>
        /\ Combined(loop', worker') = Combined(loop, worker)
    BY <1>1 DEF loopVars
  <2>2. Iterated' = Iterated
    BY <2>1 DEF Iterated
  <2>3. KnownOK' /\ EndOK'
    BY <2>1 DEF WorkInv, KnownOK, EndOK
  <2>4. Stored' <=> Stored
    BY <2>1, <2>2 DEF Stored
  <2>5. (\A k \in 1 .. Len(part) : Worked(k))' <=> \A k \in 1 .. Len(part) : Worked(k)
    BY <2>1 DEF Worked
  <2>6. WorkersOK'
    BY <2>1, <2>4, <2>5 DEF WorkInv, WorkersOK
  <2> QED BY <2>3, <2>6 DEF WorkInv
<1>2. CASE Over
  <2>1. UNCHANGED loopVars
    BY <1>2 DEF Over
  <2> QED BY <1>1, <2>1
<1> QED BY <1>1, <1>2, PartitionWorks, SpawnWorks, JoinWorks, AwaitedWorks, WorkWorks DEF LoopNext

\* When all workers are through, each has the reduction over its range.
LEMMA EndFacts ==
  ASSUME IInv, WorkInv, pc = "ended"
  PROVE  /\ Fit(loop) /\ trips = loop.runs /\ parts >= 1 /\ parts \in Nat /\ Len(part) = parts
         /\ worker \in Seq(WorkerStates) /\ Len(worker) = parts
         /\ SplitOK /\ pc \in Begun
         /\ \A k \in 1 .. parts : worker[k].at = Hi(k - 1) /\ part[k].lo = Lo(k - 1) /\ WorkedBy(loop, part[k], worker[k])
<1>1. SplitOK /\ pc \in Begun /\ RangesOK
  BY DEF IInv, Begun
<1>2. parts >= 1 /\ parts \in Nat /\ Len(part) = parts
  BY <1>1 DEF SplitOK, RangesOK
<1>3. \A k \in 1 .. parts : part[k].lo = Lo(k - 1) /\ part[k].hi = Hi(k - 1)
  BY <1>1, <1>2 DEF RangesOK
<1>4. \A k \in 1 .. parts : worker[k].at = part[k].hi
  BY <1>2 DEF WorkInv, EndOK
<1>5. \A k \in 1 .. parts : WorkedBy(loop, part[k], worker[k])
  BY <1>1, <1>2 DEF WorkInv, WorkersOK, Worked
<1>6. Fit(loop) /\ trips = loop.runs /\ worker \in Seq(WorkerStates) /\ Len(worker) = parts
  BY <1>1, <1>2 DEF WorkInv, KnownOK, WorkersOK
<1> QED BY <1>1, <1>2, <1>3, <1>4, <1>5, <1>6

\* No iteration of a range that was run to its end throws.
LEMMA EndedNormally ==
  ASSUME IInv, WorkInv, pc = "ended"
  PROVE  ~ SerialThrows
<1> SUFFICES ASSUME loop.throws < loop.runs PROVE FALSE
  BY DEF SerialThrows
<1>1. loop.throws \in Nat /\ loop.runs \in Nat /\ trips = loop.runs
  BY EndFacts DEF Fit, WellFormed
<1>2. loop.throws \in 0 .. trips - 1
  BY <1>1
<1>3. PICK q \in 0 .. parts - 1 : Lo(q) <= loop.throws /\ loop.throws < Hi(q)
  BY <1>2, EndFacts, RangesCover
<1>4. q + 1 \in 1 .. parts /\ (q + 1) - 1 = q
  BY EndFacts
<1>5. worker[q + 1].at = Hi(q) /\ part[q + 1].lo = Lo(q) /\ WorkedBy(loop, part[q + 1], worker[q + 1])
  BY <1>4, EndFacts
<1> QED BY <1>3, <1>5 DEF WorkedBy

\* At the end every iteration was run.
LEMMA AllIterated ==
  ASSUME IInv, WorkInv, pc = "ended"
  PROVE  Iterated = 0 .. trips - 1
<1>1. ASSUME NEW i \in 0 .. trips - 1
      PROVE  \E k \in 1 .. Len(part) : part[k].lo <= i /\ i < worker[k].at
  <2>1. PICK q \in 0 .. parts - 1 : Lo(q) <= i /\ i < Hi(q)
    BY EndFacts, RangesCover
  <2>2. q + 1 \in 1 .. Len(part) /\ (q + 1) - 1 = q /\ q + 1 \in 1 .. parts
    BY EndFacts
  <2>3. worker[q + 1].at = Hi(q) /\ part[q + 1].lo = Lo(q)
    BY <2>2, EndFacts
  <2> QED BY <2>1, <2>2, <2>3
<1> QED BY <1>1 DEF Iterated

\* The partial results, combined, are the reduction over all iterations.
LEMMA CombinedIs ==
  ASSUME IInv, WorkInv, pc = "ended", Plain(loop), loop.carried
  PROVE  Combined(loop, worker) = Carried(loop, loop.init, 0)[loop.runs]
<1> DEFINE n == parts  by == Reduced(loop)  z == Identity(loop)  u == Carried(loop, Identity(loop), 0)
           l == loop
<1>1. /\ Fit(l) /\ trips = l.runs /\ n \in Nat /\ n >= 1 /\ Len(worker) = n /\ worker \in Seq(WorkerStates)
      /\ by \in Reductions /\ z \in Nat /\ l.runs \in Nat /\ l.init \in Nat /\ 0 \in 0 .. l.runs
  BY EndFacts, OneFold DEF Identity, Fit, WellFormed
<1>2. PICK w : /\ w[0] = z
               /\ \A j \in 1 .. n : w[j] = Apply(by, w[j - 1], worker[j].acc)
               /\ Combined(l, worker) = Apply(by, l.init, w[n])
  BY <1>1, CombineGoes
<1>3. Carries(l, z, 0, u)
  BY <1>1, CarriedFacts
<1> DEFINE K == {j \in Nat : j + 1 <= n => w[j + 1] = u[Hi(j)]}
<1>4. ASSUME NEW j \in 0 .. n - 1
      PROVE  /\ worker[j + 1].acc = Carried(l, z, Lo(j))[Hi(j)]
             /\ Lo(j) \in 0 .. l.runs /\ Hi(j) \in Lo(j) + 1 .. l.runs
             /\ u[Hi(j)] = Apply(by, u[Lo(j)], Carried(l, z, Lo(j))[Hi(j)])
  <2>1. j + 1 \in 1 .. parts /\ (j + 1) - 1 = j
    BY <1>1
  <2>2. worker[j + 1].at = Hi(j) /\ part[j + 1].lo = Lo(j) /\ WorkedBy(loop, part[j + 1], worker[j + 1])
    BY <2>1, EndFacts
  <2>3. worker[j + 1].acc = Carried(l, z, Lo(j))[Hi(j)]
    BY <2>2 DEF WorkedBy
  <2>4. Lo(j) \in Nat /\ Hi(j) \in Nat /\ Lo(j) < Hi(j) /\ Hi(j) <= trips
    BY EndFacts, RangesLast
  <2>5. Lo(j) \in 0 .. l.runs /\ Hi(j) \in Lo(j) + 1 .. l.runs
    BY <1>1, <2>4
  <2> QED BY <1>1, <2>3, <2>5, CarriedMeets
<1>5. 0 \in K
  <2>1. 0 \in 0 .. n - 1 /\ 0 + 1 = 1 /\ 1 \in 1 .. n /\ 1 - 1 = 0
    BY <1>1
  <2>2. Lo(0) = 0
    <3>1. trips \in Nat /\ parts \in Nat \ {0}
      BY <1>1
    <3>2. trips \div parts \in Nat
      BY <3>1, DivBounds
    <3> QED BY <3>2 DEF Lo
  <2>3. u[0] = z
    BY <1>1, <1>3 DEF Carries
  <2>4. w[1] = Apply(by, z, worker[1].acc)
    BY <1>2, <2>1
  <2> HIDE DEF u, by, z
  <2> QED BY <1>4, <2>1, <2>2, <2>3, <2>4
<1>6. ASSUME NEW j \in K PROVE j + 1 \in K
  <2> SUFFICES ASSUME (j + 1) + 1 <= n PROVE w[(j + 1) + 1] = u[Hi(j + 1)]
    OBVIOUS
  <2>1. /\ j + 1 \in 0 .. n - 1 /\ (j + 1) + 1 \in 1 .. n /\ ((j + 1) + 1) - 1 = j + 1 /\ j + 1 <= n
        /\ j \in 0 .. parts - 1 /\ j + 1 < parts
    BY <1>1
  <2>2. w[j + 1] = u[Hi(j)]
    BY <2>1
  <2>3. Hi(j) = Lo(j + 1)
    BY <2>1, EndFacts, RangesMeet
  <2>4. w[(j + 1) + 1] = Apply(by, w[j + 1], worker[(j + 1) + 1].acc)
    BY <1>2, <2>1
  <2> HIDE DEF u, by, z
  <2> QED BY <1>4, <2>1, <2>2, <2>3, <2>4
<1>7. K = Nat
  <2>1. K \in SUBSET Nat
    OBVIOUS
  <2> HIDE DEF K
  <2> QED BY <1>5, <1>6, <2>1, AllNumbers
<1>8. w[n] = u[l.runs]
  <2>1. n - 1 \in Nat /\ n - 1 \in 0 .. parts - 1 /\ (n - 1) + 1 = parts /\ (n - 1) + 1 = n
    BY <1>1
  <2>2. Hi(n - 1) = trips
    BY <2>1, EndFacts, RangesMeet
  <2> HIDE DEF u
  <2> QED BY <1>1, <1>7, <2>1, <2>2
<1>9. Combined(l, worker) = Apply(by, l.init, u[l.runs])
  BY <1>2, <1>8
<1>10. l.runs \in 0 + 1 .. l.runs
  <2>1. parts <= trips
    BY EndFacts DEF SplitOK
  <2> QED BY <1>1, <2>1
<1>11. Carried(l, l.init, 0)[l.runs] = Apply(by, Carried(l, l.init, 0)[0], u[l.runs])
  BY <1>1, <1>10, CarriedMeets
<1>12. Carried(l, l.init, 0)[0] = l.init
  <2>1. Carries(l, l.init, 0, Carried(l, l.init, 0))
    BY <1>1, CarriedFacts
  <2> QED BY <1>1, <2>1 DEF Carries
<1> QED BY <1>9, <1>11, <1>12

\* The partitioned loop does what the serial one does.
LEMMA WorkIsSerial == IInv /\ WorkInv => LoopIsSerial
<1> SUFFICES ASSUME IInv, WorkInv PROVE LoopIsSerial
  OBVIOUS
<1>1. ASSUME pc = "ended" PROVE ~ SerialThrows /\ (loop.shape = "top" => result.i = loop.runs)
  <2>1. result.i = trips /\ trips = loop.runs
    BY <1>1, EndFacts DEF WorkInv, EndOK
  <2> QED BY <1>1, <2>1, EndedNormally
<1>2. ASSUME pc = "ended", Plain(loop) PROVE mem = Serial.mem
  <2>1. pc \in Begun /\ Fit(loop) /\ trips = loop.runs
    BY <1>2, EndFacts
  <2>2. mem = [c \in Cells |-> IF Puts(loop) # {} /\ c \in Iterated THEN StoredIn(loop, c) ELSE 0]
    BY <1>2, <2>1 DEF WorkInv, WorkersOK, Stored
  <2>3. Iterated = 0 .. loop.runs - 1
    BY <1>2, <2>1, AllIterated
  <2> QED BY <1>2, <2>1, <2>2, <2>3, SerialIs
<1>3. ASSUME pc = "ended", Plain(loop), loop.carried PROVE result.acc = Serial.acc
  <2>1. result.acc = Combined(loop, worker)
    BY <1>3 DEF WorkInv, EndOK
  <2>2. Fit(loop)
    BY <1>3, EndFacts
  <2> QED BY <1>3, <2>1, <2>2, CombinedIs, SerialIs
<1>4. ASSUME pc = "unwound" PROVE SerialThrows
  <2>1. PICK k \in 1 .. Len(part) : worker[k].threw
    BY <1>4 DEF WorkInv, EndOK
  <2>2. pc \in Begun
    BY <1>4 DEF Begun
  <2>3. WorkedBy(loop, part[k], worker[k])
    BY <2>2 DEF WorkInv, WorkersOK, Worked
  <2>4. loop.throws < part[k].hi /\ part[k].hi <= trips /\ part[k].hi \in Nat
    BY <2>1, <2>2, <2>3, PartFacts DEF WorkedBy
  <2>5. trips = loop.runs /\ loop.throws \in Nat /\ loop.runs \in Nat
    BY <2>2 DEF WorkInv, KnownOK, Fit, WellFormed
  <2> QED BY <2>4, <2>5 DEF SerialThrows
<1> QED BY <1>1, <1>2, <1>3, <1>4 DEF LoopIsSerial

\* In whatever order the tasks run, a loop that is partitioned stores, carries and
\* throws what it does serially (partitionLoop: "Serial combine: fold every
\* partition's partial into one value per reduction, then apply the original loop
\* init exactly once"): for every legal loop, modulus, chunk size and limit.
THEOREM PartitionedLoopIsSerial == LoopSpec => []LoopIsSerial
<1>1. LoopInit => IInv /\ WorkInv
  BY InitInv, WorkInit
<1>2. IInv /\ WorkInv /\ [LoopNext]_loopVars => (IInv /\ WorkInv)'
  BY NextWorks, PartitionKeepsInv, SpawnKeepsInv, OtherStepsKeepInv DEF LoopNext
<1> QED BY <1>1, <1>2, WorkIsSerial, PTL DEF LoopSpec

-----------------------------------------------------------------------------
(***************************************************************************)
(* The handle of a task.                                                   *)
(***************************************************************************)
\* The holder of the mutex is where its thread says it is.
MutexHeld(t) ==
  /\ mtx[t] = "runner" <=> runner[t] \in {"locked", "notifying"}
  /\ mtx[t] = "owner"  <=> owner[t] \in {"parklocked", "woken", "barriered", "detlocked"}

\* `done` is stored late in the runner, and an owner past the barrier knows
\* that the runner has left the task for good.
DoneMeansRan(t) ==
  /\ done[t] <=> runner[t] \in {"notifying", "freeing", "gone"}
  /\ owner[t] = "barrier" => done[t]
  /\ owner[t] \in {"barriered", "deleting", "detdeleting", "returned", "threw"} => runner[t] = "gone"

\* Ownership moves to the runner exactly when the detacher said so.
DetachDecided(t) ==
  /\ detached[t] => owner[t] = "detached"
  /\ runner[t] = "freeing" => detached[t]
  /\ owner[t] = "detached" /\ ~detached[t] => runner[t] = "gone"

\* The number of deletes is determined by where the two threads are.
FreesCounted(t) ==
  frees[t] = IF \/ owner[t] \in {"returned", "threw"}
                \/ owner[t] = "detached" /\ (detached[t] => runner[t] = "gone")
             THEN 1 ELSE 0

\* The exception travels from the body to the task to the awaiter.
ExceptionMoved(t) ==
  /\ ~done[t] => ~exception[t]
  /\ done[t] /\ owner[t] \notin {"barriered", "deleting", "returned", "threw"}
       => exception[t] = pending[t]
  /\ owner[t] \in {"barriered", "deleting"} => captured[t] = pending[t]
  /\ owner[t] = "returned" => ~pending[t]
  /\ owner[t] = "threw" => pending[t]

TaskInv(t) ==
  MutexHeld(t) /\ DoneMeansRan(t) /\ DetachDecided(t) /\ FreesCounted(t) /\ ExceptionMoved(t)

HandleInv == TypeOK /\ \A t \in Tasks : TaskInv(t)

-----------------------------------------------------------------------------
USE DEF RunnerLocs, OwnerLocs, Settled

(* The type invariant holds of every reachable state. *)
THEOREM TypeCorrect == Spec => []TypeOK
<1>1. Init => TypeOK
  BY DEF Init, TypeOK
<1>2. TypeOK /\ [Next]_vars => TypeOK'
  <2> SUFFICES ASSUME TypeOK, [Next]_vars
               PROVE  TypeOK'
    OBVIOUS
  <2>1. ASSUME NEW t \in Tasks, RunnerStep(t)
        PROVE  TypeOK'
    <3> USE DEF TypeOK, RunnerAt, Lock, Unlock, Delete
    <3>1. CASE StartBody(t) \/ EndBody(t) \/ RunnerLock(t)
      BY <3>1 DEF StartBody, EndBody, RunnerLock
    <3>2. CASE StoreDone(t)
      BY <3>2 DEF StoreDone
    <3>3. CASE RunnerUnlock(t)
      BY <3>3 DEF RunnerUnlock
    <3>4. CASE RunnerDelete(t)
      BY <3>4 DEF RunnerDelete
    <3>5. QED
      BY <2>1, <3>1, <3>2, <3>3, <3>4 DEF RunnerStep
  <2>2. ASSUME NEW t \in Tasks, OwnerStep(t)
        PROVE  TypeOK'
    <3> USE DEF TypeOK, OwnerAt, Lock, Unlock, Delete
    <3>1. CASE BeginAwait(t) \/ Poll(t) \/ BeginDetach(t)
      BY <3>1 DEF BeginAwait, Poll, BeginDetach
    <3>2. CASE ParkLock(t) \/ ParkWait(t) \/ Wake(t) \/ Unpark(t)
      BY <3>2 DEF ParkLock, ParkWait, Wake, Unpark
    <3>3. CASE BarrierLock(t)
      BY <3>3 DEF BarrierLock
    <3>4. CASE BarrierUnlock(t)
      BY <3>4 DEF BarrierUnlock
    <3>5. CASE AwaitDelete(t)
      BY <3>5 DEF AwaitDelete
    <3>6. CASE DetachLock(t)
      BY <3>6 DEF DetachLock
    <3>7. CASE DetachUnlock(t)
      BY <3>7 DEF DetachUnlock
    <3>8. CASE DetachDelete(t)
      BY <3>8 DEF DetachDelete
    <3>9. QED
      BY <2>2, <3>1, <3>2, <3>3, <3>4, <3>5, <3>6, <3>7, <3>8 DEF OwnerStep
  <2>3. CASE UNCHANGED vars
    BY <2>3 DEF TypeOK, vars
  <2>4. QED
    BY <2>1, <2>2, <2>3 DEF Next, Finished
<1>3. QED
  BY <1>1, <1>2, PTL DEF Spec

-----------------------------------------------------------------------------
(***************************************************************************)
(* A step of task t changes the entries of t only.                         *)
(***************************************************************************)
Frame(t) ==
  \A u \in Tasks \ {t} :
    /\ runner'[u] = runner[u]       /\ owner'[u] = owner[u]
    /\ mtx'[u] = mtx[u]             /\ done'[u] = done[u]
    /\ detached'[u] = detached[u]   /\ exception'[u] = exception[u]
    /\ pending'[u] = pending[u]     /\ captured'[u] = captured[u]
    /\ frees'[u] = frees[u]

LEMMA RunnerFrame ==
  ASSUME NEW t \in Tasks, TypeOK, RunnerStep(t)
  PROVE  Frame(t)
BY DEF TypeOK, Frame, RunnerStep, StartBody, EndBody, RunnerLock, StoreDone, RunnerUnlock,
       RunnerDelete, RunnerAt, Lock, Unlock, Delete

LEMMA OwnerFrame ==
  ASSUME NEW t \in Tasks, TypeOK, OwnerStep(t)
  PROVE  Frame(t)
<1> USE DEF TypeOK, Frame, OwnerAt, Lock, Unlock, Delete
<1>1. CASE BeginAwait(t) \/ Poll(t) \/ BeginDetach(t)
  BY <1>1 DEF BeginAwait, Poll, BeginDetach
<1>2. CASE ParkLock(t) \/ ParkWait(t) \/ Wake(t) \/ Unpark(t)
  BY <1>2 DEF ParkLock, ParkWait, Wake, Unpark
<1>3. CASE BarrierLock(t) \/ BarrierUnlock(t) \/ AwaitDelete(t)
  BY <1>3 DEF BarrierLock, BarrierUnlock, AwaitDelete
<1>4. CASE DetachLock(t) \/ DetachUnlock(t) \/ DetachDelete(t)
  BY <1>4 DEF DetachLock, DetachUnlock, DetachDelete
<1>5. QED
  BY <1>1, <1>2, <1>3, <1>4 DEF OwnerStep

(* What holds of a task that did not move still holds of it. *)
LEMMA OtherTasksKeepInv ==
  ASSUME NEW t \in Tasks, NEW u \in Tasks \ {t}, Frame(t), TaskInv(u)
  PROVE  TaskInv(u)'
BY DEF Frame, TaskInv, MutexHeld, DoneMeansRan, DetachDecided, FreesCounted, ExceptionMoved

-----------------------------------------------------------------------------
LEMMA RunnerKeepsInv ==
  ASSUME NEW t \in Tasks, TypeOK, TaskInv(t), RunnerStep(t)
  PROVE  TaskInv(t)'
<1> USE DEF TypeOK, RunnerAt, Lock, Unlock, Delete,
            TaskInv, MutexHeld, DoneMeansRan, DetachDecided, FreesCounted, ExceptionMoved
<1>1. CASE StartBody(t)
  BY <1>1 DEF StartBody
<1>2. CASE EndBody(t)
  BY <1>2 DEF EndBody
<1>3. CASE RunnerLock(t)
  BY <1>3 DEF RunnerLock
<1>4. CASE StoreDone(t)
  BY <1>4 DEF StoreDone
<1>5. CASE RunnerUnlock(t)
  BY <1>5 DEF RunnerUnlock
<1>6. CASE RunnerDelete(t)
  BY <1>6 DEF RunnerDelete
<1>7. QED
  BY <1>1, <1>2, <1>3, <1>4, <1>5, <1>6 DEF RunnerStep

LEMMA OwnerKeepsInv ==
  ASSUME NEW t \in Tasks, TypeOK, TaskInv(t), OwnerStep(t)
  PROVE  TaskInv(t)'
<1> USE DEF TypeOK, OwnerAt, Lock, Unlock, Delete,
            TaskInv, MutexHeld, DoneMeansRan, DetachDecided, FreesCounted, ExceptionMoved
<1>1. CASE BeginAwait(t) \/ BeginDetach(t)
  BY <1>1 DEF BeginAwait, BeginDetach
<1>2. CASE Poll(t)
  BY <1>2 DEF Poll
<1>3. CASE ParkLock(t) \/ ParkWait(t)
  BY <1>3 DEF ParkLock, ParkWait
<1>4. CASE Wake(t) \/ Unpark(t)
  BY <1>4 DEF Wake, Unpark
<1>5. CASE BarrierLock(t)
  BY <1>5 DEF BarrierLock
<1>6. CASE BarrierUnlock(t)
  BY <1>6 DEF BarrierUnlock
<1>7. CASE AwaitDelete(t)
  BY <1>7 DEF AwaitDelete
<1>8. CASE DetachLock(t)
  BY <1>8 DEF DetachLock
<1>9. CASE DetachUnlock(t)
  BY <1>9 DEF DetachUnlock
<1>10. CASE DetachDelete(t)
  BY <1>10 DEF DetachDelete
<1>11. QED
  BY <1>1, <1>2, <1>3, <1>4, <1>5, <1>6, <1>7, <1>8, <1>9, <1>10 DEF OwnerStep

(* The strengthened invariant is inductive. *)
THEOREM Inductive == Spec => []HandleInv
<1>1. Init => HandleInv
  BY DEF Init, HandleInv, TypeOK, TaskInv, MutexHeld, DoneMeansRan, DetachDecided, FreesCounted,
         ExceptionMoved
<1>2. HandleInv /\ TypeOK' /\ [Next]_vars => HandleInv'
  <2> SUFFICES ASSUME HandleInv, TypeOK', [Next]_vars, NEW u \in Tasks
               PROVE  TaskInv(u)'
    BY DEF HandleInv
  <2>1. ASSUME NEW t \in Tasks, RunnerStep(t)
        PROVE  TaskInv(u)'
    BY <2>1, RunnerKeepsInv, RunnerFrame, OtherTasksKeepInv DEF HandleInv
  <2>2. ASSUME NEW t \in Tasks, OwnerStep(t)
        PROVE  TaskInv(u)'
    BY <2>2, OwnerKeepsInv, OwnerFrame, OtherTasksKeepInv DEF HandleInv
  <2>3. CASE UNCHANGED vars
    BY <2>3 DEF HandleInv, vars, TaskInv, MutexHeld, DoneMeansRan, DetachDecided, FreesCounted,
                ExceptionMoved
  <2>4. QED
    BY <2>1, <2>2, <2>3 DEF Next, Finished
<1>3. QED
  BY <1>1, <1>2, TypeCorrect, PTL DEF Spec

-----------------------------------------------------------------------------
(* No thread touches a task after its delete: TaskHandle!NoUseAfterFree.   *)
THEOREM FreedMemoryUntouched == Spec => []NoUseAfterFree
<1>1. HandleInv => NoUseAfterFree
  BY DEF HandleInv, TaskInv, FreesCounted, DoneMeansRan, DetachDecided, NoUseAfterFree
<1>2. QED
  BY <1>1, Inductive, PTL

(* Runner and owner between them delete a task exactly once. *)
THEOREM FreedExactlyOnce == Spec => []ExactlyOneFree
<1>1. HandleInv => ExactlyOneFree
  <2> SUFFICES ASSUME NEW t \in Tasks, FreesCounted(t)
               PROVE  /\ frees[t] <= 1
                      /\ runner[t] = "gone" /\ owner[t] \in Settled => frees[t] = 1
    BY DEF HandleInv, TaskInv, ExactlyOneFree
  <2>1. QED
    BY DEF FreesCounted
<1>2. QED
  BY <1>1, Inductive, PTL

(* The awaiter throws if and only if the body threw. *)
THEOREM ExceptionReachesAwaiter == Spec => []ExceptionSurfaces
<1>1. HandleInv => ExceptionSurfaces
  BY DEF HandleInv, TaskInv, ExceptionMoved, ExceptionSurfaces
<1>2. QED
  BY <1>1, Inductive, PTL

=============================================================================
