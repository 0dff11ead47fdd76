----------------------------- MODULE StageProofs -----------------------------
(***************************************************************************)
(* Proofs about StageFlow, for every pipeline that is well formed: the     *)
(* tasks of a pipeline end before its frame does (FrameOutlivesTasks),     *)
(* operands and edges order its stages (OperandsDominate, EdgesOrder), and *)
(* the parallel body does what the serial one does (ParallelIsSerial).     *)
(*                                                                         *)
(* First the sequences that the passes build, then what a body keeps while *)
(* it is generated and made parallel, then what its call keeps; then what  *)
(* a body means, where its instructions are in the parallel one, and how   *)
(* the two calls go along with each other.                                 *)
(***************************************************************************)
EXTENDS StageFlow, FoldLemmas, SequenceTheorems

-----------------------------------------------------------------------------
(***************************************************************************)
(* Sequences.                                                              *)
(***************************************************************************)
\* r has the members of S among the first n of s: those at the places h.
Picks(s, S, n, r, h) ==
  /\ h \in [1 .. Len(r) -> 1 .. n]
  /\ \A k \in 1 .. Len(r) : r[k] = s[h[k]] /\ r[k] \in S
  /\ \A k, l \in 1 .. Len(r) : k < l => h[k] < h[l]
  /\ \A i \in 1 .. n : s[i] \in S => \E k \in 1 .. Len(r) : h[k] = i

\* Nothing is picked of nothing.
LEMMA PickNone == ASSUME NEW s, NEW S PROVE \E h : Picks(s, S, 0, << >>, h)
<1>1. Len(<< >>) = 0 /\ 1 .. 0 = {}
  OBVIOUS
<1>2. Picks(s, S, 0, << >>, [k \in 1 .. 0 |-> k])
  BY <1>1 DEF Picks
<1> QED BY <1>2

\* The next one is picked too, or it is not in S.
LEMMA PickNext ==
  ASSUME NEW X, NEW s \in Seq(X), NEW S, NEW n \in 1 .. Len(s), NEW r \in Seq(X),
         \E h : Picks(s, S, n - 1, r, h)
  PROVE  \E h : Picks(s, S, n, IF s[n] \in S THEN Append(r, s[n]) ELSE r, h)
<1>1. PICK h : Picks(s, S, n - 1, r, h)
  OBVIOUS
<1> DEFINE q == Append(r, s[n])  m == Len(r)
           g == [k \in 1 .. m + 1 |-> IF k = m + 1 THEN n ELSE h[k]]
<1>2. n \in Nat /\ n - 1 \in Nat /\ m \in Nat /\ s[n] \in X
  OBVIOUS
<1>3. CASE s[n] \in S
  <2>1. q \in Seq(X) /\ Len(q) = m + 1 /\ q[m + 1] = s[n] /\ \A k \in 1 .. m : q[k] = r[k]
    BY <1>2, AppendProperties
  <2>2. \A k \in 1 .. m : h[k] \in 1 .. n - 1 /\ g[k] = h[k]
    <3>1. h \in [1 .. m -> 1 .. n - 1]
      BY <1>1 DEF Picks
    <3>2. \A k \in 1 .. m : k \in 1 .. m + 1 /\ k # m + 1
      BY <1>2
    <3> HIDE DEF m
    <3>3. \A k \in 1 .. m : g[k] = h[k]
      BY <3>2
    <3> QED BY <3>1, <3>3
  <2>3. g[m + 1] = n
    BY <1>2
  <2> HIDE DEF q
  <2>4. g \in [1 .. Len(q) -> 1 .. n]
    <3>1. ASSUME NEW k \in 1 .. m + 1 PROVE g[k] \in 1 .. n
      <4>1. CASE k \in 1 .. m
        <5>1. h[k] \in 1 .. n - 1 /\ g[k] = h[k]
          BY <2>2, <4>1
        <5>2. \A v \in 1 .. n - 1 : v \in 1 .. n
          BY <1>2
        <5> HIDE DEF g, m
        <5> QED BY <5>1, <5>2
      <4>2. CASE k = m + 1
        BY <1>2, <2>3, <4>2
      <4> QED BY <1>2, <4>1, <4>2
    <3>2. g = [k \in 1 .. m + 1 |-> g[k]]
      OBVIOUS
    <3> HIDE DEF g
    <3> QED BY <2>1, <3>1, <3>2
  <2> HIDE DEF g
  <2>5. ASSUME NEW k \in 1 .. Len(q) PROVE q[k] = s[g[k]] /\ q[k] \in S
    <3>1. \A i \in 1 .. m : r[i] = s[h[i]] /\ r[i] \in S
      BY <1>1 DEF Picks
    <3>2. k \in 1 .. m \/ k = m + 1
      BY <1>2, <2>1
    <3> HIDE DEF m
    <3>3. CASE k \in 1 .. m
      BY <2>1, <2>2, <3>1, <3>3
    <3>4. CASE k = m + 1
      BY <1>3, <2>1, <2>3, <3>4
    <3> QED BY <3>2, <3>3, <3>4
  <2>6. \A k, l \in 1 .. Len(q) : k < l => g[k] < g[l]
    <3> SUFFICES ASSUME NEW k \in 1 .. m + 1, NEW l \in 1 .. m + 1, k < l PROVE g[k] < g[l]
      BY <2>1
    <3>1. k \in 1 .. m
      BY <1>2
    <3>2. CASE l = m + 1
      <4>1. g[k] \in 1 .. n - 1 /\ g[l] = n
        BY <2>2, <2>3, <3>1, <3>2
      <4> HIDE DEF g, m
      <4> QED BY <1>2, <4>1
    <3>3. CASE l \in 1 .. m
      BY <1>1, <2>2, <3>1, <3>3 DEF Picks
    <3> QED BY <1>2, <3>2, <3>3
  <2>7. ASSUME NEW i \in 1 .. n, s[i] \in S PROVE \E k \in 1 .. Len(q) : g[k] = i
    <3>1. CASE i = n
      BY <1>2, <2>1, <2>3, <3>1
    <3>2. CASE i # n
      <4>1. PICK k \in 1 .. m : h[k] = i
        BY <1>1, <1>2, <2>7, <3>2 DEF Picks
      <4>2. k \in 1 .. Len(q)
        BY <1>2, <2>1, <4>1
      <4>3. g[k] = i
        BY <2>2, <4>1
      <4> QED BY <4>2, <4>3
    <3> QED BY <3>1, <3>2
  <2>8. Picks(s, S, n, q, g)
    BY <2>4, <2>5, <2>6, <2>7 DEF Picks
  <2> QED BY <1>3, <2>8 DEF q
<1>4. CASE s[n] \notin S
  <2>1. h \in [1 .. m -> 1 .. n]
    BY <1>1, <1>2 DEF Picks
  <2>2. \A i \in 1 .. n : s[i] \in S => i \in 1 .. n - 1
    BY <1>2, <1>4
  <2>3. Picks(s, S, n, r, h)
    BY <1>1, <2>1, <2>2 DEF Picks
  <2> QED BY <1>4, <2>3
<1> QED BY <1>3, <1>4

\* Only keeps the members of S, in their order.
LEMMA OnlyIs ==
  ASSUME NEW X, NEW s \in Seq(X), NEW S
  PROVE  Only(s, S) \in Seq(X) /\ \E h : Picks(s, S, Len(s), Only(s, S), h)
<1> DEFINE n == Len(s)
           F == [p \in Seq(X) \X (1 .. n) |-> IF s[p[2]] \in S THEN Append(p[1], s[p[2]]) ELSE p[1]]
           Runs(G) == G = [t \in SUBSET (DOMAIN s) |->
                             IF t = {} THEN << >>
                             ELSE IF s[Max(t)] \in S THEN Append(G[t \ {Max(t)}], s[Max(t)]) ELSE G[t \ {Max(t)}]]
           I == CHOOSE G : Runs(G)
<1>1. n \in Nat /\ DOMAIN s = 1 .. n /\ << >> \in Seq(X) /\ \A i \in 1 .. n : s[i] \in X
  OBVIOUS
<1>2. Only(s, S) = I[DOMAIN s]
  BY DEF Only, FoldLeft, MapThenFoldSet
<1>3. F \in [Seq(X) \X (1 .. n) -> Seq(X)]
  <2>1. ASSUME NEW p \in Seq(X) \X (1 .. n)
        PROVE  (IF s[p[2]] \in S THEN Append(p[1], s[p[2]]) ELSE p[1]) \in Seq(X)
    <3>1. p[1] \in Seq(X) /\ s[p[2]] \in X
      BY <1>1
    <3> QED BY <3>1, AppendProperties
  <2> HIDE DEF n
  <2> QED BY <2>1
<1>4. \A a \in Seq(X), j \in 1 .. n : F[<<a, j>>] = IF s[j] \in S THEN Append(a, s[j]) ELSE a
  <2> HIDE DEF n
  <2> QED OBVIOUS
<1> HIDE DEF F, n
<1>5. PICK H \in [SUBSET (1 .. n) -> Seq(X)] : Folding(n, << >>, F, H)
  BY <1>1, <1>3, FoldingExists
<1>6. Runs(H)
  <2>1. ASSUME NEW t \in SUBSET (1 .. n)
        PROVE  H[t] = IF t = {} THEN << >>
                      ELSE IF s[Max(t)] \in S THEN Append(H[t \ {Max(t)}], s[Max(t)]) ELSE H[t \ {Max(t)}]
    <3>1. CASE t # {}
      <4>1. Max(t) \in 1 .. n /\ t \ {Max(t)} \in SUBSET (1 .. n)
        BY <1>1, <3>1, GreatestIn
      <4>2. H[t \ {Max(t)}] \in Seq(X)
        BY <4>1
      <4>3. H[t] = F[<<H[t \ {Max(t)}], Max(t)>>]
        BY <1>5, <3>1 DEF Folding
      <4> QED BY <1>4, <3>1, <4>1, <4>2, <4>3
    <3>2. CASE t = {}
      BY <1>5, <3>2 DEF Folding
    <3> QED BY <3>1, <3>2
  <2>2. H = [t \in SUBSET (1 .. n) |-> H[t]]
    OBVIOUS
  <2>3. H = [t \in SUBSET (1 .. n) |->
               IF t = {} THEN << >>
               ELSE IF s[Max(t)] \in S THEN Append(H[t \ {Max(t)}], s[Max(t)]) ELSE H[t \ {Max(t)}]]
    BY <2>1, <2>2
  <2> QED BY <1>1, <2>3
<1>7. Runs(I)
  <2> HIDE DEF Runs
  <2> QED BY <1>6
<1> HIDE DEF I, Runs
<1> DEFINE Then(a, j) == IF s[j] \in S THEN Append(a, s[j]) ELSE a
<1>8. I[{}] = << >> /\ \A j \in 1 .. n : I[1 .. j] = Then(I[1 .. (j - 1)], j)
  <2>1. {} \in SUBSET (1 .. n) /\ \A j \in 1 .. n : 1 .. j \in SUBSET (1 .. n)
    BY <1>1
  <2>2. \A j \in 1 .. n : 1 .. j # {} /\ Max(1 .. j) = j /\ (1 .. j) \ {Max(1 .. j)} = 1 .. (j - 1)
    BY <1>1, Shortened
  <2> QED BY <1>1, <1>7, <2>1, <2>2 DEF Runs
<1>9. PICK w : w \in [0 .. n -> Seq(X)] /\ Walk(n, << >>, F, w) /\ w[n] = I[1 .. n]
  <2>1. Stepping(n, Seq(X), << >>, F, I)
    BY <1>4, <1>8 DEF Stepping
  <2>2. \E w : Walks(n, Seq(X), << >>, F, w, I[1 .. n])
    BY <1>1, <1>3, <2>1, FoldIs
  <2> QED BY <2>2 DEF Walks
<1> DEFINE Good(j) == \E h : Picks(s, S, j, w[j], h)
           K == {j \in Nat : j <= n => Good(j)}
<1>10. 0 \in K
  <2>1. w[0] = << >>
    BY <1>9 DEF Walk
  <2>2. Good(0)
    BY <2>1, PickNone
  <2> QED BY <2>2
<1>11. ASSUME NEW j \in K PROVE j + 1 \in K
  <2>1. j \in Nat /\ (j + 1) - 1 = j
    OBVIOUS
  <2>2. ASSUME j + 1 <= n PROVE Good(j + 1)
    <3>1. j + 1 \in 1 .. n /\ j <= n /\ Good(j) /\ w[j] \in Seq(X)
      BY <1>1, <1>9, <2>1, <2>2
    <3>2. w[j + 1] = Then(w[j], j + 1)
      <4>1. w[j + 1] = F[<<w[(j + 1) - 1], j + 1>>]
        BY <1>9, <3>1 DEF Walk
      <4>2. w[j + 1] = F[<<w[j], j + 1>>]
        BY <2>1, <4>1
      <4> HIDE DEF F
      <4> QED BY <1>4, <3>1, <4>2
    <3>3. \E h : Picks(s, S, (j + 1) - 1, w[j], h)
      BY <2>1, <3>1
    <3>4. \A r \in Seq(X) : (\E h : Picks(s, S, (j + 1) - 1, r, h))
                             => \E h : Picks(s, S, j + 1, Then(r, j + 1), h)
      <4>1. j + 1 \in 1 .. Len(s)
        BY <3>1 DEF n
      <4> HIDE DEF Good
      <4> QED BY <4>1, PickNext
    <3> HIDE DEF Then
    <3> QED BY <3>1, <3>2, <3>3, <3>4
  <2> HIDE DEF Good
  <2> QED BY <2>1, <2>2
<1>12. K = Nat
  <2>1. K \in SUBSET Nat
    OBVIOUS
  <2> HIDE DEF K
  <2> QED BY <1>10, <1>11, <2>1, AllNumbers
<1>13. Good(n)
  <2>1. n \in K
    BY <1>1, <1>12
  <2> HIDE DEF Good
  <2> QED BY <2>1
<1>14. Only(s, S) = w[n]
  BY <1>1, <1>2, <1>9
<1>15. w[n] \in Seq(X)
  BY <1>1, <1>9
<1> QED BY <1>13, <1>14, <1>15 DEF n

-----------------------------------------------------------------------------
(***************************************************************************)
(* What the scaffold of a stage group puts where.                          *)
(***************************************************************************)
\* The instructions of a body, also of one that was made parallel.
Ops   == {"call", "compute", "extract", "alloca", "load", "ret", "spawn", "await", "fetch"}
Names == STRING \cup {"await", "field", "ret"}
Vals  == ({"param"} \X Nat) \cup ({"out", "slot", "task"} \X Names) \cup ({"field"} \X Names \X Names \X Nat) \cup {None}
AnyIns == [op : Ops, id : Names, node : Names, args : Seq(Vals), def : Vals]

\* The calls of T, in order, at the places h.
InOrderOf(b, T, cs, h) ==
  /\ cs \in Seq(AnyIns) /\ h \in [1 .. Len(cs) -> T]
  /\ \A k \in 1 .. Len(cs) : cs[k] = b[h[k]]
  /\ \A k, l \in 1 .. Len(cs) : k < l => h[k] < h[l]
  /\ \A i \in T : \E k \in 1 .. Len(cs) : h[k] = i

\* What is kept from place m on, at the places h.
KeptOf(b, T, m, ks, h) ==
  /\ ks \in Seq(AnyIns) /\ h \in [1 .. Len(ks) -> (m .. Len(b)) \ T]
  /\ \A k \in 1 .. Len(ks) : ks[k] = b[h[k]]
  /\ \A k, l \in 1 .. Len(ks) : k < l => h[k] < h[l]
  /\ \A i \in (m .. Len(b)) \ T : \E k \in 1 .. Len(ks) : h[k] = i

\* The targets of a group are the calls that look like them.
LEMMA TargetsAlike ==
  ASSUME NEW b, NEW ns, NEW i \in DOMAIN b
  PROVE  b[i] \in {b[j] : j \in Targets(b, ns)} <=> i \in Targets(b, ns)
BY DEF Targets

LEMMA CallsOfAre ==
  ASSUME NEW b \in Seq(AnyIns), NEW ns
  PROVE  \E h : InOrderOf(b, Targets(b, ns), CallsOf(b, Targets(b, ns)), h)
<1> DEFINE T == Targets(b, ns)  cs == CallsOf(b, T)  S == {b[i] : i \in T}
<1>1. cs \in Seq(AnyIns) /\ \E h : Picks(b, S, Len(b), cs, h)
  BY OnlyIs DEF CallsOf
<1>2. PICK h : Picks(b, S, Len(b), cs, h)
  BY <1>1
<1>3. DOMAIN b = 1 .. Len(b) /\ T \subseteq 1 .. Len(b)
  BY DEF Targets
<1>4. \A i \in 1 .. Len(b) : b[i] \in S <=> i \in T
  BY <1>3, TargetsAlike
<1> HIDE DEF T, S, cs
<1>5. h \in [1 .. Len(cs) -> T]
  <2>1. \A k \in 1 .. Len(cs) : h[k] \in T
    BY <1>2, <1>4 DEF Picks
  <2>2. h = [k \in 1 .. Len(cs) |-> h[k]]
    BY <1>2 DEF Picks
  <2> QED BY <2>1, <2>2
<1>6. \A i \in T : \E k \in 1 .. Len(cs) : h[k] = i
  BY <1>2, <1>3, <1>4 DEF Picks
<1>7. InOrderOf(b, T, cs, h)
  BY <1>1, <1>2, <1>5, <1>6 DEF InOrderOf, Picks
<1> QED BY <1>7 DEF T, cs

LEMMA KeptIs ==
  ASSUME NEW b \in Seq(AnyIns), NEW ns, Targets(b, ns) # {}
  PROVE  LET T == Targets(b, ns) IN
         Min(T) \in T /\ Min(T) \in 1 .. Len(b) /\ (\A i \in T : Min(T) <= i) /\ \E h : KeptOf(b, T, Min(T), Kept(b, T), h)
<1> DEFINE T == Targets(b, ns)  m == Min(T)  ks == Kept(b, T)  n == Len(b)
           S == ToSet(b) \ {b[i] : i \in T}
           tail == SubSeq(b, m, n)
<1>1. DOMAIN b = 1 .. n /\ T \subseteq 1 .. n /\ n \in Nat /\ \A i \in 1 .. n : b[i] \in AnyIns
  BY DEF Targets
<1>2. m \in T /\ m \in 1 .. n /\ \A i \in T : m <= i
  BY <1>1, LeastIn
<1>3. \A i \in 1 .. n : b[i] \in S <=> i \notin T
  <2>1. \A i \in 1 .. n : b[i] \in ToSet(b)
    BY <1>1 DEF ToSet
  <2> QED BY <1>1, <2>1, TargetsAlike
<1> HIDE DEF m, T, n
<1>4. tail \in Seq(AnyIns) /\ Len(tail) = n - m + 1 /\ \A i \in 1 .. n - m + 1 : tail[i] = b[m + i - 1]
  <2>1. \A i \in m .. n : b[i] \in AnyIns
    BY <1>1, <1>2
  <2>2. m \in Int /\ n \in Int /\ m <= n
    BY <1>1, <1>2
  <2> QED BY <2>1, <2>2, SubSeqProperties
<1>5. ks = Only(tail, S)
  BY DEF Kept, m, T, n
<1> HIDE DEF tail, S, ks
<1>6. ks \in Seq(AnyIns) /\ \E g : Picks(tail, S, n - m + 1, ks, g)
  BY <1>4, <1>5, OnlyIs
<1>7. PICK g : Picks(tail, S, n - m + 1, ks, g)
  BY <1>6
<1> DEFINE h == [k \in 1 .. Len(ks) |-> m + g[k] - 1]
<1>8. \A k \in 1 .. Len(ks) : g[k] \in 1 .. n - m + 1 /\ ks[k] = tail[g[k]] /\ ks[k] \in S
  BY <1>7 DEF Picks
<1>9. \A k \in 1 .. Len(ks) : h[k] \in m .. n /\ h[k] \in (m .. n) \ T /\ ks[k] = b[h[k]]
  <2> SUFFICES ASSUME NEW k \in 1 .. Len(ks) PROVE h[k] \in m .. n /\ h[k] \notin T /\ ks[k] = b[h[k]]
    OBVIOUS
  <2>1. h[k] = m + g[k] - 1 /\ g[k] \in 1 .. n - m + 1 /\ m \in Nat /\ 1 <= m
    BY <1>1, <1>2, <1>8
  <2>2. h[k] \in m .. n /\ h[k] \in 1 .. n
    BY <1>1, <2>1
  <2>3. ks[k] = b[h[k]]
    BY <1>4, <1>8, <2>1
  <2> QED BY <1>3, <1>8, <2>2, <2>3
<1>10. \A k, l \in 1 .. Len(ks) : k < l => h[k] < h[l]
  <2> SUFFICES ASSUME NEW k \in 1 .. Len(ks), NEW l \in 1 .. Len(ks), k < l PROVE h[k] < h[l]
    OBVIOUS
  <2>1. g[k] < g[l]
    BY <1>7 DEF Picks
  <2>2. g[k] \in Nat /\ g[l] \in Nat /\ m \in Nat
    BY <1>1, <1>2, <1>8
  <2> QED BY <2>1, <2>2
<1>11. ASSUME NEW i \in (m .. n) \ T PROVE \E k \in 1 .. Len(ks) : h[k] = i
  <2>1. i - m + 1 \in 1 .. n - m + 1 /\ i \in 1 .. n /\ m \in Nat /\ i \in Nat
    BY <1>1, <1>2
  <2>2. tail[i - m + 1] = b[m + (i - m + 1) - 1] /\ m + (i - m + 1) - 1 = i
    BY <1>4, <2>1
  <2>3. tail[i - m + 1] \in S
    BY <1>3, <2>1, <2>2
  <2>4. PICK k \in 1 .. Len(ks) : g[k] = i - m + 1
    BY <1>7, <2>1, <2>3 DEF Picks
  <2> QED BY <2>1, <2>4
<1>12. h \in [1 .. Len(ks) -> (m .. n) \ T]
  BY <1>9
<1> HIDE DEF h
<1>13. KeptOf(b, T, m, ks, h)
  BY <1>6, <1>9, <1>10, <1>11, <1>12 DEF KeptOf, n
<1> QED BY <1>2, <1>13 DEF T, m, ks, n
\* What the instructions of a scaffold are made of.
LEMMA ValsHold ==
  ASSUME NEW s \in Names, NEW r \in Names, NEW i \in Nat
  PROVE  /\ Task(s) \in Vals /\ Out(s) \in Vals /\ Slot(s) \in Vals /\ Param(i) \in Vals /\ None \in Vals
         /\ <<"field", r, s, i>> \in Vals
BY DEF Vals, Task, Out, Slot, Param, None

LEMMA InsType ==
  ASSUME NEW o \in Ops, NEW i \in Names, NEW n \in Names, NEW as \in Seq(Vals), NEW d \in Vals
  PROVE  Ins(o, i, n, as, d) \in AnyIns
<1>1. \A X, Y : as \in X /\ d \in Y => [op |-> o, id |-> i, node |-> n, args |-> as, def |-> d]
                                       \in [op : Ops, id : Names, node : Names, args : X, def : Y]
  OBVIOUS
<1> QED BY <1>1 DEF AnyIns, Ins

LEMMA SpawnIs ==
  ASSUME NEW c \in AnyIns
  PROVE  /\ StageSpawn(c) \in AnyIns /\ StageSpawn(c).op = "spawn" /\ StageSpawn(c).id = c.id /\ StageSpawn(c).node = c.node
         /\ StageSpawn(c).def = Task(c.id) /\ ToSet(StageSpawn(c).args) \subseteq ToSet(c.args)
<1> DEFINE S == ToSet(c.args) \ {Slot(c.node)}  as == Only(c.args, S)
<1>1. c.args \in Seq(Vals) /\ c.id \in Names /\ c.node \in Names
  BY DEF AnyIns
<1>2. as \in Seq(Vals) /\ \E h : Picks(c.args, S, Len(c.args), as, h)
  BY <1>1, OnlyIs
<1>3. \A k \in 1 .. Len(as) : as[k] \in S
  BY <1>2 DEF Picks
<1>4. DOMAIN as = 1 .. Len(as)
  BY <1>2
<1>5. StageSpawn(c) = [op |-> "spawn", id |-> c.id, node |-> c.node, args |-> as, def |-> Task(c.id)]
  BY DEF StageSpawn, Ins
<1>6. Task(c.id) \in Vals
  BY <1>1, ValsHold
<1>7. ToSet(as) \subseteq ToSet(c.args)
  <2>1. ASSUME NEW v \in ToSet(as) PROVE v \in S
    BY <1>3, <1>4 DEF ToSet
  <2> QED BY <2>1
<1> HIDE DEF as, S
<1>8. StageSpawn(c).args = as
  BY <1>5
<1>9. /\ StageSpawn(c).op = "spawn" /\ StageSpawn(c).id = c.id /\ StageSpawn(c).node = c.node
      /\ StageSpawn(c).def = Task(c.id)
  BY <1>5
<1>10. StageSpawn(c) \in AnyIns
  <2>1. Ins("spawn", c.id, c.node, as, Task(c.id)) \in AnyIns
    <3>1. "spawn" \in Ops /\ as \in Seq(Vals)
      BY <1>2 DEF Ops
    <3> QED BY <1>1, <1>6, <3>1, InsType
  <2> QED BY <2>1 DEF StageSpawn, as, S
<1> QED BY <1>7, <1>8, <1>9, <1>10

\* A sequence of so many members; it has those of s behind the first m.
Sized(X, s, m)   == m \in Nat /\ s \in Seq(X) /\ Len(s) = m
Behind(r, s, m, n) == \A i \in 1 .. n : r[m + i] = s[i]

\* A concatenation has the one at the front and the other behind it.
LEMMA Concat ==
  ASSUME NEW X, NEW m, NEW n, NEW a, NEW s, Sized(X, a, m), Sized(X, s, n)
  PROVE  Sized(X, a \o s, m + n) /\ Behind(a \o s, a, 0, m) /\ Behind(a \o s, s, m, n)
<1>1. m \in Nat /\ n \in Nat /\ a \in Seq(X) /\ s \in Seq(X) /\ Len(a) = m /\ Len(s) = n
  BY DEF Sized
<1>2. /\ a \o s \in Seq(X) /\ Len(a \o s) = m + n
      /\ \A i \in 1 .. m + n : (a \o s)[i] = IF i <= m THEN a[i] ELSE s[i - m]
  BY <1>1, ConcatProperties
<1>3. ASSUME NEW i \in 1 .. n PROVE (a \o s)[m + i] = s[i]
  <2>1. m + i \in 1 .. m + n /\ ~(m + i <= m) /\ (m + i) - m = i
    BY <1>1
  <2> QED BY <1>2, <2>1
<1>4. ASSUME NEW i \in 1 .. m PROVE (a \o s)[0 + i] = a[i]
  <2>1. i \in 1 .. m + n /\ i <= m /\ 0 + i = i
    BY <1>1
  <2> QED BY <1>2, <2>1
<1> QED BY <1>1, <1>2, <1>3, <1>4 DEF Sized, Behind

\* What is behind the first m of the front is so in the whole.
LEMMA BehindFront ==
  ASSUME NEW r, NEW f, NEW s, NEW k \in Nat, NEW m \in Nat, NEW n \in Nat,
         Behind(r, f, 0, k), Behind(f, s, m, n), m + n <= k
  PROVE  Behind(r, s, m, n)
<1>1. ASSUME NEW i \in 1 .. n PROVE r[m + i] = s[i]
  <2>1. m + i \in 1 .. k /\ 0 + (m + i) = m + i
    OBVIOUS
  <2>2. r[m + i] = f[m + i]
    BY <2>1 DEF Behind
  <2> QED BY <2>2 DEF Behind
<1> QED BY <1>1 DEF Behind

\* The members of a concatenation, by the piece they are in.
LEMMA FivePieces ==
  ASSUME NEW X, NEW a, NEW s, NEW c, NEW d, NEW e, NEW m, NEW n, NEW l, NEW p,
         Sized(X, a, m), Sized(X, s, n), Sized(X, c, 1), Sized(X, d, l), Sized(X, e, p)
  PROVE  LET r == a \o s \o c \o d \o e IN
         /\ Sized(X, r, m + n + 1 + l + p)
         /\ Behind(r, a, 0, m) /\ Behind(r, s, m, n) /\ Behind(r, c, m + n, 1)
         /\ Behind(r, d, m + n + 1, l) /\ Behind(r, e, m + n + 1 + l, p)
<1> DEFINE r1 == a \o s  r2 == r1 \o c  r3 == r2 \o d  r4 == r3 \o e
<1>1. Sized(X, r1, m + n) /\ Behind(r1, a, 0, m) /\ Behind(r1, s, m, n)
  BY Concat
<1> HIDE DEF r1
<1>2. Sized(X, r2, m + n + 1) /\ Behind(r2, r1, 0, m + n) /\ Behind(r2, c, m + n, 1)
  BY <1>1, Concat
<1> HIDE DEF r2
<1>3. Sized(X, r3, m + n + 1 + l) /\ Behind(r3, r2, 0, m + n + 1) /\ Behind(r3, d, m + n + 1, l)
  BY <1>2, Concat
<1> HIDE DEF r3
<1>4. Sized(X, r4, m + n + 1 + l + p) /\ Behind(r4, r3, 0, m + n + 1 + l) /\ Behind(r4, e, m + n + 1 + l, p)
  BY <1>3, Concat
<1> HIDE DEF r4
<1>5. m \in Nat /\ n \in Nat /\ l \in Nat /\ p \in Nat
  BY DEF Sized
<1>6. m + n \in Nat /\ m + n + 1 \in Nat /\ m + n + 1 + l \in Nat /\ 0 + m <= m + n /\ m + n <= m + n + 1
      /\ 0 + (m + n) <= m + n + 1 /\ 0 + (m + n + 1) <= m + n + 1 + l /\ m + n + 1 <= m + n + 1 + l
      /\ m + n <= m + n + 1 + l /\ 0 + m <= m + n + 1 /\ 0 + m <= m + n + 1 + l /\ 0 \in Nat /\ 1 \in Nat
  BY <1>5
<1>7. Behind(r2, a, 0, m) /\ Behind(r2, s, m, n)
  BY <1>1, <1>2, <1>5, <1>6, BehindFront
<1>8. Behind(r3, a, 0, m) /\ Behind(r3, s, m, n) /\ Behind(r3, c, m + n, 1)
  BY <1>2, <1>3, <1>5, <1>6, <1>7, BehindFront
<1>9. /\ Behind(r4, a, 0, m) /\ Behind(r4, s, m, n) /\ Behind(r4, c, m + n, 1)
      /\ Behind(r4, d, m + n + 1, l)
  BY <1>3, <1>4, <1>5, <1>6, <1>8, BehindFront
<1>10. a \o s \o c \o d \o e = r4
  BY DEF r1, r2, r3, r4
<1> QED BY <1>4, <1>9, <1>10
\* The scaffold r of b: up to m as it was, the spawns, the join at a, the
\* fetches up to z, and what is kept; at tells which instruction is meant.
Weave(b, T, r, m, a, z, at) ==
  /\ r \in Seq(AnyIns) /\ m \in T /\ m \in 1 .. Len(b) /\ \A i \in T : m <= i
  /\ a \in Nat /\ z \in Nat /\ m < a /\ a <= z /\ z <= Len(r)
  /\ \A q \in 1 .. m - 1 : at[q] = q /\ r[q] = b[q]
  /\ \A q \in m .. a - 1 : at[q] \in T /\ r[q] = StageSpawn(b[at[q]])
  /\ \A i \in T : \E q \in m .. a - 1 : at[q] = i
  /\ r[a].op = "await" /\ r[a].def = None /\ ToSet(r[a].args) = {Task(b[i].id) : i \in T}
  /\ \A q \in a + 1 .. z : at[q] \in T /\ r[q] = Fetch(b[at[q]])
  /\ \A i \in T : b[i].def # None => \E q \in a + 1 .. z : at[q] = i
  /\ \A q \in z + 1 .. Len(r) : at[q] \in (m .. Len(b)) \ T /\ r[q] = b[at[q]]
  /\ \A q, t \in z + 1 .. Len(r) : q < t => at[q] < at[t]
  /\ \A i \in (m .. Len(b)) \ T : \E q \in z + 1 .. Len(r) : at[q] = i

\* The calls are spawned in their order, and joined in it.
InTurn(r, m, a, at) ==
  /\ \A q, t \in m .. a - 1 : q < t => at[q] < at[t]
  /\ DOMAIN r[a].args = 1 .. a - m /\ \A k \in 1 .. a - m : r[a].args[k] = r[m + k - 1].def

\* The fetches of the calls that have a result.
LEMMA FetchesAre ==
  ASSUME NEW cs \in Seq(AnyIns)
  PROVE  /\ Sized(AnyIns, Fetches(Valued(cs)), Len(Valued(cs))) /\ Len(Valued(cs)) \in Nat
         /\ \E g : /\ g \in [1 .. Len(Valued(cs)) -> 1 .. Len(cs)]
                   /\ \A k \in 1 .. Len(Valued(cs)) : Fetches(Valued(cs))[k] = Fetch(cs[g[k]])
                   /\ \A i \in 1 .. Len(cs) : cs[i].def # None => \E k \in 1 .. Len(Valued(cs)) : g[k] = i
<1> DEFINE vs == Valued(cs)  S == {c \in ToSet(cs) : c.def # None}  fs == Fetches(vs)  l == Len(vs)
<1>1. vs \in Seq(AnyIns) /\ \E g : Picks(cs, S, Len(cs), vs, g)
  BY OnlyIs DEF Valued
<1>2. PICK g : Picks(cs, S, Len(cs), vs, g)
  BY <1>1
<1>3. l \in Nat /\ DOMAIN vs = 1 .. l /\ \A k \in 1 .. l : vs[k] \in AnyIns
  BY <1>1
<1>4. \A i \in 1 .. Len(cs) : cs[i] \in S <=> cs[i].def # None
  BY DEF ToSet
<1>5. fs = [k \in 1 .. l |-> Fetch(vs[k])]
  BY <1>3 DEF Fetches
<1> HIDE DEF vs, S, fs, l
<1>6. \A k \in 1 .. l : Fetch(vs[k]) \in AnyIns
  <2> SUFFICES ASSUME NEW k \in 1 .. l PROVE Fetch(vs[k]) \in AnyIns
    OBVIOUS
  <2>1. vs[k].id \in Names /\ vs[k].node \in Names /\ vs[k].def \in Vals
    BY <1>3 DEF AnyIns
  <2>2. "fetch" \in Ops /\ << >> \in Seq(Vals)
    BY DEF Ops
  <2> QED BY <2>1, <2>2, InsType DEF Fetch
<1>7. Sized(AnyIns, fs, l)
  <2>1. fs \in [1 .. l -> AnyIns]
    BY <1>5, <1>6
  <2>2. fs \in Seq(AnyIns) /\ Len(fs) = l
    BY <1>3, <2>1
  <2> QED BY <1>3, <2>2 DEF Sized
<1>8. /\ g \in [1 .. l -> 1 .. Len(cs)]
      /\ \A k \in 1 .. l : fs[k] = Fetch(cs[g[k]])
      /\ \A i \in 1 .. Len(cs) : cs[i].def # None => \E k \in 1 .. l : g[k] = i
  BY <1>2, <1>4, <1>5 DEF Picks, l
<1> QED BY <1>3, <1>7, <1>8 DEF vs, fs, l

LEMMA ScaffoldIs ==
  ASSUME NEW b \in Seq(AnyIns), NEW ns, Targets(b, ns) # {}
  PROVE  \E a, z, at : /\ Weave(b, Targets(b, ns), Scaffold(b, Targets(b, ns)), Min(Targets(b, ns)), a, z, at)
                       /\ InTurn(Scaffold(b, Targets(b, ns)), Min(Targets(b, ns)), a, at)
<1> DEFINE T == Targets(b, ns)  m == Min(T)  cs == CallsOf(b, T)  vs == Valued(cs)  ks == Kept(b, T)
           r == Scaffold(b, T)  n == Len(cs)  l == Len(vs)  p == Len(ks)  u == m - 1
           A == SubSeq(b, 1, u)  B == Spawns(cs)  C == <<Await(cs)>>  D == Fetches(vs)
<1>1. PICK h : InOrderOf(b, T, cs, h)
  BY CallsOfAre
<1>2. m \in T /\ m \in 1 .. Len(b) /\ (\A i \in T : m <= i) /\ \E k : KeptOf(b, T, m, ks, k)
  BY KeptIs
<1>3. PICK k : KeptOf(b, T, m, ks, k)
  BY <1>2
<1>4. cs \in Seq(AnyIns) /\ n \in Nat /\ DOMAIN cs = 1 .. n /\ ks \in Seq(AnyIns) /\ p \in Nat
  BY <1>1, <1>3 DEF InOrderOf, KeptOf
<1>5. /\ Sized(AnyIns, D, l) /\ l \in Nat
      /\ \E g : /\ g \in [1 .. l -> 1 .. n]
                /\ \A j \in 1 .. l : D[j] = Fetch(cs[g[j]])
                /\ \A i \in 1 .. n : cs[i].def # None => \E j \in 1 .. l : g[j] = i
  BY <1>4, FetchesAre
<1>6. PICK g : /\ g \in [1 .. l -> 1 .. n]
               /\ \A j \in 1 .. l : D[j] = Fetch(cs[g[j]])
               /\ \A i \in 1 .. n : cs[i].def # None => \E j \in 1 .. l : g[j] = i
  BY <1>5
<1>7. r = A \o B \o C \o D \o ks
  BY DEF Scaffold
<1>8. T \subseteq 1 .. Len(b) /\ \A i \in 1 .. Len(b) : b[i] \in AnyIns
  BY DEF Targets
<1>9. B = [i \in 1 .. n |-> StageSpawn(cs[i])]
  BY <1>4 DEF Spawns
<1>10. u \in Nat /\ m = u + 1 /\ m \in Nat
  BY <1>2
<1> HIDE DEF T, m, cs, vs, ks, r, n, l, p, u, A, B, C, D
<1>11. Sized(AnyIns, A, u) /\ \A i \in 1 .. u : A[i] = b[i]
  <2>1. \A i \in 1 .. u : b[i] \in AnyIns
    BY <1>2, <1>8, <1>10
  <2>2. 1 \in Int /\ u \in Int /\ (IF 1 <= u THEN u - 1 + 1 ELSE 0) = u
    BY <1>10
  <2>3. A \in Seq(AnyIns) /\ Len(A) = u /\ \A i \in 1 .. u - 1 + 1 : A[i] = b[1 + i - 1]
    BY <2>1, <2>2, SubSeqProperties DEF A
  <2>4. \A i \in 1 .. u : i \in 1 .. u - 1 + 1 /\ 1 + i - 1 = i
    BY <1>10
  <2> QED BY <1>10, <2>3, <2>4 DEF Sized
<1>12. Sized(AnyIns, B, n) /\ \A i \in 1 .. n : B[i] = StageSpawn(cs[i])
  <2>1. \A i \in 1 .. n : StageSpawn(cs[i]) \in AnyIns
    <3>1. \A i \in 1 .. n : cs[i] \in AnyIns
      BY <1>4 DEF n
    <3> QED BY <3>1, SpawnIs
  <2>2. B \in [1 .. n -> AnyIns]
    BY <1>9, <2>1
  <2>3. B \in Seq(AnyIns) /\ Len(B) = n
    BY <1>4, <2>2
  <2> QED BY <1>4, <1>9, <2>3 DEF Sized
<1>13. /\ Sized(AnyIns, C, 1) /\ C[1] = Await(cs) /\ Await(cs).op = "await" /\ Await(cs).def = None
       /\ ToSet(Await(cs).args) = {Task(b[i].id) : i \in T}
       /\ DOMAIN Await(cs).args = 1 .. n /\ \A i \in 1 .. n : Await(cs).args[i] = Task(cs[i].id)
  <2> DEFINE as == [i \in 1 .. n |-> Task(cs[i].id)]
  <2>1. Await(cs) = Ins("await", "await", "await", as, None)
    BY <1>4 DEF Await
  <2>2. \A i \in 1 .. n : cs[i] \in AnyIns /\ cs[i].id \in Names
    <3>1. \A i \in 1 .. n : cs[i] \in AnyIns
      BY <1>4 DEF n
    <3> QED BY <3>1 DEF AnyIns
  <2>3. as \in Seq(Vals) /\ DOMAIN as = 1 .. n
    <3>1. \A i \in 1 .. n : Task(cs[i].id) \in Vals
      BY <2>2, ValsHold DEF Vals, Task
    <3>2. as \in [1 .. n -> Vals]
      BY <3>1
    <3> QED BY <1>4, <3>2
  <2>4. Await(cs) \in AnyIns
    <3>1. "await" \in Ops /\ "await" \in Names /\ None \in Vals
      BY DEF Ops, Names, Vals
    <3> HIDE DEF as
    <3> QED BY <2>1, <2>3, <3>1, InsType
  <2>5. ToSet(as) = {Task(cs[i].id) : i \in 1 .. n}
    BY <2>3 DEF ToSet
  <2>6. {Task(cs[i].id) : i \in 1 .. n} = {Task(b[i].id) : i \in T}
    <3>1. \A i \in 1 .. n : cs[i] = b[h[i]] /\ h[i] \in T
      BY <1>1 DEF InOrderOf, n
    <3>2. \A i \in T : \E j \in 1 .. n : h[j] = i
      BY <1>1 DEF InOrderOf, n
    <3> QED BY <3>1, <3>2
  <2>9. \A i \in 1 .. n : as[i] = Task(cs[i].id)
    OBVIOUS
  <2> HIDE DEF as
  <2>7. Await(cs).op = "await" /\ Await(cs).def = None /\ Await(cs).args = as
    BY <2>1 DEF Ins
  <2>8. C \in Seq(AnyIns) /\ Len(C) = 1 /\ C[1] = Await(cs)
    BY <2>4 DEF C
  <2> QED BY <2>3, <2>5, <2>6, <2>7, <2>8, <2>9 DEF Sized
<1>14. Sized(AnyIns, ks, p)
  BY <1>4 DEF Sized, p
<1>15. /\ Sized(AnyIns, r, u + n + 1 + l + p)
       /\ Behind(r, A, 0, u) /\ Behind(r, B, u, n) /\ Behind(r, C, u + n, 1)
       /\ Behind(r, D, u + n + 1, l) /\ Behind(r, ks, u + n + 1 + l, p)
  BY <1>5, <1>7, <1>11, <1>12, <1>13, <1>14, FivePieces
<1> DEFINE a == u + n + 1  z == a + l  N == z + p
           at == [q \in 1 .. N |-> IF q <= u THEN q ELSE IF q < a THEN h[q - u]
                                   ELSE IF q <= z THEN h[g[q - a]] ELSE k[q - z]]
<1>16. r \in Seq(AnyIns) /\ Len(r) = N /\ N \in Nat /\ a \in Nat /\ z \in Nat
  BY <1>4, <1>5, <1>10, <1>15 DEF Sized
<1>17. 1 <= n /\ m < a /\ a <= z /\ z <= N
  <2>1. \E j \in 1 .. n : h[j] = m
    BY <1>1, <1>2 DEF InOrderOf, n
  <2>2. 1 <= n
    BY <1>4, <2>1
  <2> QED BY <1>4, <1>5, <1>10, <2>2
<1>18. \A q \in 1 .. u : at[q] = q /\ r[q] = b[q]
  <2> SUFFICES ASSUME NEW q \in 1 .. u PROVE at[q] = q /\ r[q] = b[q]
    OBVIOUS
  <2>1. q \in 1 .. N /\ q <= u
    BY <1>4, <1>5, <1>10
  <2>2. at[q] = q
    BY <2>1
  <2>3. r[0 + q] = A[q] /\ 0 + q = q
    BY <1>10, <1>15 DEF Behind
  <2> QED BY <1>11, <2>2, <2>3
<1>19. ASSUME NEW i \in 1 .. n PROVE u + i \in m .. a - 1 /\ at[u + i] = h[i] /\ r[u + i] = StageSpawn(b[h[i]])
  <2>1. u + i \in 1 .. N /\ ~(u + i <= u) /\ u + i < a /\ (u + i) - u = i /\ u + i \in m .. a - 1
    BY <1>4, <1>5, <1>10
  <2>2. at[u + i] = h[i]
    BY <2>1
  <2>3. r[u + i] = B[i] /\ B[i] = StageSpawn(cs[i]) /\ cs[i] = b[h[i]]
    BY <1>1, <1>12, <1>15 DEF Behind, InOrderOf, n
  <2> QED BY <2>1, <2>2, <2>3
<1>20. ASSUME NEW i \in 1 .. l PROVE a + i \in a + 1 .. z /\ at[a + i] = h[g[i]] /\ r[a + i] = Fetch(b[h[g[i]]])
  <2>1. a + i \in 1 .. N /\ ~(a + i <= u) /\ ~(a + i < a) /\ a + i <= z /\ (a + i) - a = i /\ a + i \in a + 1 .. z
    BY <1>4, <1>5, <1>10
  <2>2. at[a + i] = h[g[i]]
    BY <2>1
  <2>3. r[a + i] = D[i] /\ D[i] = Fetch(cs[g[i]]) /\ g[i] \in 1 .. n
    BY <1>6, <1>15 DEF Behind
  <2>4. cs[g[i]] = b[h[g[i]]]
    BY <1>1, <2>3 DEF InOrderOf, n
  <2> QED BY <2>1, <2>2, <2>3, <2>4
<1>21. ASSUME NEW i \in 1 .. p PROVE z + i \in z + 1 .. N /\ at[z + i] = k[i] /\ r[z + i] = b[k[i]]
  <2>1. z + i \in 1 .. N /\ ~(z + i <= u) /\ ~(z + i < a) /\ ~(z + i <= z) /\ (z + i) - z = i /\ z + i \in z + 1 .. N
    BY <1>4, <1>5, <1>10
  <2>2. at[z + i] = k[i]
    BY <2>1
  <2>3. r[z + i] = ks[i] /\ ks[i] = b[k[i]]
    BY <1>3, <1>15 DEF Behind, KeptOf, p
  <2> QED BY <2>1, <2>2, <2>3
<1>22. r[a] = Await(cs)
  <2>1. r[u + n + 1] = C[1] /\ 1 \in 1 .. 1
    BY <1>15 DEF Behind
  <2> QED BY <1>13, <2>1
<1>23. /\ \A q \in m .. a - 1 : q - u \in 1 .. n /\ u + (q - u) = q
       /\ \A q \in a + 1 .. z : q - a \in 1 .. l /\ a + (q - a) = q
       /\ \A q \in z + 1 .. N : q - z \in 1 .. p /\ z + (q - z) = q
  BY <1>4, <1>5, <1>10
<1> HIDE DEF a, z, N, at
<1>24. \A i \in 1 .. n : h[i] \in T
  BY <1>1 DEF InOrderOf, n
<1>25. \A q \in m .. a - 1 : at[q] \in T /\ r[q] = StageSpawn(b[at[q]])
  BY <1>19, <1>23, <1>24
<1>26. \A i \in T : \E q \in m .. a - 1 : at[q] = i
  BY <1>1, <1>19 DEF InOrderOf, n
<1>27. \A q \in a + 1 .. z : at[q] \in T /\ r[q] = Fetch(b[at[q]])
  <2> SUFFICES ASSUME NEW q \in a + 1 .. z PROVE at[q] \in T /\ r[q] = Fetch(b[at[q]])
    OBVIOUS
  <2>1. q - a \in 1 .. l /\ a + (q - a) = q
    BY <1>23
  <2>2. g[q - a] \in 1 .. n
    BY <1>6, <2>1
  <2>3. at[q] = h[g[q - a]] /\ r[q] = Fetch(b[h[g[q - a]]])
    BY <1>20, <2>1
  <2> QED BY <1>24, <2>2, <2>3
<1>28. \A i \in T : b[i].def # None => \E q \in a + 1 .. z : at[q] = i
  <2> SUFFICES ASSUME NEW i \in T, b[i].def # None PROVE \E q \in a + 1 .. z : at[q] = i
    OBVIOUS
  <2>1. PICK j \in 1 .. n : h[j] = i /\ cs[j] = b[i]
    BY <1>1 DEF InOrderOf, n
  <2>2. PICK e \in 1 .. l : g[e] = j
    BY <1>6, <2>1
  <2> QED BY <1>20, <2>1, <2>2
<1>29. \A q \in z + 1 .. N : at[q] \in (m .. Len(b)) \ T /\ r[q] = b[at[q]]
  <2> SUFFICES ASSUME NEW q \in z + 1 .. N PROVE at[q] \in (m .. Len(b)) \ T /\ r[q] = b[at[q]]
    OBVIOUS
  <2>1. q - z \in 1 .. p /\ z + (q - z) = q
    BY <1>23
  <2>2. k[q - z] \in (m .. Len(b)) \ T
    BY <1>3, <2>1 DEF KeptOf, p
  <2> QED BY <1>21, <2>1, <2>2
<1>30. \A q, t \in z + 1 .. N : q < t => at[q] < at[t]
  <2> SUFFICES ASSUME NEW q \in z + 1 .. N, NEW t \in z + 1 .. N, q < t PROVE at[q] < at[t]
    OBVIOUS
  <2>1. q - z \in 1 .. p /\ z + (q - z) = q /\ t - z \in 1 .. p /\ z + (t - z) = t
    BY <1>23
  <2>2. q - z < t - z
    BY <1>16
  <2>3. k[q - z] < k[t - z]
    BY <1>3, <2>1, <2>2 DEF KeptOf, p
  <2> QED BY <1>21, <2>1, <2>3
<1>31. \A i \in (m .. Len(b)) \ T : \E q \in z + 1 .. N : at[q] = i
  <2> SUFFICES ASSUME NEW i \in (m .. Len(b)) \ T PROVE \E q \in z + 1 .. N : at[q] = i
    OBVIOUS
  <2>1. PICK j \in 1 .. p : k[j] = i
    BY <1>3 DEF KeptOf, p
  <2> QED BY <1>21, <2>1
<1>33. \A q, t \in m .. a - 1 : q < t => at[q] < at[t]
  <2> SUFFICES ASSUME NEW q \in m .. a - 1, NEW t \in m .. a - 1, q < t PROVE at[q] < at[t]
    OBVIOUS
  <2>1. q - u \in 1 .. n /\ u + (q - u) = q /\ t - u \in 1 .. n /\ u + (t - u) = t
    BY <1>23
  <2>2. q - u < t - u
    BY <1>10, <2>1
  <2>3. h[q - u] < h[t - u]
    BY <1>1, <2>1, <2>2 DEF InOrderOf, n
  <2> QED BY <1>19, <2>1, <2>3
<1>34. DOMAIN r[a].args = 1 .. a - m /\ \A j \in 1 .. a - m : r[a].args[j] = r[m + j - 1].def
  <2>1. a - m = n
    BY <1>4, <1>10 DEF a
  <2>2. ASSUME NEW j \in 1 .. n PROVE r[a].args[j] = r[m + j - 1].def
    <3>1. r[a].args[j] = Task(cs[j].id) /\ cs[j] = b[h[j]]
      BY <1>1, <1>13, <1>22 DEF InOrderOf, n
    <3>2. r[u + j] = StageSpawn(b[h[j]]) /\ m + j - 1 = u + j
      BY <1>10, <1>19
    <3>3. StageSpawn(b[h[j]]).def = Task(b[h[j]].id)
      BY DEF StageSpawn, Ins
    <3> QED BY <3>1, <3>2, <3>3
  <2> QED BY <1>13, <1>22, <2>1, <2>2
<1>32. Weave(b, T, r, m, a, z, at)
  <2>1. m - 1 = u
    BY <1>10
  <2> QED BY <2>1, <1>2, <1>13, <1>16, <1>17, <1>18, <1>22, <1>25, <1>26, <1>27, <1>28, <1>29, <1>30, <1>31 DEF Weave
<1> QED BY <1>32, <1>33, <1>34 DEF T, r, m, InTurn
-----------------------------------------------------------------------------
(***************************************************************************)
(* What a body keeps while it is made parallel, group by group: its stages *)
(* start in the order of the groups, and between the spawns of a group and *)
(* their join there is nothing but spawns of that group.                   *)
(***************************************************************************)
Starts(b) == {i \in DOMAIN b : b[i].op \in {"call", "spawn"}}

\* The task that instruction i spawns is joined by instruction j, and not
\* spawned again.
Joined(b, i, j) ==
  /\ j \in DOMAIN b /\ i < j /\ b[j].op = "await" /\ b[i].def \in ToSet(b[j].args)
  /\ \A k \in i .. j - 1 : b[k].op = "spawn" /\ Level(pipe, b[k].node) = Level(pipe, b[i].node)
  /\ \A k \in DOMAIN b : b[k].op = "spawn" /\ b[k].def = b[i].def => k < j

Named(b) ==
  /\ \A i \in Starts(b) : b[i].node \in Nodes(pipe)
  /\ \A i, j \in Starts(b) : b[i].id = b[j].id => b[i].node = b[j].node
  /\ \A n \in CodeNodes(pipe) : \E i \in Starts(b) : b[i].node = n
Levelled(b) == \A i, j \in Starts(b) : i < j => Level(pipe, b[i].node) <= Level(pipe, b[j].node)
Forked(b, g) ==
  \A i \in DOMAIN b : b[i].op = "spawn" =>
    /\ b[i].def = Task(b[i].id) /\ Level(pipe, b[i].node) < g /\ \E j \in DOMAIN b : Joined(b, i, j)
Ends(b) == Len(b) # 0 /\ b[Len(b)].op = "ret"

\* A body in which the groups before g are parallel.
BodyOk(b, g) ==
  b \in Seq(AnyIns) /\ Ends(b) /\ OperandsIn(b) /\ Named(b) /\ Levelled(b) /\ Forked(b, g)

\* A node is in the group of its level and in no other.
LEMMA LevelIs ==
  ASSUME NEW p, PipelineOk(p), NEW n \in Nodes(p)
  PROVE  /\ Level(p, n) \in DOMAIN p.groups /\ DOMAIN p.groups \subseteq Nat
         /\ \A g \in DOMAIN p.groups : n \in ToSet(p.groups[g]) => g = Level(p, n)
<1>1. PICK k \in DOMAIN p.groups : \A l \in DOMAIN p.groups : n \in ToSet(p.groups[l]) <=> l = k
  BY DEF PipelineOk
<1>2. Level(p, n) = k
  BY <1>1 DEF Level
<1>3. p.groups \in Seq(Seq(Nodes(p)))
  BY DEF PipelineOk
<1>4. DOMAIN p.groups \subseteq Nat
  BY <1>3
<1> QED BY <1>1, <1>2, <1>4

LEMMA LaterGroup ==
  ASSUME NEW b, NEW g \in Nat, PipelineOk(pipe), BodyOk(b, g) PROVE BodyOk(b, g + 1)
<1>1. ASSUME NEW i \in DOMAIN b, b[i].op = "spawn" PROVE Level(pipe, b[i].node) < g + 1
  <2>1. b[i].node \in Nodes(pipe)
    BY <1>1 DEF BodyOk, Named, Starts
  <2>2. Level(pipe, b[i].node) \in Nat /\ Level(pipe, b[i].node) < g
    BY <1>1, <2>1, LevelIs DEF BodyOk, Forked
  <2> QED BY <2>2
<1> QED BY <1>1 DEF BodyOk, Forked

\* The handles of two tasks are the same only if their names are.
LEMMA HandlesDiffer == ASSUME NEW s, NEW t, Task(s) = Task(t) PROVE s = t
BY DEF Task

\* The places of a scaffold.
LEMMA WeavePlaces ==
  ASSUME NEW b \in Seq(AnyIns), NEW T, NEW r, NEW m, NEW a, NEW z, NEW at, Weave(b, T, r, m, a, z, at)
  PROVE  /\ m \in Nat /\ a \in Nat /\ z \in Nat /\ Len(b) \in Nat /\ Len(r) \in Nat
         /\ DOMAIN b = 1 .. Len(b) /\ DOMAIN r = 1 .. Len(r)
         /\ 1 <= m /\ m <= Len(b) /\ m < a /\ a <= z /\ z <= Len(r)
<1>1. r \in Seq(AnyIns) /\ m \in 1 .. Len(b) /\ a \in Nat /\ z \in Nat /\ m < a /\ a <= z /\ z <= Len(r)
  BY DEF Weave
<1> QED BY <1>1

\* The instructions of the scaffold that start a stage, and where they come from.
LEMMA StartsFrom ==
  ASSUME NEW b \in Seq(AnyIns), NEW ns, NEW T, T = Targets(b, ns),
         NEW r, NEW m, NEW a, NEW z, NEW at, Weave(b, T, r, m, a, z, at)
  PROVE  \A q \in Starts(r) :
           /\ at[q] \in Starts(b) /\ r[q].node = b[at[q]].node /\ r[q].id = b[at[q]].id
           /\ \/ q \in 1 .. m - 1 /\ at[q] = q /\ r[q] = b[q]
              \/ q \in m .. a - 1 /\ at[q] \in T /\ r[q] = StageSpawn(b[at[q]])
              \/ q \in z + 1 .. Len(r) /\ at[q] \in (m .. Len(b)) \ T /\ r[q] = b[at[q]]
<1> SUFFICES ASSUME NEW q \in Starts(r)
             PROVE  /\ at[q] \in Starts(b) /\ r[q].node = b[at[q]].node /\ r[q].id = b[at[q]].id
                    /\ \/ q \in 1 .. m - 1 /\ at[q] = q /\ r[q] = b[q]
                       \/ q \in m .. a - 1 /\ at[q] \in T /\ r[q] = StageSpawn(b[at[q]])
                       \/ q \in z + 1 .. Len(r) /\ at[q] \in (m .. Len(b)) \ T /\ r[q] = b[at[q]]
  OBVIOUS
<1>1. /\ q \in 1 .. Len(r) /\ r[q].op \in {"call", "spawn"} /\ DOMAIN b = 1 .. Len(b) /\ Len(b) \in Nat
      /\ m \in 1 .. Len(b) /\ a \in Nat /\ z \in Nat /\ m < a /\ a <= z /\ z <= Len(r) /\ Len(r) \in Nat
  <2>1. r \in Seq(AnyIns)
    BY DEF Weave
  <2> QED BY <2>1 DEF Starts, Weave
<1>2. \A i \in T : i \in DOMAIN b /\ b[i] \in AnyIns /\ b[i].op = "call"
  BY DEF Targets
<1>3. CASE q \in 1 .. m - 1
  <2>1. at[q] = q /\ r[q] = b[q]
    BY <1>3 DEF Weave
  <2>2. q \in DOMAIN b
    BY <1>1, <1>3
  <2> QED BY <1>1, <1>3, <2>1, <2>2 DEF Starts
<1>4. CASE q \in m .. a - 1
  <2>1. at[q] \in T /\ r[q] = StageSpawn(b[at[q]])
    BY <1>4 DEF Weave
  <2>2. b[at[q]] \in AnyIns /\ at[q] \in DOMAIN b /\ b[at[q]].op = "call"
    BY <1>2, <2>1
  <2>3. r[q].node = b[at[q]].node /\ r[q].id = b[at[q]].id
    BY <2>1, <2>2, SpawnIs
  <2> QED BY <1>4, <2>1, <2>2, <2>3 DEF Starts
<1>5. CASE q = a
  BY <1>1, <1>5 DEF Weave
<1>6. CASE q \in a + 1 .. z
  <2>1. r[q] = Fetch(b[at[q]])
    BY <1>6 DEF Weave
  <2>2. r[q].op = "fetch"
    BY <2>1 DEF Fetch, Ins
  <2> QED BY <1>1, <2>2
<1>7. CASE q \in z + 1 .. Len(r)
  <2>1. at[q] \in (m .. Len(b)) \ T /\ r[q] = b[at[q]]
    BY <1>7 DEF Weave
  <2>2. at[q] \in DOMAIN b
    BY <1>1, <2>1
  <2> QED BY <1>1, <1>7, <2>1, <2>2 DEF Starts
<1>8. q \in 1 .. m - 1 \/ q \in m .. a - 1 \/ q = a \/ q \in a + 1 .. z \/ q \in z + 1 .. Len(r)
  BY <1>1
<1> QED BY <1>3, <1>4, <1>5, <1>6, <1>7, <1>8
\* Group g of the body b is being made parallel; r is the result.
Turning(b, g, T, r, m, a, z, at) ==
  /\ PipelineOk(pipe) /\ g \in DOMAIN pipe.groups /\ BodyOk(b, g)
  /\ T = Targets(b, pipe.groups[g]) /\ Weave(b, T, r, m, a, z, at)

\* The calls that are turned are those of the group; the spawns before them
\* are of earlier groups, and none is behind the first.
LEMMA TurnedLevels ==
  ASSUME NEW b, NEW g, NEW T, NEW r, NEW m, NEW a, NEW z, NEW at, Turning(b, g, T, r, m, a, z, at)
  PROVE  /\ g \in Nat /\ \A i \in Starts(b) : b[i].node \in Nodes(pipe) /\ Level(pipe, b[i].node) \in Nat
         /\ \A i \in T : i \in Starts(b) /\ b[i].op = "call" /\ Level(pipe, b[i].node) = g
         /\ \A i \in DOMAIN b : b[i].op = "spawn" => i < m
<1>1. /\ PipelineOk(pipe) /\ g \in DOMAIN pipe.groups /\ T = Targets(b, pipe.groups[g])
      /\ b \in Seq(AnyIns) /\ Named(b) /\ Levelled(b) /\ Forked(b, g) /\ Weave(b, T, r, m, a, z, at)
  BY DEF Turning, BodyOk
<1>2. \A i \in Starts(b) : b[i].node \in Nodes(pipe)
  BY <1>1 DEF Named
<1>3. g \in Nat /\ \A i \in Starts(b) : Level(pipe, b[i].node) \in Nat
  <2>1. DOMAIN pipe.groups \subseteq Nat
    BY <1>1 DEF PipelineOk
  <2> QED BY <1>1, <1>2, <2>1, LevelIs
<1>4. \A i \in T : i \in Starts(b) /\ b[i].op = "call" /\ b[i].node \in ToSet(pipe.groups[g])
  BY <1>1 DEF Targets, Starts, Candidates
<1>5. \A i \in T : Level(pipe, b[i].node) = g
  BY <1>1, <1>2, <1>4, LevelIs
<1>6. ASSUME NEW i \in DOMAIN b, b[i].op = "spawn" PROVE i < m
  <2>1. i \in Starts(b) /\ Level(pipe, b[i].node) < g
    BY <1>1, <1>6 DEF Starts, Forked
  <2>2. m \in T /\ m \in Starts(b) /\ b[m].op = "call" /\ Level(pipe, b[m].node) = g
    BY <1>1, <1>4, <1>5 DEF Weave
  <2>3. ~(m < i)
    <3> SUFFICES ASSUME m < i PROVE FALSE
      OBVIOUS
    <3>1. Level(pipe, b[m].node) <= Level(pipe, b[i].node)
      BY <1>1, <2>1, <2>2 DEF Levelled
    <3> QED BY <1>3, <2>1, <2>2, <3>1
  <2>4. i # m /\ i \in Nat /\ m \in Nat
    BY <1>1, <1>6, <2>2 DEF Starts
  <2> QED BY <2>3, <2>4
<1> QED BY <1>2, <1>3, <1>4, <1>5, <1>6

\* The scaffold keeps the names.
LEMMA TurnedNamed ==
  ASSUME NEW b, NEW g, NEW T, NEW r, NEW m, NEW a, NEW z, NEW at, Turning(b, g, T, r, m, a, z, at)
  PROVE  Named(r)
<1>1. /\ b \in Seq(AnyIns) /\ Named(b) /\ T = Targets(b, pipe.groups[g]) /\ Weave(b, T, r, m, a, z, at)
  BY DEF Turning, BodyOk
<1>2. \A q \in Starts(r) : at[q] \in Starts(b) /\ r[q].node = b[at[q]].node /\ r[q].id = b[at[q]].id
  BY <1>1, StartsFrom
<1>3. ASSUME NEW i \in Starts(b) PROVE \E q \in Starts(r) : r[q].node = b[i].node
  <2>1. /\ DOMAIN b = 1 .. Len(b) /\ DOMAIN r = 1 .. Len(r) /\ i \in 1 .. Len(b) /\ m \in 1 .. Len(b)
        /\ a \in Nat /\ z \in Nat /\ Len(r) \in Nat /\ m < a /\ a <= z /\ z <= Len(r) /\ Len(b) \in Nat
    <3>1. i \in DOMAIN b
      BY DEF Starts
    <3> QED BY <1>1, <3>1, WeavePlaces
  <2>2. b[i].op \in {"call", "spawn"} /\ b[i] \in AnyIns
    BY <1>1 DEF Starts
  <2>3. CASE i \in T
    <3>1. PICK q \in m .. a - 1 : at[q] = i
      BY <1>1, <2>3 DEF Weave
    <3>2. r[q] = StageSpawn(b[i]) /\ q \in 1 .. Len(r)
      <4>1. r[q] = StageSpawn(b[i])
        BY <1>1, <3>1 DEF Weave
      <4>2. q \in 1 .. Len(r)
        BY <2>1
      <4> QED BY <4>1, <4>2
    <3>3. r[q].op = "spawn" /\ r[q].node = b[i].node
      BY <2>2, <3>2, SpawnIs
    <3> QED BY <2>1, <3>2, <3>3 DEF Starts
  <2>4. CASE i < m
    <3>1. r[i] = b[i] /\ i \in 1 .. Len(r)
      <4>1. i \in 1 .. m - 1 /\ i \in 1 .. Len(r)
        BY <2>1, <2>4
      <4> QED BY <1>1, <4>1 DEF Weave
    <3> QED BY <2>1, <2>2, <3>1 DEF Starts
  <2>5. CASE i \in (m .. Len(b)) \ T
    <3>1. PICK q \in z + 1 .. Len(r) : at[q] = i
      BY <1>1, <2>5 DEF Weave
    <3>2. r[q] = b[i] /\ q \in 1 .. Len(r)
      BY <1>1, <2>1, <3>1 DEF Weave
    <3> QED BY <2>1, <2>2, <3>2 DEF Starts
  <2> QED BY <2>1, <2>3, <2>4, <2>5
<1>4. \A n \in CodeNodes(pipe) : \E q \in Starts(r) : r[q].node = n
  BY <1>1, <1>3 DEF Named
<1>5. \A q \in Starts(r) : r[q].node \in Nodes(pipe)
  BY <1>1, <1>2 DEF Named
<1>6. \A q, t \in Starts(r) : r[q].id = r[t].id => r[q].node = r[t].node
  BY <1>1, <1>2 DEF Named
<1> QED BY <1>4, <1>5, <1>6 DEF Named

\* The scaffold keeps the order of the groups.
LEMMA TurnedLevelled ==
  ASSUME NEW b, NEW g, NEW T, NEW r, NEW m, NEW a, NEW z, NEW at, Turning(b, g, T, r, m, a, z, at)
  PROVE  Levelled(r)
<1>1. /\ b \in Seq(AnyIns) /\ Levelled(b) /\ T = Targets(b, pipe.groups[g]) /\ Weave(b, T, r, m, a, z, at)
  BY DEF Turning, BodyOk
<1> SUFFICES ASSUME NEW q \in Starts(r), NEW t \in Starts(r), q < t
             PROVE  Level(pipe, r[q].node) <= Level(pipe, r[t].node)
  BY DEF Levelled
<1> DEFINE From(x) ==
             /\ at[x] \in Starts(b) /\ r[x].node = b[at[x]].node
             /\ \/ x \in 1 .. m - 1 /\ at[x] = x
                \/ x \in m .. a - 1 /\ at[x] \in T
                \/ x \in z + 1 .. Len(r) /\ at[x] \in (m .. Len(b)) \ T
<1>2. From(q) /\ From(t)
  BY <1>1, StartsFrom
<1>3. /\ g \in Nat /\ \A i \in Starts(b) : Level(pipe, b[i].node) \in Nat
      /\ \A i \in T : i \in Starts(b) /\ Level(pipe, b[i].node) = g
  BY TurnedLevels
<1>4. \A i, j \in Starts(b) : i <= j => Level(pipe, b[i].node) <= Level(pipe, b[j].node)
  <2> SUFFICES ASSUME NEW i \in Starts(b), NEW j \in Starts(b), i <= j
               PROVE  Level(pipe, b[i].node) <= Level(pipe, b[j].node)
    OBVIOUS
  <2>1. i \in Nat /\ j \in Nat
    BY <1>1 DEF Starts
  <2>2. CASE i = j
    BY <1>3, <2>2
  <2>3. CASE i < j
    BY <1>1, <2>3 DEF Levelled
  <2> QED BY <2>1, <2>2, <2>3
<1>5. /\ m \in T /\ (\A i \in T : m <= i) /\ m \in Nat /\ a \in Nat /\ z \in Nat /\ m < a /\ a <= z
      /\ Len(r) \in Nat /\ Len(b) \in Nat /\ q \in Nat /\ t \in Nat /\ T \subseteq Nat
  <2>1. m \in T /\ \A i \in T : m <= i
    BY <1>1 DEF Weave
  <2>2. T \subseteq DOMAIN b /\ q \in DOMAIN r /\ t \in DOMAIN r
    BY <1>1 DEF Targets, Starts
  <2> QED BY <1>1, <2>1, <2>2, WeavePlaces
<1>6. CASE q \in 1 .. m - 1
  <2>1. at[q] = q /\ at[t] \in Nat
    BY <1>1, <1>2, <1>5, <1>6 DEF Starts
  <2>2. at[q] <= at[t]
    BY <1>2, <1>5, <1>6, <2>1
  <2> QED BY <1>2, <1>4, <2>2
<1>7. CASE q \in m .. a - 1 /\ t \in m .. a - 1
  <2>1. at[q] \in T /\ at[t] \in T
    BY <1>2, <1>5, <1>7
  <2> QED BY <1>2, <1>3, <2>1
<1>8. CASE q \in m .. a - 1 /\ t \in z + 1 .. Len(r)
  <2>1. at[q] \in T /\ m <= at[t]
    BY <1>2, <1>5, <1>8
  <2>2. Level(pipe, b[m].node) = g /\ Level(pipe, b[at[q]].node) = g /\ m \in Starts(b)
    BY <1>3, <1>5, <2>1
  <2>3. Level(pipe, b[m].node) <= Level(pipe, b[at[t]].node)
    BY <1>2, <1>4, <2>1, <2>2
  <2> QED BY <1>2, <2>2, <2>3
<1>9. CASE q \in z + 1 .. Len(r) /\ t \in z + 1 .. Len(r)
  <2>1. at[q] < at[t]
    BY <1>1, <1>9 DEF Weave
  <2> QED BY <1>1, <1>2, <2>1 DEF Levelled
<1>10. \/ q \in 1 .. m - 1
       \/ q \in m .. a - 1 /\ t \in m .. a - 1
       \/ q \in m .. a - 1 /\ t \in z + 1 .. Len(r)
       \/ q \in z + 1 .. Len(r) /\ t \in z + 1 .. Len(r)
  BY <1>2, <1>5
<1> QED BY <1>6, <1>7, <1>8, <1>9, <1>10
\* The spawns of the scaffold are joined, the earlier ones where they were.
LEMMA TurnedForked ==
  ASSUME NEW b, NEW g, NEW T, NEW r, NEW m, NEW a, NEW z, NEW at, Turning(b, g, T, r, m, a, z, at)
  PROVE  Forked(r, g + 1)
<1>1. /\ b \in Seq(AnyIns) /\ Named(b) /\ Forked(b, g) /\ T = Targets(b, pipe.groups[g]) /\ Weave(b, T, r, m, a, z, at)
  BY DEF Turning, BodyOk
<1>2. /\ g \in Nat /\ \A i \in Starts(b) : Level(pipe, b[i].node) \in Nat
      /\ \A i \in T : i \in Starts(b) /\ b[i].op = "call" /\ Level(pipe, b[i].node) = g
      /\ \A i \in DOMAIN b : b[i].op = "spawn" => i < m
  BY TurnedLevels
<1>3. /\ m \in Nat /\ a \in Nat /\ z \in Nat /\ Len(b) \in Nat /\ Len(r) \in Nat
      /\ DOMAIN b = 1 .. Len(b) /\ DOMAIN r = 1 .. Len(r)
      /\ 1 <= m /\ m <= Len(b) /\ m < a /\ a <= z /\ z <= Len(r)
  BY <1>1, WeavePlaces
<1>4. /\ m \in T /\ r[a].op = "await" /\ ToSet(r[a].args) = {Task(b[i].id) : i \in T}
      /\ \A q \in 1 .. m - 1 : r[q] = b[q]
      /\ \A q \in m .. a - 1 : at[q] \in T /\ r[q] = StageSpawn(b[at[q]])
  BY <1>1 DEF Weave
<1>5. \A i \in T : /\ b[i] \in AnyIns /\ StageSpawn(b[i]).op = "spawn" /\ StageSpawn(b[i]).id = b[i].id
                   /\ StageSpawn(b[i]).node = b[i].node /\ StageSpawn(b[i]).def = Task(b[i].id)
  <2>1. \A i \in T : b[i] \in AnyIns
    BY <1>1, <1>2 DEF Starts
  <2> QED BY <2>1, SpawnIs
<1>6. ASSUME NEW q \in DOMAIN r, r[q].op = "spawn"
      PROVE  \/ q \in 1 .. m - 1 /\ r[q] = b[q]
             \/ q \in m .. a - 1 /\ at[q] \in T /\ r[q] = StageSpawn(b[at[q]])
  <2>1. q \in Starts(r)
    BY <1>6 DEF Starts
  <2>2. CASE q \in z + 1 .. Len(r) /\ at[q] \in (m .. Len(b)) \ T /\ r[q] = b[at[q]]
    <3>1. at[q] \in DOMAIN b /\ m <= at[q] /\ b[at[q]].op = "spawn"
      BY <1>3, <1>6, <2>2
    <3>2. at[q] \in Nat /\ at[q] < m
      BY <1>2, <1>3, <3>1
    <3> QED BY <1>3, <3>1, <3>2
  <2>3. \/ q \in 1 .. m - 1 /\ at[q] = q /\ r[q] = b[q]
        \/ q \in m .. a - 1 /\ at[q] \in T /\ r[q] = StageSpawn(b[at[q]])
        \/ q \in z + 1 .. Len(r) /\ at[q] \in (m .. Len(b)) \ T /\ r[q] = b[at[q]]
    BY <1>1, <2>1, StartsFrom
  <2> QED BY <2>2, <2>3
<1>7. ASSUME NEW q \in 1 .. m - 1, r[q].op = "spawn"
      PROVE  r[q].def = Task(r[q].id) /\ Level(pipe, r[q].node) < g + 1 /\ \E j \in DOMAIN r : Joined(r, q, j)
  <2>1. r[q] = b[q] /\ q \in DOMAIN b /\ q \in Nat /\ b[q].op = "spawn" /\ q \in Starts(b)
    BY <1>3, <1>4, <1>7 DEF Starts
  <2>2. b[q].def = Task(b[q].id) /\ Level(pipe, b[q].node) < g
    BY <1>1, <2>1 DEF Forked
  <2>3. PICK j \in DOMAIN b : Joined(b, q, j)
    BY <1>1, <2>1 DEF Forked
  <2>4. j \in Nat /\ q < j /\ b[j].op = "await"
    BY <1>3, <2>3 DEF Joined
  <2>5. j < m
    <3>1. b[m].op = "call"
      BY <1>2, <1>4
    <3>2. ~(m <= j - 1)
      <4>1. m <= j - 1 => m \in q .. j - 1
        BY <1>3, <2>1, <2>4
      <4>2. m \in q .. j - 1 => b[m].op = "spawn"
        BY <2>3 DEF Joined
      <4> QED BY <3>1, <4>1, <4>2
    <3>3. j # m
      BY <2>4, <3>1
    <3> QED BY <1>3, <2>4, <3>2, <3>3
  <2>6. j \in 1 .. m - 1 /\ r[j] = b[j] /\ j \in DOMAIN r
    BY <1>3, <1>4, <2>4, <2>5
  <2>7. \A k \in q .. j - 1 : r[k].op = "spawn" /\ Level(pipe, r[k].node) = Level(pipe, r[q].node)
    <3>1. \A k \in q .. j - 1 : k \in 1 .. m - 1
      BY <1>3, <2>1, <2>4, <2>5
    <3> QED BY <1>4, <2>1, <2>3, <3>1 DEF Joined
  <2>8. ASSUME NEW k \in DOMAIN r, r[k].op = "spawn", r[k].def = r[q].def PROVE k < j
    <3>1. CASE k \in 1 .. m - 1 /\ r[k] = b[k]
      <4>1. k \in DOMAIN b /\ b[k].op = "spawn" /\ b[k].def = b[q].def
        BY <1>3, <2>1, <2>8, <3>1
      <4> QED BY <2>3, <4>1 DEF Joined
    <3>2. CASE k \in m .. a - 1 /\ at[k] \in T /\ r[k] = StageSpawn(b[at[k]])
      <4>1. r[k].def = Task(b[at[k]].id) /\ at[k] \in Starts(b) /\ Level(pipe, b[at[k]].node) = g
        BY <1>2, <1>5, <3>2
      <4>2. Task(b[at[k]].id) = Task(b[q].id)
        BY <2>1, <2>2, <2>8, <4>1
      <4>3. b[at[k]].id = b[q].id
        BY <4>2, HandlesDiffer
      <4>4. b[at[k]].node = b[q].node
        BY <1>1, <2>1, <4>1, <4>3 DEF Named
      <4>5. Level(pipe, b[q].node) \in Nat /\ Level(pipe, b[q].node) = g
        BY <1>2, <4>1, <4>4
      <4> QED BY <1>2, <2>2, <4>5
    <3> QED BY <1>6, <2>8, <3>1, <3>2
  <2>9. Joined(r, q, j)
    BY <2>1, <2>3, <2>4, <2>6, <2>7, <2>8 DEF Joined
  <2>10. Level(pipe, r[q].node) < g + 1
    <3>1. Level(pipe, b[q].node) \in Nat
      BY <1>2, <2>1
    <3> QED BY <1>2, <2>1, <2>2, <3>1
  <2> QED BY <2>1, <2>2, <2>6, <2>9, <2>10
<1>8. ASSUME NEW q \in m .. a - 1
      PROVE  r[q].def = Task(r[q].id) /\ Level(pipe, r[q].node) < g + 1 /\ \E j \in DOMAIN r : Joined(r, q, j)
  <2>1. \A k \in m .. a - 1 : /\ r[k].op = "spawn" /\ Level(pipe, r[k].node) = g /\ r[k].def = Task(r[k].id)
                              /\ r[k].def \in ToSet(r[a].args)
    <3> SUFFICES ASSUME NEW k \in m .. a - 1
                 PROVE  /\ r[k].op = "spawn" /\ Level(pipe, r[k].node) = g /\ r[k].def = Task(r[k].id)
                        /\ r[k].def \in ToSet(r[a].args)
      OBVIOUS
    <3>1. at[k] \in T /\ r[k] = StageSpawn(b[at[k]])
      BY <1>4
    <3>2. r[k].op = "spawn" /\ r[k].id = b[at[k]].id /\ r[k].node = b[at[k]].node /\ r[k].def = Task(b[at[k]].id)
      BY <1>5, <3>1
    <3> QED BY <1>2, <1>4, <3>1, <3>2
  <2>2. a \in DOMAIN r /\ q < a /\ q \in Nat /\ \A k \in q .. a - 1 : k \in m .. a - 1
    BY <1>3
  <2>3. ASSUME NEW k \in DOMAIN r, r[k].op = "spawn" PROVE k < a
    <3>1. k \in 1 .. m - 1 \/ k \in m .. a - 1
      BY <1>6, <2>3
    <3> QED BY <1>3, <3>1
  <2>4. Joined(r, q, a)
    BY <1>4, <2>1, <2>2, <2>3 DEF Joined
  <2> QED BY <1>2, <2>1, <2>2, <2>4
<1>9. ASSUME NEW q \in DOMAIN r, r[q].op = "spawn" PROVE q \in 1 .. m - 1 \/ q \in m .. a - 1
  BY <1>6, <1>9
<1> QED BY <1>7, <1>8, <1>9 DEF Forked

\* The return is still last.
LEMMA TurnedEnds ==
  ASSUME NEW b, NEW g, NEW T, NEW r, NEW m, NEW a, NEW z, NEW at, Turning(b, g, T, r, m, a, z, at)
  PROVE  Ends(r)
<1>1. b \in Seq(AnyIns) /\ Ends(b) /\ Weave(b, T, r, m, a, z, at) /\ \A i \in T : b[i].op = "call"
  BY TurnedLevels DEF Turning, BodyOk
<1>2. /\ m \in Nat /\ a \in Nat /\ z \in Nat /\ Len(b) \in Nat /\ Len(r) \in Nat
      /\ DOMAIN b = 1 .. Len(b) /\ DOMAIN r = 1 .. Len(r)
      /\ 1 <= m /\ m <= Len(b) /\ m < a /\ a <= z /\ z <= Len(r)
  BY <1>1, WeavePlaces
<1>3. Len(b) \notin T
  BY <1>1 DEF Ends
<1>4. Len(b) \in (m .. Len(b)) \ T
  BY <1>2, <1>3
<1>5. PICK q \in z + 1 .. Len(r) : at[q] = Len(b)
  BY <1>1, <1>4 DEF Weave
<1>6. q = Len(r)
  <2>1. q \in Int /\ q <= Len(r)
    BY <1>2
  <2>2. ~(q < Len(r))
    <3> SUFFICES ASSUME q < Len(r) PROVE FALSE
      OBVIOUS
    <3>1. Len(r) \in z + 1 .. Len(r)
      BY <1>2, <2>1
    <3>2. at[q] < at[Len(r)] /\ at[Len(r)] \in m .. Len(b)
      BY <1>1, <3>1 DEF Weave
    <3> QED BY <1>2, <1>5, <3>2
  <2>3. Len(r) \in Int
    BY <1>2
  <2> QED BY <2>1, <2>2, <2>3
<1>7. r[Len(r)] = b[Len(b)]
  BY <1>1, <1>5, <1>6 DEF Weave
<1> QED BY <1>1, <1>2, <1>7 DEF Ends

\* Every operand of the scaffold is still there where it is used.
LEMMA TurnedOperands ==
  ASSUME NEW b, NEW g, NEW T, NEW r, NEW m, NEW a, NEW z, NEW at, Turning(b, g, T, r, m, a, z, at),
         OperandsReady(b, T)
  PROVE  OperandsIn(r)
<1>1. b \in Seq(AnyIns) /\ OperandsIn(b) /\ Weave(b, T, r, m, a, z, at) /\ T = Targets(b, pipe.groups[g])
  BY DEF Turning, BodyOk
<1>2. /\ m \in Nat /\ a \in Nat /\ z \in Nat /\ Len(b) \in Nat /\ Len(r) \in Nat
      /\ DOMAIN b = 1 .. Len(b) /\ DOMAIN r = 1 .. Len(r)
      /\ 1 <= m /\ m <= Len(b) /\ m < a /\ a <= z /\ z <= Len(r)
  BY <1>1, WeavePlaces
<1>3. \A i \in T : i \in 1 .. Len(b) /\ b[i] \in AnyIns /\ m <= i
  <2>1. \A i \in T : i \in DOMAIN b
    BY <1>1 DEF Targets
  <2> QED BY <1>1, <1>2, <2>1 DEF Weave
<1>4. Min(T) = m
  <2>1. T \subseteq Nat /\ T # {} /\ m \in T
    BY <1>1, <1>3 DEF Weave
  <2>2. Min(T) \in T /\ \A y \in T : Min(T) <= y
    BY <2>1, LeastIn
  <2>3. Min(T) <= m /\ m <= Min(T) /\ Min(T) \in Nat
    BY <1>3, <2>1, <2>2
  <2> QED BY <1>2, <2>3
\* What is there before m stays there.
<1>5. ASSUME NEW v, NEW i \in 1 .. m, NEW q \in Nat, i <= q, Dominates(b, v, i) PROVE Dominates(r, v, q)
  <2>1. CASE v[1] = "param"
    BY <2>1 DEF Dominates
  <2>2. ASSUME NEW j \in 1 .. i - 1, b[j].def = v PROVE Dominates(r, v, q)
    <3>1. j \in 1 .. m - 1 /\ j \in 1 .. q - 1
      BY <1>2, <1>5
    <3>2. r[j] = b[j]
      BY <1>1, <3>1 DEF Weave
    <3> QED BY <2>2, <3>1, <3>2 DEF Dominates
  <2> QED BY <1>5, <2>1, <2>2 DEF Dominates
<1> SUFFICES ASSUME NEW q \in 1 .. Len(r), NEW v \in ToSet(r[q].args) PROVE Dominates(r, v, q)
  BY <1>2 DEF OperandsIn
<1>6. CASE q \in 1 .. m - 1
  <2>1. r[q] = b[q] /\ q \in DOMAIN b /\ q \in 1 .. m /\ q \in Nat
    BY <1>1, <1>2, <1>6 DEF Weave
  <2>2. Dominates(b, v, q)
    BY <1>1, <2>1 DEF OperandsIn
  <2> QED BY <1>5, <2>1, <2>2
<1>7. CASE q \in m .. a - 1
  <2>1. at[q] \in T /\ r[q] = StageSpawn(b[at[q]])
    BY <1>1, <1>7 DEF Weave
  <2>2. v \in ToSet(b[at[q]].args)
    BY <1>3, <2>1, SpawnIs
  <2>3. Dominates(b, v, m)
    BY <1>4, <2>1, <2>2 DEF OperandsReady
  <2>4. m \in 1 .. m /\ q \in Nat /\ m <= q
    BY <1>2, <1>7
  <2> QED BY <1>5, <2>3, <2>4
<1>8. CASE q = a
  <2>1. PICK i \in T : v = Task(b[i].id)
    BY <1>1, <1>8 DEF Weave
  <2>2. PICK t \in m .. a - 1 : at[t] = i
    BY <1>1, <2>1 DEF Weave
  <2>3. r[t] = StageSpawn(b[i])
    BY <1>1, <2>2 DEF Weave
  <2>4. r[t].def = v
    BY <1>3, <2>1, <2>3, SpawnIs
  <2>5. t \in 1 .. q - 1
    BY <1>2, <1>8
  <2> QED BY <2>4, <2>5 DEF Dominates
<1>9. CASE q \in a + 1 .. z
  <2>1. r[q] = Fetch(b[at[q]])
    BY <1>1, <1>9 DEF Weave
  <2>2. r[q].args = << >>
    BY <2>1 DEF Fetch, Ins
  <2>3. ToSet(<< >>) = {}
    BY DEF ToSet
  <2> QED BY <2>2, <2>3
<1>10. CASE q \in z + 1 .. Len(r)
  <2>1. at[q] \in (m .. Len(b)) \ T /\ r[q] = b[at[q]]
    BY <1>1, <1>10 DEF Weave
  <2>2. at[q] \in 1 .. Len(b) /\ m <= at[q] /\ at[q] \in Nat /\ q \in Nat
    BY <1>2, <2>1
  <2>3. Dominates(b, v, at[q])
    BY <1>1, <1>2, <2>1, <2>2 DEF OperandsIn
  <2>4. CASE v[1] = "param"
    BY <2>4 DEF Dominates
  <2>5. ASSUME NEW j \in 1 .. at[q] - 1, b[j].def = v PROVE Dominates(r, v, q)
    <3>1. CASE j < m
      <4>1. j \in 1 .. m - 1 /\ j \in 1 .. q - 1
        BY <1>2, <1>10, <3>1
      <4>2. r[j] = b[j]
        BY <1>1, <4>1 DEF Weave
      <4> QED BY <2>5, <4>1, <4>2 DEF Dominates
    <3>2. CASE m <= j /\ j \notin T
      <4>1. j \in (m .. Len(b)) \ T
        BY <1>2, <2>2, <3>2
      <4>2. PICK t \in z + 1 .. Len(r) : at[t] = j
        BY <1>1, <4>1 DEF Weave
      <4>3. r[t] = b[j]
        BY <1>1, <4>2 DEF Weave
      <4>4. t < q
        <5> SUFFICES ASSUME ~(t < q) PROVE FALSE
          OBVIOUS
        <5>1. q < t \/ q = t
          BY <1>2
        <5>2. q < t => at[q] < at[t]
          BY <1>1, <1>10 DEF Weave
        <5> QED BY <2>2, <4>2, <5>1, <5>2
      <4>5. t \in 1 .. q - 1
        BY <1>2, <4>4
      <4> QED BY <2>5, <4>3, <4>5 DEF Dominates
    <3>3. CASE j \in T /\ v # None
      <4>1. PICK t \in a + 1 .. z : at[t] = j
        BY <1>1, <2>5, <3>3 DEF Weave
      <4>2. r[t] = Fetch(b[j])
        BY <1>1, <4>1 DEF Weave
      <4>3. r[t].def = v
        BY <2>5, <4>2 DEF Fetch, Ins
      <4>4. t \in 1 .. q - 1
        BY <1>2, <1>10
      <4> QED BY <4>3, <4>4 DEF Dominates
    <3>4. CASE v = None
      <4>1. r[a].def = None
        BY <1>1 DEF Weave
      <4>2. a \in 1 .. q - 1
        BY <1>2, <1>10
      <4> QED BY <3>4, <4>1, <4>2 DEF Dominates
    <3> QED BY <1>2, <2>2, <3>1, <3>2, <3>3, <3>4
  <2> QED BY <2>3, <2>4, <2>5 DEF Dominates
<1>11. q \in 1 .. m - 1 \/ q \in m .. a - 1 \/ q = a \/ q \in a + 1 .. z \/ q \in z + 1 .. Len(r)
  BY <1>2
<1> QED BY <1>6, <1>7, <1>8, <1>9, <1>10, <1>11

\* A group made parallel, or left as it is.
LEMMA GroupedOk ==
  ASSUME PipelineOk(pipe), NEW g \in DOMAIN pipe.groups, NEW b, BodyOk(b, g)
  PROVE  BodyOk(Grouped(b, pipe.groups[g]), g + 1)
<1> DEFINE T == Targets(b, pipe.groups[g])  r == Scaffold(b, T)
<1>1. b \in Seq(AnyIns) /\ g \in Nat
  <2>1. DOMAIN pipe.groups \subseteq Nat
    BY DEF PipelineOk
  <2> QED BY <2>1 DEF BodyOk
<1>2. CASE T # {} /\ OperandsReady(b, T)
  <2>1. PICK a, z, at : Weave(b, T, r, Min(T), a, z, at)
    BY <1>1, <1>2, ScaffoldIs
  <2>2. Turning(b, g, T, r, Min(T), a, z, at)
    BY <2>1 DEF Turning
  <2>3. OperandsIn(r) /\ Ends(r) /\ Named(r) /\ Levelled(r) /\ Forked(r, g + 1)
    BY <1>2, <2>2, TurnedOperands, TurnedEnds, TurnedNamed, TurnedLevelled, TurnedForked
  <2>4. r \in Seq(AnyIns)
    BY <2>1 DEF Weave
  <2>5. Grouped(b, pipe.groups[g]) = r
    BY <1>2 DEF Grouped
  <2> QED BY <2>3, <2>4, <2>5 DEF BodyOk
<1>3. CASE ~ (T # {} /\ OperandsReady(b, T))
  <2>1. Grouped(b, pipe.groups[g]) = b
    BY <1>3 DEF Grouped
  <2> QED BY <1>1, <2>1, LaterGroup
<1> QED BY <1>2, <1>3
-----------------------------------------------------------------------------
(***************************************************************************)
(* The code that is generated for a pipeline.                              *)
(***************************************************************************)
Params == {v \in Vals : v[1] = "param"}
Matches(V, U) == [ok : BOOLEAN, args : Seq(V), used : U]

LEMMA MatchIs ==
  ASSUME NEW V, NEW U, NEW as \in Seq(V), NEW u \in U PROVE Matched(as, u) \in Matches(V, U)
BY DEF Matched, Matches

LEMMA FailedIs == ASSUME NEW V, NEW U, {} \in U PROVE Failed \in Matches(V, U)
BY DEF Failed, Matches

LEMMA ParamIs == ASSUME NEW i \in Nat PROVE Param(i) \in Params
BY DEF Params, Vals, Param

LEMMA ByTypeStays ==
  ASSUME NEW t, NEW m \in Matches(Params, {{}}), pipe.params \in Seq(STRING)
  PROVE  ByType(m, t) \in Matches(Params, {{}})
<1> DEFINE free == {k \in DOMAIN pipe.params : pipe.params[k] = t /\ Param(k) \notin ToSet(m.args)}
           i == Len(m.args) + 1
<1>1. m.args \in Seq(Params) /\ {} \in {{}}
  BY DEF Matches
<1>2. \A k \in Nat : Matched(Append(m.args, Param(k)), {}) \in Matches(Params, {{}})
  <2>1. \A k \in Nat : Append(m.args, Param(k)) \in Seq(Params)
    BY <1>1, ParamIs, AppendProperties
  <2> QED BY <1>1, <2>1, MatchIs
<1>3. free # {} => Min(free) \in Nat
  <2>1. free \subseteq Nat
    OBVIOUS
  <2> QED BY <2>1, LeastIn
<1>4. i \in Nat
  BY <1>1
<1>5. Failed \in Matches(Params, {{}})
  BY <1>1, FailedIs
<1>6. ByType(m, t) = IF ~ m.ok THEN m
                     ELSE IF free # {} THEN Matched(Append(m.args, Param(Min(free))), {})
                     ELSE IF i <= Len(pipe.params) THEN Matched(Append(m.args, Param(i)), {})
                     ELSE Failed
  BY DEF ByType
<1> HIDE DEF free, i
<1> QED BY <1>2, <1>3, <1>4, <1>5, <1>6

\* The arguments of a source are matched one after the other.
LEMMA SourceArgsGo ==
  ASSUME NEW x \in Nodes(pipe), PipelineOk(pipe)
  PROVE  \E w : /\ w \in [0 .. Len(LParams(x)) -> Matches(Params, {{}})] /\ w[0] = Matched(<< >>, {})
                /\ \A j \in 1 .. Len(LParams(x)) : w[j] = ByType(w[j - 1], LParams(x)[j])
                /\ SourceArgs(x) = w[Len(LParams(x))]
<1> DEFINE n == Len(LParams(x))
           F == [p \in (Matches(Params, {{}})) \X (1 .. n) |-> ByType(p[1], LParams(x)[p[2]])]
           Runs(G) == G = [t \in SUBSET (DOMAIN LParams(x)) |-> IF t = {} THEN Matched(<< >>, {}) ELSE ByType(G[t \ {Max(t)}], LParams(x)[Max(t)])]
           I == CHOOSE G : Runs(G)
<1>1. n \in Nat /\ DOMAIN LParams(x) = 1 .. n /\ Matched(<< >>, {}) \in Matches(Params, {{}})
  <2>1. pipe.sig[x].params \in Seq(STRING \ {"void"})
    BY DEF PipelineOk
  <2>2. pipe.sig[x].params \in Seq(STRING \cup {"ptr"}) /\ <<"ptr">> \in Seq(STRING \cup {"ptr"})
        /\ << >> \in Seq(STRING \cup {"ptr"})
    BY <2>1, SeqMonotonic
  <2>3. LParams(x) \in Seq(STRING \cup {"ptr"})
    BY <2>2, ConcatProperties DEF LParams
  <2>4. Matched(<< >>, {}) \in Matches(Params, {{}})
    <3>1. << >> \in Seq(Params) /\ {} \in {{}}
      OBVIOUS
    <3> QED BY <3>1, MatchIs
  <2> QED BY <2>3, <2>4
<1>2. SourceArgs(x) = I[DOMAIN LParams(x)]
  BY DEF SourceArgs, FoldLeft, MapThenFoldSet
<1>3. \A a \in Matches(Params, {{}}), j \in 1 .. n : ByType(a, LParams(x)[j]) \in Matches(Params, {{}})
  <2>1. pipe.params \in Seq(STRING)
    BY DEF PipelineOk
  <2> QED BY <2>1, ByTypeStays
<1>4. \A a \in Matches(Params, {{}}), j \in 1 .. n : F[<<a, j>>] = ByType(a, LParams(x)[j])
  <2> HIDE DEF n
  <2> QED OBVIOUS
<1>5. F \in [(Matches(Params, {{}})) \X (1 .. n) -> Matches(Params, {{}})]
  <2>1. \A p \in (Matches(Params, {{}})) \X (1 .. n) : ByType(p[1], LParams(x)[p[2]]) \in Matches(Params, {{}})
    BY <1>3
  <2> HIDE DEF n
  <2> QED BY <2>1
<1> HIDE DEF F, n
<1>6. PICK H \in [SUBSET (1 .. n) -> Matches(Params, {{}})] : Folding(n, Matched(<< >>, {}), F, H)
  BY <1>1, <1>5, FoldingExists
<1>7. Runs(H)
  <2>1. ASSUME NEW t \in SUBSET (1 .. n) PROVE H[t] = IF t = {} THEN Matched(<< >>, {}) ELSE ByType(H[t \ {Max(t)}], LParams(x)[Max(t)])
    <3>1. CASE t # {}
      <4>1. Max(t) \in 1 .. n /\ t \ {Max(t)} \in SUBSET (1 .. n)
        BY <1>1, <3>1, GreatestIn
      <4>2. H[t \ {Max(t)}] \in Matches(Params, {{}})
        BY <4>1
      <4>3. H[t] = F[<<H[t \ {Max(t)}], Max(t)>>]
        BY <1>6, <3>1 DEF Folding
      <4> QED BY <1>4, <3>1, <4>1, <4>2, <4>3
    <3>2. CASE t = {}
      BY <1>6, <3>2 DEF Folding
    <3> QED BY <3>1, <3>2
  <2>2. H = [t \in SUBSET (1 .. n) |-> H[t]]
    OBVIOUS
  <2>3. H = [t \in SUBSET (1 .. n) |-> IF t = {} THEN Matched(<< >>, {}) ELSE ByType(H[t \ {Max(t)}], LParams(x)[Max(t)])]
    BY <2>1, <2>2
  <2> QED BY <1>1, <2>3
<1>8. Runs(I)
  <2> HIDE DEF Runs
  <2> QED BY <1>7
<1> HIDE DEF I, Runs
<1>9. Stepping(n, Matches(Params, {{}}), Matched(<< >>, {}), F, I)
  <2>1. {} \in SUBSET (1 .. n) /\ \A j \in 1 .. n : 1 .. j \in SUBSET (1 .. n)
    BY <1>1
  <2>2. \A j \in 1 .. n : 1 .. j # {} /\ Max(1 .. j) = j /\ (1 .. j) \ {Max(1 .. j)} = 1 .. (j - 1)
    BY <1>1, Shortened
  <2>3. I[{}] = Matched(<< >>, {}) /\ \A j \in 1 .. n : I[1 .. j] = ByType(I[1 .. (j - 1)], LParams(x)[j])
    BY <1>1, <1>8, <2>1, <2>2 DEF Runs
  <2> QED BY <1>4, <2>3 DEF Stepping
<1>10. PICK w : w \in [0 .. n -> Matches(Params, {{}})] /\ Walk(n, Matched(<< >>, {}), F, w) /\ w[n] = I[1 .. n]
  <2>1. \E w : Walks(n, Matches(Params, {{}}), Matched(<< >>, {}), F, w, I[1 .. n])
    BY <1>1, <1>5, <1>9, FoldIs
  <2> QED BY <2>1 DEF Walks
<1>11. \A j \in 1 .. n : w[j] = ByType(w[j - 1], LParams(x)[j])
  <2> SUFFICES ASSUME NEW j \in 1 .. n PROVE w[j] = ByType(w[j - 1], LParams(x)[j])
    OBVIOUS
  <2>1. j - 1 \in 0 .. n
    BY <1>1
  <2> QED BY <1>4, <1>10, <2>1 DEF Walk
<1>12. w[0] = Matched(<< >>, {}) /\ SourceArgs(x) = w[n]
  BY <1>1, <1>2, <1>10 DEF Walk
<1> QED BY <1>10, <1>11, <1>12 DEF n
\* What there is of types: no value is of type void, and structs have fields.
Setting ==
  /\ PipelineOk(pipe) /\ "void" \notin DOMAIN Fields
  /\ \A t \in DOMAIN Fields : Fields[t] \in Seq(STRING)

\* What the stages in outs offer.
Types == STRING \cup {"void"}
Offers(outs) ==
  {o \in [type : Types, from : outs, field : Nat] :
     IF o.field = 0 THEN o.type = OutType(o.from) ELSE OutType(o.from) \in DOMAIN Fields}

LEMMA OutTypeIs == ASSUME Setting, NEW x \in Nodes(pipe) PROVE OutType(x) \in Types
<1>1. pipe.sig[x].ret \in STRING
  BY DEF Setting, PipelineOk
<1> QED BY <1>1 DEF OutType, LRet, Types

LEMMA UpstreamIs ==
  ASSUME Setting, NEW x, NEW outs PROVE Upstream(x, outs) \in Seq(outs)
<1> DEFINE E == {e \in ToSet(pipe.edges) : e[2] = x /\ e[1] \in outs}
           in == Only(pipe.edges, E)
<1>1. pipe.edges \in Seq(Nodes(pipe) \X Nodes(pipe))
  BY DEF Setting, PipelineOk
<1>2. in \in Seq(Nodes(pipe) \X Nodes(pipe)) /\ \E h : Picks(pipe.edges, E, Len(pipe.edges), in, h)
  BY <1>1, OnlyIs
<1>3. \A i \in 1 .. Len(in) : in[i] \in E
  BY <1>2 DEF Picks
<1>4. \A i \in 1 .. Len(in) : in[i][1] \in outs
  BY <1>3
<1>5. DOMAIN in = 1 .. Len(in) /\ Len(in) \in Nat
  BY <1>2
<1>6. Upstream(x, outs) = [i \in DOMAIN in |-> in[i][1]]
  BY DEF Upstream
<1> HIDE DEF in
<1> QED BY <1>4, <1>5, <1>6

LEMMA OfferedIs ==
  ASSUME Setting, NEW outs \in SUBSET Nodes(pipe), NEW u \in outs PROVE Offered(u) \in Seq(Offers(outs))
<1>1. CASE OutType(u) \in DOMAIN Fields
  <2> DEFINE fs == Fields[OutType(u)]
             of == [i \in DOMAIN fs |-> [type |-> fs[i], from |-> u, field |-> i]]
  <2>1. fs \in Seq(STRING)
    BY <1>1 DEF Setting
  <2>2. DOMAIN fs = 1 .. Len(fs) /\ Len(fs) \in Nat /\ \A i \in 1 .. Len(fs) : fs[i] \in Types
    BY <2>1 DEF Types
  <2>3. Offered(u) = of
    BY <1>1 DEF Offered
  <2> HIDE DEF fs
  <2>4. \A i \in 1 .. Len(fs) : [type |-> fs[i], from |-> u, field |-> i] \in Offers(outs)
    BY <1>1, <2>2 DEF Offers
  <2> QED BY <2>2, <2>3, <2>4
<1>2. CASE OutType(u) \notin DOMAIN Fields
  <2>1. OutType(u) \in Types
    BY OutTypeIs
  <2>2. [type |-> OutType(u), from |-> u, field |-> 0] \in Offers(outs)
    BY <2>1 DEF Offers
  <2>3. Offered(u) = <<[type |-> OutType(u), from |-> u, field |-> 0]>>
    BY <1>2 DEF Offered
  <2> QED BY <2>2, <2>3
<1> QED BY <1>1, <1>2

\* What is available is put together one stage after the other.
LEMMA AvailableGo ==
  ASSUME Setting, NEW x, NEW outs \in SUBSET Nodes(pipe)
  PROVE  \E w : /\ w \in [0 .. Len(Upstream(x, outs)) -> Seq(Offers(outs))] /\ w[0] = << >>
                /\ \A j \in 1 .. Len(Upstream(x, outs)) : w[j] = w[j - 1] \o Offered(Upstream(x, outs)[j])
                /\ Available(x, outs) = w[Len(Upstream(x, outs))]
<1> DEFINE n == Len(Upstream(x, outs))
           F == [p \in (Seq(Offers(outs))) \X (1 .. n) |-> p[1] \o Offered(Upstream(x, outs)[p[2]])]
           Runs(G) == G = [t \in SUBSET (DOMAIN Upstream(x, outs)) |-> IF t = {} THEN << >> ELSE G[t \ {Max(t)}] \o Offered(Upstream(x, outs)[Max(t)])]
           I == CHOOSE G : Runs(G)
<1>1. n \in Nat /\ DOMAIN Upstream(x, outs) = 1 .. n /\ << >> \in Seq(Offers(outs))
  <2>1. Upstream(x, outs) \in Seq(outs)
    BY UpstreamIs
  <2> QED BY <2>1
<1>2. Available(x, outs) = I[DOMAIN Upstream(x, outs)]
  BY DEF Available, FoldLeft, MapThenFoldSet
<1>3. \A a \in Seq(Offers(outs)), j \in 1 .. n : a \o Offered(Upstream(x, outs)[j]) \in Seq(Offers(outs))
  <2>1. \A j \in 1 .. n : Offered(Upstream(x, outs)[j]) \in Seq(Offers(outs))
    <3>1. \A j \in 1 .. n : Upstream(x, outs)[j] \in outs
      BY UpstreamIs
    <3> QED BY <3>1, OfferedIs
  <2> QED BY <2>1, ConcatProperties
<1>4. \A a \in Seq(Offers(outs)), j \in 1 .. n : F[<<a, j>>] = a \o Offered(Upstream(x, outs)[j])
  <2> HIDE DEF n
  <2> QED OBVIOUS
<1>5. F \in [(Seq(Offers(outs))) \X (1 .. n) -> Seq(Offers(outs))]
  <2>1. \A p \in (Seq(Offers(outs))) \X (1 .. n) : p[1] \o Offered(Upstream(x, outs)[p[2]]) \in Seq(Offers(outs))
    BY <1>3
  <2> HIDE DEF n
  <2> QED BY <2>1
<1> HIDE DEF F, n
<1>6. PICK H \in [SUBSET (1 .. n) -> Seq(Offers(outs))] : Folding(n, << >>, F, H)
  BY <1>1, <1>5, FoldingExists
<1>7. Runs(H)
  <2>1. ASSUME NEW t \in SUBSET (1 .. n) PROVE H[t] = IF t = {} THEN << >> ELSE H[t \ {Max(t)}] \o Offered(Upstream(x, outs)[Max(t)])
    <3>1. CASE t # {}
      <4>1. Max(t) \in 1 .. n /\ t \ {Max(t)} \in SUBSET (1 .. n)
        BY <1>1, <3>1, GreatestIn
      <4>2. H[t \ {Max(t)}] \in Seq(Offers(outs))
        BY <4>1
      <4>3. H[t] = F[<<H[t \ {Max(t)}], Max(t)>>]
        BY <1>6, <3>1 DEF Folding
      <4> QED BY <1>4, <3>1, <4>1, <4>2, <4>3
    <3>2. CASE t = {}
      BY <1>6, <3>2 DEF Folding
    <3> QED BY <3>1, <3>2
  <2>2. H = [t \in SUBSET (1 .. n) |-> H[t]]
    OBVIOUS
  <2>3. H = [t \in SUBSET (1 .. n) |-> IF t = {} THEN << >> ELSE H[t \ {Max(t)}] \o Offered(Upstream(x, outs)[Max(t)])]
    BY <2>1, <2>2
  <2> QED BY <1>1, <2>3
<1>8. Runs(I)
  <2> HIDE DEF Runs
  <2> QED BY <1>7
<1> HIDE DEF I, Runs
<1>9. Stepping(n, Seq(Offers(outs)), << >>, F, I)
  <2>1. {} \in SUBSET (1 .. n) /\ \A j \in 1 .. n : 1 .. j \in SUBSET (1 .. n)
    BY <1>1
  <2>2. \A j \in 1 .. n : 1 .. j # {} /\ Max(1 .. j) = j /\ (1 .. j) \ {Max(1 .. j)} = 1 .. (j - 1)
    BY <1>1, Shortened
  <2>3. I[{}] = << >> /\ \A j \in 1 .. n : I[1 .. j] = I[1 .. (j - 1)] \o Offered(Upstream(x, outs)[j])
    BY <1>1, <1>8, <2>1, <2>2 DEF Runs
  <2> QED BY <1>4, <2>3 DEF Stepping
<1>10. PICK w : w \in [0 .. n -> Seq(Offers(outs))] /\ Walk(n, << >>, F, w) /\ w[n] = I[1 .. n]
  <2>1. \E w : Walks(n, Seq(Offers(outs)), << >>, F, w, I[1 .. n])
    BY <1>1, <1>5, <1>9, FoldIs
  <2> QED BY <2>1 DEF Walks
<1>11. \A j \in 1 .. n : w[j] = w[j - 1] \o Offered(Upstream(x, outs)[j])
  <2> SUFFICES ASSUME NEW j \in 1 .. n PROVE w[j] = w[j - 1] \o Offered(Upstream(x, outs)[j])
    OBVIOUS
  <2>1. j - 1 \in 0 .. n
    BY <1>1
  <2> QED BY <1>4, <1>10, <2>1 DEF Walk
<1>12. w[0] = << >> /\ Available(x, outs) = w[n]
  BY <1>1, <1>2, <1>10 DEF Walk
<1> QED BY <1>10, <1>11, <1>12 DEF n

LEMMA AvailableIs ==
  ASSUME Setting, NEW x, NEW outs \in SUBSET Nodes(pipe) PROVE Available(x, outs) \in Seq(Offers(outs))
<1>1. Len(Upstream(x, outs)) \in Nat
  BY UpstreamIs
<1>2. PICK w : /\ w \in [0 .. Len(Upstream(x, outs)) -> Seq(Offers(outs))]
               /\ Available(x, outs) = w[Len(Upstream(x, outs))]
  BY AvailableGo
<1>3. Len(Upstream(x, outs)) \in 0 .. Len(Upstream(x, outs))
  BY <1>1
<1> QED BY <1>2, <1>3

\* What the operands of an inner stage may be.
Fed(x, outs) ==
  Params \cup (IF pipe.sig[x].sret THEN {Slot(x)} ELSE {})
         \cup {Offer(x, o) : o \in {o \in ToSet(Available(x, outs)) : o.type # "void"}}

LEMMA OfferIs ==
  ASSUME Setting, NEW x \in Nodes(pipe), NEW outs \in SUBSET Nodes(pipe), NEW o \in Offers(outs)
  PROVE  Offer(x, o) \in Vals
<1>1. o.from \in Names /\ x \in Names /\ o.field \in Nat
  BY DEF Offers, Names, Setting, PipelineOk
<1> QED BY <1>1, ValsHold DEF Offer, Extract, Ins

LEMMA FeedStays ==
  ASSUME Setting, NEW x \in Nodes(pipe), NEW outs \in SUBSET Nodes(pipe), NEW t, t # "void",
         NEW m \in Matches(Fed(x, outs), SUBSET Nat)
  PROVE  Feed(x, Available(x, outs), m, t) \in Matches(Fed(x, outs), SUBSET Nat)
<1> DEFINE avail == Available(x, outs)  V == Fed(x, outs)
           free == {v \in DOMAIN avail \ m.used : avail[v].type = t}
           pars == {k \in DOMAIN pipe.params : pipe.params[k] = t}
<1>1. m.args \in Seq(V) /\ m.used \in SUBSET Nat /\ {} \in SUBSET Nat
  BY DEF Matches
<1>2. avail \in Seq(Offers(outs))
  BY AvailableIs
<1>3. free # {} => Min(free) \in free /\ Min(free) \in Nat
  <2>1. free \subseteq Nat
    BY <1>2
  <2> QED BY <2>1, LeastIn
<1>4. free # {} => Offer(x, avail[Min(free)]) \in V
  <2> SUFFICES ASSUME free # {} PROVE Offer(x, avail[Min(free)]) \in V
    OBVIOUS
  <2>1. Min(free) \in DOMAIN avail /\ avail[Min(free)].type # "void"
    BY <1>3
  <2>2. avail[Min(free)] \in ToSet(avail)
    BY <2>1 DEF ToSet
  <2> QED BY <2>1, <2>2 DEF Fed
<1>5. pars # {} => Param(Min(pars)) \in V
  <2>1. pipe.params \in Seq(STRING)
    BY DEF Setting, PipelineOk
  <2>2. pars \subseteq Nat
    BY <2>1
  <2>3. pars # {} => Min(pars) \in Nat
    BY <2>2, LeastIn
  <2> QED BY <2>3, ParamIs DEF Fed
<1>6. Failed \in Matches(V, SUBSET Nat)
  BY <1>1, FailedIs
<1>7. Feed(x, avail, m, t) =
        IF ~ m.ok THEN m
        ELSE IF free # {} THEN Matched(Append(m.args, Offer(x, avail[Min(free)])), m.used \cup {Min(free)})
        ELSE IF pars # {} THEN Matched(Append(m.args, Param(Min(pars))), m.used)
        ELSE Failed
  BY DEF Feed
<1> HIDE DEF avail, V, free, pars
<1>8. CASE free # {}
  <2>1. Append(m.args, Offer(x, avail[Min(free)])) \in Seq(V) /\ m.used \cup {Min(free)} \in SUBSET Nat
    BY <1>1, <1>3, <1>4, <1>8, AppendProperties
  <2>2. Matched(Append(m.args, Offer(x, avail[Min(free)])), m.used \cup {Min(free)}) \in Matches(V, SUBSET Nat)
    BY <2>1, MatchIs
  <2> QED BY <1>7, <1>8, <2>2 DEF avail, V
<1>9. CASE free = {} /\ pars # {}
  <2>1. Append(m.args, Param(Min(pars))) \in Seq(V)
    BY <1>1, <1>5, <1>9, AppendProperties
  <2>2. Matched(Append(m.args, Param(Min(pars))), m.used) \in Matches(V, SUBSET Nat)
    BY <1>1, <2>1, MatchIs
  <2> QED BY <1>7, <1>9, <2>2 DEF avail, V
<1>10. CASE free = {} /\ pars = {}
  BY <1>6, <1>7, <1>10 DEF avail, V
<1> QED BY <1>8, <1>9, <1>10

\* The arguments of an inner stage are matched one after the other.
LEMMA InnerArgsGo ==
  ASSUME Setting, NEW x \in Nodes(pipe), NEW outs \in SUBSET Nodes(pipe)
  PROVE  \E w : /\ w \in [0 .. Len(pipe.sig[x].params) -> Matches(Fed(x, outs), SUBSET Nat)] /\ w[0] = Matched(IF pipe.sig[x].sret THEN <<Slot(x)>> ELSE << >>, {})
                /\ \A j \in 1 .. Len(pipe.sig[x].params) : w[j] = Feed(x, Available(x, outs), w[j - 1], pipe.sig[x].params[j])
                /\ InnerArgs(x, outs) = w[Len(pipe.sig[x].params)]
<1> DEFINE n == Len(pipe.sig[x].params)
           F == [p \in (Matches(Fed(x, outs), SUBSET Nat)) \X (1 .. n) |-> Feed(x, Available(x, outs), p[1], pipe.sig[x].params[p[2]])]
           Runs(G) == G = [t \in SUBSET (DOMAIN pipe.sig[x].params) |-> IF t = {} THEN Matched(IF pipe.sig[x].sret THEN <<Slot(x)>> ELSE << >>, {}) ELSE Feed(x, Available(x, outs), G[t \ {Max(t)}], pipe.sig[x].params[Max(t)])]
           I == CHOOSE G : Runs(G)
<1>1. n \in Nat /\ DOMAIN pipe.sig[x].params = 1 .. n /\ Matched(IF pipe.sig[x].sret THEN <<Slot(x)>> ELSE << >>, {}) \in Matches(Fed(x, outs), SUBSET Nat)
  <2>1. pipe.sig[x].params \in Seq(STRING \ {"void"})
    BY DEF Setting, PipelineOk
  <2>2. (IF pipe.sig[x].sret THEN <<Slot(x)>> ELSE << >>) \in Seq(Fed(x, outs)) /\ {} \in SUBSET Nat
    <3>1. pipe.sig[x].sret => Slot(x) \in Fed(x, outs)
      BY DEF Fed
    <3> QED BY <3>1
  <2>3. Matched(IF pipe.sig[x].sret THEN <<Slot(x)>> ELSE << >>, {}) \in Matches(Fed(x, outs), SUBSET Nat)
    BY <2>2, MatchIs
  <2> QED BY <2>1, <2>3
<1>2. InnerArgs(x, outs) = I[DOMAIN pipe.sig[x].params]
  BY DEF InnerArgs, FoldLeft, MapThenFoldSet
<1>3. \A a \in Matches(Fed(x, outs), SUBSET Nat), j \in 1 .. n : Feed(x, Available(x, outs), a, pipe.sig[x].params[j]) \in Matches(Fed(x, outs), SUBSET Nat)
  <2>1. \A j \in 1 .. n : pipe.sig[x].params[j] # "void"
    <3>1. pipe.sig[x].params \in Seq(STRING \ {"void"})
      BY DEF Setting, PipelineOk
    <3> QED BY <3>1
  <2> QED BY <2>1, FeedStays
<1>4. \A a \in Matches(Fed(x, outs), SUBSET Nat), j \in 1 .. n : F[<<a, j>>] = Feed(x, Available(x, outs), a, pipe.sig[x].params[j])
  <2> HIDE DEF n
  <2> QED OBVIOUS
<1>5. F \in [(Matches(Fed(x, outs), SUBSET Nat)) \X (1 .. n) -> Matches(Fed(x, outs), SUBSET Nat)]
  <2>1. \A p \in (Matches(Fed(x, outs), SUBSET Nat)) \X (1 .. n) : Feed(x, Available(x, outs), p[1], pipe.sig[x].params[p[2]]) \in Matches(Fed(x, outs), SUBSET Nat)
    BY <1>3
  <2> HIDE DEF n
  <2> QED BY <2>1
<1> HIDE DEF F, n
<1>6. PICK H \in [SUBSET (1 .. n) -> Matches(Fed(x, outs), SUBSET Nat)] : Folding(n, Matched(IF pipe.sig[x].sret THEN <<Slot(x)>> ELSE << >>, {}), F, H)
  BY <1>1, <1>5, FoldingExists
<1>7. Runs(H)
  <2>1. ASSUME NEW t \in SUBSET (1 .. n) PROVE H[t] = IF t = {} THEN Matched(IF pipe.sig[x].sret THEN <<Slot(x)>> ELSE << >>, {}) ELSE Feed(x, Available(x, outs), H[t \ {Max(t)}], pipe.sig[x].params[Max(t)])
    <3>1. CASE t # {}
      <4>1. Max(t) \in 1 .. n /\ t \ {Max(t)} \in SUBSET (1 .. n)
        BY <1>1, <3>1, GreatestIn
      <4>2. H[t \ {Max(t)}] \in Matches(Fed(x, outs), SUBSET Nat)
        BY <4>1
      <4>3. H[t] = F[<<H[t \ {Max(t)}], Max(t)>>]
        BY <1>6, <3>1 DEF Folding
      <4> QED BY <1>4, <3>1, <4>1, <4>2, <4>3
    <3>2. CASE t = {}
      BY <1>6, <3>2 DEF Folding
    <3> QED BY <3>1, <3>2
  <2>2. H = [t \in SUBSET (1 .. n) |-> H[t]]
    OBVIOUS
  <2>3. H = [t \in SUBSET (1 .. n) |-> IF t = {} THEN Matched(IF pipe.sig[x].sret THEN <<Slot(x)>> ELSE << >>, {}) ELSE Feed(x, Available(x, outs), H[t \ {Max(t)}], pipe.sig[x].params[Max(t)])]
    BY <2>1, <2>2
  <2> QED BY <1>1, <2>3
<1>8. Runs(I)
  <2> HIDE DEF Runs
  <2> QED BY <1>7
<1> HIDE DEF I, Runs
<1>9. Stepping(n, Matches(Fed(x, outs), SUBSET Nat), Matched(IF pipe.sig[x].sret THEN <<Slot(x)>> ELSE << >>, {}), F, I)
  <2>1. {} \in SUBSET (1 .. n) /\ \A j \in 1 .. n : 1 .. j \in SUBSET (1 .. n)
    BY <1>1
  <2>2. \A j \in 1 .. n : 1 .. j # {} /\ Max(1 .. j) = j /\ (1 .. j) \ {Max(1 .. j)} = 1 .. (j - 1)
    BY <1>1, Shortened
  <2>3. I[{}] = Matched(IF pipe.sig[x].sret THEN <<Slot(x)>> ELSE << >>, {}) /\ \A j \in 1 .. n : I[1 .. j] = Feed(x, Available(x, outs), I[1 .. (j - 1)], pipe.sig[x].params[j])
    BY <1>1, <1>8, <2>1, <2>2 DEF Runs
  <2> QED BY <1>4, <2>3 DEF Stepping
<1>10. PICK w : w \in [0 .. n -> Matches(Fed(x, outs), SUBSET Nat)] /\ Walk(n, Matched(IF pipe.sig[x].sret THEN <<Slot(x)>> ELSE << >>, {}), F, w) /\ w[n] = I[1 .. n]
  <2>1. \E w : Walks(n, Matches(Fed(x, outs), SUBSET Nat), Matched(IF pipe.sig[x].sret THEN <<Slot(x)>> ELSE << >>, {}), F, w, I[1 .. n])
    BY <1>1, <1>5, <1>9, FoldIs
  <2> QED BY <2>1 DEF Walks
<1>11. \A j \in 1 .. n : w[j] = Feed(x, Available(x, outs), w[j - 1], pipe.sig[x].params[j])
  <2> SUFFICES ASSUME NEW j \in 1 .. n PROVE w[j] = Feed(x, Available(x, outs), w[j - 1], pipe.sig[x].params[j])
    OBVIOUS
  <2>1. j - 1 \in 0 .. n
    BY <1>1
  <2> QED BY <1>4, <1>10, <2>1 DEF Walk
<1>12. w[0] = Matched(IF pipe.sig[x].sret THEN <<Slot(x)>> ELSE << >>, {}) /\ InnerArgs(x, outs) = w[n]
  BY <1>1, <1>2, <1>10 DEF Walk
<1> QED BY <1>10, <1>11, <1>12 DEF n
\* What a stage is called with.
LEMMA SourceArgsAre ==
  ASSUME Setting, NEW x \in Nodes(pipe) PROVE SourceArgs(x) \in Matches(Params, {{}})
<1>1. PipelineOk(pipe)
  BY DEF Setting
<1>2. PICK w : w \in [0 .. Len(LParams(x)) -> Matches(Params, {{}})] /\ SourceArgs(x) = w[Len(LParams(x))]
  BY <1>1, SourceArgsGo
<1>3. Len(LParams(x)) \in 0 .. Len(LParams(x))
  <2>1. pipe.sig[x].params \in Seq(STRING \ {"void"})
    BY DEF Setting, PipelineOk
  <2>2. /\ pipe.sig[x].params \in Seq(STRING \cup {"ptr"}) /\ <<"ptr">> \in Seq(STRING \cup {"ptr"})
        /\ << >> \in Seq(STRING \cup {"ptr"})
    BY <2>1, SeqMonotonic
  <2>3. LParams(x) \in Seq(STRING \cup {"ptr"})
    BY <2>2, ConcatProperties DEF LParams
  <2>4. Len(LParams(x)) \in Nat
    BY <2>3
  <2> QED BY <2>4
<1> QED BY <1>2, <1>3

LEMMA InnerArgsAre ==
  ASSUME Setting, NEW x \in Nodes(pipe), NEW outs \in SUBSET Nodes(pipe)
  PROVE  InnerArgs(x, outs) \in Matches(Fed(x, outs), SUBSET Nat)
<1>1. PICK w : /\ w \in [0 .. Len(pipe.sig[x].params) -> Matches(Fed(x, outs), SUBSET Nat)]
               /\ InnerArgs(x, outs) = w[Len(pipe.sig[x].params)]
  BY InnerArgsGo
<1>2. Len(pipe.sig[x].params) \in 0 .. Len(pipe.sig[x].params)
  <2>1. pipe.sig[x].params \in Seq(STRING \ {"void"})
    BY DEF Setting, PipelineOk
  <2>2. Len(pipe.sig[x].params) \in Nat
    BY <2>1
  <2> QED BY <2>2
<1> QED BY <1>1, <1>2

\* The values that a body defines.
Defs(b) == {b[i].def : i \in DOMAIN b}

\* The fields of the structs that are available are extracted.
LEMMA ExtractsAre ==
  ASSUME Setting, NEW x \in Nodes(pipe), NEW outs \in SUBSET Nodes(pipe)
  PROVE  LET es == Extracts(x, outs) IN
         /\ es \in Seq(AnyIns)
         /\ \A i \in DOMAIN es : /\ es[i].op = "extract"
                                 /\ \E u \in outs : OutType(u) # "void" /\ ToSet(es[i].args) = {Out(u)}
         /\ \A o \in ToSet(Available(x, outs)) : o.field # 0 => Offer(x, o) \in Defs(es)
<1> DEFINE av == Available(x, outs)  S == {o \in ToSet(av) : o.field # 0}  fs == Only(av, S)
           es == Extracts(x, outs)
<1>1. av \in Seq(Offers(outs))
  BY AvailableIs
<1>2. fs \in Seq(Offers(outs)) /\ \E h : Picks(av, S, Len(av), fs, h)
  BY <1>1, OnlyIs
<1>3. PICK h : Picks(av, S, Len(av), fs, h)
  BY <1>2
<1>4. DOMAIN fs = 1 .. Len(fs) /\ Len(fs) \in Nat /\ \A i \in 1 .. Len(fs) : fs[i] \in Offers(outs) /\ fs[i] \in S
  <2>1. \A i \in 1 .. Len(fs) : fs[i] \in S
    BY <1>3 DEF Picks
  <2> HIDE DEF fs, S
  <2> QED BY <1>2, <2>1
<1>5. es = [i \in DOMAIN fs |-> Extract(x, fs[i].from, fs[i].field)]
  BY DEF Extracts
<1>6. \A o \in ToSet(av) : o.field # 0 => \E i \in 1 .. Len(fs) : fs[i] = o
  <2> SUFFICES ASSUME NEW o \in ToSet(av), o.field # 0 PROVE \E i \in 1 .. Len(fs) : fs[i] = o
    OBVIOUS
  <2>1. PICK j \in 1 .. Len(av) : av[j] = o
    BY <1>1 DEF ToSet
  <2>2. av[j] \in S
    BY <2>1
  <2>3. PICK k \in 1 .. Len(fs) : h[k] = j
    BY <1>3, <2>1, <2>2 DEF Picks
  <2>4. fs[k] = av[h[k]]
    BY <1>3 DEF Picks
  <2> QED BY <2>1, <2>3, <2>4
<1>7. \A o \in S : o.field # 0 /\ Offer(x, o) = Extract(x, o.from, o.field).def
  BY DEF Offer
<1> HIDE DEF fs, es, S, av
<1>8. ASSUME NEW o \in Offers(outs), o.field # 0
      PROVE  LET e == Extract(x, o.from, o.field) IN
             /\ e \in AnyIns /\ e.op = "extract" /\ ToSet(e.args) = {Out(o.from)}
             /\ o.from \in outs /\ OutType(o.from) # "void"
  <2>1. o.from \in outs /\ o.field \in Nat /\ OutType(o.from) \in DOMAIN Fields
    BY <1>8 DEF Offers
  <2>2. OutType(o.from) # "void"
    BY <2>1 DEF Setting
  <2>3. o.from \in Names /\ x \in Names /\ "field" \in Names /\ "extract" \in Ops
    BY <2>1 DEF Names, Ops, Setting, PipelineOk
  <2>4. Out(o.from) \in Vals /\ <<"field", x, o.from, o.field>> \in Vals
    BY <2>1, <2>3, ValsHold
  <2>5. <<Out(o.from)>> \in Seq(Vals) /\ ToSet(<<Out(o.from)>>) = {Out(o.from)}
    <3>1. DOMAIN <<Out(o.from)>> = {1} /\ <<Out(o.from)>>[1] = Out(o.from)
      OBVIOUS
    <3> QED BY <2>4, <3>1 DEF ToSet
  <2>6. Extract(x, o.from, o.field) = Ins("extract", "field", o.from, <<Out(o.from)>>, <<"field", x, o.from, o.field>>)
    BY DEF Extract
  <2>7. Extract(x, o.from, o.field) \in AnyIns
    BY <2>3, <2>4, <2>5, <2>6, InsType
  <2>8. Extract(x, o.from, o.field).op = "extract" /\ Extract(x, o.from, o.field).args = <<Out(o.from)>>
    BY <2>6 DEF Ins
  <2> QED BY <2>1, <2>2, <2>5, <2>7, <2>8
<1>9. \A i \in 1 .. Len(fs) : fs[i].field # 0
  BY <1>4, <1>7
<1>10. es \in Seq(AnyIns) /\ DOMAIN es = 1 .. Len(fs)
  <2>1. \A i \in 1 .. Len(fs) : Extract(x, fs[i].from, fs[i].field) \in AnyIns
    BY <1>4, <1>8, <1>9
  <2>2. es \in [1 .. Len(fs) -> AnyIns]
    BY <1>4, <1>5, <2>1
  <2> QED BY <1>4, <2>2
<1>11. \A i \in DOMAIN es : /\ es[i].op = "extract"
                            /\ \E u \in outs : OutType(u) # "void" /\ ToSet(es[i].args) = {Out(u)}
  <2> SUFFICES ASSUME NEW i \in 1 .. Len(fs)
               PROVE  /\ es[i].op = "extract"
                      /\ \E u \in outs : OutType(u) # "void" /\ ToSet(es[i].args) = {Out(u)}
    BY <1>10
  <2>1. es[i] = Extract(x, fs[i].from, fs[i].field) /\ fs[i] \in Offers(outs) /\ fs[i].field # 0
    BY <1>4, <1>5, <1>9
  <2> QED BY <1>8, <2>1
<1>12. ASSUME NEW o \in ToSet(av), o.field # 0 PROVE Offer(x, o) \in Defs(es)
  <2>1. PICK i \in 1 .. Len(fs) : fs[i] = o
    BY <1>6, <1>12
  <2>2. es[i].def = Offer(x, o) /\ i \in DOMAIN es
    BY <1>4, <1>5, <1>7, <1>10, <2>1
  <2> QED BY <2>2 DEF Defs
<1> QED BY <1>10, <1>11, <1>12 DEF es, av
-----------------------------------------------------------------------------
(***************************************************************************)
(* The code of a stage is put behind the code that there is.               *)
(***************************************************************************)
CodeOps == {"call", "extract", "alloca", "load"}
Known(b, v) == v[1] = "param" \/ v \in Defs(b)

\* The instructions of c belong to stage x and find their operands in b.
Fits(b, c, x) ==
  /\ c \in Seq(AnyIns)
  /\ \A i \in DOMAIN c : /\ c[i].op \in CodeOps /\ (c[i].op = "call" => c[i].id = x /\ c[i].node = x)
                         /\ \A v \in ToSet(c[i].args) : Known(b, v)

\* r is b with code of stage x behind it.
Grown(b, r, x) ==
  /\ r \in Seq(AnyIns) /\ Len(b) <= Len(r) /\ OperandsIn(r)
  /\ \A i \in 1 .. Len(b) : r[i] = b[i]
  /\ \A i \in Len(b) + 1 .. Len(r) : r[i].op \in CodeOps /\ (r[i].op = "call" => r[i].id = x /\ r[i].node = x)

LEMMA ConcatDefs ==
  ASSUME NEW b \in Seq(AnyIns), NEW c \in Seq(AnyIns)
  PROVE  Defs(b \o c) = Defs(b) \cup Defs(c)
<1> DEFINE r == b \o c  m == Len(b)  n == Len(c)
<1>1. m \in Nat /\ n \in Nat /\ DOMAIN b = 1 .. m /\ DOMAIN c = 1 .. n
  OBVIOUS
<1>2. Sized(AnyIns, b, m) /\ Sized(AnyIns, c, n)
  BY DEF Sized
<1>3. Sized(AnyIns, r, m + n) /\ Behind(r, b, 0, m) /\ Behind(r, c, m, n)
  BY <1>2, Concat
<1> HIDE DEF r, m, n
<1>4. /\ DOMAIN r = 1 .. m + n /\ (\A i \in 1 .. m : r[i] = b[i])
      /\ \A i \in 1 .. n : m + i \in 1 .. m + n /\ r[m + i] = c[i]
  <2>1. DOMAIN r = 1 .. m + n
    BY <1>3 DEF Sized
  <2>2. \A i \in 1 .. m : r[i] = b[i]
    <3>1. \A i \in 1 .. m : r[0 + i] = b[i] /\ 0 + i = i
      BY <1>1, <1>3 DEF Behind
    <3> QED BY <3>1
  <2>3. \A i \in 1 .. n : m + i \in 1 .. m + n /\ r[m + i] = c[i]
    BY <1>1, <1>3 DEF Behind
  <2> QED BY <2>1, <2>2, <2>3
<1>5. ASSUME NEW v \in Defs(b) \cup Defs(c) PROVE v \in Defs(r)
  <2>1. CASE v \in Defs(b)
    <3>1. PICK i \in 1 .. m : b[i].def = v
      BY <1>1, <2>1 DEF Defs
    <3>2. r[i].def = v /\ i \in DOMAIN r
      BY <1>1, <1>4, <3>1
    <3> QED BY <3>2 DEF Defs
  <2>2. CASE v \in Defs(c)
    <3>1. PICK i \in 1 .. n : c[i].def = v
      BY <1>1, <2>2 DEF Defs
    <3>2. r[m + i].def = v /\ m + i \in DOMAIN r
      BY <1>1, <1>4, <3>1
    <3> QED BY <3>2 DEF Defs
  <2> QED BY <2>1, <2>2
<1>6. ASSUME NEW v \in Defs(r) PROVE v \in Defs(b) \cup Defs(c)
  <2>1. PICK i \in 1 .. m + n : r[i].def = v
    BY <1>4 DEF Defs
  <2>2. CASE i <= m
    <3>1. i \in 1 .. m /\ b[i].def = v
      BY <1>1, <1>4, <2>1, <2>2
    <3> QED BY <1>1, <3>1 DEF Defs
  <2>3. CASE ~ (i <= m)
    <3>1. i - m \in 1 .. n /\ m + (i - m) = i
      BY <1>1, <2>3
    <3>2. c[i - m].def = v
      BY <1>4, <2>1, <3>1
    <3> QED BY <1>1, <3>1, <3>2 DEF Defs
  <2> QED BY <2>2, <2>3
<1> QED BY <1>5, <1>6 DEF r

LEMMA GrowMore ==
  ASSUME NEW b \in Seq(AnyIns), NEW s, NEW x, NEW c, Grown(b, s, x), Fits(s, c, x)
  PROVE  Grown(b, s \o c, x) /\ Defs(s \o c) = Defs(s) \cup Defs(c)
<1> DEFINE r == s \o c  k == Len(b)  m == Len(s)  n == Len(c)
<1>1. /\ s \in Seq(AnyIns) /\ c \in Seq(AnyIns) /\ k \in Nat /\ m \in Nat /\ n \in Nat /\ k <= m
      /\ DOMAIN s = 1 .. m /\ DOMAIN c = 1 .. n
  <2>1. s \in Seq(AnyIns) /\ c \in Seq(AnyIns) /\ Len(b) <= Len(s)
    BY DEF Grown, Fits
  <2> QED BY <2>1
<1>2. Sized(AnyIns, s, m) /\ Sized(AnyIns, c, n)
  BY <1>1 DEF Sized
<1>3. Sized(AnyIns, r, m + n) /\ Behind(r, s, 0, m) /\ Behind(r, c, m, n)
  BY <1>2, Concat
<1>4. /\ OperandsIn(s) /\ \A i \in 1 .. k : s[i] = b[i]
      /\ \A i \in k + 1 .. m : s[i].op \in CodeOps /\ (s[i].op = "call" => s[i].id = x /\ s[i].node = x)
  BY DEF Grown
<1>5. \A i \in 1 .. n : /\ c[i].op \in CodeOps /\ (c[i].op = "call" => c[i].id = x /\ c[i].node = x)
                        /\ \A v \in ToSet(c[i].args) : Known(s, v)
  BY <1>1 DEF Fits
<1>6. Defs(r) = Defs(s) \cup Defs(c)
  BY <1>1, ConcatDefs
<1> HIDE DEF r, k, m, n
<1>7. r \in Seq(AnyIns) /\ Len(r) = m + n /\ DOMAIN r = 1 .. m + n
  BY <1>3 DEF Sized
<1>8. \A i \in 1 .. m : r[i] = s[i]
  <2>1. \A i \in 1 .. m : r[0 + i] = s[i] /\ 0 + i = i
    BY <1>1, <1>3 DEF Behind
  <2> QED BY <2>1
<1>9. \A i \in m + 1 .. m + n : i - m \in 1 .. n /\ r[i] = c[i - m]
  <2> SUFFICES ASSUME NEW i \in m + 1 .. m + n PROVE i - m \in 1 .. n /\ r[i] = c[i - m]
    OBVIOUS
  <2>1. i - m \in 1 .. n /\ m + (i - m) = i
    BY <1>1
  <2> QED BY <1>3, <2>1 DEF Behind
<1>10. ASSUME NEW i \in k + 1 .. m + n
       PROVE  r[i].op \in CodeOps /\ (r[i].op = "call" => r[i].id = x /\ r[i].node = x)
  <2>1. i \in k + 1 .. m \/ i \in m + 1 .. m + n
    BY <1>1
  <2>2. CASE i \in k + 1 .. m
    <3>1. i \in 1 .. m
      BY <1>1, <2>2
    <3> QED BY <1>4, <1>8, <2>2, <3>1
  <2>3. CASE i \in m + 1 .. m + n
    BY <1>5, <1>9, <2>3
  <2> QED BY <2>1, <2>2, <2>3
<1>11. OperandsIn(r)
  <2> SUFFICES ASSUME NEW i \in 1 .. m + n, NEW v \in ToSet(r[i].args) PROVE Dominates(r, v, i)
    BY <1>7 DEF OperandsIn
  <2>1. CASE i \in 1 .. m
    <3>1. Dominates(s, v, i)
      BY <1>1, <1>4, <1>8, <2>1 DEF OperandsIn
    <3>2. ASSUME NEW j \in 1 .. i - 1, s[j].def = v PROVE r[j].def = v
      <4>1. j \in 1 .. m
        BY <1>1, <2>1
      <4> QED BY <1>8, <3>2, <4>1
    <3> QED BY <3>1, <3>2 DEF Dominates
  <2>2. CASE i \in m + 1 .. m + n
    <3>1. Known(s, v)
      BY <1>5, <1>9, <2>2
    <3>2. CASE v[1] = "param"
      BY <3>2 DEF Dominates
    <3>3. CASE v \in Defs(s)
      <4>1. PICK j \in 1 .. m : s[j].def = v
        BY <1>1, <3>3 DEF Defs
      <4>2. j \in 1 .. i - 1 /\ r[j].def = v
        BY <1>1, <1>8, <2>2, <4>1
      <4> QED BY <4>2 DEF Dominates
    <3> QED BY <3>1, <3>2, <3>3 DEF Known
  <2>3. i \in 1 .. m \/ i \in m + 1 .. m + n
    BY <1>1
  <2> QED BY <2>1, <2>2, <2>3
<1>12. k <= Len(r) /\ \A i \in 1 .. k : r[i] = b[i]
  <2>1. \A i \in 1 .. k : i \in 1 .. m
    BY <1>1
  <2> QED BY <1>1, <1>4, <1>7, <1>8, <2>1
<1>13. Grown(b, r, x)
  BY <1>7, <1>10, <1>11, <1>12 DEF Grown, k
<1> QED BY <1>6, <1>13 DEF r
\* The code of the first stages: its operands are there, and every stage in
\* outs is called, under its own name, and has its result there.
Shown(outs, code) ==
  /\ OperandsIn(code)
  /\ \A u \in outs : OutType(u) # "void" => Out(u) \in Defs(code)
  /\ \A u \in outs : \E i \in DOMAIN code : code[i].op = "call" /\ code[i].node = u
  /\ \A i \in DOMAIN code : /\ code[i].op \in CodeOps
                            /\ code[i].op = "call" => code[i].id = code[i].node /\ code[i].node \in outs
States == {g \in [ok : BOOLEAN, outs : SUBSET CodeNodes(pipe), code : Seq(AnyIns)] : Shown(g.outs, g.code)}

\* What Emit puts around the call of x.
Before(g, x) == IF x \in pipe.sources THEN << >> ELSE Extracts(x, g.outs)
HasSlot(x)   == pipe.sig[x].sret /\ ~ (x \in pipe.sources)
Room(x)      == IF HasSlot(x) THEN <<Ins("alloca", x, x, << >>, Slot(x))>> ELSE << >>
Match(g, x)  == IF x \in pipe.sources THEN SourceArgs(x) ELSE InnerArgs(x, g.outs)
CallOf(g, x) == Ins("call", x, x, Match(g, x).args, IF LRet(x) = "void" THEN None ELSE Out(x))
After(x)     == IF HasSlot(x) THEN <<Ins("load", x, x, <<Slot(x)>>, Out(x))>> ELSE << >>

LEMMA EmitIs ==
  ASSUME NEW g, NEW x
  PROVE  Emit(g, x) = IF ~ g.ok \/ x \notin CodeNodes(pipe) THEN g
                      ELSE [ok   |-> Match(g, x).ok, outs |-> g.outs \cup {x},
                            code |-> g.code \o Before(g, x) \o Room(x) \o <<CallOf(g, x)>> \o After(x)]
BY DEF Emit, Match, Before, Room, CallOf, After, HasSlot

LEMMA NodeNames == ASSUME Setting, NEW x \in Nodes(pipe) PROVE x \in Names /\ x \in STRING
BY DEF Setting, PipelineOk, Names

LEMMA SingleIs ==
  ASSUME NEW X, NEW e \in X
  PROVE  <<e>> \in Seq(X) /\ Len(<<e>>) = 1 /\ DOMAIN <<e>> = {1} /\ <<e>>[1] = e /\ ToSet(<<e>>) = {e}
<1>1. <<e>> \in Seq(X) /\ Len(<<e>>) = 1 /\ DOMAIN <<e>> = {1} /\ <<e>>[1] = e
  OBVIOUS
<1> QED BY <1>1 DEF ToSet

\* The operands of the call of x.
LEMMA MatchFits ==
  ASSUME Setting, NEW x \in Nodes(pipe), NEW g \in States
  PROVE  /\ Match(g, x).ok \in BOOLEAN /\ Match(g, x).args \in Seq(Vals)
         /\ \A v \in ToSet(Match(g, x).args) :
              \/ Known(g.code, v) \/ v \in Defs(Before(g, x))
              \/ v = Slot(x) /\ HasSlot(x)
<1>1. g.outs \in SUBSET Nodes(pipe)
  BY DEF States, Shown, CodeNodes
<1>2. CASE x \in pipe.sources
  <2>1. Match(g, x) \in Matches(Params, {{}})
    BY <1>2, SourceArgsAre DEF Match
  <2>2. Match(g, x).ok \in BOOLEAN /\ Match(g, x).args \in Seq(Params)
    BY <2>1 DEF Matches
  <2>3. Params \subseteq Vals
    BY DEF Params
  <2>4. Match(g, x).args \in Seq(Vals)
    BY <2>2, <2>3, SeqMonotonic
  <2>5. \A v \in ToSet(Match(g, x).args) : v \in Params
    BY <2>2 DEF ToSet
  <2> QED BY <2>2, <2>4, <2>5 DEF Known, Params
<1>3. CASE x \notin pipe.sources
  <2>1. Match(g, x) \in Matches(Fed(x, g.outs), SUBSET Nat)
    BY <1>1, <1>3, InnerArgsAre DEF Match
  <2>2. Match(g, x).ok \in BOOLEAN /\ Match(g, x).args \in Seq(Fed(x, g.outs))
    BY <2>1 DEF Matches
  <2>3. Available(x, g.outs) \in Seq(Offers(g.outs))
    BY <1>1, AvailableIs
  <2>4. \A o \in ToSet(Available(x, g.outs)) : o \in Offers(g.outs)
    BY <2>3 DEF ToSet
  <2>5. Fed(x, g.outs) \subseteq Vals
    <3>1. \A o \in ToSet(Available(x, g.outs)) : Offer(x, o) \in Vals
      BY <1>1, <2>4, OfferIs
    <3>2. Slot(x) \in Vals
      BY NodeNames DEF Vals, Slot
    <3> QED BY <3>1, <3>2 DEF Fed, Params
  <2>6. Match(g, x).args \in Seq(Vals)
    BY <2>2, <2>5, SeqMonotonic
  <2>7. \A v \in ToSet(Match(g, x).args) : v \in Fed(x, g.outs)
    BY <2>2 DEF ToSet
  <2>8. ASSUME NEW o \in ToSet(Available(x, g.outs)), o.type # "void"
        PROVE  Offer(x, o) \in Defs(g.code) \/ Offer(x, o) \in Defs(Before(g, x))
    <3>1. CASE o.field = 0
      <4>1. o.from \in g.outs /\ OutType(o.from) # "void" /\ Offer(x, o) = Out(o.from)
        BY <2>4, <2>8, <3>1 DEF Offers, Offer
      <4> QED BY <4>1 DEF States, Shown
    <3>2. CASE o.field # 0
      <4>1. Offer(x, o) \in Defs(Extracts(x, g.outs))
        BY <1>1, <3>2, ExtractsAre
      <4> QED BY <1>3, <4>1 DEF Before
    <3> QED BY <3>1, <3>2
  <2>9. ASSUME NEW v \in Fed(x, g.outs)
        PROVE  Known(g.code, v) \/ v \in Defs(Before(g, x)) \/ (v = Slot(x) /\ HasSlot(x))
    <3>1. CASE v \in Params
      BY <3>1 DEF Params, Known
    <3>2. CASE v = Slot(x) /\ pipe.sig[x].sret
      BY <1>3, <3>2 DEF HasSlot
    <3>3. ASSUME NEW o \in ToSet(Available(x, g.outs)), o.type # "void", v = Offer(x, o)
          PROVE  Known(g.code, v) \/ v \in Defs(Before(g, x))
      BY <2>8, <3>3 DEF Known
    <3> QED BY <3>1, <3>2, <3>3 DEF Fed
  <2> QED BY <2>2, <2>6, <2>7, <2>9
<1> QED BY <1>2, <1>3
\* Emit puts the code of x behind what there is.
LEMMA EmitGrows ==
  ASSUME Setting, NEW x \in CodeNodes(pipe), NEW g \in States, g.ok
  PROVE  LET h == Emit(g, x) IN
         /\ h = [ok |-> Match(g, x).ok, outs |-> g.outs \cup {x}, code |-> h.code]
         /\ Grown(g.code, h.code, x) /\ Defs(g.code) \subseteq Defs(h.code)
         /\ \E i \in Len(g.code) + 1 .. Len(h.code) : h.code[i].op = "call" /\ h.code[i].node = x
         /\ OutType(x) # "void" => Out(x) \in Defs(h.code)
<1> DEFINE b == g.code  r1 == b \o Before(g, x)  r2 == r1 \o Room(x)
           r3 == r2 \o <<CallOf(g, x)>>  r4 == r3 \o After(x)  h == Emit(g, x)
<1>1. x \in Nodes(pipe) /\ b \in Seq(AnyIns) /\ OperandsIn(b) /\ g.outs \in SUBSET Nodes(pipe)
  BY DEF CodeNodes, States, Shown
<1>2. x \in Names /\ Out(x) \in Vals /\ Slot(x) \in Vals /\ None \in Vals
  BY <1>1, NodeNames, ValsHold DEF Vals, Out, Slot
<1>3. /\ Match(g, x).args \in Seq(Vals)
      /\ \A v \in ToSet(Match(g, x).args) :
           Known(b, v) \/ v \in Defs(Before(g, x)) \/ (v = Slot(x) /\ HasSlot(x))
  BY <1>1, MatchFits
<1>4. h = [ok |-> Match(g, x).ok, outs |-> g.outs \cup {x}, code |-> r4]
  BY EmitIs
<1>5. << >> \in Seq(AnyIns) /\ DOMAIN << >> = {} /\ << >> \in Seq(Vals)
  OBVIOUS
<1>6. \A s : Fits(s, << >>, x)
  BY <1>5 DEF Fits
<1>7. Grown(b, b, x)
  <2>1. Len(b) \in Nat
    BY <1>1
  <2>2. Len(b) + 1 .. Len(b) = {}
    BY <2>1
  <2> QED BY <1>1, <2>1, <2>2 DEF Grown
<1>8. Fits(b, Before(g, x), x)
  <2>1. CASE x \in pipe.sources
    BY <1>6, <2>1 DEF Before
  <2>2. CASE x \notin pipe.sources
    <3> DEFINE es == Extracts(x, g.outs)
    <3>1. /\ es \in Seq(AnyIns)
          /\ \A i \in DOMAIN es : /\ es[i].op = "extract"
                                  /\ \E u \in g.outs : OutType(u) # "void" /\ ToSet(es[i].args) = {Out(u)}
      BY <1>1, ExtractsAre
    <3>2. \A u \in g.outs : OutType(u) # "void" => Out(u) \in Defs(b)
      BY DEF States, Shown
    <3> HIDE DEF es
    <3>3. Fits(b, es, x)
      BY <3>1, <3>2 DEF Fits, CodeOps, Known
    <3> QED BY <2>2, <3>3 DEF Before, es
  <2> QED BY <2>1, <2>2
<1> HIDE DEF b
<1>9. Grown(b, r1, x) /\ Defs(r1) = Defs(b) \cup Defs(Before(g, x))
  BY <1>1, <1>7, <1>8, GrowMore
<1> HIDE DEF r1
<1>10. Fits(r1, Room(x), x) /\ (HasSlot(x) => Slot(x) \in Defs(Room(x)))
  <2> DEFINE e == Ins("alloca", x, x, << >>, Slot(x))
  <2>1. e \in AnyIns
    <3>1. "alloca" \in Ops
      BY DEF Ops
    <3> QED BY <1>2, <1>5, <3>1, InsType
  <2>2. e.op = "alloca" /\ e.args = << >> /\ e.def = Slot(x)
    BY DEF Ins
  <2>3. ToSet(<< >>) = {}
    BY DEF ToSet
  <2> HIDE DEF e
  <2>4. <<e>> \in Seq(AnyIns) /\ DOMAIN <<e>> = {1} /\ <<e>>[1] = e
    BY <2>1, SingleIs
  <2>5. Fits(r1, <<e>>, x)
    BY <2>2, <2>3, <2>4 DEF Fits, CodeOps
  <2>6. Slot(x) \in Defs(<<e>>)
    BY <2>2, <2>4 DEF Defs
  <2>7. Room(x) = IF HasSlot(x) THEN <<e>> ELSE << >>
    BY DEF Room, e
  <2> QED BY <1>6, <2>5, <2>6, <2>7
<1>11. Grown(b, r2, x) /\ Defs(r2) = Defs(r1) \cup Defs(Room(x))
  BY <1>1, <1>9, <1>10, GrowMore
<1> HIDE DEF r2
<1> DEFINE c == CallOf(g, x)
<1>12. /\ c \in AnyIns /\ c.op = "call" /\ c.id = x /\ c.node = x /\ c.args = Match(g, x).args
       /\ c.def = IF LRet(x) = "void" THEN None ELSE Out(x)
  <2> DEFINE d == IF LRet(x) = "void" THEN None ELSE Out(x)
  <2>1. "call" \in Ops /\ d \in Vals
    BY <1>2 DEF Ops
  <2>2. c = Ins("call", x, x, Match(g, x).args, d)
    BY DEF CallOf
  <2> HIDE DEF d, c
  <2>3. c \in AnyIns
    BY <1>2, <1>3, <2>1, <2>2, InsType
  <2>4. c.op = "call" /\ c.id = x /\ c.node = x /\ c.args = Match(g, x).args /\ c.def = d
    BY <2>2 DEF Ins
  <2> QED BY <2>3, <2>4 DEF d
<1>13. \A v \in ToSet(Match(g, x).args) : Known(r2, v)
  <2> SUFFICES ASSUME NEW v \in ToSet(Match(g, x).args) PROVE Known(r2, v)
    OBVIOUS
  <2>1. Known(b, v) \/ v \in Defs(Before(g, x)) \/ (v = Slot(x) /\ HasSlot(x))
    BY <1>3
  <2>2. CASE v[1] = "param"
    BY <2>2 DEF Known
  <2>3. CASE v \in Defs(b) \/ v \in Defs(Before(g, x)) \/ (v = Slot(x) /\ HasSlot(x))
    <3>1. v \in Defs(r2)
      BY <1>9, <1>10, <1>11, <2>3
    <3> QED BY <3>1 DEF Known
  <2> QED BY <2>1, <2>2, <2>3 DEF Known
<1> HIDE DEF c
<1>14. <<c>> \in Seq(AnyIns) /\ DOMAIN <<c>> = {1} /\ <<c>>[1] = c /\ Len(<<c>>) = 1
  BY <1>12, SingleIs
<1>15. Fits(r2, <<c>>, x)
  BY <1>12, <1>13, <1>14 DEF Fits, CodeOps
<1>16. Grown(b, r3, x) /\ Defs(r3) = Defs(r2) \cup Defs(<<c>>)
  BY <1>1, <1>11, <1>15, GrowMore DEF c
<1>17. c.def \in Defs(r3)
  BY <1>14, <1>16 DEF Defs
<1>18. Fits(r3, After(x), x) /\ (HasSlot(x) => Out(x) \in Defs(After(x)))
  <2> DEFINE e == Ins("load", x, x, <<Slot(x)>>, Out(x))
  <2>1. e \in AnyIns
    <3>1. "load" \in Ops /\ <<Slot(x)>> \in Seq(Vals)
      BY <1>2 DEF Ops
    <3> QED BY <1>2, <3>1, InsType
  <2>2. e.op = "load" /\ e.args = <<Slot(x)>> /\ e.def = Out(x)
    BY DEF Ins
  <2>3. ToSet(<<Slot(x)>>) = {Slot(x)}
    BY <1>2, SingleIs
  <2> HIDE DEF e
  <2>4. <<e>> \in Seq(AnyIns) /\ DOMAIN <<e>> = {1} /\ <<e>>[1] = e
    BY <2>1, SingleIs
  <2>5. HasSlot(x) => Known(r3, Slot(x))
    BY <1>10, <1>11, <1>16 DEF Known
  <2>6. HasSlot(x) => Fits(r3, <<e>>, x)
    BY <2>2, <2>3, <2>4, <2>5 DEF Fits, CodeOps
  <2>7. Out(x) \in Defs(<<e>>)
    BY <2>2, <2>4 DEF Defs
  <2>8. After(x) = IF HasSlot(x) THEN <<e>> ELSE << >>
    BY DEF After, e
  <2> QED BY <1>6, <2>6, <2>7, <2>8
<1>19. Grown(b, r4, x) /\ Defs(r4) = Defs(r3) \cup Defs(After(x))
  <2> HIDE DEF r3
  <2> QED BY <1>1, <1>16, <1>18, GrowMore
<1>20. \E i \in Len(b) + 1 .. Len(r4) : r4[i].op = "call" /\ r4[i].node = x
  <2>1. r2 \in Seq(AnyIns) /\ Len(b) <= Len(r2) /\ Len(b) \in Nat
    BY <1>1, <1>11 DEF Grown
  <2>2. Len(r2) \in Nat
    BY <2>1
  <2>3. Sized(AnyIns, r2, Len(r2)) /\ Sized(AnyIns, <<c>>, 1)
    BY <1>14, <2>1, <2>2 DEF Sized
  <2>4. Sized(AnyIns, r3, Len(r2) + 1) /\ Behind(r3, <<c>>, Len(r2), 1)
    BY <2>3, Concat DEF c
  <2>5. r3 \in Seq(AnyIns) /\ Len(r3) = Len(r2) + 1 /\ r3[Len(r2) + 1] = c
    <3>1. 1 \in 1 .. 1
      OBVIOUS
    <3> HIDE DEF r3
    <3> QED BY <1>14, <2>4, <3>1 DEF Sized, Behind
  <2> HIDE DEF r3
  <2>6. After(x) \in Seq(AnyIns)
    BY <1>18 DEF Fits
  <2>7. Sized(AnyIns, r3, Len(r3)) /\ Sized(AnyIns, After(x), Len(After(x)))
    BY <2>2, <2>5, <2>6 DEF Sized
  <2>8. Sized(AnyIns, r4, Len(r3) + Len(After(x))) /\ Behind(r4, r3, 0, Len(r3))
    BY <2>7, Concat
  <2> HIDE DEF r4
  <2>9. Len(r4) = Len(r3) + Len(After(x)) /\ Len(After(x)) \in Nat
    BY <2>6, <2>8 DEF Sized
  <2>10. Len(r2) + 1 \in 1 .. Len(r3) /\ 0 + (Len(r2) + 1) = Len(r2) + 1
    BY <2>2, <2>5
  <2>11. r4[Len(r2) + 1] = c
    BY <2>5, <2>8, <2>10 DEF Behind
  <2>12. Len(r2) + 1 \in Len(b) + 1 .. Len(r4)
    BY <2>1, <2>2, <2>5, <2>9
  <2> QED BY <1>12, <2>11, <2>12
<1>21. Defs(b) \subseteq Defs(r4)
  BY <1>9, <1>11, <1>16, <1>19
<1>22. OutType(x) # "void" => Out(x) \in Defs(r4)
  <2> SUFFICES ASSUME OutType(x) # "void" PROVE Out(x) \in Defs(r4)
    OBVIOUS
  <2>1. CASE HasSlot(x)
    BY <1>18, <1>19, <2>1
  <2>2. CASE ~ HasSlot(x)
    <3>1. LRet(x) # "void"
      BY <2>2 DEF OutType, LRet, HasSlot
    <3> QED BY <1>12, <1>17, <1>19, <3>1
  <2> QED BY <2>1, <2>2
<1> HIDE DEF r4, r3, h
<1>23. h.code = r4
  BY <1>4
<1> QED BY <1>4, <1>19, <1>20, <1>21, <1>22, <1>23 DEF b, h

\* Emit goes from one state of the code to another.
LEMMA EmitStays ==
  ASSUME Setting, NEW x \in Nodes(pipe), NEW g \in States PROVE Emit(g, x) \in States
<1>1. CASE ~ g.ok \/ x \notin CodeNodes(pipe)
  BY <1>1, EmitIs
<1>2. CASE g.ok /\ x \in CodeNodes(pipe)
  <2> DEFINE h == Emit(g, x)  b == g.code  r == h.code
  <2>1. /\ h = [ok |-> Match(g, x).ok, outs |-> g.outs \cup {x}, code |-> r]
        /\ Grown(b, r, x) /\ Defs(b) \subseteq Defs(r)
        /\ \E i \in Len(b) + 1 .. Len(r) : r[i].op = "call" /\ r[i].node = x
        /\ OutType(x) # "void" => Out(x) \in Defs(r)
    BY <1>2, EmitGrows
  <2>2. Match(g, x).ok \in BOOLEAN
    BY MatchFits
  <2>3. /\ g.outs \in SUBSET CodeNodes(pipe) /\ b \in Seq(AnyIns)
        /\ \A u \in g.outs : OutType(u) # "void" => Out(u) \in Defs(b)
        /\ \A u \in g.outs : \E i \in DOMAIN b : b[i].op = "call" /\ b[i].node = u
        /\ \A i \in DOMAIN b : /\ b[i].op \in CodeOps
                               /\ b[i].op = "call" => b[i].id = b[i].node /\ b[i].node \in g.outs
    BY DEF States, Shown
  <2> HIDE DEF h, b, r
  <2>4. /\ r \in Seq(AnyIns) /\ Len(b) <= Len(r) /\ OperandsIn(r) /\ \A i \in 1 .. Len(b) : r[i] = b[i]
        /\ \A i \in Len(b) + 1 .. Len(r) : r[i].op \in CodeOps /\ (r[i].op = "call" => r[i].id = x /\ r[i].node = x)
    BY <2>1 DEF Grown
  <2>5. DOMAIN b = 1 .. Len(b) /\ DOMAIN r = 1 .. Len(r) /\ Len(b) \in Nat /\ Len(r) \in Nat
    BY <2>3, <2>4
  <2>6. \A u \in g.outs \cup {x} : OutType(u) # "void" => Out(u) \in Defs(r)
    BY <2>1, <2>3
  <2>7. \A u \in g.outs \cup {x} : \E i \in DOMAIN r : r[i].op = "call" /\ r[i].node = u
    <3>1. \E i \in DOMAIN r : r[i].op = "call" /\ r[i].node = x
      <4>1. PICK i \in Len(b) + 1 .. Len(r) : r[i].op = "call" /\ r[i].node = x
        BY <2>1
      <4>2. i \in 1 .. Len(r)
        BY <2>5
      <4> QED BY <2>5, <4>1, <4>2
    <3>2. ASSUME NEW u \in g.outs PROVE \E i \in DOMAIN r : r[i].op = "call" /\ r[i].node = u
      <4>1. PICK i \in 1 .. Len(b) : b[i].op = "call" /\ b[i].node = u
        BY <2>3, <2>5
      <4>2. i \in 1 .. Len(r)
        BY <2>4, <2>5
      <4> QED BY <2>4, <2>5, <4>1, <4>2
    <3> QED BY <3>1, <3>2
  <2>8. \A i \in DOMAIN r : /\ r[i].op \in CodeOps
                            /\ r[i].op = "call" => r[i].id = r[i].node /\ r[i].node \in g.outs \cup {x}
    <3> SUFFICES ASSUME NEW i \in 1 .. Len(r)
                 PROVE  /\ r[i].op \in CodeOps
                        /\ r[i].op = "call" => r[i].id = r[i].node /\ r[i].node \in g.outs \cup {x}
      BY <2>5
    <3>1. CASE i \in 1 .. Len(b)
      <4>1. r[i] = b[i] /\ i \in DOMAIN b
        BY <2>4, <2>5, <3>1
      <4> QED BY <2>3, <4>1
    <3>2. CASE i \in Len(b) + 1 .. Len(r)
      BY <2>4, <3>2
    <3>3. i \in 1 .. Len(b) \/ i \in Len(b) + 1 .. Len(r)
      BY <2>5
    <3> QED BY <3>1, <3>2, <3>3
  <2>9. h.ok = Match(g, x).ok /\ h.outs = g.outs \cup {x} /\ h.code = r
    BY <2>1
  <2>10. h \in [ok : BOOLEAN, outs : SUBSET CodeNodes(pipe), code : Seq(AnyIns)]
    BY <1>2, <2>1, <2>2, <2>3, <2>4
  <2>11. h \in States
    <3>1. Shown(g.outs \cup {x}, r)
      BY <2>4, <2>6, <2>7, <2>8 DEF Shown
    <3>2. Shown(h.outs, h.code)
      BY <2>9, <3>1
    <3> QED BY <2>10, <3>2 DEF States
  <2> QED BY <2>11 DEF h
<1> QED BY <1>1, <1>2
\* The code of a group is put together one stage after the other.
LEMMA EmitGroupGo ==
  ASSUME Setting, NEW s \in States, NEW ns \in Seq(Nodes(pipe))
  PROVE  \E w : /\ w \in [0 .. Len(ns) -> States] /\ w[0] = s
                /\ \A j \in 1 .. Len(ns) : w[j] = Emit(w[j - 1], ns[j])
                /\ EmitGroup(s, ns) = w[Len(ns)]
<1> DEFINE n == Len(ns)
           F == [p \in (States) \X (1 .. n) |-> Emit(p[1], ns[p[2]])]
           Runs(G) == G = [t \in SUBSET (DOMAIN ns) |-> IF t = {} THEN s ELSE Emit(G[t \ {Max(t)}], ns[Max(t)])]
           I == CHOOSE G : Runs(G)
<1>1. n \in Nat /\ DOMAIN ns = 1 .. n /\ s \in States
  OBVIOUS
<1>2. EmitGroup(s, ns) = I[DOMAIN ns]
  BY DEF EmitGroup, FoldLeft, MapThenFoldSet
<1>3. \A a \in States, j \in 1 .. n : Emit(a, ns[j]) \in States
  BY EmitStays
<1>4. \A a \in States, j \in 1 .. n : F[<<a, j>>] = Emit(a, ns[j])
  <2> HIDE DEF n
  <2> QED OBVIOUS
<1>5. F \in [(States) \X (1 .. n) -> States]
  <2>1. \A p \in (States) \X (1 .. n) : Emit(p[1], ns[p[2]]) \in States
    BY <1>3
  <2> HIDE DEF n
  <2> QED BY <2>1
<1> HIDE DEF F, n
<1>6. PICK H \in [SUBSET (1 .. n) -> States] : Folding(n, s, F, H)
  BY <1>1, <1>5, FoldingExists
<1>7. Runs(H)
  <2>1. ASSUME NEW t \in SUBSET (1 .. n) PROVE H[t] = IF t = {} THEN s ELSE Emit(H[t \ {Max(t)}], ns[Max(t)])
    <3>1. CASE t # {}
      <4>1. Max(t) \in 1 .. n /\ t \ {Max(t)} \in SUBSET (1 .. n)
        BY <1>1, <3>1, GreatestIn
      <4>2. H[t \ {Max(t)}] \in States
        BY <4>1
      <4>3. H[t] = F[<<H[t \ {Max(t)}], Max(t)>>]
        BY <1>6, <3>1 DEF Folding
      <4> QED BY <1>4, <3>1, <4>1, <4>2, <4>3
    <3>2. CASE t = {}
      BY <1>6, <3>2 DEF Folding
    <3> QED BY <3>1, <3>2
  <2>2. H = [t \in SUBSET (1 .. n) |-> H[t]]
    OBVIOUS
  <2>3. H = [t \in SUBSET (1 .. n) |-> IF t = {} THEN s ELSE Emit(H[t \ {Max(t)}], ns[Max(t)])]
    BY <2>1, <2>2
  <2> QED BY <1>1, <2>3
<1>8. Runs(I)
  <2> HIDE DEF Runs
  <2> QED BY <1>7
<1> HIDE DEF I, Runs
<1>9. Stepping(n, States, s, F, I)
  <2>1. {} \in SUBSET (1 .. n) /\ \A j \in 1 .. n : 1 .. j \in SUBSET (1 .. n)
    BY <1>1
  <2>2. \A j \in 1 .. n : 1 .. j # {} /\ Max(1 .. j) = j /\ (1 .. j) \ {Max(1 .. j)} = 1 .. (j - 1)
    BY <1>1, Shortened
  <2>3. I[{}] = s /\ \A j \in 1 .. n : I[1 .. j] = Emit(I[1 .. (j - 1)], ns[j])
    BY <1>1, <1>8, <2>1, <2>2 DEF Runs
  <2> QED BY <1>4, <2>3 DEF Stepping
<1>10. PICK w : w \in [0 .. n -> States] /\ Walk(n, s, F, w) /\ w[n] = I[1 .. n]
  <2>1. \E w : Walks(n, States, s, F, w, I[1 .. n])
    BY <1>1, <1>5, <1>9, FoldIs
  <2> QED BY <2>1 DEF Walks
<1>11. \A j \in 1 .. n : w[j] = Emit(w[j - 1], ns[j])
  <2> SUFFICES ASSUME NEW j \in 1 .. n PROVE w[j] = Emit(w[j - 1], ns[j])
    OBVIOUS
  <2>1. j - 1 \in 0 .. n
    BY <1>1
  <2> QED BY <1>4, <1>10, <2>1 DEF Walk
<1>12. w[0] = s /\ EmitGroup(s, ns) = w[n]
  BY <1>1, <1>2, <1>10 DEF Walk
<1> QED BY <1>10, <1>11, <1>12 DEF n

LEMMA EmitGroupStays ==
  ASSUME Setting, NEW s \in States, NEW ns \in Seq(Nodes(pipe)) PROVE EmitGroup(s, ns) \in States
<1>1. Len(ns) \in Nat
  OBVIOUS
<1> QED BY <1>1, EmitGroupGo

Nothing == [ok |-> TRUE, outs |-> {}, code |-> << >>]

LEMMA NothingIs == Nothing \in States
<1>1. OperandsIn(<< >>)
  BY DEF OperandsIn
<1>2. Shown({}, << >>)
  BY <1>1 DEF Shown
<1>3. Nothing \in [ok : BOOLEAN, outs : SUBSET CodeNodes(pipe), code : Seq(AnyIns)]
  BY DEF Nothing
<1>4. Nothing.outs = {} /\ Nothing.code = << >>
  BY DEF Nothing
<1> QED BY <1>2, <1>3, <1>4 DEF States

\* The code of a pipeline is put together one group after the other.
LEMMA GeneratedGo ==
  ASSUME Setting
  PROVE  \E w : /\ w \in [0 .. Len(pipe.groups) -> States] /\ w[0] = Nothing
                /\ \A j \in 1 .. Len(pipe.groups) : w[j] = EmitGroup(w[j - 1], pipe.groups[j])
                /\ Generated = w[Len(pipe.groups)]
<1> DEFINE n == Len(pipe.groups)
           F == [p \in (States) \X (1 .. n) |-> EmitGroup(p[1], pipe.groups[p[2]])]
           Runs(G) == G = [t \in SUBSET (DOMAIN pipe.groups) |-> IF t = {} THEN Nothing ELSE EmitGroup(G[t \ {Max(t)}], pipe.groups[Max(t)])]
           I == CHOOSE G : Runs(G)
<1>1. n \in Nat /\ DOMAIN pipe.groups = 1 .. n /\ Nothing \in States
  <2>1. pipe.groups \in Seq(Seq(Nodes(pipe)))
    BY DEF Setting, PipelineOk
  <2> QED BY <2>1, NothingIs
<1>2. Generated = I[DOMAIN pipe.groups]
  BY DEF Generated, Nothing, FoldLeft, MapThenFoldSet
<1>3. \A a \in States, j \in 1 .. n : EmitGroup(a, pipe.groups[j]) \in States
  <2>1. \A j \in 1 .. n : pipe.groups[j] \in Seq(Nodes(pipe))
    BY DEF Setting, PipelineOk
  <2> QED BY <2>1, EmitGroupStays
<1>4. \A a \in States, j \in 1 .. n : F[<<a, j>>] = EmitGroup(a, pipe.groups[j])
  <2> HIDE DEF n
  <2> QED OBVIOUS
<1>5. F \in [(States) \X (1 .. n) -> States]
  <2>1. \A p \in (States) \X (1 .. n) : EmitGroup(p[1], pipe.groups[p[2]]) \in States
    BY <1>3
  <2> HIDE DEF n
  <2> QED BY <2>1
<1> HIDE DEF F, n
<1>6. PICK H \in [SUBSET (1 .. n) -> States] : Folding(n, Nothing, F, H)
  BY <1>1, <1>5, FoldingExists
<1>7. Runs(H)
  <2>1. ASSUME NEW t \in SUBSET (1 .. n) PROVE H[t] = IF t = {} THEN Nothing ELSE EmitGroup(H[t \ {Max(t)}], pipe.groups[Max(t)])
    <3>1. CASE t # {}
      <4>1. Max(t) \in 1 .. n /\ t \ {Max(t)} \in SUBSET (1 .. n)
        BY <1>1, <3>1, GreatestIn
      <4>2. H[t \ {Max(t)}] \in States
        BY <4>1
      <4>3. H[t] = F[<<H[t \ {Max(t)}], Max(t)>>]
        BY <1>6, <3>1 DEF Folding
      <4> QED BY <1>4, <3>1, <4>1, <4>2, <4>3
    <3>2. CASE t = {}
      BY <1>6, <3>2 DEF Folding
    <3> QED BY <3>1, <3>2
  <2>2. H = [t \in SUBSET (1 .. n) |-> H[t]]
    OBVIOUS
  <2>3. H = [t \in SUBSET (1 .. n) |-> IF t = {} THEN Nothing ELSE EmitGroup(H[t \ {Max(t)}], pipe.groups[Max(t)])]
    BY <2>1, <2>2
  <2> QED BY <1>1, <2>3
<1>8. Runs(I)
  <2> HIDE DEF Runs
  <2> QED BY <1>7
<1> HIDE DEF I, Runs
<1>9. Stepping(n, States, Nothing, F, I)
  <2>1. {} \in SUBSET (1 .. n) /\ \A j \in 1 .. n : 1 .. j \in SUBSET (1 .. n)
    BY <1>1
  <2>2. \A j \in 1 .. n : 1 .. j # {} /\ Max(1 .. j) = j /\ (1 .. j) \ {Max(1 .. j)} = 1 .. (j - 1)
    BY <1>1, Shortened
  <2>3. I[{}] = Nothing /\ \A j \in 1 .. n : I[1 .. j] = EmitGroup(I[1 .. (j - 1)], pipe.groups[j])
    BY <1>1, <1>8, <2>1, <2>2 DEF Runs
  <2> QED BY <1>4, <2>3 DEF Stepping
<1>10. PICK w : w \in [0 .. n -> States] /\ Walk(n, Nothing, F, w) /\ w[n] = I[1 .. n]
  <2>1. \E w : Walks(n, States, Nothing, F, w, I[1 .. n])
    BY <1>1, <1>5, <1>9, FoldIs
  <2> QED BY <2>1 DEF Walks
<1>11. \A j \in 1 .. n : w[j] = EmitGroup(w[j - 1], pipe.groups[j])
  <2> SUFFICES ASSUME NEW j \in 1 .. n PROVE w[j] = EmitGroup(w[j - 1], pipe.groups[j])
    OBVIOUS
  <2>1. j - 1 \in 0 .. n
    BY <1>1
  <2> QED BY <1>4, <1>10, <2>1 DEF Walk
<1>12. w[0] = Nothing /\ Generated = w[n]
  BY <1>1, <1>2, <1>10 DEF Walk
<1> QED BY <1>10, <1>11, <1>12 DEF n
-----------------------------------------------------------------------------
(***************************************************************************)
(* The stages are called in the order of their groups.                     *)
(***************************************************************************)
\* The code of groups up to k, and of stages in the set S.
Staged(g, k, S) ==
  /\ g \in States /\ Levelled(g.code) /\ \A u \in g.outs : Level(pipe, u) <= k
  /\ g.ok => S \subseteq g.outs

LEMMA EmitStaged ==
  ASSUME Setting, NEW k \in Nat, NEW x \in Nodes(pipe), Level(pipe, x) = k, NEW S, NEW g, Staged(g, k, S)
  PROVE  Staged(Emit(g, x), k, S \cup ({x} \cap CodeNodes(pipe)))
<1>1. g \in States /\ Levelled(g.code) /\ (\A u \in g.outs : Level(pipe, u) <= k) /\ (g.ok => S \subseteq g.outs)
  BY DEF Staged
<1>2. CASE ~ g.ok \/ x \notin CodeNodes(pipe)
  <2>1. Emit(g, x) = g
    BY <1>2, EmitIs
  <2> QED BY <1>1, <1>2, <2>1 DEF Staged
<1>3. CASE g.ok /\ x \in CodeNodes(pipe)
  <2> DEFINE h == Emit(g, x)  b == g.code  r == h.code
  <2>1. h.outs = g.outs \cup {x} /\ Grown(b, r, x)
    <3>1. h = [ok |-> Match(g, x).ok, outs |-> g.outs \cup {x}, code |-> r] /\ Grown(b, r, x)
      BY <1>1, <1>3, EmitGrows
    <3> HIDE DEF h, r
    <3>2. h.outs = g.outs \cup {x}
      BY <3>1
    <3> QED BY <3>1, <3>2
  <2>2. h \in States
    BY <1>1, EmitStays
  <2>3. b \in Seq(AnyIns) /\ \A i \in Starts(b) : b[i].node \in g.outs
    <3>1. b \in Seq(AnyIns) /\ \A i \in DOMAIN b : b[i].op \in CodeOps /\ (b[i].op = "call" => b[i].node \in g.outs)
      BY <1>1 DEF States, Shown
    <3> HIDE DEF b
    <3> QED BY <3>1 DEF Starts, CodeOps
  <2>4. g.outs \subseteq Nodes(pipe)
    BY <1>1 DEF States, CodeNodes
  <2> HIDE DEF h, b, r
  <2>5. /\ r \in Seq(AnyIns) /\ Len(b) <= Len(r) /\ \A i \in 1 .. Len(b) : r[i] = b[i]
        /\ \A i \in Len(b) + 1 .. Len(r) : r[i].op \in CodeOps /\ (r[i].op = "call" => r[i].id = x /\ r[i].node = x)
    BY <2>1 DEF Grown
  <2>6. DOMAIN b = 1 .. Len(b) /\ DOMAIN r = 1 .. Len(r) /\ Len(b) \in Nat /\ Len(r) \in Nat
    BY <2>3, <2>5
  <2>7. ASSUME NEW i \in Starts(r)
        PROVE  \/ i \in 1 .. Len(b) /\ i \in Starts(b) /\ r[i] = b[i]
               \/ i \in Len(b) + 1 .. Len(r) /\ r[i].node = x
    <3>1. i \in 1 .. Len(r) /\ r[i].op \in {"call", "spawn"}
      BY <2>6 DEF Starts
    <3>2. CASE i \in 1 .. Len(b)
      BY <2>5, <2>6, <3>1, <3>2 DEF Starts
    <3>3. CASE i \in Len(b) + 1 .. Len(r)
      BY <2>5, <3>1, <3>3 DEF CodeOps
    <3>4. i \in 1 .. Len(b) \/ i \in Len(b) + 1 .. Len(r)
      BY <2>6, <3>1
    <3> QED BY <3>2, <3>3, <3>4
  <2>8. Levelled(r)
    <3> SUFFICES ASSUME NEW i \in Starts(r), NEW j \in Starts(r), i < j
                 PROVE  Level(pipe, r[i].node) <= Level(pipe, r[j].node)
      BY DEF Levelled
    <3>1. CASE i \in 1 .. Len(b) /\ j \in 1 .. Len(b)
      <4>1. i \in Starts(b) /\ j \in Starts(b) /\ r[i] = b[i] /\ r[j] = b[j]
        BY <2>6, <2>7, <3>1
      <4>2. Levelled(b)
        BY <1>1 DEF b
      <4> QED BY <4>1, <4>2 DEF Levelled
    <3>2. CASE i \in 1 .. Len(b) /\ j \in Len(b) + 1 .. Len(r)
      <4>1. i \in Starts(b) /\ r[i] = b[i] /\ r[j].node = x
        BY <2>6, <2>7, <3>2
      <4>2. Level(pipe, b[i].node) <= k
        BY <1>1, <2>3, <4>1
      <4> QED BY <4>1, <4>2
    <3>3. CASE i \in Len(b) + 1 .. Len(r)
      <4>1. j \in Len(b) + 1 .. Len(r)
        BY <2>6, <2>7, <3>3
      <4>2. r[i].node = x /\ r[j].node = x
        BY <2>6, <2>7, <3>3, <4>1
      <4> QED BY <4>2
    <3> QED BY <2>7, <3>1, <3>2, <3>3
  <2>9. \A u \in g.outs \cup {x} : Level(pipe, u) <= k
    BY <1>1
  <2>10. S \cup ({x} \cap CodeNodes(pipe)) \subseteq g.outs \cup {x}
    BY <1>1, <1>3
  <2>11. Staged(h, k, S \cup ({x} \cap CodeNodes(pipe)))
    BY <2>1, <2>2, <2>8, <2>9, <2>10 DEF Staged, r
  <2> QED BY <2>11 DEF h
<1> QED BY <1>2, <1>3
LEMMA GroupStaged ==
  ASSUME Setting, NEW k \in DOMAIN pipe.groups, NEW S, NEW s, Staged(s, k - 1, S)
  PROVE  Staged(EmitGroup(s, pipe.groups[k]), k, S \cup (ToSet(pipe.groups[k]) \cap CodeNodes(pipe)))
<1> DEFINE ns == pipe.groups[k]
           First(i) == {ns[j] : j \in 1 .. i}
<1>1. k \in Nat /\ ns \in Seq(Nodes(pipe))
  BY DEF Setting, PipelineOk
<1>2. \A u \in Nodes(pipe) : Level(pipe, u) \in Nat /\ \A j \in 1 .. Len(ns) : Level(pipe, ns[j]) = k
  <2>1. PipelineOk(pipe)
    BY DEF Setting
  <2>2. \A j \in 1 .. Len(ns) : ns[j] \in Nodes(pipe) /\ ns[j] \in ToSet(pipe.groups[k])
    BY <1>1 DEF ToSet
  <2> HIDE DEF ns
  <2> QED BY <2>1, <2>2, LevelIs
<1>3. Staged(s, k, S)
  <2>1. /\ s \in States /\ Levelled(s.code) /\ (\A u \in s.outs : Level(pipe, u) <= k - 1)
        /\ (s.ok => S \subseteq s.outs)
    BY DEF Staged
  <2>2. s.outs \subseteq Nodes(pipe)
    BY <2>1 DEF States, CodeNodes
  <2>3. \A u \in s.outs : Level(pipe, u) <= k
    BY <1>1, <1>2, <2>1, <2>2
  <2> QED BY <2>1, <2>3 DEF Staged
<1> HIDE DEF ns
<1>4. PICK w : /\ w[0] = s /\ EmitGroup(s, ns) = w[Len(ns)]
               /\ \A j \in 1 .. Len(ns) : w[j] = Emit(w[j - 1], ns[j])
  <2>1. s \in States
    BY DEF Staged
  <2> QED BY <1>1, <2>1, EmitGroupGo
<1> DEFINE K == {i \in Nat : i <= Len(ns) => Staged(w[i], k, S \cup (First(i) \cap CodeNodes(pipe)))}
<1>5. 0 \in K
  <2>1. First(0) = {}
    OBVIOUS
  <2>2. S \cup (First(0) \cap CodeNodes(pipe)) = S
    BY <2>1
  <2> QED BY <1>3, <1>4, <2>2
<1>6. ASSUME NEW i \in K PROVE i + 1 \in K
  <2> SUFFICES ASSUME i + 1 <= Len(ns) PROVE Staged(w[i + 1], k, S \cup (First(i + 1) \cap CodeNodes(pipe)))
    OBVIOUS
  <2>1. i \in Nat /\ Len(ns) \in Nat /\ i + 1 \in 1 .. Len(ns) /\ i <= Len(ns) /\ (i + 1) - 1 = i
    BY <1>1
  <2>2. Staged(w[i], k, S \cup (First(i) \cap CodeNodes(pipe)))
    BY <2>1
  <2>3. w[i + 1] = Emit(w[i], ns[i + 1])
    BY <1>4, <2>1
  <2>4. ns[i + 1] \in Nodes(pipe) /\ Level(pipe, ns[i + 1]) = k
    BY <1>1, <1>2, <2>1
  <2>5. First(i + 1) = First(i) \cup {ns[i + 1]}
    <3>1. 1 .. (i + 1) = (1 .. i) \cup {i + 1}
      BY <2>1
    <3> QED BY <3>1
  <2> HIDE DEF First
  <2>6. Staged(Emit(w[i], ns[i + 1]), k, (S \cup (First(i) \cap CodeNodes(pipe))) \cup ({ns[i + 1]} \cap CodeNodes(pipe)))
    BY <1>1, <2>2, <2>4, EmitStaged
  <2>7. (S \cup (First(i) \cap CodeNodes(pipe))) \cup ({ns[i + 1]} \cap CodeNodes(pipe))
        = S \cup (First(i + 1) \cap CodeNodes(pipe))
    BY <2>5
  <2> QED BY <2>3, <2>6, <2>7
<1>7. K = Nat
  <2>1. K \in SUBSET Nat
    OBVIOUS
  <2> HIDE DEF K
  <2> QED BY <1>5, <1>6, <2>1, AllNumbers
<1>8. Len(ns) \in Nat
  BY <1>1
<1>9. First(Len(ns)) = ToSet(ns)
  BY <1>1 DEF ToSet
<1>10. Staged(w[Len(ns)], k, S \cup (First(Len(ns)) \cap CodeNodes(pipe)))
  <2>1. Len(ns) \in K
    <3> HIDE DEF K
    <3> QED BY <1>7, <1>8
  <2>2. Len(ns) <= Len(ns)
    BY <1>8
  <2> HIDE DEF First
  <2> QED BY <2>1, <2>2
<1> QED BY <1>4, <1>9, <1>10 DEF ns

\* The whole code: every stage that maps to a function is called, group by group.
LEMMA GeneratedStaged ==
  ASSUME Setting
  PROVE  /\ Generated \in States /\ Levelled(Generated.code)
         /\ Generated.ok => CodeNodes(pipe) \subseteq Generated.outs
<1> DEFINE n == Len(pipe.groups)
           Upto(i) == {u \in CodeNodes(pipe) : Level(pipe, u) <= i}
<1>1. pipe.groups \in Seq(Seq(Nodes(pipe))) /\ n \in Nat /\ DOMAIN pipe.groups = 1 .. n
  BY DEF Setting, PipelineOk
<1>2. \A u \in CodeNodes(pipe) :
        /\ Level(pipe, u) \in 1 .. n
        /\ \A g \in 1 .. n : u \in ToSet(pipe.groups[g]) <=> g = Level(pipe, u)
  <2>1. PipelineOk(pipe)
    BY DEF Setting
  <2>2. \A u \in Nodes(pipe) : u \in ToSet(pipe.groups[Level(pipe, u)])
    <3> SUFFICES ASSUME NEW u \in Nodes(pipe) PROVE u \in ToSet(pipe.groups[Level(pipe, u)])
      OBVIOUS
    <3>1. \E g \in DOMAIN pipe.groups : u \in ToSet(pipe.groups[g])
      BY <2>1 DEF PipelineOk
    <3> QED BY <2>1, <3>1, LevelIs
  <2>3. \A u \in Nodes(pipe) : /\ Level(pipe, u) \in 1 .. n
                               /\ \A g \in 1 .. n : u \in ToSet(pipe.groups[g]) => g = Level(pipe, u)
    BY <1>1, <2>1, LevelIs
  <2>4. CodeNodes(pipe) \subseteq Nodes(pipe)
    BY DEF CodeNodes
  <2> HIDE DEF n
  <2> QED BY <2>2, <2>3, <2>4
<1>3. PICK w : /\ w[0] = Nothing /\ Generated = w[n]
               /\ \A j \in 1 .. n : w[j] = EmitGroup(w[j - 1], pipe.groups[j])
  BY <1>1, GeneratedGo
<1> DEFINE K == {i \in Nat : i <= n => Staged(w[i], i, Upto(i))}
<1>4. 0 \in K
  <2>1. Upto(0) = {}
    <3> HIDE DEF n
    <3> QED BY <1>2
  <2>2. Nothing.outs = {} /\ Nothing.code = << >>
    BY DEF Nothing
  <2>3. Levelled(<< >>)
    BY DEF Levelled, Starts
  <2>4. Staged(Nothing, 0, Upto(0))
    BY <2>1, <2>2, <2>3, NothingIs DEF Staged
  <2> QED BY <1>3, <2>4
<1>5. ASSUME NEW i \in K PROVE i + 1 \in K
  <2> SUFFICES ASSUME i + 1 <= n PROVE Staged(w[i + 1], i + 1, Upto(i + 1))
    OBVIOUS
  <2>1. i \in Nat /\ i + 1 \in 1 .. n /\ i <= n /\ (i + 1) - 1 = i
    BY <1>1
  <2>2. Staged(w[i], (i + 1) - 1, Upto(i))
    BY <2>1
  <2>3. w[i + 1] = EmitGroup(w[i], pipe.groups[i + 1])
    BY <1>3, <2>1
  <2>4. Upto(i + 1) = Upto(i) \cup (ToSet(pipe.groups[i + 1]) \cap CodeNodes(pipe))
    <3>1. \A u \in CodeNodes(pipe) : Level(pipe, u) <= i + 1 <=> Level(pipe, u) <= i \/ Level(pipe, u) = i + 1
      <4> HIDE DEF n
      <4> QED BY <1>2, <2>1
    <3>2. \A u \in CodeNodes(pipe) : u \in ToSet(pipe.groups[i + 1]) <=> Level(pipe, u) = i + 1
      <4> HIDE DEF n
      <4> QED BY <1>2, <2>1
    <3> QED BY <3>1, <3>2
  <2> HIDE DEF Upto
  <2>5. Staged(EmitGroup(w[i], pipe.groups[i + 1]), i + 1, Upto(i) \cup (ToSet(pipe.groups[i + 1]) \cap CodeNodes(pipe)))
    <3>1. i + 1 \in DOMAIN pipe.groups
      BY <1>1, <2>1
    <3> HIDE DEF n
    <3> QED BY <2>2, <3>1, GroupStaged
  <2> QED BY <2>3, <2>4, <2>5
<1>6. K = Nat
  <2>1. K \in SUBSET Nat
    OBVIOUS
  <2> HIDE DEF K
  <2> QED BY <1>4, <1>5, <2>1, AllNumbers
<1>7. Staged(w[n], n, Upto(n))
  <2> HIDE DEF Upto
  <2> QED BY <1>1, <1>6
<1>8. Upto(n) = CodeNodes(pipe)
  <2> HIDE DEF n
  <2> QED BY <1>1, <1>2
<1> HIDE DEF Upto
<1> QED BY <1>3, <1>7, <1>8 DEF Staged
-----------------------------------------------------------------------------
(***************************************************************************)
(* The body before it is made parallel.                                    *)
(***************************************************************************)
\* What is put behind the code and starts no stage.
Trails(b, c) ==
  /\ c \in Seq(AnyIns) /\ Len(c) # 0 /\ c[Len(c)].op = "ret"
  /\ \A i \in DOMAIN c : c[i].op \in {"extract", "ret"}
  /\ \A i \in DOMAIN c : \A v \in ToSet(c[i].args) : Known(b, v) \/ \E j \in 1 .. i - 1 : c[j].def = v

LEMMA TrailedOk ==
  ASSUME Setting, NEW g \in States, Levelled(g.code), CodeNodes(pipe) \subseteq g.outs, NEW c, Trails(g.code, c)
  PROVE  BodyOk(g.code \o c, 1)
<1> DEFINE b == g.code  r == b \o c
<1>1. /\ b \in Seq(AnyIns) /\ OperandsIn(b) /\ g.outs \subseteq Nodes(pipe)
      /\ \A u \in g.outs : \E i \in DOMAIN b : b[i].op = "call" /\ b[i].node = u
      /\ \A i \in DOMAIN b : /\ b[i].op \in CodeOps
                             /\ b[i].op = "call" => b[i].id = b[i].node /\ b[i].node \in g.outs
  BY DEF States, Shown, CodeNodes
<1>2. /\ c \in Seq(AnyIns) /\ Len(c) # 0 /\ c[Len(c)].op = "ret"
      /\ \A i \in DOMAIN c : c[i].op \in {"extract", "ret"}
      /\ \A i \in DOMAIN c : \A v \in ToSet(c[i].args) : Known(b, v) \/ \E j \in 1 .. i - 1 : c[j].def = v
  BY DEF Trails
<1>3. Levelled(b)
  OBVIOUS
<1> HIDE DEF b
<1>4. /\ Len(b) \in Nat /\ Len(c) \in Nat /\ DOMAIN b = 1 .. Len(b) /\ DOMAIN c = 1 .. Len(c)
  BY <1>1, <1>2
<1>5. Sized(AnyIns, b, Len(b)) /\ Sized(AnyIns, c, Len(c))
  BY <1>1, <1>2, <1>4 DEF Sized
<1>6. Sized(AnyIns, r, Len(b) + Len(c)) /\ Behind(r, b, 0, Len(b)) /\ Behind(r, c, Len(b), Len(c))
  BY <1>5, Concat
<1> HIDE DEF r
<1>7. /\ r \in Seq(AnyIns) /\ Len(r) = Len(b) + Len(c) /\ DOMAIN r = 1 .. Len(r)
      /\ \A i \in 1 .. Len(b) : r[i] = b[i]
      /\ \A i \in 1 .. Len(c) : r[Len(b) + i] = c[i]
  <2>1. r \in Seq(AnyIns) /\ Len(r) = Len(b) + Len(c)
    BY <1>6 DEF Sized
  <2>2. \A i \in 1 .. Len(b) : 0 + i = i
    BY <1>4
  <2> QED BY <1>6, <2>1, <2>2 DEF Behind
<1>8. ASSUME NEW i \in 1 .. Len(r), ~(i \in 1 .. Len(b))
      PROVE  \E j \in 1 .. Len(c) : i = Len(b) + j
  <2>1. i - Len(b) \in 1 .. Len(c) /\ i = Len(b) + (i - Len(b))
    BY <1>4, <1>7, <1>8
  <2> QED BY <2>1
<1>9. Starts(r) = Starts(b)
  <2>1. ASSUME NEW i \in Starts(r) PROVE i \in Starts(b)
    <3>1. i \in 1 .. Len(r) /\ r[i].op \in {"call", "spawn"}
      BY <1>7 DEF Starts
    <3>2. CASE i \in 1 .. Len(b)
      BY <1>4, <1>7, <3>1, <3>2 DEF Starts
    <3>3. CASE ~(i \in 1 .. Len(b))
      <4>1. PICK j \in 1 .. Len(c) : i = Len(b) + j
        BY <1>8, <3>1, <3>3
      <4>2. r[i] = c[j] /\ c[j].op \in {"extract", "ret"}
        BY <1>2, <1>4, <1>7, <4>1
      <4> QED BY <3>1, <4>2
    <3> QED BY <3>2, <3>3
  <2>2. ASSUME NEW i \in Starts(b) PROVE i \in Starts(r)
    <3>1. i \in 1 .. Len(b) /\ b[i].op \in {"call", "spawn"}
      BY <1>4 DEF Starts
    <3>2. i \in 1 .. Len(r)
      BY <1>4, <1>7, <3>1
    <3> QED BY <1>7, <3>1, <3>2 DEF Starts
  <2> QED BY <2>1, <2>2
<1>10. \A i \in Starts(b) : /\ r[i] = b[i] /\ b[i].op = "call" /\ b[i].id = b[i].node
                            /\ b[i].node \in g.outs /\ i \in DOMAIN b
  BY <1>1, <1>4, <1>7 DEF Starts, CodeOps
<1>11. Named(r)
  <2>1. \A x \in CodeNodes(pipe) : \E i \in Starts(r) : r[i].node = x
    <3> SUFFICES ASSUME NEW x \in CodeNodes(pipe) PROVE \E i \in Starts(r) : r[i].node = x
      OBVIOUS
    <3>1. PICK i \in DOMAIN b : b[i].op = "call" /\ b[i].node = x
      BY <1>1
    <3>2. i \in Starts(b)
      BY <3>1 DEF Starts
    <3> QED BY <1>9, <1>10, <3>1, <3>2
  <2> QED BY <1>1, <1>9, <1>10, <2>1 DEF Named
<1>12. Levelled(r)
  BY <1>3, <1>9, <1>10 DEF Levelled
<1>13. Forked(r, 1)
  <2>1. \A i \in DOMAIN r : r[i].op # "spawn"
    <3> SUFFICES ASSUME NEW i \in DOMAIN r, r[i].op = "spawn" PROVE FALSE
      OBVIOUS
    <3>1. i \in Starts(r)
      BY DEF Starts
    <3> QED BY <1>9, <1>10, <3>1
  <2> QED BY <2>1 DEF Forked
<1>14. Ends(r)
  <2>1. Len(c) \in 1 .. Len(c)
    BY <1>2, <1>4
  <2>2. r[Len(r)] = c[Len(c)] /\ Len(r) # 0
    BY <1>2, <1>4, <1>7, <2>1
  <2> QED BY <1>2, <2>2 DEF Ends
<1>15. OperandsIn(r)
  <2> SUFFICES ASSUME NEW i \in 1 .. Len(r), NEW v \in ToSet(r[i].args) PROVE Dominates(r, v, i)
    BY <1>7 DEF OperandsIn
  <2>1. CASE i \in 1 .. Len(b)
    <3>1. Dominates(b, v, i)
      BY <1>1, <1>4, <1>7, <2>1 DEF OperandsIn
    <3>2. \A j \in 1 .. i - 1 : r[j] = b[j]
      <4>1. \A j \in 1 .. i - 1 : j \in 1 .. Len(b)
        BY <1>4, <2>1
      <4> QED BY <1>7, <4>1
    <3> QED BY <3>1, <3>2 DEF Dominates
  <2>2. CASE ~(i \in 1 .. Len(b))
    <3>1. PICK j \in 1 .. Len(c) : i = Len(b) + j
      BY <1>8, <2>2
    <3>2. r[i] = c[j]
      BY <1>7, <3>1
    <3>3. Known(b, v) \/ \E k \in 1 .. j - 1 : c[k].def = v
      BY <1>2, <1>4, <3>2
    <3>4. CASE v[1] = "param"
      BY <3>4 DEF Dominates
    <3>5. CASE v \in Defs(b)
      <4>1. PICK k \in 1 .. Len(b) : b[k].def = v
        BY <1>4, <3>5 DEF Defs
      <4>2. k \in 1 .. i - 1
        BY <1>4, <3>1
      <4> QED BY <1>7, <4>1, <4>2 DEF Dominates
    <3>6. CASE \E k \in 1 .. j - 1 : c[k].def = v
      <4>1. PICK k \in 1 .. j - 1 : c[k].def = v
        BY <3>6
      <4>2. k \in 1 .. Len(c) /\ Len(b) + k \in 1 .. i - 1
        BY <1>4, <3>1
      <4>3. r[Len(b) + k].def = v
        BY <1>7, <4>1, <4>2
      <4> QED BY <4>2, <4>3 DEF Dominates
    <3> QED BY <3>3, <3>4, <3>5, <3>6 DEF Known
  <2> QED BY <2>1, <2>2
<1> QED BY <1>7, <1>11, <1>12, <1>13, <1>14, <1>15 DEF BodyOk, r, b

\* The return of the terminal's output, or of a field of it.
LEMMA ReturnTrails ==
  ASSUME Setting, NEW g \in States, Return(g) # << >> PROVE Trails(g.code, Return(g))
<1> DEFINE t == pipe.terminal  b == g.code
           from == {i \in DOMAIN Fields[OutType(t)] : Fields[OutType(t)][i] = pipe.ret}
           e == Extract("ret", t, Min(from))
<1>1. t \in Nodes(pipe) /\ t \in Names /\ "ret" \in Names /\ "field" \in Names
  <2>1. t \in Nodes(pipe)
    BY DEF Setting, PipelineOk
  <2> QED BY <2>1, NodeNames DEF Names
<1>2. Out(t) \in Vals /\ None \in Vals /\ <<Out(t)>> \in Seq(Vals) /\ << >> \in Seq(Vals)
  <2>1. 0 \in Nat
    OBVIOUS
  <2>2. Out(t) \in Vals /\ None \in Vals
    BY <1>1, <2>1, ValsHold
  <2> QED BY <2>2
<1>3. \A u \in g.outs : OutType(u) # "void" => Out(u) \in Defs(b)
  BY DEF States, Shown
<1>4. Return(g) = IF pipe.ret = "void" THEN <<Ins("ret", "ret", t, << >>, None)>>
                  ELSE IF t \notin g.outs THEN << >>
                  ELSE IF OutType(t) = pipe.ret THEN <<Ins("ret", "ret", t, <<Out(t)>>, None)>>
                  ELSE IF OutType(t) \in DOMAIN Fields /\ from # {} THEN <<e, Ins("ret", "ret", t, <<e.def>>, None)>>
                  ELSE << >>
  BY DEF Return
<1>5. \A as \in Seq(Vals) : LET i == Ins("ret", "ret", t, as, None) IN
        i \in AnyIns /\ i.op = "ret" /\ i.args = as
  <2>1. "ret" \in Ops
    BY DEF Ops
  <2>2. \A as \in Seq(Vals) : Ins("ret", "ret", t, as, None) \in AnyIns
    BY <1>1, <1>2, <2>1, InsType
  <2> QED BY <2>2 DEF Ins
<1>6. ToSet(<< >>) = {}
  BY DEF ToSet
<1>7. CASE pipe.ret = "void"
  <2> DEFINE i == Ins("ret", "ret", t, << >>, None)
  <2>1. i \in AnyIns /\ i.op = "ret" /\ i.args = << >>
    BY <1>2, <1>5
  <2>2. Return(g) = <<i>>
    BY <1>4, <1>7
  <2> HIDE DEF i
  <2>3. <<i>> \in Seq(AnyIns) /\ Len(<<i>>) = 1 /\ DOMAIN <<i>> = {1} /\ <<i>>[1] = i
    BY <2>1, SingleIs
  <2> QED BY <1>6, <2>1, <2>2, <2>3 DEF Trails
<1>8. CASE pipe.ret # "void" /\ t \in g.outs /\ OutType(t) = pipe.ret
  <2> DEFINE i == Ins("ret", "ret", t, <<Out(t)>>, None)
  <2>1. i \in AnyIns /\ i.op = "ret" /\ i.args = <<Out(t)>>
    BY <1>2, <1>5
  <2>2. Return(g) = <<i>>
    BY <1>4, <1>8
  <2>3. ToSet(<<Out(t)>>) = {Out(t)}
    BY <1>2, SingleIs
  <2>4. Known(b, Out(t))
    BY <1>3, <1>8 DEF Known
  <2> HIDE DEF i
  <2>5. <<i>> \in Seq(AnyIns) /\ Len(<<i>>) = 1 /\ DOMAIN <<i>> = {1} /\ <<i>>[1] = i
    BY <2>1, SingleIs
  <2> QED BY <2>1, <2>2, <2>3, <2>4, <2>5 DEF Trails
<1>9. CASE pipe.ret # "void" /\ t \in g.outs /\ OutType(t) # pipe.ret /\ OutType(t) \in DOMAIN Fields /\ from # {}
  <2> DEFINE i == Ins("ret", "ret", t, <<e.def>>, None)
  <2>1. Return(g) = <<e, i>>
    BY <1>4, <1>9
  <2>2. Min(from) \in Nat
    <3>1. from \in SUBSET Nat
      <4>1. Fields[OutType(t)] \in Seq(STRING)
        BY <1>9 DEF Setting
      <4> QED BY <4>1
    <3> HIDE DEF from
    <3> QED BY <1>9, <3>1, LeastIn
  <2> HIDE DEF from
  <2>3. e \in AnyIns /\ e.op = "extract" /\ e.args = <<Out(t)>> /\ e.def \in Vals
    <3>1. "extract" \in Ops /\ <<"field", "ret", t, Min(from)>> \in Vals
      <4>1. <<"field", "ret", t, Min(from)>> \in Vals
        BY <1>1, <2>2, ValsHold
      <4> QED BY <4>1 DEF Ops
    <3>2. e \in AnyIns
      BY <1>1, <1>2, <3>1, InsType DEF Extract
    <3> QED BY <3>1, <3>2 DEF Extract, Ins
  <2> HIDE DEF e
  <2>4. <<e.def>> \in Seq(Vals) /\ ToSet(<<e.def>>) = {e.def} /\ ToSet(<<Out(t)>>) = {Out(t)}
    BY <1>2, <2>3, SingleIs
  <2>5. i \in AnyIns /\ i.op = "ret" /\ i.args = <<e.def>>
    BY <1>5, <2>4
  <2>6. Known(b, Out(t))
    <3>1. OutType(t) # "void"
      BY <1>9 DEF Setting
    <3> QED BY <1>3, <1>9, <3>1 DEF Known
  <2> HIDE DEF i, b
  <2>7. /\ <<e, i>> \in Seq(AnyIns) /\ Len(<<e, i>>) = 2 /\ DOMAIN <<e, i>> = {1, 2}
        /\ <<e, i>>[1] = e /\ <<e, i>>[2] = i /\ 1 \in 1 .. 2 - 1
    BY <2>3, <2>5
  <2>8. Trails(b, <<e, i>>)
    BY <2>3, <2>4, <2>5, <2>6, <2>7 DEF Trails
  <2> QED BY <2>1, <2>8 DEF b
<1> QED BY <1>4, <1>7, <1>8, <1>9

\* The body that is generated for a stub.
LEMMA GeneratedOk ==
  ASSUME Setting, Generated.ok, Return(Generated) # << >>
  PROVE  BodyOk(Generated.code \o Return(Generated), 1)
<1>1. Generated \in States /\ Levelled(Generated.code) /\ CodeNodes(pipe) \subseteq Generated.outs
  BY GeneratedStaged
<1> QED BY <1>1, ReturnTrails, TrailedOk

\* A body that was written by hand.
LEMMA HandMadeOk == ASSUME PipelineOk(pipe), pipe.body # << >> PROVE BodyOk(pipe.body, 1)
<1> DEFINE b == pipe.body
           calls == {i \in DOMAIN b : b[i].op = "call"}
<1>0. HandMade(pipe, b)
  BY DEF PipelineOk
<1>1. /\ b \in Seq(StageCode) /\ b[Len(b)].op = "ret" /\ OperandsIn(b)
      /\ {b[i].node : i \in calls} \subseteq Nodes(pipe) /\ CodeNodes(pipe) \subseteq {b[i].node : i \in calls}
      /\ \A i, j \in calls : /\ b[i].id = b[j].id => b[i].node = b[j].node
                             /\ i < j => Level(pipe, b[i].node) <= Level(pipe, b[j].node)
  <2>1. b \in Seq(StageCode) /\ b # << >> /\ \A i \in DOMAIN b : b[i].op = "ret" <=> i = Len(b)
    BY <1>0 DEF HandMade
  <2> HIDE DEF b
  <2>2. Len(b) \in DOMAIN b
    BY <2>1
  <2>3. {b[i].node : i \in calls} = CodeNodes(pipe) /\ CodeNodes(pipe) \subseteq Nodes(pipe)
    BY <1>0 DEF HandMade, CodeNodes
  <2> QED BY <1>0, <2>1, <2>2, <2>3 DEF HandMade
<1>2. StageCode \subseteq AnyIns
  <2>1. Terms \subseteq Vals
    BY DEF Terms, Vals, Names
  <2>2. Seq(Terms) \subseteq Seq(Vals)
    BY <2>1, SeqMonotonic
  <2>3. STRING \subseteq Names /\ {"call", "compute", "extract", "alloca", "load", "ret"} \subseteq Ops
    BY DEF Names, Ops
  <2> QED BY <2>1, <2>2, <2>3 DEF StageCode, AnyIns
<1>3. b \in Seq(AnyIns)
  BY <1>1, <1>2, SeqMonotonic
<1>4. \A i \in DOMAIN b : b[i].op # "spawn"
  <2>1. \A i \in DOMAIN b : b[i] \in StageCode
    BY <1>1
  <2> HIDE DEF b
  <2> QED BY <2>1 DEF StageCode
<1>5. Starts(b) = calls
  BY <1>4 DEF Starts
<1>6. Ends(b)
  BY <1>1, <1>3 DEF Ends
<1> HIDE DEF b
<1>7. Named(b)
  <2>1. \A i \in calls : b[i].node \in Nodes(pipe)
    BY <1>1
  <2>2. \A x \in CodeNodes(pipe) : \E i \in calls : b[i].node = x
    BY <1>1
  <2> HIDE DEF calls
  <2> QED BY <1>1, <1>5, <2>1, <2>2 DEF Named
<1>8. Levelled(b)
  BY <1>1, <1>5 DEF Levelled
<1>9. Forked(b, 1)
  BY <1>4 DEF Forked
<1> QED BY <1>1, <1>3, <1>6, <1>7, <1>8, <1>9 DEF BodyOk, b
-----------------------------------------------------------------------------
(***************************************************************************)
(* What the call of the body keeps.                                        *)
(***************************************************************************)
\* The nodes that ran, and the states that the tasks of a body can be in.
Ran(f)      == {f.ran[i][2][1] : i \in DOMAIN f.ran}
TaskStates  == {"queued", "running"} \cup TaskOver
FrameFields == {"env", "mem", "ran", "result", "exc"}
IsFrame(f)  == (\E V : f \in [FrameFields -> V]) /\ \E X : f.ran \in Seq(X)
TaskOf(X)   == [state : TaskStates, call : AnyIns, args : X, result : X]
IsTasks(T)  == \E X : T \in [DOMAIN T -> TaskOf(X)]

\* Before place q of b all was called or spawned, and what was joined is done.
Carried(b, q, T, R) ==
  /\ \A h \in DOMAIN T : \E k \in 1 .. q - 1 : b[k].op = "spawn" /\ b[k].def = h /\ T[h].call = b[k]
  /\ \A k \in 1 .. q - 1 : b[k].op = "spawn" => b[k].def \in DOMAIN T
  /\ \A k, j \in 1 .. q - 1 : b[k].op = "spawn" /\ Joined(b, k, j) => T[b[k].def].state = "done"
  /\ \A k \in 1 .. q - 1 : b[k].op = "call" => b[k].node \in R \ throws

\* What is done has run and did not throw.
Outcome(T, R) == \A h \in DOMAIN T : T[h].state = "done" => T[h].call.node \in R \ throws

\* What has run or was spawned has all that is upstream of it behind it.
Ordered(T, R) ==
  \A i \in DOMAIN pipe.edges :
    pipe.edges[i][2] \in R \cup {T[h].call.node : h \in DOMAIN T} /\ pipe.edges[i][1] \in CodeNodes(pipe)
      => pipe.edges[i][1] \in R \ throws

Resting == {"stub", "grouping", "broken"}
Left    == {"returned", "unwound"}

Inv ==
  /\ Setting /\ throws \subseteq CodeNodes(pipe)
  /\ stagePc \in Resting \cup Left \cup {"running"} /\ group \in Nat \ {0} /\ (stagePc = "stub" => group = 1)
  /\ IF stagePc \in {"stub", "broken"} THEN body = << >> ELSE BodyOk(body, group)
  /\ stagePc \in Resting => pos = 1 /\ frame = Begin /\ task = << >>
  /\ IsFrame(frame) /\ IsTasks(task) /\ Outcome(task, Ran(frame)) /\ Ordered(task, Ran(frame))
  /\ stagePc = "running" => pos \in DOMAIN body /\ frame.exc = "none" /\ Carried(body, pos, task, Ran(frame))
  /\ stagePc \in Left => \A h \in DOMAIN task : task[h].state \in TaskOver
-----------------------------------------------------------------------------
(***************************************************************************)
(* The activation and the tasks, as functions.                             *)
(***************************************************************************)
\* A field of a frame is set, and the others stay.
Fielded(f) == \E V : f \in [FrameFields -> V]
Changes(f, g, x, e) == Fielded(g) /\ g[x] = e /\ \A y \in FrameFields : y # x => g[y] = f[y]

LEMMA FrameSet ==
  ASSUME NEW f, Fielded(f), NEW x \in FrameFields, NEW e
  PROVE  Changes(f, [f EXCEPT ![x] = e], x, e)
<1> PICK V : f \in [FrameFields -> V]
  BY DEF Fielded
<1>1. [f EXCEPT ![x] = e] \in [FrameFields -> V \cup {e}]
  OBVIOUS
<1>2. Fielded([f EXCEPT ![x] = e])
  BY <1>1 DEF Fielded
<1> QED BY <1>2 DEF Changes

\* What is not run leaves the calls and the exception.
Silent(f, g) == IsFrame(g) /\ g.ran = f.ran /\ g.exc = f.exc

LEMMA SetSilent ==
  ASSUME NEW f, IsFrame(f), NEW x \in FrameFields \ {"ran", "exc"}, NEW e
  PROVE  Silent(f, [f EXCEPT ![x] = e])
<1>1. PICK V : f \in [FrameFields -> V]
  BY DEF IsFrame
<1> DEFINE g == [f EXCEPT ![x] = e]
<1>2. /\ \E W : g \in [FrameFields -> W]
      /\ \A y \in FrameFields : y # x => g[y] = f[y]
  <2>1. Fielded(f) /\ x \in FrameFields
    BY <1>1 DEF Fielded
  <2>2. Changes(f, g, x, e)
    BY <2>1, FrameSet
  <2> HIDE DEF g
  <2> QED BY <2>2 DEF Changes, Fielded
<1>3. "ran" \in FrameFields /\ "exc" \in FrameFields /\ x # "ran" /\ x # "exc"
  BY DEF FrameFields
<1> HIDE DEF g
<1>4. g["ran"] = f["ran"] /\ g["exc"] = f["exc"]
  BY <1>2, <1>3
<1>5. g.ran = f.ran /\ g.exc = f.exc
  BY <1>4
<1>6. \E X : g.ran \in Seq(X)
  BY <1>5 DEF IsFrame
<1> QED BY <1>2, <1>5, <1>6 DEF Silent, IsFrame, g

\* A call is noted at the end.
LEMMA RanMore ==
  ASSUME NEW f, IsFrame(f), NEW i, NEW c, NEW a
  PROVE  LET g == [f EXCEPT !.ran = Append(@, <<i, <<c, a>>>>)] IN
         IsFrame(g) /\ Ran(g) = Ran(f) \cup {c} /\ g.exc = f.exc
<1> DEFINE e == <<i, <<c, a>>>>  s == f.ran  r == Append(s, e)  g == [f EXCEPT !.ran = r]
<1>1. PICK V : f \in [FrameFields -> V]
  BY DEF IsFrame
<1>2. PICK X : s \in Seq(X)
  BY DEF IsFrame
<1>3. s \in Seq(X \cup {e})
  BY <1>2, SeqMonotonic
<1>4. e[2][1] = c
  OBVIOUS
<1> HIDE DEF e, s
<1>5. /\ r \in Seq(X \cup {e}) /\ DOMAIN r = DOMAIN s \cup {Len(s) + 1} /\ Len(s) + 1 \notin DOMAIN s
      /\ \A j \in DOMAIN s : r[j] = s[j]
      /\ r[Len(s) + 1] = e
  BY <1>3, AppendProperties
<1>6. {r[j][2][1] : j \in DOMAIN r} = {s[j][2][1] : j \in DOMAIN s} \cup {c}
  <2> HIDE DEF r
  <2> QED BY <1>4, <1>5
<1> HIDE DEF r
<1>7. /\ \E W : g \in [FrameFields -> W]
      /\ g["ran"] = r /\ g["exc"] = f["exc"]
  <2>1. "ran" \in FrameFields /\ "exc" \in FrameFields
    BY DEF FrameFields
  <2>2. Fielded(f)
    BY <1>1 DEF Fielded
  <2> HIDE DEF r
  <2>3. Changes(f, g, "ran", r)
    BY <2>1, <2>2, FrameSet
  <2> HIDE DEF g
  <2> QED BY <2>1, <2>3 DEF Changes, Fielded
<1> HIDE DEF g
<1>8. g.ran = r /\ g.exc = f.exc
  BY <1>7
<1>9. IsFrame(g)
  BY <1>5, <1>7, <1>8 DEF IsFrame
<1>10. Ran(g) = Ran(f) \cup {c}
  BY <1>6, <1>8 DEF Ran, s
<1>11. g = [f EXCEPT !.ran = Append(@, <<i, <<c, a>>>>)]
  BY DEF g, r, s, e
<1> QED BY <1>8, <1>9, <1>10, <1>11

\* A step of the frame: a call runs its stage, the rest runs nothing.
LEMMA StepIs ==
  ASSUME NEW f, IsFrame(f), NEW c
  PROVE  /\ c.op # "call" => Silent(f, Step(f, c))
         /\ c.op = "call" => /\ IsFrame(Step(f, c)) /\ Ran(Step(f, c)) = Ran(f) \cup {c.node}
                             /\ Step(f, c).exc = IF c.node \in throws THEN c.node ELSE f.exc
<1>1. \A g : IsFrame(g) => Silent(g, g)
  BY DEF Silent
<1>2. ASSUME NEW g, IsFrame(g), NEW v, NEW t PROVE Silent(g, Bind(g, v, t))
  <2>1. \A e : Silent(g, [g EXCEPT !.env = e])
    <3>1. "env" \in FrameFields \ {"ran", "exc"}
      BY DEF FrameFields
    <3> QED BY <1>2, <3>1, SetSilent
  <2> QED BY <1>1, <1>2, <2>1 DEF Bind
<1>3. CASE c.op = "call"
  <2> DEFINE a == Values(f, StageSpawn(c))
             t == <<c.node, a>>
             g == [f EXCEPT !.ran = Append(@, <<c.id, t>>)]
  <2>1. IsFrame(g) /\ Ran(g) = Ran(f) \cup {c.node} /\ g.exc = f.exc
    <3>1. \A i, m, x : LET k == [f EXCEPT !.ran = Append(@, <<i, <<m, x>>>>)] IN
            IsFrame(k) /\ Ran(k) = Ran(f) \cup {m} /\ k.exc = f.exc
      BY RanMore
    <3>2. PICK i : i = c.id
      OBVIOUS
    <3>3. PICK m : m = c.node
      OBVIOUS
    <3> HIDE DEF a
    <3> DEFINE k == [f EXCEPT !.ran = Append(@, <<i, <<m, a>>>>)]
    <3>4. IsFrame(k) /\ Ran(k) = Ran(f) \cup {m} /\ k.exc = f.exc
      BY <3>1
    <3>5. k = g
      BY <3>2, <3>3
    <3> HIDE DEF k, g
    <3> QED BY <3>3, <3>4, <3>5
  <2>2. Step(f, c) = IF c.node \in throws THEN [g EXCEPT !.exc = c.node]
                     ELSE IF pipe.sig[c.node].sret THEN [g EXCEPT !.mem = Put(@, c.id, t)]
                     ELSE Bind(g, c.def, t)
    BY <1>3 DEF Step, Call
  <2> HIDE DEF g, t, a
  <2>3. ASSUME NEW h, Silent(g, h) PROVE IsFrame(h) /\ Ran(h) = Ran(f) \cup {c.node} /\ h.exc = f.exc
    BY <2>1, <2>3 DEF Silent, Ran
  <2>4. CASE c.node \in throws
    <3> DEFINE m == c.node  h == [g EXCEPT !.exc = m]
    <3>1. PICK V : g \in [FrameFields -> V]
      BY <2>1 DEF IsFrame
    <3>2. (\E W : h \in [FrameFields -> W]) /\ h["exc"] = m /\ h["ran"] = g["ran"]
      <4>1. "ran" \in FrameFields /\ "exc" \in FrameFields
        BY DEF FrameFields
      <4>2. Fielded(g)
        BY <3>1 DEF Fielded
      <4> HIDE DEF m
      <4>3. Changes(g, h, "exc", m)
        BY <4>1, <4>2, FrameSet
      <4> HIDE DEF h
      <4> QED BY <4>1, <4>3 DEF Changes, Fielded
    <3>3. Step(f, c) = h
      BY <2>2, <2>4
    <3> HIDE DEF h
    <3>4. h.exc = c.node /\ h.ran = g.ran
      BY <3>2
    <3>5. IsFrame(h) /\ Ran(h) = Ran(g)
      BY <2>1, <3>2, <3>4 DEF IsFrame, Ran
    <3> QED BY <1>3, <2>1, <2>4, <3>3, <3>4, <3>5
  <2>5. CASE c.node \notin throws /\ pipe.sig[c.node].sret
    <3>1. Silent(g, [g EXCEPT !.mem = Put(@, c.id, t)])
      <4>1. "mem" \in FrameFields \ {"ran", "exc"}
        BY DEF FrameFields
      <4> QED BY <2>1, <4>1, SetSilent
    <3>2. Step(f, c) = [g EXCEPT !.mem = Put(@, c.id, t)]
      BY <2>2, <2>5
    <3> QED BY <1>3, <2>3, <2>5, <3>1, <3>2
  <2>6. CASE c.node \notin throws /\ ~ pipe.sig[c.node].sret
    <3>1. Silent(g, Bind(g, c.def, t))
      BY <1>2, <2>1
    <3>2. Step(f, c) = Bind(g, c.def, t)
      BY <2>2, <2>6
    <3> QED BY <1>3, <2>3, <2>6, <3>1, <3>2
  <2> QED BY <2>4, <2>5, <2>6
<1>4. CASE c.op # "call"
  <2>1. CASE c.op = "extract"
    BY <1>2, <2>1 DEF Step
  <2>2. CASE c.op = "compute"
    BY <1>2, <2>2 DEF Step
  <2>3. CASE c.op = "load"
    BY <1>2, <2>3 DEF Step
  <2>4. CASE c.op = "ret"
    <3>1. "result" \in FrameFields \ {"ran", "exc"}
      BY DEF FrameFields
    <3>2. \A e : Silent(f, [f EXCEPT !.result = e])
      BY <3>1, SetSilent
    <3>3. Step(f, c) = [f EXCEPT !.result = IF c.args = << >> THEN None ELSE Values(f, c)[1]]
      BY <2>4 DEF Step
    <3> QED BY <1>4, <3>2, <3>3
  <2>5. CASE c.op \notin {"call", "extract", "compute", "load", "ret"}
    <3>1. Step(f, c) = f
      BY <2>5 DEF Step
    <3> QED BY <1>1, <1>4, <3>1
  <2> QED BY <1>4, <2>1, <2>2, <2>3, <2>4, <2>5
<1> QED BY <1>3, <1>4
\* The handle h is given a task that is to make the call c.
Given(T, U, h, c) ==
  /\ IsTasks(U) /\ DOMAIN U = DOMAIN T \cup {h} /\ U[h].state = "queued" /\ U[h].call = c
  /\ \A y \in DOMAIN T : y # h => U[y] = T[y]

LEMMA TaskPut ==
  ASSUME NEW T, IsTasks(T), NEW h, NEW c \in AnyIns, NEW a
  PROVE  Given(T, Put(T, h, [state |-> "queued", call |-> c, args |-> a, result |-> Undef]), h, c)
<1> DEFINE r == [state |-> "queued", call |-> c, args |-> a, result |-> Undef]
           U == Put(T, h, r)
<1>1. PICK X : T \in [DOMAIN T -> TaskOf(X)]
  BY DEF IsTasks
<1> DEFINE Y == X \cup {a, Undef}
<1>2. r \in TaskOf(Y) /\ r.state = "queued" /\ r.call = c
  BY DEF TaskOf, TaskStates
<1>3. TaskOf(X) \subseteq TaskOf(Y)
  BY DEF TaskOf
<1> HIDE DEF r, Y
<1>4. U = [y \in DOMAIN T \cup {h} |-> IF y = h THEN r ELSE T[y]]
  BY DEF Put
<1>5. \A y \in DOMAIN T \cup {h} : (IF y = h THEN r ELSE T[y]) \in TaskOf(Y)
  BY <1>1, <1>2, <1>3
<1>6. U \in [DOMAIN T \cup {h} -> TaskOf(Y)]
  BY <1>4, <1>5
<1>7. DOMAIN U = DOMAIN T \cup {h} /\ U[h] = r /\ \A y \in DOMAIN T : y # h => U[y] = T[y]
  BY <1>4
<1>8. IsTasks(U)
  BY <1>6, <1>7 DEF IsTasks
<1>9. Given(T, U, h, c)
  <2> HIDE DEF U
  <2> QED BY <1>2, <1>7, <1>8 DEF Given
<1> QED BY <1>9 DEF r

\* One task goes to state s, and the rest is as it was.
Moved(T, U, id, s) ==
  /\ IsTasks(U) /\ DOMAIN U = DOMAIN T
  /\ \A h \in DOMAIN T : U[h].call = T[h].call /\ U[h].state = IF h = id THEN s ELSE T[h].state

LEMMA TaskMoves ==
  ASSUME NEW T, IsTasks(T), NEW id \in DOMAIN T, NEW s \in TaskStates, NEW e
  PROVE  Moved(T, [T EXCEPT ![id].state = s], id, s) /\ Moved(T, [T EXCEPT ![id].state = s, ![id].result = e], id, s)
<1>1. PICK X : T \in [DOMAIN T -> TaskOf(X)]
  BY DEF IsTasks
<1> DEFINE Y == X \cup {e}
<1>2. TaskOf(X) \subseteq TaskOf(Y)
  BY DEF TaskOf
<1>3. \A t \in TaskOf(Y) : /\ [t EXCEPT !.state = s] \in TaskOf(Y)
                           /\ [t EXCEPT !.state = s].call = t.call /\ [t EXCEPT !.state = s].state = s
                           /\ [t EXCEPT !.state = s, !.result = e] \in TaskOf(Y)
                           /\ [t EXCEPT !.state = s, !.result = e].call = t.call
                           /\ [t EXCEPT !.state = s, !.result = e].state = s
  BY DEF TaskOf
<1> HIDE DEF Y
<1>4. T \in [DOMAIN T -> TaskOf(Y)]
  BY <1>1, <1>2
<1>5. \A r \in TaskOf(Y) : (r.call = T[id].call /\ r.state = s) => Moved(T, [T EXCEPT ![id] = r], id, s)
  <2> SUFFICES ASSUME NEW r \in TaskOf(Y), r.call = T[id].call, r.state = s
               PROVE  Moved(T, [T EXCEPT ![id] = r], id, s)
    OBVIOUS
  <2> DEFINE U == [T EXCEPT ![id] = r]
  <2>1. U \in [DOMAIN T -> TaskOf(Y)] /\ DOMAIN U = DOMAIN T
    BY <1>4
  <2>2. \A h \in DOMAIN T : U[h].call = T[h].call /\ U[h].state = IF h = id THEN s ELSE T[h].state
    BY <1>4
  <2> HIDE DEF U
  <2>3. Moved(T, U, id, s)
    BY <2>1, <2>2 DEF Moved, IsTasks
  <2> QED BY <2>3 DEF U
<1>6. T[id] \in TaskOf(Y)
  BY <1>4
<1>7. Moved(T, [T EXCEPT ![id].state = s], id, s)
  <2> DEFINE r == [T[id] EXCEPT !.state = s]
  <2>1. r \in TaskOf(Y) /\ r.call = T[id].call /\ r.state = s
    BY <1>3, <1>6
  <2>2. [T EXCEPT ![id].state = s] = [T EXCEPT ![id] = r]
    OBVIOUS
  <2> HIDE DEF r
  <2> QED BY <1>5, <2>1, <2>2
<1>8. Moved(T, [T EXCEPT ![id].state = s, ![id].result = e], id, s)
  <2> DEFINE r == [T[id] EXCEPT !.state = s, !.result = e]
  <2>1. r \in TaskOf(Y) /\ r.call = T[id].call /\ r.state = s
    BY <1>3, <1>6
  <2>2. [T EXCEPT ![id].state = s, ![id].result = e] = [T EXCEPT ![id] = r]
    BY <1>1
  <2> HIDE DEF r
  <2> QED BY <1>5, <2>1, <2>2
<1> QED BY <1>7, <1>8

-----------------------------------------------------------------------------
(***************************************************************************)
(* The order of the stages in a call.                                      *)
(***************************************************************************)
\* Place q of the body b is reached, in a call that keeps to the order.
Reached(b, g, q, T, R) ==
  /\ Setting /\ BodyOk(b, g) /\ q \in DOMAIN b /\ Carried(b, q, T, R) /\ Outcome(T, R) /\ Ordered(T, R)

\* What was spawned before is done, unless what is here waits for it or spawns too.
LEMMA SpawnedDone ==
  ASSUME NEW b, NEW g, NEW q, NEW T, NEW R, Reached(b, g, q, T, R), NEW k \in 1 .. q - 1, b[k].op = "spawn"
  PROVE  /\ b[k].def \in DOMAIN T /\ T[b[k].def].call.node = b[k].node
         /\ \/ T[b[k].def].state = "done"
            \/ b[q].op = "await" /\ b[k].def \in ToSet(b[q].args)
            \/ b[q].op = "spawn" /\ Level(pipe, b[q].node) = Level(pipe, b[k].node)
<1>1. b \in Seq(AnyIns) /\ Named(b) /\ Forked(b, g) /\ q \in 1 .. Len(b) /\ Len(b) \in Nat /\ DOMAIN b = 1 .. Len(b)
  BY DEF Reached, BodyOk
<1>2. k \in DOMAIN b /\ k \in Nat /\ q \in Nat /\ k < q
  BY <1>1
<1>3. b[k].def = Task(b[k].id) /\ \E j \in DOMAIN b : Joined(b, k, j)
  BY <1>1, <1>2 DEF Forked
<1>4. PICK j \in DOMAIN b : Joined(b, k, j)
  BY <1>3
<1>5. b[k].def \in DOMAIN T
  BY DEF Reached, Carried
<1>6. T[b[k].def].call.node = b[k].node
  <2>1. PICK l \in 1 .. q - 1 : b[l].op = "spawn" /\ b[l].def = b[k].def /\ T[b[k].def].call = b[l]
    BY <1>5 DEF Reached, Carried
  <2>2. l \in DOMAIN b
    BY <1>1
  <2>3. b[l].def = Task(b[l].id)
    BY <1>1, <2>1, <2>2 DEF Forked
  <2>4. b[l].id = b[k].id
    BY <1>3, <2>1, <2>3, HandlesDiffer
  <2>5. l \in Starts(b) /\ k \in Starts(b)
    BY <1>2, <2>1, <2>2 DEF Starts
  <2> QED BY <1>1, <2>1, <2>4, <2>5 DEF Named
<1>7. CASE j < q
  <2>1. j \in 1 .. q - 1
    BY <1>1, <1>2, <1>4, <1>7
  <2>2. T[b[k].def].state = "done"
    BY <1>4, <2>1 DEF Reached, Carried
  <2> QED BY <1>5, <1>6, <2>2
<1>8. CASE j = q
  BY <1>4, <1>5, <1>6, <1>8 DEF Joined
<1>9. CASE q < j
  <2>1. q \in k .. j - 1
    BY <1>1, <1>2, <1>9
  <2>2. b[q].op = "spawn" /\ Level(pipe, b[q].node) = Level(pipe, b[k].node)
    BY <1>4, <2>1 DEF Joined
  <2> QED BY <1>5, <1>6, <2>2
<1> QED BY <1>1, <1>7, <1>8, <1>9

\* Where a stage starts, all the stages upstream of it have ended.
LEMMA UpstreamEnded ==
  ASSUME NEW b, NEW g, NEW q, NEW T, NEW R, Reached(b, g, q, T, R), b[q].op \in {"call", "spawn"},
         NEW i \in DOMAIN pipe.edges, pipe.edges[i][2] = b[q].node, pipe.edges[i][1] \in CodeNodes(pipe)
  PROVE  pipe.edges[i][1] \in R \ throws
<1> DEFINE u == pipe.edges[i][1]  n == b[q].node
<1>1. /\ b \in Seq(AnyIns) /\ Named(b) /\ Levelled(b) /\ q \in 1 .. Len(b) /\ Len(b) \in Nat /\ DOMAIN b = 1 .. Len(b)
      /\ PipelineOk(pipe)
  BY DEF Reached, BodyOk, Setting
<1>2. u \in Nodes(pipe) /\ n \in Nodes(pipe) /\ Level(pipe, u) < Level(pipe, n)
  <2>1. pipe.edges \in Seq(Nodes(pipe) \X Nodes(pipe)) /\ pipe.edges[i] \in ToSet(pipe.edges)
    BY <1>1 DEF PipelineOk, ToSet
  <2>2. pipe.edges[i] \in Nodes(pipe) \X Nodes(pipe)
    BY <2>1
  <2>3. Level(pipe, pipe.edges[i][1]) < Level(pipe, pipe.edges[i][2])
    BY <1>1, <2>1 DEF PipelineOk
  <2> QED BY <2>2, <2>3
<1>3. Level(pipe, u) \in Nat /\ Level(pipe, n) \in Nat
  BY <1>1, <1>2, LevelIs
<1> HIDE DEF n
<1>4. PICK k \in Starts(b) : b[k].node = u
  BY <1>1 DEF Named
<1>5. q \in Starts(b)
  BY <1>1 DEF Starts
<1>6. k \in 1 .. Len(b) /\ b[k].op \in {"call", "spawn"}
  BY <1>1, <1>4 DEF Starts
<1> HIDE DEF u
<1>7. k < q
  <2>1. CASE q < k
    <3>1. Level(pipe, n) <= Level(pipe, u)
      BY <1>1, <1>4, <1>5, <2>1 DEF Levelled, n
    <3> QED BY <1>2, <1>3, <3>1
  <2>2. CASE q = k
    <3>1. Level(pipe, n) = Level(pipe, u)
      BY <1>4, <2>2 DEF n
    <3> QED BY <1>2, <1>3, <3>1
  <2> QED BY <1>1, <1>6, <2>1, <2>2
<1>8. k \in 1 .. q - 1
  BY <1>1, <1>6, <1>7
<1>9. CASE b[k].op = "call"
  <2>1. b[k].node \in R \ throws
    BY <1>8, <1>9 DEF Reached, Carried
  <2> QED BY <1>4, <2>1 DEF u
<1>10. CASE b[k].op = "spawn"
  <2>1. /\ b[k].def \in DOMAIN T /\ T[b[k].def].call.node = b[k].node
        /\ \/ T[b[k].def].state = "done"
           \/ b[q].op = "await" /\ b[k].def \in ToSet(b[q].args)
           \/ b[q].op = "spawn" /\ Level(pipe, b[q].node) = Level(pipe, b[k].node)
    BY <1>8, <1>10, SpawnedDone
  <2>2. Level(pipe, b[q].node) # Level(pipe, b[k].node)
    BY <1>2, <1>3, <1>4 DEF n
  <2>3. T[b[k].def].state = "done"
    BY <2>1, <2>2
  <2>4. T[b[k].def].call.node \in R \ throws
    BY <2>1, <2>3 DEF Reached, Outcome
  <2> QED BY <1>4, <2>1, <2>4 DEF u
<1> QED BY <1>6, <1>9, <1>10

\* What is neither a spawn nor a join finds all the tasks done, and a join
\* finds the others done.
LEMMA NonePending ==
  ASSUME NEW b, NEW g, NEW q, NEW T, NEW R, Reached(b, g, q, T, R), b[q].op # "spawn", NEW h \in DOMAIN T
  PROVE  T[h].state = "done" \/ (b[q].op = "await" /\ h \in ToSet(b[q].args))
<1>1. PICK k \in 1 .. q - 1 : b[k].op = "spawn" /\ b[k].def = h
  BY DEF Reached, Carried
<1> QED BY <1>1, SpawnedDone
\* More stages have run: those whose upstream stages have ended.
LEMMA OrderedMore ==
  ASSUME NEW T, NEW R, Ordered(T, R), NEW n,
         \A i \in DOMAIN pipe.edges :
           pipe.edges[i][2] = n /\ pipe.edges[i][1] \in CodeNodes(pipe) => pipe.edges[i][1] \in R \ throws
  PROVE  Ordered(T, R \cup {n})
<1> DEFINE Q == R \cup {n}
<1> SUFFICES ASSUME NEW i \in DOMAIN pipe.edges,
                    pipe.edges[i][2] \in Q \cup {T[h].call.node : h \in DOMAIN T},
                    pipe.edges[i][1] \in CodeNodes(pipe)
             PROVE  pipe.edges[i][1] \in Q \ throws
  BY DEF Ordered
<1>1. CASE pipe.edges[i][2] = n
  BY <1>1
<1>2. CASE pipe.edges[i][2] # n
  <2>1. pipe.edges[i][2] \in R \cup {T[h].call.node : h \in DOMAIN T}
    BY <1>2
  <2>2. pipe.edges[i][1] \in R \ throws
    BY <2>1 DEF Ordered
  <2> QED BY <2>2
<1> QED BY <1>1, <1>2

\* Behind an instruction that spawns nothing.
LEMMA Passed ==
  ASSUME NEW b, NEW g, NEW q, NEW T, NEW R, NEW Q, Reached(b, g, q, T, R), R \subseteq Q, b[q].op # "spawn",
         b[q].op = "call" => b[q].node \in Q \ throws,
         b[q].op = "await" => \A h \in DOMAIN T : h \in ToSet(b[q].args) => T[h].state = "done"
  PROVE  Carried(b, q + 1, T, Q)
<1>1. /\ \A h \in DOMAIN T : \E k \in 1 .. q - 1 : b[k].op = "spawn" /\ b[k].def = h /\ T[h].call = b[k]
      /\ \A k \in 1 .. q - 1 : b[k].op = "spawn" => b[k].def \in DOMAIN T
      /\ \A k \in 1 .. q - 1 : b[k].op = "call" => b[k].node \in R \ throws
  BY DEF Reached, Carried
<1>2. q \in Nat /\ q >= 1
  BY DEF Reached, BodyOk
<1> DEFINE m == q + 1
<1>3. \A k : k \in 1 .. m - 1 <=> k \in 1 .. q - 1 \/ k = q
  BY <1>2
<1> HIDE DEF m
<1>4. \A h \in DOMAIN T : T[h].state = "done"
  BY NonePending
<1>5. \A k \in 1 .. m - 1 : b[k].op = "spawn" => b[k].def \in DOMAIN T
  BY <1>1, <1>3
<1>6. \A k \in 1 .. m - 1 : b[k].op = "call" => b[k].node \in Q \ throws
  BY <1>1, <1>3
<1>7. \A h \in DOMAIN T : \E k \in 1 .. m - 1 : b[k].op = "spawn" /\ b[k].def = h /\ T[h].call = b[k]
  BY <1>1, <1>3
<1>8. \A k, j \in 1 .. m - 1 : b[k].op = "spawn" /\ Joined(b, k, j) => T[b[k].def].state = "done"
  BY <1>4, <1>5
<1>9. Carried(b, m, T, Q)
  BY <1>5, <1>6, <1>7, <1>8 DEF Carried
<1> QED BY <1>9 DEF m

\* Behind a spawn.
LEMMA Spawned ==
  ASSUME NEW b, NEW g, NEW q, NEW T, NEW R, NEW U, Reached(b, g, q, T, R), b[q].op = "spawn",
         Given(T, U, b[q].def, b[q])
  PROVE  Carried(b, q + 1, U, R) /\ Outcome(U, R) /\ Ordered(U, R)
<1>0. /\ DOMAIN U = DOMAIN T \cup {b[q].def} /\ U[b[q].def].state = "queued" /\ U[b[q].def].call = b[q]
      /\ \A y \in DOMAIN T : y # b[q].def => U[y] = T[y]
  BY DEF Given
<1>1. /\ \A h \in DOMAIN T : \E k \in 1 .. q - 1 : b[k].op = "spawn" /\ b[k].def = h /\ T[h].call = b[k]
      /\ \A k \in 1 .. q - 1 : b[k].op = "spawn" => b[k].def \in DOMAIN T
      /\ \A k, j \in 1 .. q - 1 : b[k].op = "spawn" /\ Joined(b, k, j) => T[b[k].def].state = "done"
      /\ \A k \in 1 .. q - 1 : b[k].op = "call" => b[k].node \in R \ throws
  BY DEF Reached, Carried
<1>2. q \in Nat /\ q >= 1 /\ q \in DOMAIN b
  BY DEF Reached, BodyOk
<1> DEFINE m == q + 1
<1>3. \A k : k \in 1 .. m - 1 <=> k \in 1 .. q - 1 \/ k = q
  BY <1>2
<1> HIDE DEF m
<1>4. \A h \in DOMAIN U : \E k \in 1 .. m - 1 : b[k].op = "spawn" /\ b[k].def = h /\ U[h].call = b[k]
  <2> SUFFICES ASSUME NEW h \in DOMAIN U
               PROVE  \E k \in 1 .. m - 1 : b[k].op = "spawn" /\ b[k].def = h /\ U[h].call = b[k]
    OBVIOUS
  <2>1. CASE h = b[q].def
    BY <1>0, <1>3, <2>1
  <2>2. CASE h # b[q].def
    BY <1>0, <1>1, <1>3, <2>2
  <2> QED BY <2>1, <2>2
<1>5. \A k \in 1 .. m - 1 : b[k].op = "spawn" => b[k].def \in DOMAIN U
  BY <1>0, <1>1, <1>3
<1>6. \A k, j \in 1 .. m - 1 : b[k].op = "spawn" /\ Joined(b, k, j) => U[b[k].def].state = "done"
  <2> SUFFICES ASSUME NEW k \in 1 .. m - 1, NEW j \in 1 .. m - 1, b[k].op = "spawn", Joined(b, k, j)
               PROVE  U[b[k].def].state = "done"
    OBVIOUS
  <2>1. k < j /\ b[j].op = "await" /\ \A l \in DOMAIN b : b[l].op = "spawn" /\ b[l].def = b[k].def => l < j
    BY DEF Joined
  <2>2. j \in 1 .. q - 1
    BY <1>0, <1>3, <2>1
  <2>3. k \in 1 .. q - 1
    BY <1>2, <2>1, <2>2
  <2>4. b[q].def # b[k].def
    BY <1>2, <2>1, <2>2
  <2>5. T[b[k].def].state = "done" /\ b[k].def \in DOMAIN T
    BY <1>1, <2>2, <2>3
  <2> QED BY <1>0, <2>4, <2>5
<1>7. \A k \in 1 .. m - 1 : b[k].op = "call" => b[k].node \in R \ throws
  BY <1>1, <1>3
<1>8. Carried(b, m, U, R)
  BY <1>4, <1>5, <1>6, <1>7 DEF Carried
<1>9. Outcome(U, R)
  <2> SUFFICES ASSUME NEW h \in DOMAIN U, U[h].state = "done" PROVE U[h].call.node \in R \ throws
    BY DEF Outcome
  <2>1. h # b[q].def
    BY <1>0
  <2>2. h \in DOMAIN T /\ U[h] = T[h]
    BY <1>0, <2>1
  <2> QED BY <2>2 DEF Reached, Outcome
<1>10. Ordered(U, R)
  <2> SUFFICES ASSUME NEW i \in DOMAIN pipe.edges,
                      pipe.edges[i][2] \in R \cup {U[h].call.node : h \in DOMAIN U},
                      pipe.edges[i][1] \in CodeNodes(pipe)
               PROVE  pipe.edges[i][1] \in R \ throws
    BY DEF Ordered
  <2>1. CASE pipe.edges[i][2] = b[q].node
    BY <2>1, UpstreamEnded
  <2>2. CASE pipe.edges[i][2] # b[q].node
    <3>1. pipe.edges[i][2] \in R \cup {T[h].call.node : h \in DOMAIN T}
      <4>1. CASE pipe.edges[i][2] \in R
        BY <4>1
      <4>2. CASE pipe.edges[i][2] \notin R
        <5>1. PICK h \in DOMAIN U : pipe.edges[i][2] = U[h].call.node
          BY <4>2
        <5>2. h # b[q].def
          BY <1>0, <2>2, <5>1
        <5>3. h \in DOMAIN T /\ U[h] = T[h]
          BY <1>0, <5>2
        <5> QED BY <5>1, <5>3
      <4> QED BY <4>1, <4>2
    <3> QED BY <3>1 DEF Reached, Ordered
  <2> QED BY <2>1, <2>2
<1> QED BY <1>8, <1>9, <1>10 DEF m

\* A task goes on, and has run if it is done.
LEMMA MovedOn ==
  ASSUME NEW T, NEW R, NEW U, NEW Q, NEW id \in DOMAIN T, NEW s, Moved(T, U, id, s), T[id].state # "done",
         Q = R \/ Q = R \cup {T[id].call.node}, s = "done" => T[id].call.node \in Q \ throws,
         Outcome(T, R), Ordered(T, R)
  PROVE  /\ Outcome(U, Q) /\ Ordered(U, Q)
         /\ \A b, q : Carried(b, q, T, R) => Carried(b, q, U, Q)
<1>1. /\ DOMAIN U = DOMAIN T /\ R \subseteq Q
      /\ \A h \in DOMAIN T : U[h].call = T[h].call /\ U[h].state = IF h = id THEN s ELSE T[h].state
  BY DEF Moved
<1>2. Outcome(U, Q)
  BY <1>1 DEF Outcome
<1>3. {U[h].call.node : h \in DOMAIN U} = {T[h].call.node : h \in DOMAIN T}
  BY <1>1
<1>4. Ordered(U, Q)
  <2>1. Q \cup {U[h].call.node : h \in DOMAIN U} = R \cup {T[h].call.node : h \in DOMAIN T}
    BY <1>3
  <2> QED BY <1>1, <2>1 DEF Ordered
<1>5. ASSUME NEW b, NEW q, Carried(b, q, T, R) PROVE Carried(b, q, U, Q)
  <2>1. /\ \A h \in DOMAIN T : \E k \in 1 .. q - 1 : b[k].op = "spawn" /\ b[k].def = h /\ T[h].call = b[k]
        /\ \A k \in 1 .. q - 1 : b[k].op = "spawn" => b[k].def \in DOMAIN T
        /\ \A k, j \in 1 .. q - 1 : b[k].op = "spawn" /\ Joined(b, k, j) => T[b[k].def].state = "done"
        /\ \A k \in 1 .. q - 1 : b[k].op = "call" => b[k].node \in R \ throws
    BY <1>5 DEF Carried
  <2>2. \A k, j \in 1 .. q - 1 : b[k].op = "spawn" /\ Joined(b, k, j) => U[b[k].def].state = "done"
    BY <1>1, <2>1
  <2>3. \A h \in DOMAIN U : \E k \in 1 .. q - 1 : b[k].op = "spawn" /\ b[k].def = h /\ U[h].call = b[k]
    BY <1>1, <2>1
  <2>4. \A k \in 1 .. q - 1 : b[k].op = "call" => b[k].node \in Q \ throws
    BY <1>1, <2>1
  <2> QED BY <1>1, <2>1, <2>2, <2>3, <2>4 DEF Carried
<1> QED BY <1>2, <1>4, <1>5
-----------------------------------------------------------------------------
(***************************************************************************)
(* The invariant.                                                          *)
(***************************************************************************)
\* The pipeline stays, and so does what is said of a body and of its call.
LEMMA Unmoved ==
  ASSUME pipe' = pipe, throws' = throws, NEW b, NEW g, NEW q, NEW T, NEW R
  PROVE  /\ Setting' <=> Setting
         /\ BodyOk(b, g)' <=> BodyOk(b, g)
         /\ Carried(b, q, T, R)' <=> Carried(b, q, T, R)
         /\ Outcome(T, R)' <=> Outcome(T, R)
         /\ Ordered(T, R)' <=> Ordered(T, R)
<1>1. Setting' <=> Setting
  BY DEF Setting, PipelineOk
<1>2. \A i, j : Joined(b, i, j)' <=> Joined(b, i, j)
  BY DEF Joined
<1>3. Named(b)' <=> Named(b)
  BY DEF Named
<1>4. Levelled(b)' <=> Levelled(b)
  BY DEF Levelled
<1>5. Forked(b, g)' <=> Forked(b, g)
  BY <1>2 DEF Forked
<1>6. BodyOk(b, g)' <=> BodyOk(b, g)
  BY <1>3, <1>4, <1>5 DEF BodyOk
<1>7. Carried(b, q, T, R)' <=> Carried(b, q, T, R)
  BY <1>2 DEF Carried
<1>8. Outcome(T, R)' <=> Outcome(T, R)
  BY DEF Outcome
<1>9. Ordered(T, R)' <=> Ordered(T, R)
  BY DEF Ordered
<1> QED BY <1>1, <1>6, <1>7, <1>8, <1>9

\* What is so of the next values holds next.
LEMMA Reckoned ==
  ASSUME pipe' = pipe, throws' = throws, Setting, throws \subseteq CodeNodes(pipe),
         stagePc' \in Resting \cup Left \cup {"running"}, group' \in Nat \ {0}, stagePc' = "stub" => group' = 1,
         IF stagePc' \in {"stub", "broken"} THEN body' = << >> ELSE BodyOk(body', group'),
         stagePc' \in Resting => pos' = 1 /\ frame' = Begin /\ task' = << >>,
         IsFrame(frame'), IsTasks(task'), Outcome(task', Ran(frame')), Ordered(task', Ran(frame')),
         stagePc' = "running" => pos' \in DOMAIN body' /\ frame'.exc = "none" /\ Carried(body', pos', task', Ran(frame')),
         stagePc' \in Left => \A h \in DOMAIN task' : task'[h].state \in TaskOver
  PROVE  Inv'
<1>1. PICK b, g, q, T, f : b = body' /\ g = group' /\ q = pos' /\ T = task' /\ f = frame'
  OBVIOUS
<1>2. Setting' /\ (throws \subseteq CodeNodes(pipe))'
  BY Unmoved DEF CodeNodes, Nodes
<1>3. BodyOk(b, g)' <=> BodyOk(b, g)
  BY Unmoved
<1>4. Outcome(T, Ran(f))' /\ Ordered(T, Ran(f))'
  BY <1>1, Unmoved
<1>5. Carried(b, q, T, Ran(f))' <=> Carried(b, q, T, Ran(f))
  BY Unmoved
<1>6. (IF stagePc \in {"stub", "broken"} THEN body = << >> ELSE BodyOk(body, group))'
  BY <1>1, <1>3
<1>7. Outcome(task, Ran(frame))' /\ Ordered(task, Ran(frame))'
  BY <1>1, <1>4
<1>8. (stagePc = "running" => pos \in DOMAIN body /\ frame.exc = "none" /\ Carried(body, pos, task, Ran(frame)))'
  BY <1>1, <1>5
<1> QED BY <1>2, <1>6, <1>7, <1>8 DEF Inv, Resting, Left, IsFrame, IsTasks
\* Nothing has been called and nothing spawned.
LEMMA BeginIs ==
  /\ IsFrame(Begin) /\ Ran(Begin) = {} /\ Begin.exc = "none" /\ IsTasks(<< >>) /\ DOMAIN << >> = {}
  /\ Outcome(<< >>, {}) /\ Ordered(<< >>, {}) /\ \A b : Carried(b, 1, << >>, {})
<1>1. DOMAIN << >> = {}
  OBVIOUS
<1>2. IsTasks(<< >>)
  <2>1. << >> \in [DOMAIN << >> -> TaskOf({})]
    OBVIOUS
  <2> QED BY <2>1 DEF IsTasks
<1>3. IsFrame(Begin)
  <2>1. Begin \in [FrameFields -> {<< >>, Undef, "none"}]
    BY DEF Begin, FrameFields
  <2>2. Begin.ran \in Seq({})
    BY DEF Begin
  <2> QED BY <2>1, <2>2 DEF IsFrame
<1>4. Ran(Begin) = {} /\ Begin.exc = "none"
  BY <1>1 DEF Begin, Ran
<1>5. Outcome(<< >>, {}) /\ Ordered(<< >>, {})
  BY <1>1 DEF Outcome, Ordered
<1>6. \A b : Carried(b, 1, << >>, {})
  <2>1. 1 .. 1 - 1 = {}
    OBVIOUS
  <2> QED BY <1>1, <2>1 DEF Carried
<1> QED BY <1>1, <1>2, <1>3, <1>4, <1>5, <1>6

LEMMA InvInit == StageInit => Inv
<1> SUFFICES ASSUME StageInit PROVE Inv
  OBVIOUS
<1>1. Setting
  BY StageAssumption DEF StageInit, Setting
<1>2. throws \subseteq CodeNodes(pipe) /\ stagePc = "stub" /\ body = << >> /\ group = 1 /\ pos = 1 /\ frame = Begin /\ task = << >>
  BY DEF StageInit
<1> QED BY <1>1, <1>2, BeginIs DEF Inv, Resting, Left

LEMMA GenerateKeeps == Inv /\ Generate => Inv'
<1> SUFFICES ASSUME Inv, Generate PROVE Inv'
  OBVIOUS
<1>1. /\ Setting /\ throws \subseteq CodeNodes(pipe) /\ stagePc = "stub" /\ group = 1 /\ body = << >>
      /\ pos = 1 /\ frame = Begin /\ task = << >> /\ UNCHANGED <<pipe, throws, group, pos, frame, task>>
  BY DEF Inv, Generate, Resting
<1>2. CASE stagePc' = "broken" /\ body' = body
  BY <1>1, <1>2, BeginIs, Reckoned DEF Resting, Left
<1>3. CASE stagePc' = "grouping" /\ body' = pipe.body /\ pipe.body # << >>
  <2>1. BodyOk(pipe.body, 1)
    BY <1>1, <1>3, HandMadeOk DEF Setting
  <2> QED BY <1>1, <1>3, <2>1, BeginIs, Reckoned DEF Resting, Left
<1>4. CASE stagePc' = "grouping" /\ body' = Generated.code \o Return(Generated) /\ Generated.ok /\ Return(Generated) # << >>
  <2>1. BodyOk(Generated.code \o Return(Generated), 1)
    BY <1>1, <1>4, GeneratedOk
  <2> QED BY <1>1, <1>4, <2>1, BeginIs, Reckoned DEF Resting, Left
<1> QED BY <1>2, <1>3, <1>4 DEF Generate

LEMMA ParallelizeKeeps == Inv /\ Parallelize => Inv'
<1> SUFFICES ASSUME Inv, Parallelize PROVE Inv'
  OBVIOUS
<1>1. /\ Setting /\ throws \subseteq CodeNodes(pipe) /\ stagePc = "grouping" /\ group \in Nat \ {0} /\ BodyOk(body, group)
      /\ pos = 1 /\ frame = Begin /\ task = << >> /\ UNCHANGED <<pipe, throws, pos, frame, task>>
  BY DEF Inv, Parallelize, Resting
<1>2. CASE /\ group <= Len(pipe.groups) /\ body' = Grouped(body, pipe.groups[group]) /\ group' = group + 1
           /\ stagePc' = stagePc
  <2>1. group \in DOMAIN pipe.groups
    BY <1>1, <1>2 DEF Setting, PipelineOk
  <2>2. BodyOk(Grouped(body, pipe.groups[group]), group + 1)
    BY <1>1, <2>1, GroupedOk DEF Setting
  <2>3. group + 1 \in Nat \ {0}
    BY <1>1
  <2> QED BY <1>1, <1>2, <2>2, <2>3, BeginIs, Reckoned DEF Resting, Left
<1>3. CASE stagePc' = "running" /\ body' = body /\ group' = group
  <2>1. 1 \in DOMAIN body
    <3>1. body \in Seq(AnyIns) /\ Len(body) # 0
      BY <1>1 DEF BodyOk, Ends
    <3> QED BY <3>1
  <2> QED BY <1>1, <1>3, <2>1, BeginIs, Reckoned DEF Resting, Left
<1> QED BY <1>2, <1>3 DEF Parallelize
\* Where the call is while it runs.
LEMMA RunningIs ==
  ASSUME Inv, stagePc = "running"
  PROVE  /\ Reached(body, group, pos, task, Ran(frame)) /\ IsFrame(frame) /\ IsTasks(task) /\ frame.exc = "none"
         /\ Setting /\ throws \subseteq CodeNodes(pipe) /\ group \in Nat \ {0} /\ BodyOk(body, group)
         /\ Here \in AnyIns /\ (Here.op # "ret" => pos + 1 \in DOMAIN body)
         /\ Outcome(task, Ran(frame)) /\ Ordered(task, Ran(frame)) /\ pos \in DOMAIN body
<1>1. /\ IsFrame(frame) /\ IsTasks(task) /\ frame.exc = "none" /\ Carried(body, pos, task, Ran(frame))
      /\ Setting /\ throws \subseteq CodeNodes(pipe) /\ group \in Nat \ {0} /\ BodyOk(body, group)
      /\ Outcome(task, Ran(frame)) /\ Ordered(task, Ran(frame)) /\ pos \in DOMAIN body
  BY DEF Inv
<1>2. body \in Seq(AnyIns) /\ body[Len(body)].op = "ret"
  BY <1>1 DEF BodyOk, Ends
<1>3. Here \in AnyIns
  BY <1>1, <1>2 DEF Here
<1>4. Here.op # "ret" => pos + 1 \in DOMAIN body
  BY <1>1, <1>2 DEF Here
<1> QED BY <1>1, <1>3, <1>4 DEF Reached

LEMMA StraightKeeps ==
  ASSUME Inv, stagePc = "running", Straight, pos' = pos + 1, UNCHANGED <<pipe, throws, body, group>> PROVE Inv'
<1> DEFINE R == Ran(frame)
<1>1. /\ Reached(body, group, pos, task, R) /\ IsFrame(frame) /\ IsTasks(task) /\ frame.exc = "none"
      /\ Setting /\ throws \subseteq CodeNodes(pipe) /\ group \in Nat \ {0} /\ BodyOk(body, group)
      /\ Here \in AnyIns /\ (Here.op # "ret" => pos + 1 \in DOMAIN body)
      /\ Outcome(task, R) /\ Ordered(task, R) /\ pos \in DOMAIN body
  BY RunningIs
<1>2. /\ Here.op \notin {"spawn", "await", "fetch"} /\ Here = body[pos] /\ task' = task
      /\ frame' = Step(frame, Here)
      /\ stagePc' = IF frame'.exc # "none" THEN "unwound" ELSE IF Here.op = "ret" THEN "returned" ELSE "running"
  BY DEF Straight, Here
<1>3. \A h \in DOMAIN task : task[h].state = "done"
  BY <1>1, <1>2, NonePending
<1>4. CASE Here.op = "call"
  <2> DEFINE n == Here.node
  <2>1. IsFrame(frame') /\ Ran(frame') = R \cup {n} /\ frame'.exc = IF n \in throws THEN n ELSE "none"
    BY <1>1, <1>2, <1>4, StepIs
  <2>2. Ordered(task, R \cup {n})
    <3>1. \A i \in DOMAIN pipe.edges :
            pipe.edges[i][2] = n /\ pipe.edges[i][1] \in CodeNodes(pipe) => pipe.edges[i][1] \in R \ throws
      BY <1>1, <1>2, <1>4, UpstreamEnded
    <3> QED BY <1>1, <3>1, OrderedMore
  <2>3. Outcome(task, R \cup {n})
    BY <1>1 DEF Outcome
  <2>4. CASE n \in throws
    <3>1. n # "none"
      BY <1>1, <2>4 DEF CodeNodes, Setting, PipelineOk
    <3>2. stagePc' = "unwound"
      BY <1>2, <2>1, <2>4, <3>1
    <3> QED BY <1>1, <1>2, <1>3, <2>1, <2>2, <2>3, <3>2, Reckoned DEF Resting, Left, TaskOver
  <2>5. CASE n \notin throws
    <3>1. Carried(body, pos + 1, task, R \cup {n})
      BY <1>1, <1>2, <1>4, <2>5, Passed
    <3>2. stagePc' = "running" /\ frame'.exc = "none"
      BY <1>2, <1>4, <2>1, <2>5
    <3>3. pos + 1 \in DOMAIN body
      BY <1>1, <1>4
    <3> QED BY <1>1, <1>2, <2>1, <2>2, <2>3, <3>1, <3>2, <3>3, Reckoned DEF Resting, Left
  <2> QED BY <2>4, <2>5
<1>5. CASE Here.op # "call"
  <2>1. IsFrame(frame') /\ Ran(frame') = R /\ frame'.exc = "none"
    BY <1>1, <1>2, <1>5, StepIs DEF Silent, Ran
  <2>2. CASE Here.op = "ret"
    <3>1. stagePc' = "returned"
      BY <1>2, <2>1, <2>2
    <3> QED BY <1>1, <1>2, <1>3, <2>1, <3>1, Reckoned DEF Resting, Left, TaskOver
  <2>3. CASE Here.op # "ret"
    <3>1. Carried(body, pos + 1, task, R)
      BY <1>1, <1>2, <1>5, Passed
    <3>2. stagePc' = "running" /\ pos + 1 \in DOMAIN body
      BY <1>1, <1>2, <2>1, <2>3
    <3> QED BY <1>1, <1>2, <2>1, <3>1, <3>2, Reckoned DEF Resting, Left
  <2> QED BY <2>2, <2>3
<1> QED BY <1>4, <1>5

LEMMA SpawnKeeps ==
  ASSUME Inv, stagePc = "running", SpawnTask, pos' = pos + 1, UNCHANGED <<pipe, throws, body, group>> PROVE Inv'
<1> DEFINE R == Ran(frame)
<1>1. /\ Reached(body, group, pos, task, R) /\ IsFrame(frame) /\ IsTasks(task) /\ frame.exc = "none"
      /\ Setting /\ throws \subseteq CodeNodes(pipe) /\ group \in Nat \ {0} /\ BodyOk(body, group)
      /\ Here \in AnyIns /\ (Here.op # "ret" => pos + 1 \in DOMAIN body)
  BY RunningIs
<1>2. /\ Here.op = "spawn" /\ Here = body[pos] /\ frame' = frame /\ stagePc' = "running"
      /\ task' = Put(task, Here.def, [state |-> "queued", call |-> Here, args |-> Values(frame, Here), result |-> Undef])
  BY DEF SpawnTask, Here
<1>3. PICK c, a, h : c = Here /\ a = Values(frame, Here) /\ h = Here.def
  OBVIOUS
<1> DEFINE U == Put(task, h, [state |-> "queued", call |-> c, args |-> a, result |-> Undef])
<1>4. Given(task, U, h, c)
  BY <1>1, <1>3, TaskPut
<1>5. task' = U
  BY <1>2, <1>3
<1> HIDE DEF U, R
<1>6. Carried(body, pos + 1, U, R) /\ Outcome(U, R) /\ Ordered(U, R)
  <2>1. Reached(body, group, pos, task, R) /\ body[pos].op = "spawn" /\ Given(task, U, body[pos].def, body[pos])
    BY <1>1, <1>2, <1>3, <1>4 DEF R
  <2> QED BY <2>1, Spawned
<1>7. pos + 1 \in DOMAIN body /\ Ran(frame') = R
  BY <1>1, <1>2 DEF R
<1> QED BY <1>1, <1>2, <1>4, <1>5, <1>6, <1>7, Reckoned DEF Resting, Left, Given

LEMMA AwaitKeeps ==
  ASSUME Inv, stagePc = "running", AwaitAll, pos' = pos + 1, UNCHANGED <<pipe, throws, body, group>> PROVE Inv'
<1> DEFINE R == Ran(frame)
           threw == {i \in DOMAIN Here.args : task[Here.args[i]].state = "threw"}
           who == task[Here.args[Min(threw)]].call.node
<1>1. /\ Reached(body, group, pos, task, R) /\ IsFrame(frame) /\ IsTasks(task) /\ frame.exc = "none"
      /\ Setting /\ throws \subseteq CodeNodes(pipe) /\ group \in Nat \ {0} /\ BodyOk(body, group)
      /\ Here \in AnyIns /\ (Here.op # "ret" => pos + 1 \in DOMAIN body)
      /\ Outcome(task, R) /\ Ordered(task, R)
  BY RunningIs
<1>2. /\ Here.op = "await" /\ Here = body[pos] /\ task' = task
      /\ \A i \in DOMAIN Here.args : task[Here.args[i]].state \in TaskOver
      /\ IF threw = {} THEN frame' = frame /\ stagePc' = "running"
         ELSE frame' = [frame EXCEPT !.exc = who] /\ stagePc' = "unwound"
  BY DEF AwaitAll, Here
<1>3. \A h \in ToSet(Here.args) : task[h].state \in TaskOver
  BY <1>2 DEF ToSet
<1>4. CASE threw = {}
  <2>1. \A h \in DOMAIN task : h \in ToSet(Here.args) => task[h].state = "done"
    BY <1>2, <1>4 DEF ToSet, TaskOver
  <2>2. Carried(body, pos + 1, task, R)
    BY <1>1, <1>2, <2>1, Passed
  <2>3. frame' = frame /\ stagePc' = "running" /\ pos + 1 \in DOMAIN body
    BY <1>1, <1>2, <1>4
  <2> QED BY <1>1, <1>2, <2>2, <2>3, Reckoned DEF Resting, Left
<1>5. CASE threw # {}
  <2>1. \A h \in DOMAIN task : task[h].state \in TaskOver
    <3>1. \A h \in DOMAIN task : task[h].state = "done" \/ h \in ToSet(Here.args)
      BY <1>1, <1>2, NonePending
    <3> QED BY <1>3, <3>1 DEF TaskOver
  <2>2. frame' = [frame EXCEPT !.exc = who] /\ stagePc' = "unwound"
    BY <1>2, <1>5
  <2> HIDE DEF who
  <2>3. IsFrame(frame') /\ Ran(frame') = R
    <3> DEFINE f == [frame EXCEPT !.exc = who]
    <3>1. PICK V : frame \in [FrameFields -> V]
      BY <1>1 DEF IsFrame
    <3>2. (\E W : f \in [FrameFields -> W]) /\ f["ran"] = frame["ran"]
      <4>1. "ran" \in FrameFields /\ "exc" \in FrameFields
        BY DEF FrameFields
      <4>2. Fielded(frame)
        BY <3>1 DEF Fielded
      <4>3. Changes(frame, f, "exc", who)
        BY <4>1, <4>2, FrameSet
      <4> HIDE DEF f
      <4> QED BY <4>1, <4>3 DEF Changes, Fielded
    <3> HIDE DEF f
    <3>3. f.ran = frame.ran
      BY <3>2
    <3>4. IsFrame(f) /\ Ran(f) = R
      BY <1>1, <3>2, <3>3 DEF IsFrame, Ran
    <3> QED BY <2>2, <3>4 DEF f
  <2> QED BY <1>1, <1>2, <2>1, <2>2, <2>3, Reckoned DEF Resting, Left
<1> QED BY <1>4, <1>5

LEMMA FetchKeeps ==
  ASSUME Inv, stagePc = "running", FetchResult, pos' = pos + 1, UNCHANGED <<pipe, throws, body, group>> PROVE Inv'
<1> DEFINE R == Ran(frame)
<1>1. /\ Reached(body, group, pos, task, R) /\ IsFrame(frame) /\ IsTasks(task) /\ frame.exc = "none"
      /\ Setting /\ throws \subseteq CodeNodes(pipe) /\ group \in Nat \ {0} /\ BodyOk(body, group)
      /\ Here \in AnyIns /\ (Here.op # "ret" => pos + 1 \in DOMAIN body)
      /\ Outcome(task, R) /\ Ordered(task, R)
  BY RunningIs
<1>2. Here.op = "fetch" /\ Here = body[pos] /\ task' = task /\ stagePc' = "running"
  BY DEF FetchResult, Here
<1>3. IsFrame(frame') /\ Ran(frame') = R /\ frame'.exc = "none"
  <2>1. PICK v, t : frame' = Bind(frame, v, t)
    BY DEF FetchResult
  <2>2. "env" \in FrameFields \ {"ran", "exc"}
    BY DEF FrameFields
  <2>3. frame' = frame \/ \E e : frame' = [frame EXCEPT !.env = e]
    BY <2>1 DEF Bind
  <2>4. frame' = frame \/ Silent(frame, frame')
    BY <1>1, <2>2, <2>3, SetSilent
  <2> QED BY <1>1, <2>4 DEF Silent, Ran
<1>4. Carried(body, pos + 1, task, R)
  BY <1>1, <1>2, Passed
<1>5. pos + 1 \in DOMAIN body
  BY <1>1, <1>2
<1> QED BY <1>1, <1>2, <1>3, <1>4, <1>5, Reckoned DEF Resting, Left
\* A task that moves on changes nothing else but what has run.
LEMMA TaskKeeps ==
  ASSUME Inv, NEW id \in DOMAIN task, NEW s \in TaskStates, task[id].state \notin TaskOver,
         Moved(task, task', id, s), UNCHANGED <<pipe, throws, stagePc, body, group, pos>>,
         IsFrame(frame'), frame'.exc = frame.exc,
         Ran(frame') = Ran(frame) \/ Ran(frame') = Ran(frame) \cup {task[id].call.node},
         s = "done" => task[id].call.node \in Ran(frame') \ throws
  PROVE  Inv'
<1>1. /\ Setting /\ throws \subseteq CodeNodes(pipe) /\ group \in Nat \ {0} /\ (stagePc = "stub" => group = 1)
      /\ stagePc \in Resting \cup Left \cup {"running"}
      /\ IF stagePc \in {"stub", "broken"} THEN body = << >> ELSE BodyOk(body, group)
      /\ Outcome(task, Ran(frame)) /\ Ordered(task, Ran(frame))
      /\ stagePc = "running" => pos \in DOMAIN body /\ frame.exc = "none" /\ Carried(body, pos, task, Ran(frame))
  BY DEF Inv
<1>2. stagePc \notin Resting /\ stagePc \notin Left
  <2>1. stagePc \notin Resting
    BY BeginIs DEF Inv
  <2>2. stagePc \notin Left
    BY DEF Inv
  <2> QED BY <2>1, <2>2
<1>3. PICK U, Q : U = task' /\ Q = Ran(frame')
  OBVIOUS
<1>4. task[id].state # "done"
  BY DEF TaskOver
<1>5. Outcome(U, Q) /\ Ordered(U, Q) /\ \A b, q : Carried(b, q, task, Ran(frame)) => Carried(b, q, U, Q)
  BY <1>1, <1>3, <1>4, MovedOn
<1>6. IsTasks(task')
  BY DEF Moved
<1> QED BY <1>1, <1>2, <1>3, <1>5, <1>6, Reckoned

LEMMA BeginsKeeps == ASSUME Inv, NEW id \in DOMAIN task, TaskBegins(id) PROVE Inv'
<1>1. IsTasks(task) /\ IsFrame(frame)
  BY DEF Inv
<1>2. /\ task[id].state = "queued" /\ task' = [task EXCEPT ![id].state = "running"]
      /\ UNCHANGED <<pipe, throws, stagePc, body, group, pos, frame>>
  BY DEF TaskBegins
<1>3. Moved(task, task', id, "running") /\ "running" \in TaskStates /\ task[id].state \notin TaskOver
  <2>1. "running" \in TaskStates
    BY DEF TaskStates
  <2> QED BY <1>1, <1>2, <2>1, TaskMoves DEF TaskOver
<1> QED BY <1>1, <1>2, <1>3, TaskKeeps

LEMMA EndsKeeps == ASSUME Inv, NEW id \in DOMAIN task, TaskEnds(id) PROVE Inv'
<1> DEFINE n == task[id].call.node
           s == IF n \in throws THEN "threw" ELSE "done"
           t == <<n, task[id].args>>
           e == IF n \in throws THEN task[id].result ELSE t
<1>1. IsTasks(task) /\ IsFrame(frame)
  BY DEF Inv
<1>2. /\ task[id].state = "running" /\ task' = [task EXCEPT ![id].state = s, ![id].result = e]
      /\ frame' = [frame EXCEPT !.ran = Append(@, <<task[id].call.id, t>>)]
      /\ UNCHANGED <<pipe, throws, stagePc, body, group, pos>>
  BY DEF TaskEnds
<1>3. s \in TaskStates /\ task[id].state \notin TaskOver /\ (s = "done" => n \notin throws)
  BY <1>2 DEF TaskStates, TaskOver
<1> HIDE DEF s, e
<1>4. Moved(task, task', id, s)
  BY <1>1, <1>2, <1>3, TaskMoves
<1>5. IsFrame(frame') /\ Ran(frame') = Ran(frame) \cup {n} /\ frame'.exc = frame.exc
  <2>1. PICK i, c, a : i = task[id].call.id /\ c = n /\ a = task[id].args
    OBVIOUS
  <2> DEFINE g == [frame EXCEPT !.ran = Append(@, <<i, <<c, a>>>>)]
  <2>2. IsFrame(g) /\ Ran(g) = Ran(frame) \cup {c} /\ g.exc = frame.exc
    <3>1. \A x, y, z : LET k == [frame EXCEPT !.ran = Append(@, <<x, <<y, z>>>>)] IN
            IsFrame(k) /\ Ran(k) = Ran(frame) \cup {y} /\ k.exc = frame.exc
      BY <1>1, RanMore
    <3> QED BY <3>1
  <2>3. frame' = g
    BY <1>2, <2>1
  <2> HIDE DEF g
  <2> QED BY <2>1, <2>2, <2>3
<1> QED BY <1>2, <1>3, <1>4, <1>5, TaskKeeps

\* Every step keeps the invariant.
LEMMA InvNext == Inv /\ [StageNext]_stageVars => Inv'
<1> SUFFICES ASSUME Inv, [StageNext]_stageVars PROVE Inv'
  OBVIOUS
<1>1. CASE Generate
  BY <1>1, GenerateKeeps
<1>2. CASE Parallelize
  BY <1>2, ParallelizeKeeps
<1>3. CASE Exec
  <2>1. stagePc = "running" /\ pos' = pos + 1 /\ UNCHANGED <<pipe, throws, body, group>>
        /\ (Straight \/ SpawnTask \/ AwaitAll \/ FetchResult)
    BY <1>3 DEF Exec
  <2> QED BY <2>1, StraightKeeps, SpawnKeeps, AwaitKeeps, FetchKeeps
<1>4. ASSUME NEW id \in DOMAIN task, TaskBegins(id) \/ TaskEnds(id) PROVE Inv'
  BY <1>4, BeginsKeeps, EndsKeeps
<1>5. CASE UNCHANGED stageVars
  BY <1>5, Reckoned DEF Inv, stageVars
<1> QED BY <1>1, <1>2, <1>3, <1>4, <1>5 DEF StageNext, Ended

\* The invariant holds in every behaviour.
LEMMA InvAlways == StageSpec => []Inv
<1>1. StageInit => Inv
  BY InvInit
<1> QED BY <1>1, InvNext, PTL DEF StageSpec
-----------------------------------------------------------------------------
(***************************************************************************)
(* What a body means, whatever throws: the values that solve the equations *)
(* of its instructions.                                                    *)
(***************************************************************************)
CallsIn(s) == {i \in DOMAIN s : s[i].op = "call"}

\* A body before it is made parallel.
Plain(s) ==
  /\ s \in Seq(AnyIns) /\ Len(s) # 0 /\ OperandsIn(s)
  /\ \A i \in DOMAIN s : /\ s[i].op \notin {"spawn", "await", "fetch"} /\ s[i].def[1] # "task"
                         /\ s[i].op = "ret" <=> i = Len(s)
  /\ \A i, j \in DOMAIN s : s[i].def = s[j].def /\ s[i].def # None => s[i] = s[j] /\ (i = j \/ s[i].op = "extract")
  /\ \A i, j \in CallsIn(s) : s[i].id = s[j].id => i = j
  /\ \A i \in CallsIn(s) : s[i].node \in CodeNodes(pipe)

Under(D)   == [env |-> D]
Term(D, c) == <<c.node, Values(Under(D), StageSpawn(c))>>
Sret(c)    == c.op = "call" /\ pipe.sig[c.node].sret
Binds(c)   == c.def # None /\ (c.op \in {"extract", "compute", "load"} \/ (c.op = "call" /\ ~ pipe.sig[c.node].sret))

\* What the load at i finds in its slot.
Loaded(s, D, i, e) ==
  /\ \A j \in 1 .. i - 1 : Sret(s[j]) /\ s[j].id = s[i].id => e = Term(D, s[j])
  /\ (\A j \in 1 .. i - 1 : ~ (Sret(s[j]) /\ s[j].id = s[i].id)) => e = Undef

\* e is the value of instruction i.
Gives(s, D, i, e) ==
  /\ s[i].op = "call"    => e = Term(D, s[i])
  /\ s[i].op = "extract" => e = <<"field", <<s[i].def[4], Values(Under(D), s[i])[1]>>>>
  /\ s[i].op = "compute" => e = <<"compute", Values(Under(D), s[i])>>
  /\ s[i].op = "load"    => Loaded(s, D, i, e)

Bound(s, n) == {s[i].def : i \in {j \in 1 .. n : Binds(s[j])}}
Solves(s, D, n) ==
  /\ DOMAIN D = Bound(s, n)
  /\ \A i \in 1 .. n : Binds(s[i]) => Gives(s, D, i, D[s[i].def])

\* Instructions see the same where their operands are the same.
LEMMA SameValues ==
  ASSUME NEW f, NEW g, NEW c, \A v \in ToSet(c.args) : Value(f, v) = Value(g, v)
  PROVE  Values(f, c) = Values(g, c)
<1>1. \A i \in DOMAIN c.args : Value(f, c.args[i]) = Value(g, c.args[i])
  BY DEF ToSet
<1> QED BY <1>1 DEF Values

LEMMA SameArgs ==
  ASSUME NEW f, NEW g, NEW c \in AnyIns, \A v \in ToSet(c.args) : Value(f, v) = Value(g, v)
  PROVE  Values(f, StageSpawn(c)) = Values(g, StageSpawn(c)) /\ Values(f, c) = Values(g, c)
<1>1. ToSet(StageSpawn(c).args) \subseteq ToSet(c.args)
  BY SpawnIs
<1>2. \A v \in ToSet(StageSpawn(c).args) : Value(f, v) = Value(g, v)
  BY <1>1
<1> QED BY <1>2, SameValues

\* A load always finds something.
LEMMA LoadFinds == ASSUME NEW s, Plain(s), NEW D, NEW i \in DOMAIN s PROVE \E e : Loaded(s, D, i, e)
<1> DEFINE Puts(j) == Sret(s[j]) /\ s[j].id = s[i].id
<1>1. DOMAIN s = 1 .. Len(s) /\ Len(s) \in Nat
  BY DEF Plain
<1>2. CASE \E j \in 1 .. i - 1 : Puts(j)
  <2>1. PICK j \in 1 .. i - 1 : Puts(j)
    BY <1>2
  <2>2. ASSUME NEW k \in 1 .. i - 1, Puts(k) PROVE k = j
    <3>1. k \in CallsIn(s) /\ j \in CallsIn(s)
      BY <1>1, <2>1, <2>2 DEF CallsIn, Sret
    <3> QED BY <2>1, <2>2, <3>1 DEF Plain
  <2>3. \A k \in 1 .. i - 1 : Sret(s[k]) /\ s[k].id = s[i].id => Term(D, s[j]) = Term(D, s[k])
    BY <2>2
  <2>4. Loaded(s, D, i, Term(D, s[j]))
    BY <2>1, <2>3 DEF Loaded
  <2> QED BY <2>4
<1>3. CASE \A j \in 1 .. i - 1 : ~ Puts(j)
  <2>1. Loaded(s, D, i, Undef)
    BY <1>3 DEF Loaded
  <2> QED BY <2>1
<1> QED BY <1>2, <1>3

LEMMA SomethingGiven == ASSUME NEW s, Plain(s), NEW D, NEW i \in DOMAIN s PROVE \E e : Gives(s, D, i, e)
<1>1. PICK e : Loaded(s, D, i, e)
  BY LoadFinds
<1> DEFINE v == IF s[i].op = "call" THEN Term(D, s[i])
                ELSE IF s[i].op = "extract" THEN <<"field", <<s[i].def[4], Values(Under(D), s[i])[1]>>>>
                ELSE IF s[i].op = "compute" THEN <<"compute", Values(Under(D), s[i])>> ELSE e
<1>2. Gives(s, D, i, v)
  BY <1>1 DEF Gives
<1> QED BY <1>2

\* What an instruction gives depends on the operands up to it.
LEMMA GivesSame ==
  ASSUME NEW s, Plain(s), NEW D, NEW E, NEW i \in DOMAIN s,
         \A j \in 1 .. i : \A v \in ToSet(s[j].args) : Value(Under(D), v) = Value(Under(E), v), NEW e
  PROVE  Gives(s, D, i, e) <=> Gives(s, E, i, e)
<1>1. DOMAIN s = 1 .. Len(s) /\ Len(s) \in Nat /\ \A j \in DOMAIN s : s[j] \in AnyIns
  BY DEF Plain
<1>2. \A j \in 1 .. i : Term(D, s[j]) = Term(E, s[j]) /\ Values(Under(D), s[j]) = Values(Under(E), s[j])
  <2> SUFFICES ASSUME NEW j \in 1 .. i
               PROVE  Term(D, s[j]) = Term(E, s[j]) /\ Values(Under(D), s[j]) = Values(Under(E), s[j])
    OBVIOUS
  <2>1. s[j] \in AnyIns
    BY <1>1
  <2> QED BY <2>1, SameArgs DEF Term
<1>3. i \in 1 .. i /\ 1 .. i - 1 \subseteq 1 .. i
  BY <1>1
<1>4. Loaded(s, D, i, e) <=> Loaded(s, E, i, e)
  BY <1>2, <1>3 DEF Loaded
<1> QED BY <1>2, <1>3, <1>4 DEF Gives

LEMMA BoundNext ==
  ASSUME NEW s, NEW n \in Nat
  PROVE  Bound(s, n + 1) = Bound(s, n) \cup (IF Binds(s[n + 1]) THEN {s[n + 1].def} ELSE {})
<1>1. 1 .. n + 1 = (1 .. n) \cup {n + 1}
  OBVIOUS
<1> QED BY <1>1 DEF Bound

LEMMA SolveNext ==
  ASSUME NEW s, Plain(s), NEW n \in Nat, n + 1 \in DOMAIN s, NEW D, Solves(s, D, n)
  PROVE  \E E : Solves(s, E, n + 1)
<1> DEFINE c == s[n + 1]
<1>1. /\ DOMAIN s = 1 .. Len(s) /\ Len(s) \in Nat /\ \A j \in DOMAIN s : s[j] \in AnyIns
      /\ 1 .. n \subseteq DOMAIN s /\ 1 .. n + 1 = (1 .. n) \cup {n + 1}
  BY DEF Plain
<1>2. DOMAIN D = Bound(s, n) /\ \A i \in 1 .. n : Binds(s[i]) => Gives(s, D, i, D[s[i].def])
  BY DEF Solves
<1>3. CASE ~ Binds(c)
  <2>1. Bound(s, n + 1) = Bound(s, n)
    BY <1>3, BoundNext
  <2>2. Solves(s, D, n + 1)
    BY <1>1, <1>2, <1>3, <2>1 DEF Solves
  <2> QED BY <2>2
<1>4. CASE Binds(c) /\ c.def \in DOMAIN D
  <2>1. Bound(s, n + 1) = Bound(s, n)
    BY <1>2, <1>4, BoundNext
  <2>2. PICK i \in 1 .. n : Binds(s[i]) /\ s[i].def = c.def
    BY <1>2, <1>4 DEF Bound
  <2>3. s[i] = c /\ c.op = "extract"
    <3>1. i # n + 1 /\ i \in DOMAIN s /\ c.def # None
      BY <1>1, <1>4 DEF Binds
    <3> QED BY <2>2, <3>1 DEF Plain
  <2>4. Gives(s, D, n + 1, D[c.def])
    <3>1. Gives(s, D, i, D[s[i].def])
      BY <1>2, <2>2
    <3> QED BY <2>3, <3>1 DEF Gives
  <2>5. Solves(s, D, n + 1)
    BY <1>1, <1>2, <2>1, <2>4 DEF Solves
  <2> QED BY <2>5
<1>5. CASE Binds(c) /\ c.def \notin DOMAIN D
  <2>1. PICK e : Gives(s, D, n + 1, e)
    BY SomethingGiven
  <2> DEFINE E == Put(D, c.def, e)
  <2>a. DOMAIN E = DOMAIN D \cup {c.def} /\ E[c.def] = e /\ \A y \in DOMAIN D : y # c.def => E[y] = D[y]
    BY DEF Put
  <2> HIDE DEF E
  <2>2. DOMAIN E = DOMAIN D \cup {c.def} /\ E[c.def] = e /\ \A y \in DOMAIN D : E[y] = D[y]
    BY <1>5, <2>a
  <2>3. DOMAIN E = Bound(s, n + 1)
    BY <1>2, <1>5, <2>2, BoundNext
  <2>4. \A j \in 1 .. n + 1 : \A v \in ToSet(s[j].args) : Value(Under(D), v) = Value(Under(E), v)
    <3> SUFFICES ASSUME NEW j \in 1 .. n + 1, NEW v \in ToSet(s[j].args) PROVE Value(Under(D), v) = Value(Under(E), v)
      OBVIOUS
    <3>1. CASE v[1] = "param"
      BY <3>1 DEF Value
    <3>2. CASE v[1] # "param"
      <4>1. j \in DOMAIN s /\ Dominates(s, v, j)
        BY <1>1 DEF Plain, OperandsIn
      <4>2. PICK k \in 1 .. j - 1 : s[k].def = v
        BY <3>2, <4>1 DEF Dominates
      <4>3. k \in 1 .. n /\ k \in DOMAIN s /\ k # n + 1
        BY <1>1
      <4>4. v # c.def
        <5> SUFFICES ASSUME v = c.def PROVE FALSE
          OBVIOUS
        <5>1. c.def # None
          BY <1>5 DEF Binds
        <5>2. s[k] = c /\ c.op = "extract"
          BY <4>2, <4>3, <5>1 DEF Plain
        <5>3. Binds(s[k])
          BY <1>5, <5>2
        <5>4. c.def \in Bound(s, n)
          BY <4>2, <4>3, <5>3 DEF Bound
        <5> QED BY <1>2, <1>5, <5>4
      <4> QED BY <2>2, <3>2, <4>4 DEF Value, Under
    <3> QED BY <3>1, <3>2
  <2>5. ASSUME NEW i \in 1 .. n + 1, Binds(s[i]) PROVE Gives(s, E, i, E[s[i].def])
    <3>1. i \in DOMAIN s /\ \A j \in 1 .. i : j \in 1 .. n + 1
      BY <1>1
    <3>2. Gives(s, D, i, E[s[i].def])
      <4>1. CASE i = n + 1
        BY <2>1, <2>2, <4>1
      <4>2. CASE i \in 1 .. n
        <5>1. s[i].def \in DOMAIN D
          BY <1>2, <2>5, <4>2 DEF Bound
        <5> QED BY <1>2, <2>2, <2>5, <4>2, <5>1
      <4> QED BY <1>1, <4>1, <4>2
    <3>3. \A j \in 1 .. i : \A v \in ToSet(s[j].args) : Value(Under(D), v) = Value(Under(E), v)
      BY <2>4, <3>1
    <3> QED BY <3>1, <3>2, <3>3, GivesSame
  <2>6. Solves(s, E, n + 1)
    BY <2>3, <2>5 DEF Solves
  <2> QED BY <2>6
<1> QED BY <1>3, <1>4, <1>5

LEMMA Denotes == ASSUME NEW s, Plain(s) PROVE \E D : Solves(s, D, Len(s))
<1> DEFINE K == {n \in Nat : n <= Len(s) => \E D : Solves(s, D, n)}
<1>1. DOMAIN s = 1 .. Len(s) /\ Len(s) \in Nat
  BY DEF Plain
<1>2. 0 \in K
  <2>1. 1 .. 0 = {} /\ DOMAIN << >> = {}
    OBVIOUS
  <2>2. Solves(s, << >>, 0)
    BY <2>1 DEF Solves, Bound
  <2> QED BY <2>2
<1>3. ASSUME NEW n \in K PROVE n + 1 \in K
  <2> SUFFICES ASSUME n + 1 <= Len(s) PROVE \E D : Solves(s, D, n + 1)
    OBVIOUS
  <2>1. n \in Nat /\ n <= Len(s) /\ n + 1 \in DOMAIN s
    BY <1>1
  <2>2. PICK D : Solves(s, D, n)
    BY <2>1
  <2> QED BY <2>1, <2>2, SolveNext
<1>4. K \subseteq Nat
  OBVIOUS
<1> HIDE DEF K
<1>5. K = Nat
  BY <1>2, <1>3, <1>4, AllNumbers
<1> QED BY <1>1, <1>5 DEF K
-----------------------------------------------------------------------------
(***************************************************************************)
(* The bodies that the pass is given, and those that it generates, are     *)
(* plain.                                                                  *)
(***************************************************************************)
LEMMA HandMadePlain == ASSUME PipelineOk(pipe), pipe.body # << >> PROVE Plain(pipe.body)
<1> DEFINE b == pipe.body
           calls == {i \in DOMAIN b : b[i].op = "call"}
<1>1. BodyOk(b, 1)
  BY HandMadeOk
<1>2. HandMade(pipe, b)
  BY DEF PipelineOk
<1> HIDE DEF b
<1>3. /\ b \in Seq(StageCode) /\ \A i \in DOMAIN b : b[i].op = "ret" <=> i = Len(b)
      /\ \A i, j \in DOMAIN b : b[i].def = b[j].def /\ b[i].def # None => i = j
      /\ {b[i].node : i \in calls} = CodeNodes(pipe)
      /\ \A i, j \in calls : b[i].id = b[j].id => i = j
  BY <1>2 DEF HandMade
<1>4. \A i \in DOMAIN b : b[i].op \notin {"spawn", "await", "fetch"} /\ b[i].def[1] # "task"
  <2>1. \A v \in Terms : v[1] # "task"
    BY DEF Terms, None
  <2>2. \A c \in StageCode : c.op \notin {"spawn", "await", "fetch"} /\ c.def \in Terms
    BY DEF StageCode
  <2> QED BY <1>3, <2>1, <2>2
<1>5. calls = CallsIn(b)
  BY DEF CallsIn
<1>6. b \in Seq(AnyIns) /\ Len(b) # 0 /\ OperandsIn(b)
  BY <1>1 DEF BodyOk, Ends
<1> QED BY <1>3, <1>4, <1>5, <1>6 DEF Plain, b

Placed == {"alloca", "call", "load"}

\* An instruction as Emit and Return make it, of a stage of X if it is placed once for each.
Tidy(X, c) ==
  \/ \E to, u, k : c = Extract(to, u, k)
  \/ c.op = "ret" /\ c.def = None
  \/ c.id \in X /\ \/ c.op = "alloca" /\ c.def = Slot(c.id)
                   \/ c.op = "call" /\ c.def \in {None, Out(c.id)} /\ c.node = c.id
                   \/ c.op = "load" /\ c.def = Out(c.id)

\* Two instructions of a stage differ in kind, and only one defines its output.
Apart(c, d) ==
  c.id = d.id /\ c.op \in Placed /\ d.op \in Placed =>
    /\ c.op # d.op
    /\ c.op = "call" /\ d.op = "load" => c.def = None
    /\ d.op = "call" /\ c.op = "load" => d.def = None

Clean(X, b) ==
  /\ b \in Seq(AnyIns) /\ \A i \in DOMAIN b : Tidy(X, b[i])
  /\ \A i, j \in DOMAIN b : i # j => Apart(b[i], b[j])

LEMMA ExtractIs ==
  ASSUME NEW to, NEW u, NEW k
  PROVE  /\ Extract(to, u, k).op = "extract" /\ Extract(to, u, k).def = <<"field", to, u, k>>
         /\ Extract(to, u, k).id = "field" /\ Extract(to, u, k).node = u /\ Extract(to, u, k).args = <<Out(u)>>
BY DEF Extract, Ins

\* What defines the same value is the same instruction.
LEMMA TidySame ==
  ASSUME NEW X, NEW c, NEW d, Tidy(X, c), Tidy(X, d), c.def = d.def, c.def # None
  PROVE  \/ c = d /\ c.op = "extract"
         \/ c.op \in Placed /\ d.op \in Placed /\ c.id = d.id /\ ~ Apart(c, d)
<1>1. \A x : Slot(x)[1] = "slot" /\ Slot(x)[2] = x /\ Out(x)[1] = "out" /\ Out(x)[2] = x
  BY DEF Slot, Out
<1>2. \A to, u, k : Extract(to, u, k).def[1] = "field" /\ Extract(to, u, k).op = "extract"
  BY ExtractIs
<1>3. CASE \E to, u, k : c = Extract(to, u, k)
  <2>1. PICK to, u, k : c = Extract(to, u, k)
    BY <1>3
  <2>2. d.def[1] = "field"
    BY <1>2, <2>1
  <2>3. \E t, v, l : d = Extract(t, v, l)
    BY <1>1, <2>2 DEF Tidy
  <2>4. PICK t, v, l : d = Extract(t, v, l)
    BY <2>3
  <2>5. <<"field", to, u, k>> = <<"field", t, v, l>>
    BY <2>1, <2>4, ExtractIs
  <2>6. to = t /\ u = v /\ k = l
    BY <2>5
  <2> QED BY <1>2, <2>1, <2>4, <2>6
<1>4. CASE ~ \E to, u, k : c = Extract(to, u, k)
  <2>1. c.op \in Placed /\ c.def[1] # "field" /\ c.def \in {Slot(c.id), Out(c.id)} /\ (c.def = Slot(c.id) => c.op = "alloca")
         /\ (c.op = "alloca" => c.def = Slot(c.id))
    BY <1>1, <1>4 DEF Tidy, Placed
  <2>2. ~ \E to, u, k : d = Extract(to, u, k)
    BY <1>2, <2>1
  <2>3. d.op \in Placed /\ d.def \in {Slot(d.id), Out(d.id)} /\ (d.def = Slot(d.id) => d.op = "alloca")
         /\ (d.op = "alloca" => d.def = Slot(d.id))
    BY <1>1, <2>2 DEF Tidy, Placed
  <2>4. c.id = d.id
    BY <1>1, <2>1, <2>3
  <2>5. c.op = "alloca" <=> d.op = "alloca"
    BY <1>1, <2>1, <2>3
  <2>6. ~ Apart(c, d)
    BY <2>1, <2>3, <2>4, <2>5 DEF Apart, Placed
  <2> QED BY <2>1, <2>3, <2>4, <2>6
<1> QED BY <1>3, <1>4

LEMMA CleanConcat ==
  ASSUME NEW X, NEW Y, NEW Z, NEW b, NEW c, Clean(X, b), Clean(Y, c), X \subseteq Z, Y \subseteq Z,
         \A i \in DOMAIN b, j \in DOMAIN c : Apart(b[i], c[j])
  PROVE  Clean(Z, b \o c)
<1> DEFINE r == b \o c  m == Len(b)  n == Len(c)
<1>1. b \in Seq(AnyIns) /\ c \in Seq(AnyIns) /\ m \in Nat /\ n \in Nat /\ DOMAIN b = 1 .. m /\ DOMAIN c = 1 .. n
  BY DEF Clean
<1>2. r \in Seq(AnyIns) /\ Len(r) = m + n /\ DOMAIN r = 1 .. m + n
      /\ \A i \in 1 .. m + n : r[i] = IF i <= m THEN b[i] ELSE c[i - m]
  BY <1>1
<1> HIDE DEF r, m, n
<1>3. ASSUME NEW i \in 1 .. m + n
      PROVE  (i \in DOMAIN b /\ i <= m /\ r[i] = b[i]) \/ (i - m \in DOMAIN c /\ i > m /\ r[i] = c[i - m])
  BY <1>1, <1>2
<1>4. \A x : (Tidy(X, x) \/ Tidy(Y, x)) => Tidy(Z, x)
  BY DEF Tidy
<1>5. \A x, y : Apart(x, y) => Apart(y, x)
  BY DEF Apart
<1>6. \A i \in 1 .. m + n : Tidy(Z, r[i])
  BY <1>3, <1>4 DEF Clean
<1>7. ASSUME NEW i \in 1 .. m + n, NEW j \in 1 .. m + n, i # j PROVE Apart(r[i], r[j])
  <2>1. CASE i <= m /\ j <= m
    BY <1>1, <1>3, <1>7, <2>1 DEF Clean
  <2>2. CASE i <= m /\ j > m
    BY <1>1, <1>3, <2>2
  <2>3. CASE i > m /\ j <= m
    BY <1>1, <1>3, <1>5, <2>3
  <2>4. CASE i > m /\ j > m
    <3>1. i - m # j - m /\ i - m \in DOMAIN c /\ j - m \in DOMAIN c /\ r[i] = c[i - m] /\ r[j] = c[j - m]
      BY <1>1, <1>3, <1>7, <2>4
    <3> QED BY <3>1 DEF Clean
  <2> QED BY <1>1, <2>1, <2>2, <2>3, <2>4
<1> QED BY <1>2, <1>6, <1>7 DEF Clean, r

\* What Emit puts at the end for stage x.
Works(g, x) == Room(x) \o <<CallOf(g, x)>> \o After(x)

LEMMA PiecesTyped ==
  ASSUME Setting, NEW x \in CodeNodes(pipe), NEW g \in States
  PROVE  /\ Before(g, x) \in Seq(AnyIns) /\ \A i \in DOMAIN Before(g, x) : \E to, u, k : Before(g, x)[i] = Extract(to, u, k)
         /\ CallOf(g, x) \in AnyIns /\ CallOf(g, x).op = "call" /\ CallOf(g, x).id = x /\ CallOf(g, x).node = x
         /\ CallOf(g, x).def = IF LRet(x) = "void" THEN None ELSE Out(x)
         /\ Ins("alloca", x, x, << >>, Slot(x)) \in AnyIns /\ Ins("load", x, x, <<Slot(x)>>, Out(x)) \in AnyIns
<1>1. x \in Nodes(pipe) /\ g.outs \in SUBSET Nodes(pipe)
  BY DEF CodeNodes, States
<1>2. x \in Names /\ Out(x) \in Vals /\ Slot(x) \in Vals /\ None \in Vals
  BY <1>1, NodeNames, ValsHold DEF Vals, Out, Slot
<1>3. Match(g, x).args \in Seq(Vals)
  BY <1>1, MatchFits
<1>4. Before(g, x) \in Seq(AnyIns) /\ \A i \in DOMAIN Before(g, x) : \E to, u, k : Before(g, x)[i] = Extract(to, u, k)
  <2>1. CASE x \in pipe.sources
    BY <2>1 DEF Before
  <2>2. CASE x \notin pipe.sources
    <3>1. Extracts(x, g.outs) \in Seq(AnyIns)
      BY <1>1, ExtractsAre
    <3>2. \A i \in DOMAIN Extracts(x, g.outs) : \E to, u, k : Extracts(x, g.outs)[i] = Extract(to, u, k)
      BY DEF Extracts
    <3> QED BY <2>2, <3>1, <3>2 DEF Before
  <2> QED BY <2>1, <2>2
<1>5. /\ CallOf(g, x) \in AnyIns /\ CallOf(g, x).op = "call" /\ CallOf(g, x).id = x /\ CallOf(g, x).node = x
      /\ CallOf(g, x).def = IF LRet(x) = "void" THEN None ELSE Out(x)
  <2> DEFINE d == IF LRet(x) = "void" THEN None ELSE Out(x)  c == CallOf(g, x)
  <2>1. "call" \in Ops /\ d \in Vals
    BY <1>2 DEF Ops
  <2>2. c = Ins("call", x, x, Match(g, x).args, d)
    BY DEF CallOf
  <2> HIDE DEF d, c
  <2>3. c \in AnyIns
    BY <1>2, <1>3, <2>1, <2>2, InsType
  <2>4. c.op = "call" /\ c.id = x /\ c.node = x /\ c.def = d
    BY <2>2 DEF Ins
  <2> QED BY <2>3, <2>4 DEF d, c
<1>6. Ins("alloca", x, x, << >>, Slot(x)) \in AnyIns /\ Ins("load", x, x, <<Slot(x)>>, Out(x)) \in AnyIns
  <2>1. "alloca" \in Ops /\ "load" \in Ops /\ << >> \in Seq(Vals) /\ <<Slot(x)>> \in Seq(Vals)
    BY <1>2 DEF Ops
  <2> QED BY <1>2, <2>1, InsType
<1> QED BY <1>4, <1>5, <1>6

LEMMA TwoAre == ASSUME NEW X, NEW a \in X, NEW b \in X PROVE <<a>> \o <<b>> = <<a, b>>
<1>1. <<a>> \o <<b>> \in Seq(X) /\ <<a, b>> \in Seq(X) /\ Len(<<a>> \o <<b>>) = 2 /\ Len(<<a, b>>) = 2
  OBVIOUS
<1>2. \A i \in 1 .. 2 : (<<a>> \o <<b>>)[i] = <<a, b>>[i]
  OBVIOUS
<1> QED BY <1>1, <1>2, SeqEqual

LEMMA ThreeAre == ASSUME NEW X, NEW a \in X, NEW b \in X, NEW c \in X PROVE <<a>> \o <<b>> \o <<c>> = <<a, b, c>>
<1>1. /\ <<a, b>> \o <<c>> \in Seq(X) /\ <<a, b, c>> \in Seq(X) /\ Len(<<a, b>> \o <<c>>) = 3 /\ Len(<<a, b, c>>) = 3
  OBVIOUS
<1>2. \A i \in 1 .. 3 : (<<a, b>> \o <<c>>)[i] = <<a, b, c>>[i]
  OBVIOUS
<1>3. <<a, b>> \o <<c>> = <<a, b, c>>
  BY <1>1, <1>2, SeqEqual
<1> QED BY <1>3, TwoAre

LEMMA OneIs == ASSUME NEW X, NEW a \in X PROVE << >> \o <<a>> \o << >> = <<a>>
OBVIOUS

LEMMA Regrouped ==
  ASSUME NEW X, NEW s \in Seq(X), NEW r \in Seq(X), NEW c \in Seq(X)
  PROVE  (s \o r) \o c = s \o (r \o c)
BY ConcatAssociative

LEMMA WorksClean ==
  ASSUME Setting, NEW x \in CodeNodes(pipe), NEW g \in States
  PROVE  Clean({x}, Works(g, x)) /\ \A i \in DOMAIN Works(g, x) : Works(g, x)[i].id = x
<1> DEFINE e == Ins("alloca", x, x, << >>, Slot(x))  c == CallOf(g, x)  l == Ins("load", x, x, <<Slot(x)>>, Out(x))
<1>1. /\ c \in AnyIns /\ c.op = "call" /\ c.id = x /\ c.node = x /\ c.def = IF LRet(x) = "void" THEN None ELSE Out(x)
      /\ e \in AnyIns /\ l \in AnyIns
  BY PiecesTyped
<1>2. e.op = "alloca" /\ e.id = x /\ e.def = Slot(x) /\ l.op = "load" /\ l.id = x /\ l.def = Out(x)
  BY DEF Ins
<1>3. Works(g, x) = (IF HasSlot(x) THEN <<e>> ELSE << >>) \o <<c>> \o (IF HasSlot(x) THEN <<l>> ELSE << >>)
  BY DEF Works, Room, After
<1> HIDE DEF e, c, l
<1>4. Tidy({x}, e) /\ Tidy({x}, c) /\ Tidy({x}, l)
  BY <1>1, <1>2 DEF Tidy
<1>5. CASE HasSlot(x)
  <2>1. LRet(x) = "void"
    BY <1>5 DEF HasSlot, LRet
  <2>2. Works(g, x) = <<e, c, l>>
    BY <1>1, <1>3, <1>5, ThreeAre
  <2>3. Works(g, x) \in Seq(AnyIns) /\ DOMAIN Works(g, x) = {1, 2, 3}
        /\ Works(g, x)[1] = e /\ Works(g, x)[2] = c /\ Works(g, x)[3] = l
    BY <1>1, <2>2
  <2>4. Apart(e, c) /\ Apart(c, e) /\ Apart(e, l) /\ Apart(l, e) /\ Apart(c, l) /\ Apart(l, c)
    BY <1>1, <1>2, <2>1 DEF Apart
  <2> QED BY <1>1, <1>2, <1>4, <2>3, <2>4 DEF Clean
<1>6. CASE ~ HasSlot(x)
  <2>1. Works(g, x) = <<c>>
    BY <1>1, <1>3, <1>6, OneIs
  <2>2. Works(g, x) \in Seq(AnyIns) /\ DOMAIN Works(g, x) = {1} /\ Works(g, x)[1] = c
    BY <1>1, <2>1
  <2> QED BY <1>1, <1>4, <2>2 DEF Clean
<1> QED BY <1>5, <1>6

\* Instructions that are not of the same stage are apart.
LEMMA OthersApart ==
  ASSUME NEW X, NEW x, x \notin X, NEW c, Tidy(X, c), NEW d, d.id = x
  PROVE  Apart(c, d)
BY ExtractIs DEF Apart, Tidy, Placed

LEMMA EmitClean ==
  ASSUME Setting, NEW x \in Nodes(pipe), NEW g \in States, Clean(g.outs, g.code), x \notin g.outs
  PROVE  Clean(Emit(g, x).outs, Emit(g, x).code)
<1>1. CASE ~ g.ok \/ x \notin CodeNodes(pipe)
  BY <1>1, EmitIs
<1>2. CASE g.ok /\ x \in CodeNodes(pipe)
  <2> DEFINE b == g.code  e == Before(g, x)  q == Works(g, x)  h == Emit(g, x)
             R == Room(x)  C == <<CallOf(g, x)>>  A == After(x)
  <2>1. h = [ok |-> Match(g, x).ok, outs |-> g.outs \cup {x}, code |-> b \o e \o R \o C \o A]
    BY <1>2, EmitIs
  <2>2. h.outs = g.outs \cup {x} /\ h.code = b \o e \o R \o C \o A
    <3> HIDE DEF h, b, e, R, C, A
    <3> QED BY <2>1
  <2>3. /\ e \in Seq(AnyIns) /\ \A i \in DOMAIN e : \E to, u, k : e[i] = Extract(to, u, k)
        /\ C \in Seq(AnyIns) /\ R \in Seq(AnyIns) /\ A \in Seq(AnyIns) /\ b \in Seq(AnyIns)
    <3>1. CallOf(g, x) \in AnyIns /\ Ins("alloca", x, x, << >>, Slot(x)) \in AnyIns /\ Ins("load", x, x, <<Slot(x)>>, Out(x)) \in AnyIns
      BY <1>2, PiecesTyped
    <3>2. C \in Seq(AnyIns) /\ R \in Seq(AnyIns) /\ A \in Seq(AnyIns)
      BY <3>1, SingleIs DEF Room, After
    <3> QED BY <1>2, <3>2, PiecesTyped DEF Clean
  <2>4. Clean({x}, q) /\ \A i \in DOMAIN q : q[i].id = x
    BY <1>2, WorksClean
  <2>5. q = R \o C \o A
    BY DEF Works
  <2>6. Clean(g.outs, b)
    OBVIOUS
  <2> HIDE DEF b, e, q, R, C, A, h
  <2>7. h.code = (b \o e) \o q
    <3>1. b \o e \in Seq(AnyIns)
      BY <2>3
    <3>2. R \o C \in Seq(AnyIns)
      BY <2>3
    <3> DEFINE f == b \o e  o == R \o C
    <3> HIDE DEF f
    <3>3. f \in Seq(AnyIns)
      BY <3>1 DEF f
    <3>4. (f \o R) \o C = f \o (R \o C)
      <4>1. R \in Seq(AnyIns) /\ C \in Seq(AnyIns)
        BY <2>3
      <4> QED BY <3>3, <4>1, Regrouped
    <3> HIDE DEF o
    <3>6. o \in Seq(AnyIns)
      BY <3>2 DEF o
    <3>5. (f \o o) \o A = f \o (o \o A)
      <4>1. A \in Seq(AnyIns)
        BY <2>3
      <4> QED BY <3>3, <3>6, <4>1, Regrouped
    <3> QED BY <2>2, <2>5, <3>4, <3>5 DEF f, o
  <2>8. Clean(g.outs, b \o e)
    <3>1. \A i \in DOMAIN e : e[i].op = "extract"
      BY <2>3, ExtractIs
    <3>2. Clean({}, e)
      BY <2>3, <3>1 DEF Clean, Tidy, Apart, Placed
    <3>3. \A i \in DOMAIN b, j \in DOMAIN e : Apart(b[i], e[j])
      BY <3>1 DEF Apart, Placed
    <3> QED BY <2>6, <3>2, <3>3, CleanConcat
  <2>9. \A i \in DOMAIN (b \o e), j \in DOMAIN q : Apart((b \o e)[i], q[j])
    BY <2>4, <2>8, OthersApart DEF Clean
  <2>10. Clean(g.outs \cup {x}, (b \o e) \o q)
    <3> DEFINE f == b \o e  X == g.outs  Z == g.outs \cup {x}
    <3>1. X \subseteq Z /\ {x} \subseteq Z
      OBVIOUS
    <3>2. Clean(X, f)
      BY <2>8
    <3>3. \A i \in DOMAIN f, j \in DOMAIN q : Apart(f[i], q[j])
      BY <2>9
    <3>4. Clean({x}, q)
      BY <2>4
    <3> HIDE DEF f, X, Z
    <3>5. Clean(Z, f \o q)
      BY <3>1, <3>2, <3>3, <3>4, CleanConcat
    <3> QED BY <3>5 DEF f, Z
  <2> QED BY <2>2, <2>7, <2>10 DEF h
<1> QED BY <1>1, <1>2

LEMMA EmitOuts == ASSUME NEW g, NEW x PROVE Emit(g, x).outs \subseteq g.outs \cup {x}
<1>1. CASE ~ g.ok \/ x \notin CodeNodes(pipe)
  BY <1>1, EmitIs
<1>2. CASE ~ (~ g.ok \/ x \notin CodeNodes(pipe))
  <2> DEFINE o == Match(g, x).ok  s == g.outs \cup {x}  c == g.code \o Before(g, x) \o Room(x) \o <<CallOf(g, x)>> \o After(x)
  <2>1. Emit(g, x) = [ok |-> o, outs |-> s, code |-> c]
    BY <1>2, EmitIs
  <2> HIDE DEF o, s, c
  <2>2. Emit(g, x).outs = s
    BY <2>1
  <2> QED BY <2>2 DEF s
<1> QED BY <1>1, <1>2

\* A stage is in one group, and once.
LEMMA GroupClean ==
  ASSUME Setting, NEW k \in DOMAIN pipe.groups, NEW s \in States, \A u \in s.outs : Level(pipe, u) <= k - 1,
         Clean(s.outs, s.code)
  PROVE  Clean(EmitGroup(s, pipe.groups[k]).outs, EmitGroup(s, pipe.groups[k]).code)
<1> DEFINE ns == pipe.groups[k]
           First(i) == {ns[j] : j \in 1 .. i}
<1>1. k \in Nat /\ ns \in Seq(Nodes(pipe)) /\ \A i, j \in DOMAIN ns : ns[i] = ns[j] => i = j
  BY DEF Setting, PipelineOk, IsInjective
<1>2. \A j \in 1 .. Len(ns) : Level(pipe, ns[j]) = k
  <2>1. PipelineOk(pipe)
    BY DEF Setting
  <2>2. \A j \in 1 .. Len(ns) : ns[j] \in Nodes(pipe) /\ ns[j] \in ToSet(pipe.groups[k])
    BY <1>1 DEF ToSet
  <2> HIDE DEF ns
  <2> QED BY <2>1, <2>2, LevelIs
<1> HIDE DEF ns
<1>3. PICK w : /\ w \in [0 .. Len(ns) -> States] /\ w[0] = s /\ EmitGroup(s, ns) = w[Len(ns)]
               /\ \A j \in 1 .. Len(ns) : w[j] = Emit(w[j - 1], ns[j])
  BY <1>1, EmitGroupGo
<1> DEFINE K == {i \in Nat : i <= Len(ns) => Clean(w[i].outs, w[i].code) /\ w[i].outs \subseteq s.outs \cup First(i)}
<1>4. 0 \in K
  BY <1>3
<1>5. ASSUME NEW i \in K PROVE i + 1 \in K
  <2> SUFFICES ASSUME i + 1 <= Len(ns)
               PROVE  Clean(w[i + 1].outs, w[i + 1].code) /\ w[i + 1].outs \subseteq s.outs \cup First(i + 1)
    OBVIOUS
  <2>1. /\ i \in Nat /\ Len(ns) \in Nat /\ i + 1 \in 1 .. Len(ns) /\ i <= Len(ns) /\ (i + 1) - 1 = i /\ i \in 0 .. Len(ns)
        /\ DOMAIN ns = 1 .. Len(ns) /\ \A j \in 1 .. i : j \in 1 .. Len(ns) /\ j # i + 1
    BY <1>1
  <2>2. Clean(w[i].outs, w[i].code) /\ w[i].outs \subseteq s.outs \cup First(i)
    BY <2>1
  <2>3. w[i + 1] = Emit(w[i], ns[i + 1]) /\ w[i] \in States
    BY <1>3, <2>1
  <2>4. ns[i + 1] \in Nodes(pipe)
    BY <1>1, <2>1
  <2>5. ns[i + 1] \notin w[i].outs
    <3>1. ns[i + 1] \notin First(i)
      BY <1>1, <2>1
    <3>2. ns[i + 1] \notin s.outs
      BY <1>1, <1>2, <2>1
    <3> HIDE DEF First
    <3> QED BY <2>2, <3>1, <3>2
  <2>6. First(i) \cup {ns[i + 1]} \subseteq First(i + 1)
    BY <2>1
  <2>7. Clean(Emit(w[i], ns[i + 1]).outs, Emit(w[i], ns[i + 1]).code)
    BY <2>2, <2>3, <2>4, <2>5, EmitClean
  <2>8. Emit(w[i], ns[i + 1]).outs \subseteq w[i].outs \cup {ns[i + 1]}
    BY EmitOuts
  <2> HIDE DEF First
  <2> QED BY <2>2, <2>3, <2>6, <2>7, <2>8
<1>6. K = Nat
  <2>1. K \in SUBSET Nat
    OBVIOUS
  <2> HIDE DEF K
  <2> QED BY <1>4, <1>5, <2>1, AllNumbers
<1>7. Len(ns) \in Nat
  BY <1>1
<1>8. Clean(w[Len(ns)].outs, w[Len(ns)].code)
  <2>1. Len(ns) \in K
    <3> HIDE DEF K
    <3> QED BY <1>6, <1>7
  <2> QED BY <1>7, <2>1
<1> QED BY <1>3, <1>8 DEF ns

LEMMA GeneratedClean == ASSUME Setting PROVE Clean(Generated.outs, Generated.code)
<1> DEFINE n == Len(pipe.groups)
<1>1. pipe.groups \in Seq(Seq(Nodes(pipe))) /\ n \in Nat /\ DOMAIN pipe.groups = 1 .. n
  BY DEF Setting, PipelineOk
<1>2. PICK w : /\ w[0] = Nothing /\ Generated = w[n]
               /\ \A j \in 1 .. n : w[j] = EmitGroup(w[j - 1], pipe.groups[j])
  BY <1>1, GeneratedGo
<1> DEFINE K == {i \in Nat : i <= n => Staged(w[i], i, {}) /\ Clean(w[i].outs, w[i].code)}
<1>3. 0 \in K
  <2>1. Nothing.outs = {} /\ Nothing.code = << >>
    BY DEF Nothing
  <2>2. Levelled(<< >>)
    BY DEF Levelled, Starts
  <2>3. Staged(Nothing, 0, {})
    BY <2>1, <2>2, NothingIs DEF Staged
  <2>4. Clean({}, << >>)
    BY DEF Clean
  <2> QED BY <1>2, <2>1, <2>3, <2>4
<1>4. ASSUME NEW i \in K PROVE i + 1 \in K
  <2> SUFFICES ASSUME i + 1 <= n PROVE Staged(w[i + 1], i + 1, {}) /\ Clean(w[i + 1].outs, w[i + 1].code)
    OBVIOUS
  <2>1. i \in Nat /\ i + 1 \in 1 .. n /\ i <= n /\ (i + 1) - 1 = i /\ i + 1 \in DOMAIN pipe.groups
    BY <1>1
  <2>2. Staged(w[i], (i + 1) - 1, {}) /\ Clean(w[i].outs, w[i].code)
    BY <2>1
  <2>3. w[i + 1] = EmitGroup(w[i], pipe.groups[i + 1])
    BY <1>2, <2>1
  <2> HIDE DEF n
  <2>4. Staged(EmitGroup(w[i], pipe.groups[i + 1]), i + 1, {} \cup (ToSet(pipe.groups[i + 1]) \cap CodeNodes(pipe)))
    BY <2>1, <2>2, GroupStaged
  <2>5. Staged(w[i + 1], i + 1, {})
    BY <2>3, <2>4 DEF Staged
  <2>6. w[i] \in States /\ \A u \in w[i].outs : Level(pipe, u) <= (i + 1) - 1
    BY <2>2 DEF Staged
  <2>7. Clean(EmitGroup(w[i], pipe.groups[i + 1]).outs, EmitGroup(w[i], pipe.groups[i + 1]).code)
    BY <2>1, <2>2, <2>6, GroupClean
  <2> QED BY <2>3, <2>5, <2>7
<1>5. K = Nat
  <2>1. K \in SUBSET Nat
    OBVIOUS
  <2> HIDE DEF K
  <2> QED BY <1>3, <1>4, <2>1, AllNumbers
<1> QED BY <1>1, <1>2, <1>5

\* What is put behind the code: at most a field of the terminal's output is extracted.
LEMMA ReturnIs ==
  ASSUME NEW g, Return(g) # << >>
  PROVE  \/ \E as : Return(g) = <<Ins("ret", "ret", pipe.terminal, as, None)>>
         \/ \E to, u, k, as : Return(g) = <<Extract(to, u, k), Ins("ret", "ret", pipe.terminal, as, None)>>
<1> DEFINE t == pipe.terminal
           from == {i \in DOMAIN Fields[OutType(t)] : Fields[OutType(t)][i] = pipe.ret}
           e == Extract("ret", t, Min(from))
<1>1. Return(g) = IF pipe.ret = "void" THEN <<Ins("ret", "ret", t, << >>, None)>>
                  ELSE IF t \notin g.outs THEN << >>
                  ELSE IF OutType(t) = pipe.ret THEN <<Ins("ret", "ret", t, <<Out(t)>>, None)>>
                  ELSE IF OutType(t) \in DOMAIN Fields /\ from # {} THEN <<e, Ins("ret", "ret", t, <<e.def>>, None)>>
                  ELSE << >>
  BY DEF Return
<1> HIDE DEF from
<1> QED BY <1>1

LEMMA ReturnClean ==
  ASSUME Setting, NEW g \in States, Return(g) # << >>
  PROVE  Clean({}, Return(g)) /\ \A i \in DOMAIN Return(g) : Return(g)[i].op \notin Placed /\ (Return(g)[i].op = "ret" <=> i = Len(Return(g)))
<1> DEFINE c == Return(g)
<1>1. c \in Seq(AnyIns)
  BY ReturnTrails DEF Trails
<1>2. \A as : LET i == Ins("ret", "ret", pipe.terminal, as, None) IN i.op = "ret" /\ i.def = None
  BY DEF Ins
<1>3. /\ \A i \in DOMAIN c : (\E to, u, k : c[i] = Extract(to, u, k)) \/ (c[i].op = "ret" /\ c[i].def = None)
      /\ \A i \in DOMAIN c : c[i].op = "ret" <=> i = Len(c)
  <2>1. CASE \E as : c = <<Ins("ret", "ret", pipe.terminal, as, None)>>
    <3>1. PICK as : c = <<Ins("ret", "ret", pipe.terminal, as, None)>>
      BY <2>1
    <3> DEFINE i == Ins("ret", "ret", pipe.terminal, as, None)
    <3>2. i.op = "ret" /\ i.def = None /\ c = <<i>>
      BY <1>2, <3>1
    <3> HIDE DEF i, c
    <3>3. DOMAIN c = {1} /\ Len(c) = 1 /\ c[1] = i
      BY <3>2
    <3> QED BY <3>2, <3>3
  <2>2. CASE \E to, u, k, as : c = <<Extract(to, u, k), Ins("ret", "ret", pipe.terminal, as, None)>>
    <3>1. PICK to, u, k, as : c = <<Extract(to, u, k), Ins("ret", "ret", pipe.terminal, as, None)>>
      BY <2>2
    <3> DEFINE i == Ins("ret", "ret", pipe.terminal, as, None)  e == Extract(to, u, k)
    <3>2. i.op = "ret" /\ i.def = None /\ c = <<e, i>> /\ e.op = "extract"
      <4>1. i.op = "ret" /\ i.def = None
        BY <1>2
      <4>2. e.op = "extract"
        BY ExtractIs
      <4>3. c = <<e, i>>
        BY <3>1
      <4> QED BY <4>1, <4>2, <4>3
    <3>3. \E v, x, l : e = Extract(v, x, l)
      OBVIOUS
    <3> HIDE DEF i, e, c
    <3>4. DOMAIN c = {1, 2} /\ Len(c) = 2 /\ c[1] = e /\ c[2] = i
      BY <3>2
    <3> QED BY <3>2, <3>3, <3>4
  <2> QED BY <2>1, <2>2, ReturnIs
<1> HIDE DEF c
<1>4. \A i \in DOMAIN c : c[i].op \notin Placed
  BY <1>3, ExtractIs DEF Placed
<1>5. Clean({}, c)
  BY <1>1, <1>3, <1>4 DEF Clean, Tidy, Apart
<1> QED BY <1>3, <1>4, <1>5 DEF c

LEMMA GeneratedPlain ==
  ASSUME Setting, Generated.ok, Return(Generated) # << >>
  PROVE  Plain(Generated.code \o Return(Generated))
<1> DEFINE g == Generated  a == g.code  c == Return(g)  b == a \o c  m == Len(a)  n == Len(c)
<1>1. g \in States
  BY GeneratedStaged
<1>2. BodyOk(b, 1)
  BY GeneratedOk
<1>3. Clean(g.outs, a)
  BY GeneratedClean
<1>4. Clean({}, c) /\ \A i \in DOMAIN c : c[i].op \notin Placed /\ (c[i].op = "ret" <=> i = n)
  BY <1>1, ReturnClean
<1>5. g.outs \subseteq CodeNodes(pipe) /\ \A i \in DOMAIN a : a[i].op # "ret"
  BY <1>1 DEF States, Shown, CodeOps
<1> HIDE DEF g, a, c, b, m, n
<1>6. Clean(g.outs, b)
  <2>1. \A i \in DOMAIN a, j \in DOMAIN c : Apart(a[i], c[j])
    BY <1>4 DEF Apart
  <2>2. {} \subseteq g.outs
    OBVIOUS
  <2> QED BY <1>3, <1>4, <2>1, <2>2, CleanConcat DEF b
<1>7. /\ DOMAIN a = 1 .. m /\ DOMAIN c = 1 .. n /\ m \in Nat /\ n \in Nat /\ DOMAIN b = 1 .. m + n /\ Len(b) = m + n
      /\ \A i \in 1 .. m + n : b[i] = IF i <= m THEN a[i] ELSE c[i - m]
  BY <1>3, <1>4 DEF Clean, b, m, n
<1>8. b \in Seq(AnyIns) /\ Len(b) # 0 /\ OperandsIn(b)
  BY <1>2 DEF BodyOk, Ends
<1>9. ASSUME NEW i \in DOMAIN b PROVE b[i].op = "ret" <=> i = Len(b)
  <2>1. CASE i <= m
    <3>1. i \in DOMAIN a /\ b[i] = a[i]
      BY <1>7, <2>1
    <3>2. i # Len(b)
      <4>1. b[Len(b)].op = "ret"
        BY <1>2 DEF BodyOk, Ends
      <4> QED BY <1>5, <3>1, <4>1
    <3> QED BY <1>5, <3>1, <3>2
  <2>2. CASE i > m
    <3>1. i - m \in DOMAIN c /\ b[i] = c[i - m] /\ (i = Len(b) <=> i - m = n)
      BY <1>7, <2>2
    <3> QED BY <1>4, <3>1
  <2> QED BY <1>7, <2>1, <2>2
<1>10. ASSUME NEW i \in DOMAIN b PROVE b[i].op \notin {"spawn", "await", "fetch"} /\ b[i].def[1] # "task"
  <2>1. Tidy(g.outs, b[i])
    BY <1>6 DEF Clean
  <2>2. CASE \E to, u, k : b[i] = Extract(to, u, k)
    <3>1. PICK to, u, k : b[i] = Extract(to, u, k)
      BY <2>2
    <3>2. b[i].op = "extract" /\ b[i].def = <<"field", to, u, k>>
      BY <3>1, ExtractIs
    <3> QED BY <3>2
  <2>3. CASE ~ \E to, u, k : b[i] = Extract(to, u, k)
    BY <2>1, <2>3 DEF Tidy, None, Out, Slot
  <2> QED BY <2>2, <2>3
<1>11. ASSUME NEW i \in DOMAIN b, NEW j \in DOMAIN b, b[i].def = b[j].def, b[i].def # None
       PROVE  b[i] = b[j] /\ (i = j \/ b[i].op = "extract")
  <2>1. Tidy(g.outs, b[i]) /\ Tidy(g.outs, b[j]) /\ (i # j => Apart(b[i], b[j]))
    BY <1>6 DEF Clean
  <2> QED BY <1>11, <2>1, TidySame
<1>12. ASSUME NEW i \in CallsIn(b) PROVE b[i].node \in CodeNodes(pipe)
  <2>1. Tidy(g.outs, b[i]) /\ b[i].op = "call"
    BY <1>6 DEF Clean, CallsIn
  <2> QED BY <1>5, <2>1, ExtractIs DEF Tidy
<1>13. ASSUME NEW i \in CallsIn(b), NEW j \in CallsIn(b), b[i].id = b[j].id PROVE i = j
  <2>1. i \in DOMAIN b /\ j \in DOMAIN b /\ b[i].op = "call" /\ b[j].op = "call"
    BY DEF CallsIn
  <2>2. i # j => Apart(b[i], b[j])
    BY <1>6, <2>1 DEF Clean
  <2> QED BY <1>13, <2>1, <2>2 DEF Apart, Placed
<1>14. Plain(b)
  BY <1>8, <1>9, <1>10, <1>11, <1>12, <1>13 DEF Plain
<1> QED BY <1>14 DEF b, a, c, g

-----------------------------------------------------------------------------
(***************************************************************************)
(* Where the instructions of the serial body are in the parallel one.      *)
(***************************************************************************)
Primary(b) == {q \in DOMAIN b : b[q].op \notin {"await", "fetch"}}

\* What becomes of instruction c.
Version(c, d) ==
  \/ d = c
  \/ c.op = "call" /\ d = StageSpawn(c)
  \/ c.op = "call" /\ d = Fetch(c)

\* b has the instructions of s, each at one place.
Placing(s, b, at) ==
  /\ \A q \in DOMAIN b : b[q].op # "await" => at[q] \in DOMAIN s /\ Version(s[at[q]], b[q])
  /\ \A q, t \in Primary(b) : at[q] = at[t] => q = t
  /\ \A i \in DOMAIN s : \E q \in Primary(b) : at[q] = i

\* Only spawns overtake, and no stage another if all are spawned.
Keeping(b, at) == \A p, q \in Primary(b) : at[p] < at[q] /\ b[q].op # "spawn" => p < q
Turns(b, at)   == Outsiders = {} => \A p, q \in Starts(b) : p < q => at[p] < at[q]

\* Results are fetched of what was spawned, and joins wait for spawns before them, in order.
Fetching(b, at) == \A q \in DOMAIN b : b[q].op = "fetch" => \E p \in 1 .. q - 1 : b[p].op = "spawn" /\ at[p] = at[q]
Joins(b, j, m) ==
  /\ DOMAIN b[j].args = 1 .. j - m
  /\ \A k \in 1 .. j - m : b[m + k - 1].op = "spawn" /\ b[j].args[k] = b[m + k - 1].def
Awaiting(b) == \A j \in DOMAIN b : b[j].op = "await" => b[j].def = None /\ \E m \in 1 .. j - 1 : Joins(b, j, m)

Woven(s, b, at) == Placing(s, b, at) /\ Keeping(b, at) /\ Turns(b, at) /\ Fetching(b, at) /\ Awaiting(b)

LEMMA WovenSelf == ASSUME NEW s, Plain(s) PROVE Woven(s, s, [q \in DOMAIN s |-> q])
<1> DEFINE at == [q \in DOMAIN s |-> q]
<1>1. \A q \in DOMAIN s : at[q] = q /\ s[q].op \notin {"spawn", "await", "fetch"}
  BY DEF Plain
<1>2. Primary(s) = DOMAIN s /\ Starts(s) \subseteq DOMAIN s
  BY <1>1 DEF Primary, Starts
<1> HIDE DEF at
<1>3. Placing(s, s, at)
  BY <1>1, <1>2 DEF Placing, Version
<1>4. Keeping(s, at) /\ Turns(s, at)
  BY <1>1, <1>2 DEF Keeping, Turns
<1>5. Fetching(s, at) /\ Awaiting(s)
  BY <1>1 DEF Fetching, Awaiting
<1> QED BY <1>3, <1>4, <1>5 DEF Woven, at

\* Where a primary instruction of the scaffold r comes from.
From(b, T, r, m, a, z, at, q) ==
  \/ q \in 1 .. m - 1 /\ at[q] = q /\ r[q] = b[q]
  \/ q \in m .. a - 1 /\ at[q] \in T /\ r[q] = StageSpawn(b[at[q]])
  \/ q \in z + 1 .. Len(r) /\ at[q] \in (m .. Len(b)) \ T /\ r[q] = b[at[q]]

Weaving(b, g, T, r, m, a, z, at) == Turning(b, g, T, r, m, a, z, at) /\ InTurn(r, m, a, at)

LEMMA WeavingIs ==
  ASSUME NEW b, NEW g, NEW T, NEW r, NEW m, NEW a, NEW z, NEW at, Weaving(b, g, T, r, m, a, z, at)
  PROVE  /\ m \in Nat /\ a \in Nat /\ z \in Nat /\ Len(b) \in Nat /\ Len(r) \in Nat
         /\ DOMAIN b = 1 .. Len(b) /\ DOMAIN r = 1 .. Len(r)
         /\ 1 <= m /\ m <= Len(b) /\ m < a /\ a <= z /\ z <= Len(r)
         /\ m \in T /\ \A i \in T : i \in m .. Len(b) /\ b[i].op = "call"
         /\ \A i \in DOMAIN b : b[i].op = "spawn" => i < m
         /\ r[a].op = "await" /\ r[a].def = None
<1>1. /\ b \in Seq(AnyIns) /\ T = Targets(b, pipe.groups[g]) /\ Weave(b, T, r, m, a, z, at) /\ Turning(b, g, T, r, m, a, z, at)
  BY DEF Weaving, Turning, BodyOk
<1>2. /\ m \in Nat /\ a \in Nat /\ z \in Nat /\ Len(b) \in Nat /\ Len(r) \in Nat
      /\ DOMAIN b = 1 .. Len(b) /\ DOMAIN r = 1 .. Len(r)
      /\ 1 <= m /\ m <= Len(b) /\ m < a /\ a <= z /\ z <= Len(r)
  BY <1>1, WeavePlaces
<1>3. m \in T /\ (\A i \in T : m <= i) /\ r[a].op = "await" /\ r[a].def = None
  BY <1>1 DEF Weave
<1>4. \A i \in T : i \in DOMAIN b /\ b[i].op = "call"
  BY <1>1 DEF Targets
<1>5. \A i \in DOMAIN b : b[i].op = "spawn" => i < m
  BY <1>1, TurnedLevels
<1> QED BY <1>2, <1>3, <1>4, <1>5

LEMMA WeavingFrom ==
  ASSUME NEW b, NEW g, NEW T, NEW r, NEW m, NEW a, NEW z, NEW at, Weaving(b, g, T, r, m, a, z, at), NEW q \in DOMAIN r
  PROVE  From(b, T, r, m, a, z, at, q) \/ q = a \/ (q \in a + 1 .. z /\ at[q] \in T /\ r[q] = Fetch(b[at[q]]))
<1>1. Weave(b, T, r, m, a, z, at)
  BY DEF Weaving, Turning
<1>2. q \in 1 .. Len(r) /\ m \in Nat /\ a \in Nat /\ z \in Nat /\ Len(r) \in Nat
  BY WeavingIs
<1>3. q \in 1 .. m - 1 \/ q \in m .. a - 1 \/ q = a \/ q \in a + 1 .. z \/ q \in z + 1 .. Len(r)
  BY <1>2
<1>4. CASE q \in 1 .. m - 1
  BY <1>1, <1>4 DEF Weave, From
<1>5. CASE q \in m .. a - 1
  BY <1>1, <1>5 DEF Weave, From
<1>6. CASE q \in a + 1 .. z
  BY <1>1, <1>6 DEF Weave
<1>7. CASE q \in z + 1 .. Len(r)
  BY <1>1, <1>7 DEF Weave, From
<1> QED BY <1>3, <1>4, <1>5, <1>6, <1>7

LEMMA SpawnFetchOps == ASSUME NEW c PROVE StageSpawn(c).op = "spawn" /\ Fetch(c).op = "fetch" /\ Fetch(c).id = c.id /\ Fetch(c).def = c.def
BY DEF StageSpawn, Fetch, Ins

LEMMA WeavingPrimary ==
  ASSUME NEW b, NEW g, NEW T, NEW r, NEW m, NEW a, NEW z, NEW at, Weaving(b, g, T, r, m, a, z, at), NEW q \in Primary(r)
  PROVE  From(b, T, r, m, a, z, at, q) /\ at[q] \in Primary(b)
<1>1. q \in DOMAIN r /\ r[q].op \notin {"await", "fetch"}
  BY DEF Primary
<1>2. /\ m \in Nat /\ Len(b) \in Nat /\ DOMAIN b = 1 .. Len(b) /\ 1 <= m /\ m <= Len(b)
      /\ \A i \in T : i \in m .. Len(b) /\ b[i].op = "call"
      /\ r[a].op = "await"
  BY WeavingIs
<1>3. From(b, T, r, m, a, z, at, q)
  BY <1>1, <1>2, WeavingFrom, SpawnFetchOps
<1>4. CASE q \in 1 .. m - 1 /\ at[q] = q /\ r[q] = b[q]
  BY <1>1, <1>2, <1>3, <1>4 DEF Primary
<1>5. CASE q \in m .. a - 1 /\ at[q] \in T /\ r[q] = StageSpawn(b[at[q]])
  <2>1. at[q] \in 1 .. Len(b) /\ b[at[q]].op = "call"
    BY <1>2, <1>5
  <2> QED BY <1>2, <1>3, <2>1 DEF Primary
<1>6. CASE q \in z + 1 .. Len(r) /\ at[q] \in (m .. Len(b)) \ T /\ r[q] = b[at[q]]
  <2>1. at[q] \in 1 .. Len(b) /\ b[at[q]].op \notin {"await", "fetch"}
    BY <1>1, <1>2, <1>6
  <2> QED BY <1>2, <1>3, <2>1 DEF Primary
<1> QED BY <1>3, <1>4, <1>5, <1>6 DEF From

\* Front, spawns and rest keep their order.
LEMMA WeavingOrder ==
  ASSUME NEW b, NEW g, NEW T, NEW r, NEW m, NEW a, NEW z, NEW at, Weaving(b, g, T, r, m, a, z, at),
         NEW p \in Primary(r), NEW q \in Primary(r)
  PROVE  /\ p < q => \/ at[p] < at[q]
                     \/ p \in m .. a - 1 /\ q \in z + 1 .. Len(r) /\ at[p] # at[q]
<1> SUFFICES ASSUME p < q
             PROVE  at[p] < at[q] \/ (p \in m .. a - 1 /\ q \in z + 1 .. Len(r) /\ at[p] # at[q])
  OBVIOUS
<1>1. From(b, T, r, m, a, z, at, p) /\ From(b, T, r, m, a, z, at, q)
  BY WeavingPrimary
<1>2. /\ m \in Nat /\ a \in Nat /\ z \in Nat /\ Len(b) \in Nat /\ Len(r) \in Nat /\ m < a /\ a <= z /\ z <= Len(r)
      /\ \A i \in T : i \in m .. Len(b)
  BY WeavingIs
<1>3. /\ \A x, y \in m .. a - 1 : x < y => at[x] < at[y]
      /\ \A x, y \in z + 1 .. Len(r) : x < y => at[x] < at[y]
  <2>1. \A x, y \in m .. a - 1 : x < y => at[x] < at[y]
    BY DEF Weaving, InTurn
  <2>2. Weave(b, T, r, m, a, z, at)
    BY DEF Weaving, Turning
  <2> QED BY <2>1, <2>2 DEF Weave
<1>4. CASE p \in 1 .. m - 1 /\ at[p] = p
  <2>1. CASE q \in 1 .. m - 1 /\ at[q] = q
    BY <1>4, <2>1
  <2>2. CASE at[q] \in m .. Len(b)
    BY <1>2, <1>4, <2>2
  <2> QED BY <1>1, <1>2, <2>1, <2>2 DEF From
<1>5. CASE p \in m .. a - 1 /\ at[p] \in T
  <2>1. CASE q \in m .. a - 1
    BY <1>3, <1>5, <2>1
  <2>2. CASE q \in z + 1 .. Len(r) /\ at[q] \notin T
    BY <1>5, <2>2
  <2>3. ~ q \in 1 .. m - 1
    BY <1>2, <1>5
  <2> QED BY <1>1, <2>1, <2>2, <2>3 DEF From
<1>6. CASE p \in z + 1 .. Len(r)
  <2>1. q \in z + 1 .. Len(r)
    <3>1. ~ q \in 1 .. m - 1 /\ ~ q \in m .. a - 1
      BY <1>2, <1>6
    <3> QED BY <1>1, <3>1 DEF From
  <2> QED BY <1>3, <1>6, <2>1
<1> QED BY <1>1, <1>4, <1>5, <1>6 DEF From

LEMMA WeavingOnto ==
  ASSUME NEW b, NEW g, NEW T, NEW r, NEW m, NEW a, NEW z, NEW at, Weaving(b, g, T, r, m, a, z, at), NEW i \in Primary(b)
  PROVE  \E q \in Primary(r) : at[q] = i
<1>1. Weave(b, T, r, m, a, z, at)
  BY DEF Weaving, Turning
<1>2. /\ m \in Nat /\ a \in Nat /\ z \in Nat /\ Len(b) \in Nat /\ Len(r) \in Nat /\ m < a /\ a <= z /\ z <= Len(r)
      /\ DOMAIN b = 1 .. Len(b) /\ DOMAIN r = 1 .. Len(r) /\ m <= Len(b) /\ 1 <= m
  BY WeavingIs
<1>3. i \in 1 .. Len(b) /\ b[i].op \notin {"await", "fetch"}
  BY <1>2 DEF Primary
<1>4. CASE i \in 1 .. m - 1
  <2>1. i \in 1 .. Len(r) /\ at[i] = i /\ r[i] = b[i]
    BY <1>1, <1>2, <1>4 DEF Weave
  <2> QED BY <1>2, <1>3, <2>1 DEF Primary
<1>5. CASE i \in T
  <2>1. PICK q \in m .. a - 1 : at[q] = i
    BY <1>1, <1>5 DEF Weave
  <2>2. r[q] = StageSpawn(b[at[q]])
    BY <1>1 DEF Weave
  <2>3. q \in 1 .. Len(r) /\ r[q].op = "spawn"
    BY <1>2, <2>2, SpawnFetchOps
  <2> QED BY <1>2, <2>1, <2>3 DEF Primary
<1>6. CASE i \in (m .. Len(b)) \ T
  <2>1. PICK q \in z + 1 .. Len(r) : at[q] = i
    BY <1>1, <1>6 DEF Weave
  <2>2. r[q] = b[i] /\ q \in 1 .. Len(r)
    BY <1>1, <1>2, <2>1 DEF Weave
  <2> QED BY <1>2, <1>3, <2>1, <2>2 DEF Primary
<1> QED BY <1>2, <1>3, <1>4, <1>5, <1>6

\* If all stages are spawned, the stages of the group come before those that stay behind it.
LEMMA WeavingStarts ==
  ASSUME NEW b, NEW g, NEW T, NEW r, NEW m, NEW a, NEW z, NEW at, Weaving(b, g, T, r, m, a, z, at),
         Outsiders = {}, \A i \in Starts(b) : b[i].node \in CodeNodes(pipe),
         NEW p \in Starts(r), NEW q \in Starts(r), p < q
  PROVE  at[p] < at[q]
<1>1. p \in Primary(r) /\ q \in Primary(r)
  BY DEF Starts, Primary
<1>2. Turning(b, g, T, r, m, a, z, at)
  BY DEF Weaving
<1>3. /\ PipelineOk(pipe) /\ g \in DOMAIN pipe.groups /\ T = Targets(b, pipe.groups[g]) /\ Levelled(b)
      /\ Weave(b, T, r, m, a, z, at) /\ b \in Seq(AnyIns)
  BY <1>2 DEF Turning, BodyOk
<1>4. CASE p \in m .. a - 1 /\ q \in z + 1 .. Len(r) /\ at[p] # at[q]
  <2>1. at[p] \in T /\ at[q] \in (m .. Len(b)) \ T /\ at[p] \in Starts(b) /\ at[q] \in Starts(b)
    <3>1. at[p] \in T /\ at[q] \in (m .. Len(b)) \ T
      BY <1>3, <1>4 DEF Weave
    <3>2. at[p] \in Starts(b) /\ at[q] \in Starts(b)
      BY <1>3, StartsFrom
    <3> QED BY <3>1, <3>2
  <2>2. /\ \A i \in Starts(b) : b[i].node \in Nodes(pipe) /\ Level(pipe, b[i].node) \in Nat
        /\ Level(pipe, b[at[p]].node) = g /\ g \in Nat
        /\ \A i \in DOMAIN b : b[i].op = "spawn" => i < m
    BY <1>2, <2>1, TurnedLevels
  <2>3. b[at[q]].op = "call" /\ at[q] \in DOMAIN b /\ at[p] \in DOMAIN b
    <3>1. at[q] >= m /\ m \in Nat /\ at[q] \in Nat
      BY <2>1, WeavingIs
    <3> QED BY <2>1, <2>2, <3>1 DEF Starts
  <2>4. Level(pipe, b[at[q]].node) # g
    <3> SUFFICES ASSUME Level(pipe, b[at[q]].node) = g PROVE FALSE
      OBVIOUS
    <3> DEFINE n == b[at[q]].node
    <3>1. n \in CodeNodes(pipe) /\ n \in Nodes(pipe)
      BY <2>1, <2>2
    <3>2. n \in ToSet(pipe.groups[g])
      <4>1. PICK k \in DOMAIN pipe.groups : n \in ToSet(pipe.groups[k])
        BY <1>3, <3>1 DEF PipelineOk
      <4>2. k = Level(pipe, n)
        BY <1>3, <3>1, <4>1, LevelIs
      <4> QED BY <4>1, <4>2
    <3>3. pipe.sig[n].ir = "defined" /\ n \notin pipe.excluded
      BY <3>1 DEF Outsiders
    <3>4. at[q] \in Targets(b, pipe.groups[g])
      BY <2>3, <3>2, <3>3 DEF Targets, Candidates
    <3> QED BY <1>3, <2>1, <3>4
  <2>5. ~ (at[q] < at[p])
    <3> SUFFICES ASSUME at[q] < at[p] PROVE FALSE
      OBVIOUS
    <3>1. Level(pipe, b[at[q]].node) <= g
      BY <1>3, <2>1, <2>2 DEF Levelled
    <3>2. PICK i \in T : i = m
      BY <1>3 DEF Weave
    <3>3. m \in Starts(b) /\ Level(pipe, b[m].node) = g
      BY <1>2, <3>2, TurnedLevels
    <3>4. m <= at[q] /\ m # at[q]
      BY <2>1, <3>2, WeavingIs
    <3>5. g <= Level(pipe, b[at[q]].node)
      <4>1. m < at[q]
        BY <2>1, <3>4, WeavingIs
      <4> QED BY <1>3, <2>1, <3>3, <4>1 DEF Levelled
    <3> QED BY <2>1, <2>2, <2>4, <3>1, <3>5
  <2> QED BY <1>3, <1>4, <2>3, <2>5
<1> QED BY <1>1, <1>4, WeavingOrder

LEMMA VersionKept == ASSUME NEW c, NEW d, Version(c, d), d.op = "call" PROVE d = c
BY SpawnFetchOps DEF Version

\* A scaffold of a body that is woven is woven.
LEMMA WovenMore ==
  ASSUME NEW s, NEW b, NEW u, Woven(s, b, u), \A i \in Starts(b) : b[i].node \in CodeNodes(pipe), DOMAIN s \subseteq Nat,
         NEW g, NEW T, NEW r, NEW m, NEW a, NEW z, NEW at, Weaving(b, g, T, r, m, a, z, at)
  PROVE  \E e : Woven(s, r, e)
<1> DEFINE e == [q \in DOMAIN r |-> u[at[q]]]
<1>1. Placing(s, b, u) /\ Keeping(b, u) /\ Turns(b, u) /\ Fetching(b, u) /\ Awaiting(b)
  BY DEF Woven
<1>2. /\ m \in Nat /\ a \in Nat /\ z \in Nat /\ Len(b) \in Nat /\ Len(r) \in Nat
      /\ DOMAIN b = 1 .. Len(b) /\ DOMAIN r = 1 .. Len(r)
      /\ 1 <= m /\ m <= Len(b) /\ m < a /\ a <= z /\ z <= Len(r)
      /\ m \in T /\ \A i \in T : i \in m .. Len(b) /\ b[i].op = "call"
      /\ \A i \in DOMAIN b : b[i].op = "spawn" => i < m
      /\ r[a].op = "await" /\ r[a].def = None
  BY WeavingIs
<1>3. \A q \in DOMAIN r : e[q] = u[at[q]]
  OBVIOUS
<1> HIDE DEF e
<1>4. \A q \in Primary(r) : q \in DOMAIN r /\ From(b, T, r, m, a, z, at, q) /\ at[q] \in Primary(b)
  BY WeavingPrimary DEF Primary
<1>5. \A q \in Primary(b) : u[q] \in DOMAIN s /\ u[q] \in Nat
  BY <1>1 DEF Placing, Primary
<1>6. ASSUME NEW q \in DOMAIN r, r[q].op # "await" PROVE e[q] \in DOMAIN s /\ Version(s[e[q]], r[q])
  <2>1. ASSUME at[q] \in DOMAIN b, b[at[q]].op # "await" PROVE u[at[q]] \in DOMAIN s /\ Version(s[u[at[q]]], b[at[q]])
    BY <1>1, <2>1 DEF Placing
  <2>2. CASE at[q] \in DOMAIN b /\ r[q] = b[at[q]]
    BY <1>3, <1>6, <2>1, <2>2
  <2>3. CASE at[q] \in T /\ (r[q] = StageSpawn(b[at[q]]) \/ r[q] = Fetch(b[at[q]]))
    <3>1. at[q] \in DOMAIN b /\ b[at[q]].op = "call"
      <4>1. \A i \in T : i \in 1 .. Len(b) /\ b[i].op = "call"
        BY <1>2
      <4>2. at[q] \in T
        BY <2>3
      <4> QED BY <1>2, <4>1, <4>2
    <3>2. u[at[q]] \in DOMAIN s /\ b[at[q]] = s[u[at[q]]]
      BY <2>1, <3>1, VersionKept
    <3> QED BY <1>3, <2>3, <3>1, <3>2 DEF Version
  <2>4. q # a
    BY <1>2, <1>6
  <2>5. From(b, T, r, m, a, z, at, q) \/ (at[q] \in T /\ r[q] = Fetch(b[at[q]]))
    BY <2>4, WeavingFrom
  <2>6. CASE From(b, T, r, m, a, z, at, q)
    <3>1. CASE q \in 1 .. m - 1 /\ at[q] = q /\ r[q] = b[q]
      BY <1>2, <2>2, <3>1
    <3>2. CASE at[q] \in (m .. Len(b)) \ T /\ r[q] = b[at[q]]
      BY <1>2, <2>2, <3>2
    <3> QED BY <2>3, <2>6, <3>1, <3>2 DEF From
  <2> QED BY <2>3, <2>5, <2>6
<1>7. ASSUME NEW q \in Primary(r), NEW t \in Primary(r), e[q] = e[t] PROVE q = t
  <2>1. at[q] = at[t]
    BY <1>1, <1>3, <1>4, <1>7 DEF Placing
  <2>2. ~ (q < t) /\ ~ (t < q)
    <3>1. (q < t => at[q] < at[t] \/ at[q] # at[t]) /\ (t < q => at[t] < at[q] \/ at[t] # at[q])
      BY WeavingOrder
    <3>2. at[q] \in Int /\ at[t] \in Int
      BY <1>2, <1>4 DEF Primary
    <3> HIDE DEF Primary
    <3> QED BY <2>1, <3>1, <3>2
  <2> QED BY <1>2, <1>4, <2>2
<1>8. ASSUME NEW i \in DOMAIN s PROVE \E q \in Primary(r) : e[q] = i
  <2>1. PICK k \in Primary(b) : u[k] = i
    BY <1>1 DEF Placing
  <2>2. PICK q \in Primary(r) : at[q] = k
    BY WeavingOnto
  <2> QED BY <1>3, <1>4, <2>1, <2>2
<1>9. Placing(s, r, e)
  BY <1>6, <1>7, <1>8 DEF Placing
<1>10. ASSUME NEW p \in Primary(r), NEW q \in Primary(r), e[p] < e[q], r[q].op # "spawn" PROVE p < q
  <2>1. u[at[p]] < u[at[q]] /\ at[p] \in Primary(b) /\ at[q] \in Primary(b)
    BY <1>3, <1>4, <1>10
  <2>2. r[q] = b[at[q]] /\ ~ q \in m .. a - 1
    BY <1>4, <1>10, <1>2, SpawnFetchOps DEF From
  <2>3. at[p] < at[q]
    BY <1>1, <1>10, <2>1, <2>2 DEF Keeping
  <2>4. at[p] \in Nat /\ at[q] \in Nat /\ p \in Nat /\ q \in Nat
    BY <1>2, <1>4, <2>1 DEF Primary
  <2>5. ~ (q < p)
    BY <2>2, <2>3, <2>4, WeavingOrder
  <2> QED BY <2>3, <2>4, <2>5
<1>11. Keeping(r, e)
  BY <1>10 DEF Keeping
<1>12. ASSUME Outsiders = {}, NEW p \in Starts(r), NEW q \in Starts(r), p < q PROVE e[p] < e[q]
  <2>1. at[p] < at[q]
    BY <1>12, WeavingStarts
  <2>2. at[p] \in Starts(b) /\ at[q] \in Starts(b) /\ p \in DOMAIN r /\ q \in DOMAIN r
    <3>1. b \in Seq(AnyIns) /\ T = Targets(b, pipe.groups[g]) /\ Weave(b, T, r, m, a, z, at)
      BY DEF Weaving, Turning, BodyOk
    <3> QED BY <3>1, StartsFrom DEF Starts
  <2> QED BY <1>1, <1>3, <1>12, <2>1, <2>2 DEF Turns
<1>13. Turns(r, e)
  BY <1>12 DEF Turns
<1>14. ASSUME NEW j \in DOMAIN b, b[j].op = "await" PROVE j < m
  <2>1. PICK k \in 1 .. j - 1 : Joins(b, j, k)
    BY <1>1, <1>14 DEF Awaiting
  <2>2. j - k \in 1 .. j - k /\ k + (j - k) - 1 = j - 1 /\ j - 1 \in DOMAIN b
    BY <1>2
  <2>3. b[k + (j - k) - 1].op = "spawn"
    BY <2>1, <2>2 DEF Joins
  <2>4. j - 1 < m
    BY <1>2, <2>2, <2>3
  <2>5. j # m
    BY <1>2, <1>14
  <2> QED BY <1>2, <2>4, <2>5
<1>15. ASSUME NEW q \in DOMAIN r, r[q].op = "fetch" PROVE \E p \in 1 .. q - 1 : r[p].op = "spawn" /\ e[p] = e[q]
  <2>1. q # a
    BY <1>2, <1>15
  <2>2. ASSUME NEW i \in DOMAIN b, b[i].op = "fetch", at[q] = i, (q \in 1 .. m - 1 /\ at[q] = q) \/ q >= m
        PROVE  \E p \in 1 .. q - 1 : r[p].op = "spawn" /\ e[p] = e[q]
    <3>1. PICK p \in 1 .. i - 1 : b[p].op = "spawn" /\ u[p] = u[i]
      BY <1>1, <2>2 DEF Fetching
    <3>2. p \in DOMAIN b /\ p \in 1 .. m - 1
      BY <1>2, <3>1
    <3>3. at[p] = p /\ r[p] = b[p] /\ p \in DOMAIN r
      <4>1. Weave(b, T, r, m, a, z, at)
        BY DEF Weaving, Turning
      <4> QED BY <1>2, <3>2, <4>1 DEF Weave
    <3>4. p \in 1 .. q - 1
      BY <1>2, <2>2, <3>2
    <3> QED BY <1>3, <2>2, <3>1, <3>3, <3>4
  <2>3. CASE q \in 1 .. m - 1 /\ at[q] = q /\ r[q] = b[q]
    BY <1>2, <1>15, <2>2, <2>3
  <2>4. CASE q \in z + 1 .. Len(r) /\ at[q] \in (m .. Len(b)) \ T /\ r[q] = b[at[q]]
    <3>1. at[q] \in DOMAIN b /\ q >= m
      BY <1>2, <2>4
    <3> QED BY <1>15, <2>2, <2>4, <3>1
  <2>5. CASE q \in a + 1 .. z /\ at[q] \in T /\ r[q] = Fetch(b[at[q]])
    <3>1. PICK p \in m .. a - 1 : at[p] = at[q] /\ r[p] = StageSpawn(b[at[p]])
      <4>1. Weave(b, T, r, m, a, z, at)
        BY DEF Weaving, Turning
      <4> QED BY <2>5, <4>1 DEF Weave
    <3>2. p \in 1 .. q - 1 /\ p \in DOMAIN r
      BY <1>2, <2>5
    <3> QED BY <1>3, <3>1, <3>2, SpawnFetchOps
  <2>6. ~ (q \in m .. a - 1 /\ r[q] = StageSpawn(b[at[q]]))
    BY <1>15, SpawnFetchOps
  <2> QED BY <2>1, <2>3, <2>4, <2>5, <2>6, WeavingFrom DEF From
<1>16. Fetching(r, e)
  BY <1>15 DEF Fetching
<1>17. ASSUME NEW j \in DOMAIN r, r[j].op = "await" PROVE r[j].def = None /\ \E k \in 1 .. j - 1 : Joins(r, j, k)
  <2>0. Weave(b, T, r, m, a, z, at) /\ InTurn(r, m, a, at)
    BY DEF Weaving, Turning
  <2>1. CASE j = a
    <3>1. \A k \in 1 .. a - m : r[m + k - 1].op = "spawn"
      <4> SUFFICES ASSUME NEW k \in 1 .. a - m PROVE r[m + k - 1].op = "spawn"
        OBVIOUS
      <4>1. m + k - 1 \in m .. a - 1
        BY <1>2
      <4> QED BY <2>0, <4>1, SpawnFetchOps DEF Weave
    <3>2. Joins(r, a, m)
      BY <2>0, <3>1 DEF Joins, InTurn
    <3>3. m \in 1 .. a - 1
      BY <1>2
    <3> QED BY <1>2, <2>1, <3>2, <3>3
  <2>2. CASE j \in 1 .. m - 1
    <3>1. \A i \in 1 .. m - 1 : r[i] = b[i]
      BY <2>0 DEF Weave
    <3>2. j \in DOMAIN b /\ b[j].op = "await" /\ r[j] = b[j]
      BY <1>2, <1>17, <2>2, <3>1
    <3>3. b[j].def = None /\ \E k \in 1 .. j - 1 : Joins(b, j, k)
      BY <1>1, <3>2 DEF Awaiting
    <3>4. PICK k \in 1 .. j - 1 : Joins(b, j, k)
      BY <3>3
    <3>5. \A l \in 1 .. j - k : k + l - 1 \in 1 .. m - 1
      BY <1>2, <2>2
    <3>6. Joins(r, j, k)
      BY <3>1, <3>2, <3>4, <3>5 DEF Joins
    <3> QED BY <3>2, <3>3, <3>6
  <2>3. CASE j \in z + 1 .. Len(r) /\ at[j] \in (m .. Len(b)) \ T /\ r[j] = b[at[j]]
    <3>1. at[j] \in DOMAIN b /\ ~ (at[j] < m)
      BY <1>2, <2>3
    <3> QED BY <1>14, <1>17, <2>3, <3>1
  <2> QED BY <1>17, <2>1, <2>2, <2>3, SpawnFetchOps, WeavingFrom DEF From
<1>18. Awaiting(r)
  BY <1>17 DEF Awaiting
<1>19. Woven(s, r, e)
  BY <1>9, <1>11, <1>13, <1>16, <1>18 DEF Woven
<1> QED BY <1>19

LEMMA StartsCoded ==
  ASSUME NEW s, Plain(s), NEW b, NEW at, Placing(s, b, at), NEW i \in Starts(b)
  PROVE  b[i].node \in CodeNodes(pipe)
<1>1. i \in DOMAIN b /\ b[i].op \in {"call", "spawn"}
  BY DEF Starts
<1>2. at[i] \in DOMAIN s /\ Version(s[at[i]], b[i])
  BY <1>1 DEF Placing
<1>3. s[at[i]] \in AnyIns /\ s[at[i]].op # "spawn"
  BY <1>2 DEF Plain
<1>4. s[at[i]].op = "call" /\ b[i].node = s[at[i]].node
  BY <1>1, <1>2, <1>3, SpawnIs, SpawnFetchOps DEF Version
<1>5. at[i] \in CallsIn(s)
  BY <1>2, <1>4 DEF CallsIn
<1> QED BY <1>4, <1>5 DEF Plain

\* A group is made parallel, or left as it is.
LEMMA GroupedWoven ==
  ASSUME PipelineOk(pipe), NEW g \in DOMAIN pipe.groups, NEW s, Plain(s), NEW b, BodyOk(b, g), NEW at, Woven(s, b, at)
  PROVE  \E e : Woven(s, Grouped(b, pipe.groups[g]), e)
<1> DEFINE T == Targets(b, pipe.groups[g])  r == Scaffold(b, T)
<1>1. b \in Seq(AnyIns) /\ DOMAIN s \subseteq Nat
  BY DEF BodyOk, Plain
<1>2. CASE T # {} /\ OperandsReady(b, T)
  <2>1. PICK a, z, i : Weave(b, T, r, Min(T), a, z, i) /\ InTurn(r, Min(T), a, i)
    BY <1>1, <1>2, ScaffoldIs
  <2>2. Weaving(b, g, T, r, Min(T), a, z, i)
    BY <2>1 DEF Turning, Weaving
  <2>3. \A k \in Starts(b) : b[k].node \in CodeNodes(pipe)
    <3>1. Placing(s, b, at)
      BY DEF Woven
    <3> QED BY <3>1, StartsCoded
  <2>4. Grouped(b, pipe.groups[g]) = r
    BY <1>2 DEF Grouped
  <2> HIDE DEF r, T
  <2> QED BY <1>1, <2>2, <2>3, <2>4, WovenMore
<1>3. CASE ~ (T # {} /\ OperandsReady(b, T))
  <2>1. Grouped(b, pipe.groups[g]) = b
    BY <1>3 DEF Grouped
  <2> QED BY <2>1
<1> QED BY <1>2, <1>3
-----------------------------------------------------------------------------
(***************************************************************************)
(* What a body does that is woven from a serial one.                       *)
(***************************************************************************)
\* b is woven from s, whose values are those of D.
Meant(s, b, at, D) == Plain(s) /\ Woven(s, b, at) /\ Solves(s, D, Len(s)) /\ OperandsIn(b) /\ b \in Seq(AnyIns)

\* What an instruction stands for.
LEMMA StandsFor ==
  ASSUME NEW s, NEW b, NEW at, NEW D, Meant(s, b, at, D), NEW q \in DOMAIN b
  PROVE  /\ q \in 1 .. Len(b) /\ Len(b) \in Nat /\ DOMAIN b = 1 .. Len(b) /\ b[q] \in AnyIns
         /\ DOMAIN s = 1 .. Len(s) /\ Len(s) \in Nat
         /\ b[q].op # "await" => at[q] \in 1 .. Len(s) /\ s[at[q]] \in AnyIns
         /\ b[q].op \notin {"spawn", "await", "fetch"} => b[q] = s[at[q]]
         /\ b[q].op = "spawn" => b[q] = StageSpawn(s[at[q]]) /\ at[q] \in CallsIn(s)
         /\ b[q].op = "fetch" => b[q] = Fetch(s[at[q]]) /\ at[q] \in CallsIn(s)
<1>1. Plain(s) /\ Placing(s, b, at) /\ b \in Seq(AnyIns)
  BY DEF Meant, Woven
<1>2. q \in 1 .. Len(b) /\ Len(b) \in Nat /\ DOMAIN b = 1 .. Len(b) /\ b[q] \in AnyIns
  BY <1>1
<1>3. DOMAIN s = 1 .. Len(s) /\ Len(s) \in Nat /\ \A i \in DOMAIN s : s[i] \in AnyIns
  BY <1>1 DEF Plain
<1>4. b[q].op # "await" => at[q] \in DOMAIN s /\ Version(s[at[q]], b[q])
  BY <1>1 DEF Placing
<1>5. b[q].op # "await" => s[at[q]].op \notin {"spawn", "await", "fetch"}
  BY <1>1, <1>4 DEF Plain
<1>6. b[q].op \notin {"spawn", "await", "fetch"} => b[q] = s[at[q]]
  BY <1>4, SpawnFetchOps DEF Version
<1>7. b[q].op = "spawn" => b[q] = StageSpawn(s[at[q]]) /\ at[q] \in CallsIn(s)
  BY <1>4, <1>5, SpawnFetchOps DEF Version, CallsIn
<1>8. b[q].op = "fetch" => b[q] = Fetch(s[at[q]]) /\ at[q] \in CallsIn(s)
  BY <1>4, <1>5, SpawnFetchOps DEF Version, CallsIn
<1> QED BY <1>2, <1>3, <1>4, <1>6, <1>7, <1>8

\* Exactly what is bound has a value, which is what the instruction gives.
LEMMA KnownIs ==
  ASSUME NEW s, Plain(s), NEW D, Solves(s, D, Len(s)), NEW i \in DOMAIN s
  PROVE  /\ Binds(s[i]) <=> s[i].def \in DOMAIN D
         /\ Binds(s[i]) => Gives(s, D, i, D[s[i].def])
<1>1. DOMAIN s = 1 .. Len(s) /\ DOMAIN D = Bound(s, Len(s)) /\ \A j \in 1 .. Len(s) : Binds(s[j]) => Gives(s, D, j, D[s[j].def])
  BY DEF Plain, Solves
<1>2. ASSUME s[i].def \in DOMAIN D PROVE Binds(s[i])
  <2>1. PICK j \in 1 .. Len(s) : Binds(s[j]) /\ s[j].def = s[i].def
    BY <1>1, <1>2 DEF Bound
  <2>2. s[j].def # None
    BY <2>1 DEF Binds
  <2>3. s[j] = s[i]
    BY <1>1, <2>1, <2>2 DEF Plain
  <2> QED BY <2>1, <2>3
<1>3. Binds(s[i]) => s[i].def \in DOMAIN D
  BY <1>1 DEF Bound
<1> QED BY <1>1, <1>2, <1>3

LEMMA NoHandle ==
  ASSUME NEW s, Plain(s), NEW D, Solves(s, D, Len(s)), NEW v \in DOMAIN D
  PROVE  v # None /\ v[1] # "task"
<1>1. DOMAIN s = 1 .. Len(s) /\ DOMAIN D = Bound(s, Len(s))
  BY DEF Plain, Solves
<1>2. PICK j \in 1 .. Len(s) : Binds(s[j]) /\ s[j].def = v
  BY <1>1 DEF Bound
<1> QED BY <1>1, <1>2 DEF Binds, Plain

\* Before place q the frame f has the values of D, as far as they are defined,
Knows(D, b, q, f) ==
  /\ \A x \in DOMAIN f.env : x \in DOMAIN D /\ f.env[x] = D[x]
  /\ \A j \in 1 .. q - 1 : b[j].def \in DOMAIN D => b[j].def \in DOMAIN f.env

\* and in memory what was returned there.
Holds(D, b, q, f) ==
  /\ \A j \in 1 .. q - 1 : Sret(b[j]) => b[j].id \in DOMAIN f.mem /\ f.mem[b[j].id] = Term(D, b[j])
  /\ \A x \in DOMAIN f.mem : \E j \in 1 .. q - 1 : Sret(b[j]) /\ b[j].id = x

\* No result of a task is returned in memory.
Direct(b, q) == \A j \in 1 .. q - 1 : b[j].op = "spawn" => ~ pipe.sig[b[j].node].sret

\* The operands have their values.
LEMMA ReadsIs ==
  ASSUME NEW s, NEW b, NEW at, NEW D, Meant(s, b, at, D), NEW q \in DOMAIN b, NEW f, Knows(D, b, q, f)
  PROVE  Values(f, b[q]) = Values(Under(D), b[q]) /\ Values(f, StageSpawn(b[q])) = Values(Under(D), StageSpawn(b[q]))
<1>1. b[q] \in AnyIns /\ q \in 1 .. Len(b) /\ Len(b) \in Nat /\ OperandsIn(b)
  BY StandsFor DEF Meant
<1>2. ASSUME NEW v \in ToSet(b[q].args) PROVE Value(f, v) = Value(Under(D), v)
  <2>1. CASE v[1] = "param"
    BY <2>1 DEF Value
  <2>2. CASE v[1] # "param"
    <3>1. PICK j \in 1 .. q - 1 : b[j].def = v
      BY <1>2, <2>2 DEF Meant, OperandsIn, Dominates
    <3>2. v \in DOMAIN D <=> v \in DOMAIN f.env
      BY <3>1 DEF Knows
    <3>3. v \in DOMAIN f.env => f.env[v] = D[v]
      BY DEF Knows
    <3>4. Under(D).env = D
      BY DEF Under
    <3> QED BY <2>2, <3>2, <3>3, <3>4 DEF Value
  <2> QED BY <2>1, <2>2
<1> QED BY <1>1, <1>2, SameArgs

\* No stage is called or spawned twice.
LEMMA StartOnce ==
  ASSUME NEW s, NEW b, NEW at, NEW D, Meant(s, b, at, D), NEW p \in Starts(b), NEW q \in Starts(b)
  PROVE  /\ at[p] \in CallsIn(s) /\ b[p].id = s[at[p]].id /\ b[p].node = s[at[p]].node
         /\ b[p].id = b[q].id \/ at[p] = at[q] => p = q
<1>1. ASSUME NEW i \in Starts(b)
      PROVE  i \in Primary(b) /\ at[i] \in CallsIn(s) /\ b[i].id = s[at[i]].id /\ b[i].node = s[at[i]].node
  <2>1. i \in DOMAIN b /\ b[i].op \in {"call", "spawn"}
    BY DEF Starts
  <2>2. CASE b[i].op = "call"
    <3>1. b[i] = s[at[i]] /\ at[i] \in DOMAIN s
      BY <2>1, <2>2, StandsFor
    <3> QED BY <2>1, <2>2, <3>1 DEF Primary, CallsIn
  <2>3. CASE b[i].op = "spawn"
    <3>1. b[i] = StageSpawn(s[at[i]]) /\ at[i] \in CallsIn(s) /\ s[at[i]] \in AnyIns
      BY <2>1, <2>3, StandsFor
    <3>2. b[i].id = s[at[i]].id /\ b[i].node = s[at[i]].node
      BY <3>1, SpawnIs
    <3> QED BY <2>1, <2>3, <3>1, <3>2 DEF Primary
  <2> QED BY <2>1, <2>2, <2>3
<1>2. ASSUME b[p].id = b[q].id \/ at[p] = at[q] PROVE p = q
  <2>1. at[p] = at[q]
    BY <1>1, <1>2 DEF Meant, Plain
  <2> QED BY <1>1, <2>1 DEF Meant, Woven, Placing
<1> QED BY <1>1, <1>2

\* Every call of the serial body is made at one place.
LEMMA StartedAt ==
  ASSUME NEW s, NEW b, NEW at, NEW D, Meant(s, b, at, D), NEW i \in CallsIn(s)
  PROVE  \E p \in Starts(b) : at[p] = i
<1>1. i \in DOMAIN s /\ s[i].op = "call"
  BY DEF CallsIn
<1>2. PICK p \in Primary(b) : at[p] = i
  BY <1>1 DEF Meant, Woven, Placing
<1>3. p \in DOMAIN b /\ b[p].op \notin {"await", "fetch"}
  BY DEF Primary
<1>4. b[p].op = "spawn" \/ b[p] = s[i]
  BY <1>2, <1>3, StandsFor
<1> QED BY <1>1, <1>2, <1>3, <1>4 DEF Starts

\* What is before a place and what has its turn before it.
LEMMA KeepsTurn ==
  ASSUME NEW s, NEW b, NEW at, NEW D, Meant(s, b, at, D), NEW p \in Primary(b), NEW q \in Primary(b), b[q].op # "spawn"
  PROVE  at[p] < at[q] => p < q
BY DEF Meant, Woven, Keeping

LEMMA KnowsMore ==
  ASSUME NEW D, NEW b, NEW q \in Nat, NEW f, NEW g, Knows(D, b, q, f),
         b[q].def \in DOMAIN D => g.env = Put(f.env, b[q].def, D[b[q].def]),
         b[q].def \notin DOMAIN D => g.env = f.env
  PROVE  Knows(D, b, q + 1, g)
<1>1. /\ \A x \in DOMAIN f.env : x \in DOMAIN D /\ f.env[x] = D[x]
      /\ \A j \in 1 .. q - 1 : b[j].def \in DOMAIN D => b[j].def \in DOMAIN f.env
  BY DEF Knows
<1> DEFINE v == b[q].def  m == q + 1
<1>2. \A j \in 1 .. m - 1 : j \in 1 .. q - 1 \/ j = q
  OBVIOUS
<1>3. CASE v \in DOMAIN D
  <2>1. DOMAIN g.env = DOMAIN f.env \cup {v} /\ g.env[v] = D[v] /\ \A y \in DOMAIN f.env : y # v => g.env[y] = f.env[y]
    BY <1>3 DEF Put
  <2> HIDE DEF v, m
  <2>2. \A x \in DOMAIN g.env : x \in DOMAIN D /\ g.env[x] = D[x]
    BY <1>1, <1>3, <2>1
  <2>3. \A j \in 1 .. m - 1 : b[j].def \in DOMAIN D => b[j].def \in DOMAIN g.env
    BY <1>1, <1>2, <2>1 DEF v
  <2> QED BY <2>2, <2>3 DEF Knows, m
<1>4. CASE v \notin DOMAIN D
  <2> HIDE DEF m
  <2>1. \A j \in 1 .. m - 1 : b[j].def \in DOMAIN D => b[j].def \in DOMAIN g.env
    BY <1>1, <1>2, <1>4
  <2> QED BY <1>1, <1>4, <2>1 DEF Knows, m
<1> QED BY <1>3, <1>4

LEMMA HoldsMore ==
  ASSUME NEW s, NEW b, NEW at, NEW D, Meant(s, b, at, D), NEW q \in DOMAIN b, NEW f, NEW g, Holds(D, b, q, f),
         Sret(b[q]) => g.mem = Put(f.mem, b[q].id, Term(D, b[q])),
         ~ Sret(b[q]) => g.mem = f.mem
  PROVE  Holds(D, b, q + 1, g)
<1>1. /\ \A j \in 1 .. q - 1 : Sret(b[j]) => b[j].id \in DOMAIN f.mem /\ f.mem[b[j].id] = Term(D, b[j])
      /\ \A x \in DOMAIN f.mem : \E j \in 1 .. q - 1 : Sret(b[j]) /\ b[j].id = x
  BY DEF Holds
<1> DEFINE m == q + 1  i == b[q].id
<1>0. q \in 1 .. Len(b) /\ Len(b) \in Nat /\ DOMAIN b = 1 .. Len(b)
  BY StandsFor
<1>2. \A j : j \in 1 .. m - 1 <=> j \in 1 .. q - 1 \/ j = q
  BY <1>0
<1>3. CASE Sret(b[q])
  <2>1. DOMAIN g.mem = DOMAIN f.mem \cup {i} /\ g.mem[i] = Term(D, b[q]) /\ \A y \in DOMAIN f.mem : y # i => g.mem[y] = f.mem[y]
    BY <1>3 DEF Put
  <2>2. ASSUME NEW j \in 1 .. q - 1, Sret(b[j]) PROVE b[j].id # i
    <3>1. j \in Starts(b) /\ q \in Starts(b)
      BY <1>0, <1>3, <2>2 DEF Starts, Sret
    <3> QED BY <1>0, <3>1, StartOnce
  <2> HIDE DEF m, i
  <2>3. \A j \in 1 .. m - 1 : Sret(b[j]) => b[j].id \in DOMAIN g.mem /\ g.mem[b[j].id] = Term(D, b[j])
    BY <1>1, <1>2, <2>1, <2>2 DEF i
  <2>4. \A x \in DOMAIN g.mem : \E j \in 1 .. m - 1 : Sret(b[j]) /\ b[j].id = x
    BY <1>1, <1>2, <1>3, <2>1 DEF i
  <2> QED BY <2>3, <2>4 DEF Holds, m
<1>4. CASE ~ Sret(b[q])
  <2> HIDE DEF m
  <2>1. \A j \in 1 .. m - 1 : Sret(b[j]) => b[j].id \in DOMAIN g.mem /\ g.mem[b[j].id] = Term(D, b[j])
    BY <1>1, <1>2, <1>4
  <2>2. \A x \in DOMAIN g.mem : \E j \in 1 .. m - 1 : Sret(b[j]) /\ b[j].id = x
    BY <1>1, <1>2, <1>4
  <2> QED BY <2>1, <2>2 DEF Holds, m
<1> QED BY <1>3, <1>4

\* A load finds what it finds in the serial body.
LEMMA LoadIs ==
  ASSUME NEW s, NEW b, NEW at, NEW D, Meant(s, b, at, D), NEW q \in DOMAIN b, NEW f, Holds(D, b, q, f), Direct(b, q),
         b[q].op = "load"
  PROVE  Loaded(s, D, at[q], IF b[q].id \in DOMAIN f.mem THEN f.mem[b[q].id] ELSE Undef)
<1> DEFINE x == b[q].id  e == IF x \in DOMAIN f.mem THEN f.mem[x] ELSE Undef  i == at[q]
<1>1. /\ q \in 1 .. Len(b) /\ Len(b) \in Nat /\ DOMAIN b = 1 .. Len(b) /\ i \in 1 .. Len(s) /\ b[q] = s[i]
      /\ DOMAIN s = 1 .. Len(s) /\ Len(s) \in Nat
  BY StandsFor
<1>2. q \in Primary(b)
  BY <1>1 DEF Primary
<1>3. ASSUME NEW j \in 1 .. i - 1, Sret(s[j]), s[j].id = s[i].id PROVE e = Term(D, s[j])
  <2>1. j \in CallsIn(s)
    BY <1>1, <1>3 DEF CallsIn, Sret
  <2>2. PICK p \in Starts(b) : at[p] = j
    BY <2>1, StartedAt
  <2>3. p \in Primary(b) /\ p \in DOMAIN b /\ at[p] < at[q] /\ b[p].op \in {"call", "spawn"}
    BY <1>1, <2>2 DEF Starts, Primary
  <2>4. p \in 1 .. q - 1
    BY <1>1, <1>2, <2>3, KeepsTurn
  <2>5. b[p].node = s[j].node
    BY <2>2, StartOnce
  <2>6. b[p].op = "call"
    BY <1>3, <2>3, <2>4, <2>5 DEF Direct, Sret
  <2>7. b[p] = s[j]
    BY <2>2, <2>3, <2>6, StandsFor
  <2> QED BY <1>1, <1>3, <2>4, <2>7 DEF Holds
<1>4. ASSUME \A j \in 1 .. i - 1 : ~ (Sret(s[j]) /\ s[j].id = s[i].id) PROVE e = Undef
  <2> SUFFICES ASSUME x \in DOMAIN f.mem PROVE FALSE
    OBVIOUS
  <2>1. PICK p \in 1 .. q - 1 : Sret(b[p]) /\ b[p].id = x
    BY DEF Holds
  <2>2. p \in DOMAIN b /\ b[p].op = "call"
    BY <1>1, <2>1 DEF Sret
  <2>3. b[p] = s[at[p]] /\ at[p] \in 1 .. Len(s) /\ p \in Primary(b)
    BY <2>2, StandsFor DEF Primary
  <2>4. at[p] # i
    BY <1>1, <2>2, <2>3
  <2>5. ~ (i < at[p])
    BY <1>1, <1>2, <2>2, <2>3, KeepsTurn
  <2>6. at[p] \in 1 .. i - 1
    BY <1>1, <2>3, <2>4, <2>5
  <2> QED BY <1>1, <1>4, <2>1, <2>3, <2>6
<1> HIDE DEF e
<1>5. Loaded(s, D, i, e)
  BY <1>3, <1>4 DEF Loaded
<1> QED BY <1>5 DEF e

-----------------------------------------------------------------------------
(***************************************************************************)
(* A step of the call, and what it leaves.                                 *)
(***************************************************************************)
\* g is f with e in its field x.
Sets(f, g, x, e) == IsFrame(g) /\ g[x] = e /\ \A y \in FrameFields : y # x => g[y] = f[y]

LEMMA FieldSet ==
  ASSUME NEW f, IsFrame(f), NEW x \in FrameFields \ {"ran"}, NEW e
  PROVE  Sets(f, [f EXCEPT ![x] = e], x, e)
<1>1. PICK V : f \in [FrameFields -> V]
  BY DEF IsFrame
<1> DEFINE g == [f EXCEPT ![x] = e]
<1>2. (\E W : g \in [FrameFields -> W]) /\ g[x] = e /\ \A y \in FrameFields : y # x => g[y] = f[y]
  <2>1. Fielded(f) /\ x \in FrameFields
    BY <1>1 DEF Fielded
  <2>2. Changes(f, g, x, e)
    BY <2>1, FrameSet
  <2> HIDE DEF g
  <2> QED BY <2>2 DEF Changes, Fielded
<1> HIDE DEF g
<1>3. g["ran"] = f["ran"]
  BY <1>2 DEF FrameFields
<1>4. g.ran = f.ran
  BY <1>3
<1>5. IsFrame(g)
  BY <1>2, <1>4 DEF IsFrame
<1> QED BY <1>2, <1>5 DEF Sets, g

\* A value is bound, unless there is none.
Binding(f, g, v, e) ==
  /\ IsFrame(g) /\ g.mem = f.mem /\ g.ran = f.ran /\ g.result = f.result /\ g.exc = f.exc
  /\ v = None => g.env = f.env
  /\ v # None => g.env = Put(f.env, v, e)

LEMMA BindIs == ASSUME NEW f, IsFrame(f), NEW v, NEW e PROVE Binding(f, Bind(f, v, e), v, e)
<1>1. CASE v = None
  <2>1. Bind(f, v, e) = f
    BY <1>1 DEF Bind
  <2> QED BY <1>1, <2>1 DEF Binding
<1>2. CASE v # None
  <2> DEFINE t == Put(f.env, v, e)  g == [f EXCEPT !["env"] = t]
  <2>1. Bind(f, v, e) = g
    BY <1>2 DEF Bind
  <2> HIDE DEF t
  <2>2. Sets(f, g, "env", t)
    <3>1. "env" \in FrameFields \ {"ran"}
      BY DEF FrameFields
    <3> QED BY <3>1, FieldSet
  <2> HIDE DEF g
  <2>3. IsFrame(g) /\ g["env"] = t /\ g["mem"] = f["mem"] /\ g["ran"] = f["ran"] /\ g["result"] = f["result"] /\ g["exc"] = f["exc"]
    BY <2>2 DEF Sets, FrameFields
  <2>4. g.env = t /\ g.mem = f.mem /\ g.ran = f.ran /\ g.result = f.result /\ g.exc = f.exc
    BY <2>3
  <2> QED BY <1>2, <2>1, <2>3, <2>4 DEF Binding, t
<1> QED BY <1>1, <1>2

\* A call is noted, and its result is bound or goes to memory.
Calls(f, g, c, t) ==
  /\ IsFrame(g) /\ g.ran = Append(f.ran, <<c.id, t>>) /\ g.exc = f.exc
  /\ pipe.sig[c.node].sret => g.mem = Put(f.mem, c.id, t) /\ g.env = f.env
  /\ ~ pipe.sig[c.node].sret => /\ g.mem = f.mem
                                /\ c.def = None => g.env = f.env
                                /\ c.def # None => g.env = Put(f.env, c.def, t)

LEMMA CallIs ==
  ASSUME NEW f, IsFrame(f), NEW c, NEW a, c.node \notin throws
  PROVE  Calls(f, Call(f, c, a), c, <<c.node, a>>)
<1> DEFINE t == <<c.node, a>>  r == Append(f.ran, <<c.id, t>>)  g == [f EXCEPT !.ran = r]
<1>1. IsFrame(g) /\ g.ran = r /\ g.env = f.env /\ g.mem = f.mem /\ g.exc = f.exc
  <2>1. PICK V : f \in [FrameFields -> V]
    BY DEF IsFrame
  <2>2. \E X : r \in Seq(X)
    <3>1. PICK X : f.ran \in Seq(X)
      BY DEF IsFrame
    <3>2. f.ran \in Seq(X \cup {<<c.id, t>>})
      BY <3>1, SeqMonotonic
    <3>3. r \in Seq(X \cup {<<c.id, t>>})
      <4> HIDE DEF t
      <4> QED BY <3>2, AppendProperties
    <3> QED BY <3>3
  <2> HIDE DEF r
  <2>3. /\ \E W : g \in [FrameFields -> W]
        /\ g["ran"] = r /\ g["env"] = f["env"] /\ g["mem"] = f["mem"] /\ g["exc"] = f["exc"]
    <3>1. "ran" \in FrameFields /\ "env" \in FrameFields /\ "mem" \in FrameFields /\ "exc" \in FrameFields
      BY DEF FrameFields
    <3>2. /\ \E W : g \in [FrameFields -> W]
          /\ g["ran"] = r
          /\ \A y \in FrameFields : y # "ran" => g[y] = f[y]
      <4>1. Fielded(f)
        BY <2>1 DEF Fielded
      <4>2. Changes(f, g, "ran", r)
        BY <3>1, <4>1, FrameSet
      <4> HIDE DEF g
      <4> QED BY <4>2 DEF Changes, Fielded
    <3> HIDE DEF g
    <3> QED BY <3>1, <3>2
  <2> HIDE DEF g
  <2>4. g.ran = r /\ g.env = f.env /\ g.mem = f.mem /\ g.exc = f.exc
    BY <2>3
  <2> QED BY <2>2, <2>3, <2>4 DEF IsFrame
<1>2. Call(f, c, a) = IF pipe.sig[c.node].sret THEN [g EXCEPT !.mem = Put(@, c.id, t)] ELSE Bind(g, c.def, t)
  BY DEF Call
<1> HIDE DEF g
<1>3. CASE pipe.sig[c.node].sret
  <2> DEFINE m == Put(g.mem, c.id, t)  h == [g EXCEPT !["mem"] = m]
  <2>1. Call(f, c, a) = h
    BY <1>2, <1>3
  <2> HIDE DEF m
  <2>2. Sets(g, h, "mem", m)
    <3>1. "mem" \in FrameFields \ {"ran"}
      BY DEF FrameFields
    <3> QED BY <1>1, <3>1, FieldSet
  <2> HIDE DEF h
  <2>3. IsFrame(h) /\ h["mem"] = m /\ h["env"] = g["env"] /\ h["ran"] = g["ran"] /\ h["exc"] = g["exc"]
    BY <2>2 DEF Sets, FrameFields
  <2>4. h.mem = m /\ h.env = g.env /\ h.ran = g.ran /\ h.exc = g.exc
    BY <2>3
  <2>5. m = Put(f.mem, c.id, t)
    BY <1>1 DEF m
  <2> HIDE DEF t
  <2>6. h.ran = Append(f.ran, <<c.id, t>>) /\ h.env = f.env /\ h.exc = f.exc
    BY <1>1, <2>4
  <2>7. Calls(f, h, c, t)
    BY <1>3, <2>3, <2>4, <2>5, <2>6 DEF Calls
  <2> QED BY <2>1, <2>7 DEF t
<1>4. CASE ~ pipe.sig[c.node].sret
  <2> HIDE DEF t
  <2>1. Binding(g, Bind(g, c.def, t), c.def, t)
    BY <1>1, BindIs
  <2>2. PICK h : h = Bind(g, c.def, t)
    OBVIOUS
  <2>3. /\ IsFrame(h) /\ h.mem = g.mem /\ h.ran = g.ran /\ h.exc = g.exc
        /\ c.def = None => h.env = g.env
        /\ c.def # None => h.env = Put(g.env, c.def, t)
    BY <2>1, <2>2 DEF Binding
  <2>4. h.ran = Append(f.ran, <<c.id, t>>) /\ h.exc = f.exc /\ h.mem = f.mem
    BY <1>1, <2>3
  <2>5. (c.def = None => h.env = f.env) /\ (c.def # None => h.env = Put(f.env, c.def, t))
    BY <1>1, <2>3
  <2>6. Calls(f, h, c, t)
    BY <1>4, <2>3, <2>4, <2>5 DEF Calls
  <2>7. Call(f, c, a) = h
    BY <1>2, <1>4, <2>2
  <2> QED BY <2>6, <2>7 DEF t
<1> QED BY <1>3, <1>4

\* What was called or whose task is over, before place q; and what is noted of it.
Over(b, q, T) == {p \in 1 .. q - 1 : b[p].op = "call" \/ (b[p].op = "spawn" /\ T[b[p].def].state \in TaskOver)}
Noted(s, D, i) == <<s[i].id, Term(D, s[i])>>
Logs(s, b, at, D, q, f, T) == IsInjective(f.ran) /\ ToSet(f.ran) = {Noted(s, D, at[p]) : p \in Over(b, q, T)}

\* What the tasks were given and what became of them.
Told(D, T) ==
  \A h \in DOMAIN T : /\ T[h].args = Values(Under(D), T[h].call)
                      /\ T[h].state = "done"  => T[h].result = <<T[h].call.node, T[h].args>>
                      /\ T[h].state = "threw" => T[h].call.node \in throws

Good(s, b, at, D, q, f, T) == Knows(D, b, q, f) /\ Holds(D, b, q, f) /\ Logs(s, b, at, D, q, f, T) /\ Told(D, T)

LEMMA AddedOnce ==
  ASSUME NEW r, NEW X, r \in Seq(X), NEW e, IsInjective(r), e \notin ToSet(r)
  PROVE  IsInjective(Append(r, e)) /\ ToSet(Append(r, e)) = ToSet(r) \cup {e}
<1> DEFINE t == Append(r, e)
<1>1. r \in Seq(X \cup {e})
  BY SeqMonotonic
<1>2. /\ DOMAIN t = DOMAIN r \cup {Len(r) + 1} /\ Len(r) + 1 \notin DOMAIN r
      /\ \A j \in DOMAIN r : t[j] = r[j]
      /\ t[Len(r) + 1] = e
  BY <1>1, AppendProperties
<1> HIDE DEF t
<1>3. ToSet(t) = ToSet(r) \cup {e}
  BY <1>2 DEF ToSet
<1>4. \A j \in DOMAIN r : r[j] # e
  BY DEF ToSet
<1>5. IsInjective(t)
  BY <1>2, <1>4 DEF IsInjective
<1> QED BY <1>3, <1>5 DEF t

\* The stage at place q is noted.
LEMMA LogsMore ==
  ASSUME NEW s, NEW b, NEW at, NEW D, Meant(s, b, at, D), NEW q, NEW f, IsFrame(f), NEW T, Logs(s, b, at, D, q, f, T),
         NEW k \in Starts(b), k \notin Over(b, q, T), q <= Len(b) + 1, q \in Nat,
         NEW m, NEW U, Over(b, m, U) = Over(b, q, T) \cup {k},
         NEW g, g.ran = Append(f.ran, Noted(s, D, at[k]))
  PROVE  Logs(s, b, at, D, m, g, U)
<1> DEFINE e == Noted(s, D, at[k])
<1>1. PICK X : f.ran \in Seq(X)
  BY DEF IsFrame
<1>2. ASSUME e \in ToSet(f.ran) PROVE FALSE
  <2>1. PICK p \in Over(b, q, T) : e = Noted(s, D, at[p])
    BY <1>2 DEF Logs
  <2>2. p \in Starts(b)
    <3>1. k \in 1 .. Len(b) /\ DOMAIN b = 1 .. Len(b) /\ Len(b) \in Nat
      BY StandsFor DEF Starts
    <3>2. p \in 1 .. q - 1 /\ b[p].op \in {"call", "spawn"}
      BY DEF Over
    <3> QED BY <3>1, <3>2 DEF Starts
  <2>3. s[at[p]].id = s[at[k]].id
    BY <2>1 DEF Noted
  <2>4. b[p].id = b[k].id
    BY <2>2, <2>3, StartOnce
  <2>5. p = k
    BY <2>2, <2>4, StartOnce
  <2> QED BY <2>5
<1> HIDE DEF e
<1>3. IsInjective(g.ran) /\ ToSet(g.ran) = ToSet(f.ran) \cup {e}
  BY <1>1, <1>2, AddedOnce DEF Logs, e
<1>4. ToSet(g.ran) = {Noted(s, D, at[p]) : p \in Over(b, m, U)}
  BY <1>3 DEF Logs, e
<1> QED BY <1>3, <1>4 DEF Logs

\* Nothing more has started or ended.
LEMMA LogsSame ==
  ASSUME NEW s, NEW b, NEW at, NEW D, NEW q, NEW f, NEW T, Logs(s, b, at, D, q, f, T),
         NEW m, NEW U, Over(b, m, U) = Over(b, q, T), NEW g, g.ran = f.ran
  PROVE  Logs(s, b, at, D, m, g, U)
BY DEF Logs

\* What the frame becomes with an instruction that runs no stage.
LEMMA QuietIs ==
  ASSUME NEW f, IsFrame(f), NEW c, c.op \notin {"call", "spawn", "await", "fetch"}
  PROVE  LET g == Step(f, c)
             n == IF c.op = "extract" THEN <<"field", <<c.def[4], Values(f, c)[1]>>>>
                  ELSE IF c.op = "compute" THEN <<"compute", Values(f, c)>>
                  ELSE IF c.id \in DOMAIN f.mem THEN f.mem[c.id] ELSE Undef
         IN /\ c.op \in {"extract", "compute", "load"} => Binding(f, g, c.def, n)
            /\ c.op = "ret" => /\ IsFrame(g) /\ g.env = f.env /\ g.mem = f.mem /\ g.ran = f.ran /\ g.exc = f.exc
                               /\ g.result = IF c.args = << >> THEN None ELSE Values(f, c)[1]
            /\ c.op \notin {"extract", "compute", "load", "ret"} => g = f
<1>1. CASE c.op = "extract"
  BY <1>1, BindIs DEF Step
<1>2. CASE c.op = "compute"
  BY <1>2, BindIs DEF Step
<1>3. CASE c.op = "load"
  BY <1>3, BindIs DEF Step
<1>4. CASE c.op = "ret"
  <2> DEFINE e == IF c.args = << >> THEN None ELSE Values(f, c)[1]  g == [f EXCEPT !["result"] = e]
  <2>1. Step(f, c) = g
    BY <1>4 DEF Step
  <2> HIDE DEF e
  <2>2. Sets(f, g, "result", e)
    <3>1. "result" \in FrameFields \ {"ran"}
      BY DEF FrameFields
    <3> QED BY <3>1, FieldSet
  <2> HIDE DEF g
  <2>3. IsFrame(g) /\ g["result"] = e /\ g["env"] = f["env"] /\ g["mem"] = f["mem"] /\ g["ran"] = f["ran"] /\ g["exc"] = f["exc"]
    BY <2>2 DEF Sets, FrameFields
  <2>4. g.result = e /\ g.env = f.env /\ g.mem = f.mem /\ g.ran = f.ran /\ g.exc = f.exc
    BY <2>3
  <2> QED BY <1>4, <2>1, <2>3, <2>4 DEF e
<1>5. CASE c.op \notin {"extract", "compute", "load", "ret"}
  <2>1. Step(f, c) = f
    BY <1>5 DEF Step
  <2> QED BY <1>5, <2>1
<1> QED BY <1>1, <1>2, <1>3, <1>4, <1>5

\* What no instruction starts leaves what is over.
LEMMA OverNext ==
  ASSUME NEW b, NEW q \in Nat, q >= 1, NEW T
  PROVE  Over(b, q + 1, T) = Over(b, q, T) \cup
           (IF b[q].op = "call" \/ (b[q].op = "spawn" /\ T[b[q].def].state \in TaskOver) THEN {q} ELSE {})
<1> DEFINE m == q + 1
<1>1. \A j : j \in 1 .. m - 1 <=> j \in 1 .. q - 1 \/ j = q
  OBVIOUS
<1> HIDE DEF m
<1>2. Over(b, m, T) = Over(b, q, T) \cup
        (IF b[q].op = "call" \/ (b[q].op = "spawn" /\ T[b[q].def].state \in TaskOver) THEN {q} ELSE {})
  BY <1>1 DEF Over
<1> QED BY <1>2 DEF m

\* A call that does not throw.
LEMMA CallGood ==
  ASSUME NEW s, NEW b, NEW at, NEW D, Meant(s, b, at, D), NEW q \in DOMAIN b, b[q].op = "call", b[q].node \notin throws,
         NEW f, IsFrame(f), NEW T, Good(s, b, at, D, q, f, T), NEW g, Calls(f, g, b[q], Term(D, b[q]))
  PROVE  Good(s, b, at, D, q + 1, g, T)
<1> DEFINE c == b[q]  i == at[q]
<1>1. q \in 1 .. Len(b) /\ Len(b) \in Nat /\ c = s[i] /\ i \in DOMAIN s /\ c.op = "call" /\ Plain(s) /\ Solves(s, D, Len(s))
  BY StandsFor DEF Meant
<1>2. Knows(D, b, q, f) /\ Holds(D, b, q, f) /\ Logs(s, b, at, D, q, f, T) /\ Told(D, T)
  BY DEF Good
<1>3. /\ g.ran = Append(f.ran, <<c.id, Term(D, c)>>)
      /\ pipe.sig[c.node].sret => g.mem = Put(f.mem, c.id, Term(D, c)) /\ g.env = f.env
      /\ ~ pipe.sig[c.node].sret => /\ g.mem = f.mem
                                    /\ c.def = None => g.env = f.env
                                    /\ c.def # None => g.env = Put(f.env, c.def, Term(D, c))
  BY DEF Calls
<1>4. (Binds(c) <=> c.def \in DOMAIN D) /\ (Binds(c) => D[c.def] = Term(D, c))
  <2>1. (Binds(s[i]) <=> s[i].def \in DOMAIN D) /\ (Binds(s[i]) => Gives(s, D, i, D[s[i].def]))
    BY <1>1, KnownIs
  <2>2. \A e : Gives(s, D, i, e) => e = Term(D, s[i])
    BY <1>1 DEF Gives
  <2> QED BY <1>1, <2>1, <2>2
<1>5. Binds(c) <=> c.def # None /\ ~ pipe.sig[c.node].sret
  BY <1>1 DEF Binds
<1> HIDE DEF c
<1>6. Knows(D, b, q + 1, g)
  <2>1. b[q].def \in DOMAIN D => g.env = Put(f.env, b[q].def, D[b[q].def])
    BY <1>3, <1>4, <1>5 DEF c
  <2>2. b[q].def \notin DOMAIN D => g.env = f.env
    BY <1>3, <1>4, <1>5 DEF c
  <2>3. q \in Nat
    BY <1>1
  <2> QED BY <1>2, <2>1, <2>2, <2>3, KnowsMore
<1>7. Holds(D, b, q + 1, g)
  <2>1. Sret(c) <=> pipe.sig[c.node].sret
    BY <1>1 DEF Sret
  <2>2. Sret(b[q]) => g.mem = Put(f.mem, b[q].id, Term(D, b[q]))
    BY <1>3, <2>1 DEF c
  <2>3. ~ Sret(b[q]) => g.mem = f.mem
    BY <1>3, <2>1 DEF c
  <2> QED BY <1>2, <2>2, <2>3, HoldsMore
<1>8. Logs(s, b, at, D, q + 1, g, T)
  <2>1. q \in Starts(b) /\ q \notin Over(b, q, T) /\ q <= Len(b) + 1 /\ q \in Nat
    BY <1>1 DEF Over, Starts
  <2>2. Over(b, q + 1, T) = Over(b, q, T) \cup {q}
    BY <1>1, OverNext
  <2>3. g.ran = Append(f.ran, Noted(s, D, at[q]))
    BY <1>1, <1>3 DEF Noted
  <2> QED BY <1>2, <2>1, <2>2, <2>3, LogsMore
<1> QED BY <1>2, <1>6, <1>7, <1>8 DEF Good

\* An instruction that runs no stage.
LEMMA QuietGood ==
  ASSUME NEW s, NEW b, NEW at, NEW D, Meant(s, b, at, D), NEW q \in DOMAIN b,
         b[q].op \notin {"call", "spawn", "await", "fetch"}, Direct(b, q),
         NEW f, IsFrame(f), NEW T, Good(s, b, at, D, q, f, T), NEW g, g = Step(f, b[q])
  PROVE  /\ IsFrame(g) /\ g.exc = f.exc /\ Good(s, b, at, D, q + 1, g, T)
         /\ b[q].op = "ret" => g.result = IF b[q].args = << >> THEN None ELSE Values(Under(D), b[q])[1]
<1> DEFINE c == b[q]  i == at[q]
           n == IF c.op = "extract" THEN <<"field", <<c.def[4], Values(f, c)[1]>>>>
                ELSE IF c.op = "compute" THEN <<"compute", Values(f, c)>>
                ELSE IF c.id \in DOMAIN f.mem THEN f.mem[c.id] ELSE Undef
<1>1. q \in 1 .. Len(b) /\ Len(b) \in Nat /\ c = s[i] /\ i \in DOMAIN s /\ Plain(s) /\ Solves(s, D, Len(s))
  BY StandsFor DEF Meant
<1>2. Knows(D, b, q, f) /\ Holds(D, b, q, f) /\ Logs(s, b, at, D, q, f, T) /\ Told(D, T)
  BY DEF Good
<1>3. Values(f, c) = Values(Under(D), c)
  BY <1>2, ReadsIs
<1>4. (Binds(c) <=> c.def \in DOMAIN D) /\ (Binds(c) => Gives(s, D, i, D[c.def]))
  BY <1>1, KnownIs
<1>5. /\ c.op \in {"extract", "compute", "load"} => Binding(f, g, c.def, n)
      /\ c.op = "ret" => /\ IsFrame(g) /\ g.env = f.env /\ g.mem = f.mem /\ g.ran = f.ran /\ g.exc = f.exc
                         /\ g.result = IF c.args = << >> THEN None ELSE Values(f, c)[1]
      /\ c.op \notin {"extract", "compute", "load", "ret"} => g = f
  BY QuietIs
<1>6. Gives(s, D, i, D[c.def]) /\ c.op \in {"extract", "compute", "load"} => D[c.def] = n
  <2>1. c.op = "load" => Loaded(s, D, i, n)
    BY <1>2, LoadIs
  <2>2. \A e, d : Loaded(s, D, i, e) /\ Loaded(s, D, i, d) => e = d
    BY DEF Loaded
  <2>3. Gives(s, D, i, D[c.def]) /\ c.op = "load" => Loaded(s, D, i, D[c.def])
    BY <1>1 DEF Gives
  <2>4. Gives(s, D, i, D[c.def]) /\ c.op = "load" => D[c.def] = n
    BY <2>1, <2>2, <2>3
  <2>5. Gives(s, D, i, D[c.def]) /\ c.op = "extract" => D[c.def] = n
    BY <1>1, <1>3 DEF Gives
  <2>6. Gives(s, D, i, D[c.def]) /\ c.op = "compute" => D[c.def] = n
    BY <1>1, <1>3 DEF Gives
  <2> QED BY <2>4, <2>5, <2>6
<1>7. /\ IsFrame(g) /\ g.exc = f.exc /\ g.ran = f.ran /\ g.mem = f.mem
      /\ Binds(c) => g.env = Put(f.env, c.def, D[c.def])
      /\ ~ Binds(c) => g.env = f.env
  <2>1. Binds(c) <=> c.def # None /\ c.op \in {"extract", "compute", "load"}
    BY DEF Binds
  <2> HIDE DEF n, c
  <2>2. CASE c.op \in {"extract", "compute", "load"}
    BY <1>4, <1>5, <1>6, <2>1, <2>2 DEF Binding
  <2>3. CASE c.op = "ret"
    BY <1>5, <2>1, <2>3
  <2>4. CASE c.op \notin {"extract", "compute", "load", "ret"}
    BY <1>5, <2>1, <2>4
  <2> QED BY <2>2, <2>3, <2>4
<1> HIDE DEF n
<1>8. Knows(D, b, q + 1, g)
  <2>1. q \in Nat
    BY <1>1
  <2> QED BY <1>2, <1>4, <1>7, <2>1, KnowsMore
<1>9. Holds(D, b, q + 1, g)
  <2>1. ~ Sret(b[q])
    BY DEF Sret
  <2> QED BY <1>2, <1>7, <2>1, HoldsMore
<1>10. Logs(s, b, at, D, q + 1, g, T)
  <2>1. Over(b, q + 1, T) = Over(b, q, T)
    <3>1. q \in Nat /\ q >= 1
      BY <1>1
    <3>2. ~ (b[q].op = "call" \/ (b[q].op = "spawn" /\ T[b[q].def].state \in TaskOver))
      OBVIOUS
    <3>3. Over(b, q + 1, T) = Over(b, q, T) \cup
            (IF b[q].op = "call" \/ (b[q].op = "spawn" /\ T[b[q].def].state \in TaskOver) THEN {q} ELSE {})
      BY <3>1, OverNext
    <3> QED BY <3>2, <3>3
  <2> QED BY <1>2, <1>7, <2>1, LogsSame
<1>11. c.op = "ret" => g.result = IF c.args = << >> THEN None ELSE Values(Under(D), c)[1]
  BY <1>3, <1>5
<1> QED BY <1>2, <1>7, <1>8, <1>9, <1>10, <1>11 DEF Good

\* Any instruction that is no task's, unless it throws.
LEMMA StepGood ==
  ASSUME NEW s, NEW b, NEW at, NEW D, Meant(s, b, at, D), NEW q \in DOMAIN b, b[q].op \notin {"spawn", "await", "fetch"},
         ~ (b[q].op = "call" /\ b[q].node \in throws), Direct(b, q),
         NEW f, IsFrame(f), NEW T, Good(s, b, at, D, q, f, T), NEW g, g = Step(f, b[q])
  PROVE  /\ IsFrame(g) /\ g.exc = f.exc /\ Good(s, b, at, D, q + 1, g, T)
         /\ b[q].op = "ret" => g.result = IF b[q].args = << >> THEN None ELSE Values(Under(D), b[q])[1]
<1>1. CASE b[q].op = "call"
  <2>1. Knows(D, b, q, f)
    BY DEF Good
  <2>2. <<b[q].node, Values(f, StageSpawn(b[q]))>> = Term(D, b[q])
    BY <2>1, ReadsIs DEF Term
  <2>3. g = Call(f, b[q], Values(f, StageSpawn(b[q])))
    BY <1>1 DEF Step
  <2>4. Calls(f, g, b[q], Term(D, b[q]))
    <3>1. PICK c, a : c = b[q] /\ a = Values(f, StageSpawn(b[q]))
      OBVIOUS
    <3>2. Calls(f, Call(f, c, a), c, <<c.node, a>>)
      BY <1>1, <3>1, CallIs
    <3> QED BY <2>2, <2>3, <3>1, <3>2
  <2>5. IsFrame(g) /\ g.exc = f.exc
    BY <2>4 DEF Calls
  <2> QED BY <1>1, <2>4, <2>5, CallGood
<1>2. CASE b[q].op # "call"
  BY <1>2, QuietGood
<1> QED BY <1>1, <1>2

-----------------------------------------------------------------------------
(***************************************************************************)
(* The serial body, run to its end.                                        *)
(***************************************************************************)
GoOn(f, c) == IF f.exc # "none" THEN f ELSE Step(f, c)

\* The frames behind the sets of instructions, the greatest one last.
Behinds(s, n, G) ==
  G = [t \in SUBSET (1 .. n) |-> IF t = {} THEN Begin ELSE GoOn(G[t \ {Max(t)}], s[Max(t)])]

LEMMA BehindsMore == ASSUME NEW s, NEW n \in Nat, NEW G, Behinds(s, n, G) PROVE \E H : Behinds(s, n + 1, H)
<1> DEFINE m == n + 1
           H == [t \in SUBSET (1 .. m) |-> IF m \in t THEN GoOn(G[t \ {m}], s[m]) ELSE G[t]]
<1>1. /\ m \in Nat /\ \A t \in SUBSET (1 .. m) : m \notin t => t \in SUBSET (1 .. n)
      /\ \A t \in SUBSET (1 .. m) : t \ {m} \in SUBSET (1 .. n) /\ t \ {m} \in SUBSET (1 .. m)
      /\ \A t \in SUBSET (1 .. n) : m \notin t /\ t \in SUBSET (1 .. m)
  OBVIOUS
<1>2. \A t \in SUBSET (1 .. m) : H[t] = IF m \in t THEN GoOn(G[t \ {m}], s[m]) ELSE G[t]
  OBVIOUS
<1>3. \A t \in SUBSET (1 .. n) : G[t] = IF t = {} THEN Begin ELSE GoOn(G[t \ {Max(t)}], s[Max(t)])
  BY DEF Behinds
<1>4. \A t \in SUBSET (1 .. m) : m \in t => Max(t) = m
  BY GreatestIs
<1>5. DOMAIN H = SUBSET (1 .. m) /\ H = [t \in SUBSET (1 .. m) |-> H[t]]
  OBVIOUS
<1> HIDE DEF H, m
<1>6. ASSUME NEW t \in SUBSET (1 .. m) PROVE H[t] = IF t = {} THEN Begin ELSE GoOn(H[t \ {Max(t)}], s[Max(t)])
  <2>1. CASE t = {}
    BY <1>1, <1>2, <1>3, <2>1
  <2>2. CASE m \in t
    <3>1. Max(t) = m
      BY <1>4, <2>2
    <3>2. H[t \ {m}] = G[t \ {m}]
      BY <1>1, <1>2
    <3> QED BY <1>2, <2>2, <3>1, <3>2
  <2>3. CASE m \notin t /\ t # {}
    <3>1. t \in SUBSET (1 .. n) /\ H[t] = G[t]
      BY <1>1, <1>2, <2>3
    <3>2. t \ {Max(t)} \in SUBSET (1 .. n)
      BY <3>1
    <3>3. H[t \ {Max(t)}] = G[t \ {Max(t)}]
      BY <1>1, <1>2, <3>2
    <3> QED BY <1>3, <2>3, <3>1, <3>3
  <2> QED BY <2>1, <2>2, <2>3
<1>7. H = [t \in SUBSET (1 .. m) |-> IF t = {} THEN Begin ELSE GoOn(H[t \ {Max(t)}], s[Max(t)])]
  BY <1>5, <1>6
<1>8. Behinds(s, m, H)
  BY <1>7 DEF Behinds
<1> QED BY <1>8 DEF m

LEMMA BehindsExist == ASSUME NEW s, NEW n \in Nat PROVE \E G : Behinds(s, n, G)
<1> DEFINE K == {m \in Nat : \E G : Behinds(s, m, G)}
<1>1. 0 \in K
  <2> DEFINE G == [t \in SUBSET (1 .. 0) |-> Begin]
  <2>1. SUBSET (1 .. 0) = {{}}
    OBVIOUS
  <2>2. G = [t \in SUBSET (1 .. 0) |-> IF t = {} THEN Begin ELSE GoOn(G[t \ {Max(t)}], s[Max(t)])]
    BY <2>1
  <2>3. Behinds(s, 0, G)
    <3> HIDE DEF G
    <3> QED BY <2>2 DEF Behinds
  <2> QED BY <2>3
<1>2. ASSUME NEW m \in K PROVE m + 1 \in K
  BY BehindsMore
<1>3. K \subseteq Nat
  OBVIOUS
<1> HIDE DEF K
<1>4. K = Nat
  BY <1>1, <1>2, <1>3, AllNumbers
<1> QED BY <1>4 DEF K

\* The serial end is where a walk along the instructions ends.
Walked(s, w) == w[0] = Begin /\ \A j \in 1 .. Len(s) : w[j] = GoOn(w[j - 1], s[j])

LEMMA SerialWalks == ASSUME NEW X, serial \in Seq(X) PROVE \E w : Walked(serial, w) /\ SerialEnd = w[Len(serial)]
<1> DEFINE n == Len(serial)
           Runs(G) == G = [t \in SUBSET (DOMAIN serial) |-> IF t = {} THEN Begin ELSE GoOn(G[t \ {Max(t)}], serial[Max(t)])]
           I == CHOOSE G : Runs(G)
<1>1. n \in Nat /\ DOMAIN serial = 1 .. n
  OBVIOUS
<1>2. SerialEnd = I[DOMAIN serial]
  BY DEF SerialEnd, FoldLeft, MapThenFoldSet, GoOn
<1>3. PICK H : Behinds(serial, n, H)
  BY <1>1, BehindsExist
<1>4. Runs(H)
  BY <1>1, <1>3 DEF Behinds
<1>5. Runs(I)
  <2> HIDE DEF Runs
  <2> QED BY <1>4
<1> HIDE DEF I
<1>6. \A t \in SUBSET (1 .. n) : I[t] = IF t = {} THEN Begin ELSE GoOn(I[t \ {Max(t)}], serial[Max(t)])
  BY <1>1, <1>5
<1> HIDE DEF Runs, n
<1> DEFINE w == [j \in 0 .. n |-> I[1 .. j]]
<1>7. 1 .. 0 = {} /\ 0 \in 0 .. n /\ n \in 0 .. n
  BY <1>1
<1>8. w[0] = Begin
  BY <1>6, <1>7
<1>9. ASSUME NEW j \in 1 .. n PROVE w[j] = GoOn(w[j - 1], serial[j])
  <2>1. j \in 0 .. n /\ j - 1 \in 0 .. n /\ 1 .. j \in SUBSET (1 .. n) /\ 1 .. j # {}
    BY <1>1
  <2>2. Max(1 .. j) = j /\ (1 .. j) \ {Max(1 .. j)} = 1 .. (j - 1)
    BY <1>1, Shortened
  <2>3. I[1 .. j] = GoOn(I[1 .. (j - 1)], serial[j])
    BY <1>6, <2>1, <2>2
  <2> QED BY <2>1, <2>3
<1>10. w[n] = I[DOMAIN serial]
  BY <1>1, <1>7
<1> HIDE DEF w
<1> QED BY <1>2, <1>8, <1>9, <1>10 DEF Walked, n

\* At the beginning nothing is known and nothing noted.
LEMMA GoodBegin == ASSUME NEW s, NEW b, NEW at, NEW D PROVE Good(s, b, at, D, 1, Begin, << >>)
<1>1. 1 .. 1 - 1 = {} /\ DOMAIN << >> = {}
  OBVIOUS
<1>2. Begin.env = << >> /\ Begin.mem = << >> /\ Begin.ran = << >>
  BY DEF Begin
<1>3. Knows(D, b, 1, Begin) /\ Holds(D, b, 1, Begin) /\ Told(D, << >>)
  BY <1>1, <1>2 DEF Knows, Holds, Told
<1>4. Over(b, 1, << >>) = {}
  BY <1>1 DEF Over
<1>5. Logs(s, b, at, D, 1, Begin, << >>)
  BY <1>1, <1>2, <1>4 DEF Logs, IsInjective, ToSet
<1> QED BY <1>3, <1>5 DEF Good

\* The first call that throws, and what is returned if none does.
First(s, i)   == i \in CallsIn(s) /\ s[i].node \in throws /\ \A k \in CallsIn(s) : k < i => s[k].node \notin throws
Results(D, s) == IF s[Len(s)].args = << >> THEN None ELSE Values(Under(D), s[Len(s)])[1]
Self(s)       == [q \in DOMAIN s |-> q]

\* The frame f after j instructions of the serial body.
Serving(s, D, j, f) ==
  \/ /\ f.exc = "none" /\ IsFrame(f) /\ Good(s, s, Self(s), D, j + 1, f, << >>)
     /\ \A k \in 1 .. j : k \in CallsIn(s) => s[k].node \notin throws
     /\ j = Len(s) => f.result = Results(D, s)
  \/ \E i \in 1 .. j : First(s, i) /\ f.exc = s[i].node

LEMMA SelfMeant == ASSUME NEW s, Plain(s), NEW D, Solves(s, D, Len(s)) PROVE Meant(s, s, Self(s), D) /\ \A q \in DOMAIN s : Direct(s, q)
<1>1. Woven(s, s, Self(s))
  BY WovenSelf DEF Self
<1>2. s \in Seq(AnyIns) /\ OperandsIn(s) /\ \A i \in DOMAIN s : s[i].op # "spawn"
  BY DEF Plain
<1>3. Meant(s, s, Self(s), D)
  BY <1>1, <1>2 DEF Meant
<1>4. \A q \in DOMAIN s : 1 .. q - 1 \subseteq DOMAIN s
  BY <1>2
<1> QED BY <1>2, <1>3, <1>4 DEF Direct

LEMMA ServingMore ==
  ASSUME NEW s, Plain(s), NEW D, Solves(s, D, Len(s)), throws \subseteq CodeNodes(pipe), Setting,
         NEW j \in Nat, j + 1 \in DOMAIN s, NEW f, Serving(s, D, j, f)
  PROVE  Serving(s, D, j + 1, GoOn(f, s[j + 1]))
<1> DEFINE q == j + 1  c == s[q]  g == GoOn(f, c)
<1>1. Meant(s, s, Self(s), D) /\ Direct(s, q)
  BY SelfMeant
<1>2. q \in DOMAIN s /\ DOMAIN s = 1 .. Len(s) /\ Len(s) \in Nat /\ q \in Nat /\ c.op \notin {"spawn", "await", "fetch"}
      /\ (c.op = "ret" <=> q = Len(s))
  BY DEF Plain
<1>3. \A n \in throws : n # "none"
  BY DEF Setting, PipelineOk, CodeNodes
<1>4. \A k : k \in 1 .. q <=> k \in 1 .. j \/ k = q
  OBVIOUS
<1>5. CASE \E i \in 1 .. j : First(s, i) /\ f.exc = s[i].node
  <2>1. PICK i \in 1 .. j : First(s, i) /\ f.exc = s[i].node
    BY <1>5
  <2>2. f.exc # "none"
    BY <1>3, <2>1 DEF First
  <2>3. g = f /\ i \in 1 .. q
    BY <1>4, <2>1, <2>2 DEF GoOn
  <2> HIDE DEF g, q
  <2>4. Serving(s, D, q, g)
    BY <2>1, <2>3 DEF Serving
  <2> QED BY <2>4 DEF q, g
<1>6. CASE /\ f.exc = "none" /\ IsFrame(f) /\ Good(s, s, Self(s), D, j + 1, f, << >>)
           /\ \A k \in 1 .. j : k \in CallsIn(s) => s[k].node \notin throws
  <2>1. g = Step(f, c)
    BY <1>6 DEF GoOn
  <2>2. CASE c.op = "call" /\ c.node \in throws
    <3>1. g.exc = c.node
      BY <1>6, <2>1, <2>2, StepIs
    <3>2. \A k \in CallsIn(s) : k < q => k \in 1 .. j
      <4>1. CallsIn(s) \subseteq 1 .. Len(s)
        BY <1>2 DEF CallsIn
      <4>2. \A l \in Nat : \A k \in 1 .. l : k < q => k \in 1 .. j
        OBVIOUS
      <4>3. Len(s) \in Nat
        BY <1>2
      <4> QED BY <4>1, <4>2, <4>3
    <3> HIDE DEF g, q
    <3>3. First(s, q)
      BY <1>2, <1>6, <2>2, <3>2 DEF First, CallsIn
    <3>4. Serving(s, D, q, g)
      BY <1>4, <3>1, <3>3 DEF Serving
    <3> QED BY <3>4 DEF q, g
  <2>3. CASE ~ (c.op = "call" /\ c.node \in throws)
    <3> HIDE DEF g
    <3>0. q = j + 1
      OBVIOUS
    <3>5. Good(s, s, Self(s), D, q, f, << >>) /\ IsFrame(f) /\ f.exc = "none"
      BY <1>6
    <3> HIDE DEF q
    <3>1. /\ IsFrame(g) /\ g.exc = f.exc /\ Good(s, s, Self(s), D, q + 1, g, << >>)
          /\ s[q].op = "ret" => g.result = IF s[q].args = << >> THEN None ELSE Values(Under(D), s[q])[1]
      BY <1>1, <1>2, <2>1, <2>3, <3>5, StepGood
    <3>2. q = Len(s) => g.result = Results(D, s)
      BY <1>2, <3>1 DEF Results
    <3>3. \A k \in 1 .. q : k \in CallsIn(s) => s[k].node \notin throws
      BY <1>4, <1>6, <2>3 DEF CallsIn
    <3>4. Serving(s, D, q, g)
      BY <3>1, <3>2, <3>3, <3>5 DEF Serving
    <3> QED BY <3>4 DEF q, g
  <2> QED BY <2>2, <2>3
<1> QED BY <1>5, <1>6 DEF Serving

\* The serial body throws what its first thrower throws, and else makes every
\* call once, and returns.
SerialOk(s, D, e) ==
  /\ \A i \in CallsIn(s) : First(s, i) => e.exc = s[i].node
  /\ (\E i \in CallsIn(s) : s[i].node \in throws) => e.exc # "none"
  /\ (\A i \in CallsIn(s) : s[i].node \notin throws) =>
       e.exc = "none" /\ e.result = Results(D, s) /\ IsInjective(e.ran) /\ ToSet(e.ran) = {Noted(s, D, i) : i \in CallsIn(s)}

LEMMA SerialEndIs ==
  ASSUME Plain(serial), NEW D, Solves(serial, D, Len(serial)), throws \subseteq CodeNodes(pipe), Setting
  PROVE  SerialOk(serial, D, SerialEnd)
<1> DEFINE s == serial  n == Len(s)
<1>1. s \in Seq(AnyIns) /\ n \in Nat /\ DOMAIN s = 1 .. n
  BY DEF Plain
<1>2. PICK w : Walked(s, w) /\ SerialEnd = w[n]
  BY <1>1, SerialWalks
<1>3. w[0] = Begin /\ \A j \in 1 .. n : w[j] = GoOn(w[j - 1], s[j])
  BY <1>2 DEF Walked
<1> DEFINE K == {j \in Nat : j <= n => Serving(s, D, j, w[j])}
<1>4. 0 \in K
  <2>1. Good(s, s, Self(s), D, 0 + 1, Begin, << >>)
    BY GoodBegin
  <2>2. IsFrame(Begin) /\ Begin.exc = "none"
    BY BeginIs DEF Begin
  <2>3. 1 .. 0 = {} /\ 0 # Len(s)
    BY DEF Plain
  <2>4. Serving(s, D, 0, Begin)
    BY <2>1, <2>2, <2>3 DEF Serving
  <2> QED BY <1>3, <2>4
<1>5. ASSUME NEW j \in K PROVE j + 1 \in K
  <2> SUFFICES ASSUME j + 1 <= n PROVE Serving(s, D, j + 1, w[j + 1])
    OBVIOUS
  <2>1. j \in Nat /\ j <= n /\ j + 1 \in DOMAIN s /\ Serving(s, D, j, w[j])
    BY <1>1
  <2>2. w[j + 1] = GoOn(w[j], s[j + 1])
    BY <1>1, <1>3, <2>1
  <2> QED BY <2>1, <2>2, ServingMore
<1>6. K \subseteq Nat
  OBVIOUS
<1> HIDE DEF K
<1>7. K = Nat
  BY <1>4, <1>5, <1>6, AllNumbers
<1>8. Serving(s, D, n, w[n])
  BY <1>1, <1>7 DEF K
<1> DEFINE e == w[n]
<1>9. CASE /\ e.exc = "none" /\ Good(s, s, Self(s), D, n + 1, e, << >>)
           /\ \A k \in 1 .. n : k \in CallsIn(s) => s[k].node \notin throws
           /\ e.result = Results(D, s)
  <2>1. \A i \in CallsIn(s) : s[i].node \notin throws
    BY <1>1, <1>9 DEF CallsIn
  <2>2. Over(s, n + 1, << >>) = CallsIn(s)
    <3>1. \A i \in DOMAIN s : s[i].op # "spawn"
      BY DEF Plain
    <3>2. (n + 1) - 1 = n
      BY <1>1
    <3> QED BY <1>1, <3>1, <3>2 DEF Over, CallsIn
  <2>3. \A i \in CallsIn(s) : Self(s)[i] = i
    BY DEF Self, CallsIn
  <2>4. IsInjective(e.ran) /\ ToSet(e.ran) = {Noted(s, D, Self(s)[i]) : i \in CallsIn(s)}
    BY <1>9, <2>2 DEF Good, Logs
  <2>5. {Noted(s, D, Self(s)[i]) : i \in CallsIn(s)} = {Noted(s, D, i) : i \in CallsIn(s)}
    BY <2>3
  <2> HIDE DEF e
  <2>6. SerialOk(s, D, e)
    BY <1>9, <2>1, <2>4, <2>5 DEF SerialOk, First
  <2> QED BY <1>2, <2>6 DEF e
<1>10. CASE \E i \in 1 .. n : First(s, i) /\ e.exc = s[i].node
  <2>1. PICK i \in 1 .. n : First(s, i) /\ e.exc = s[i].node
    BY <1>10
  <2>2. \A k \in CallsIn(s) : First(s, k) => k = i
    BY <1>1, <2>1 DEF First, CallsIn
  <2>3. e.exc # "none"
    BY <2>1 DEF First, Setting, PipelineOk, CodeNodes
  <2> HIDE DEF e
  <2>4. SerialOk(s, D, e)
    BY <2>1, <2>2, <2>3 DEF SerialOk, First
  <2> QED BY <1>2, <2>4 DEF e
<1> QED BY <1>8, <1>9, <1>10 DEF Serving

-----------------------------------------------------------------------------
(***************************************************************************)
(* The parallel body, step by step.                                        *)
(***************************************************************************)
\* A stage that returns through sret is a task.
Sretted(T) == \E h \in DOMAIN T : pipe.sig[T[h].call.node].sret

\* In the midst of a call.
Amid(s, b, at, D, g, q, f, T) ==
  /\ Meant(s, b, at, D) /\ Good(s, b, at, D, q, f, T) /\ Reached(b, g, q, T, Ran(f)) /\ IsFrame(f) /\ f.exc = "none"
  /\ ~ Sretted(T)

\* The task of a spawn is its call.
LEMMA TaskAt ==
  ASSUME NEW s, NEW b, NEW at, NEW D, NEW g, NEW q, NEW f, NEW T, Amid(s, b, at, D, g, q, f, T)
  PROVE  /\ q \in 1 .. Len(b) /\ Len(b) \in Nat /\ DOMAIN b = 1 .. Len(b) /\ Setting
         /\ \A k \in 1 .. q - 1 : b[k].op = "spawn" => k \in Starts(b) /\ b[k].def \in DOMAIN T /\ T[b[k].def].call = b[k]
         /\ \A h \in DOMAIN T : \E k \in 1 .. q - 1 : b[k].op = "spawn" /\ b[k].def = h
         /\ \A j, k \in DOMAIN b : b[j].op = "spawn" /\ b[k].op = "spawn" /\ b[j].def = b[k].def => j = k
         /\ Direct(b, q)
<1>1. Meant(s, b, at, D) /\ Reached(b, g, q, T, Ran(f))
  BY DEF Amid
<1>2. q \in 1 .. Len(b) /\ Len(b) \in Nat /\ DOMAIN b = 1 .. Len(b) /\ Setting
  <2>1. q \in DOMAIN b /\ Setting
    BY <1>1 DEF Reached
  <2> QED BY <1>1, <2>1, StandsFor
<1>3. ASSUME NEW j \in DOMAIN b, NEW k \in DOMAIN b, b[j].op = "spawn", b[k].op = "spawn", b[j].def = b[k].def
      PROVE  j = k
  <2>1. b[j].def = Task(b[j].id) /\ b[k].def = Task(b[k].id)
    BY <1>1, <1>3 DEF Reached, BodyOk, Forked
  <2>2. b[j].id = b[k].id
    BY <1>3, <2>1, HandlesDiffer
  <2>3. j \in Starts(b) /\ k \in Starts(b)
    BY <1>3 DEF Starts
  <2> QED BY <1>1, <2>2, <2>3, StartOnce
<1>4. \A h \in DOMAIN T : \E k \in 1 .. q - 1 : b[k].op = "spawn" /\ b[k].def = h /\ T[h].call = b[k]
  BY <1>1 DEF Reached, Carried
<1>5. ASSUME NEW k \in 1 .. q - 1, b[k].op = "spawn"
      PROVE  k \in Starts(b) /\ b[k].def \in DOMAIN T /\ T[b[k].def].call = b[k]
  <2>1. k \in DOMAIN b
    BY <1>2
  <2>2. b[k].def \in DOMAIN T
    BY <1>1, <1>5 DEF Reached, Carried
  <2>3. PICK l \in 1 .. q - 1 : b[l].op = "spawn" /\ b[l].def = b[k].def /\ T[b[k].def].call = b[l]
    BY <1>4, <2>2
  <2>4. l = k
    <3>1. l \in DOMAIN b
      BY <1>2
    <3> QED BY <1>3, <1>5, <2>1, <2>3, <3>1
  <2> QED BY <1>5, <2>1, <2>2, <2>3, <2>4 DEF Starts
<1>6. Direct(b, q)
  BY <1>5 DEF Direct, Amid, Sretted
<1> QED BY <1>2, <1>3, <1>4, <1>5, <1>6

\* A task is given its arguments.
LEMMA AfterSpawn ==
  ASSUME NEW s, NEW b, NEW at, NEW D, NEW g, NEW q, NEW f, NEW T, Amid(s, b, at, D, g, q, f, T), b[q].op = "spawn",
         NEW U, U = Put(T, b[q].def, [state |-> "queued", call |-> b[q], args |-> Values(f, b[q]), result |-> Undef])
  PROVE  Good(s, b, at, D, q + 1, f, U)
<1> DEFINE v == b[q].def
<1>1. /\ q \in 1 .. Len(b) /\ Len(b) \in Nat /\ DOMAIN b = 1 .. Len(b)
      /\ \A k \in 1 .. q - 1 : b[k].op = "spawn" => k \in Starts(b) /\ b[k].def \in DOMAIN T /\ T[b[k].def].call = b[k]
      /\ \A j, k \in DOMAIN b : b[j].op = "spawn" /\ b[k].op = "spawn" /\ b[j].def = b[k].def => j = k
  BY TaskAt
<1>2. /\ Meant(s, b, at, D) /\ Knows(D, b, q, f) /\ Holds(D, b, q, f) /\ Logs(s, b, at, D, q, f, T) /\ Told(D, T)
      /\ Plain(s) /\ Solves(s, D, Len(s))
  BY DEF Amid, Good, Meant
<1>3. v = Task(b[q].id)
  <2>1. b[q] = StageSpawn(s[at[q]]) /\ s[at[q]] \in AnyIns
    BY <1>1, <1>2, StandsFor
  <2> QED BY <2>1, SpawnIs
<1>4. Knows(D, b, q + 1, f)
  <2>1. v \notin DOMAIN D
    BY <1>2, <1>3, NoHandle DEF Task
  <2>2. q \in Nat
    BY <1>1
  <2> QED BY <1>2, <2>1, <2>2, KnowsMore
<1>5. Holds(D, b, q + 1, f)
  <2>1. ~ Sret(b[q])
    BY DEF Sret
  <2> QED BY <1>1, <1>2, <2>1, HoldsMore
<1>6. DOMAIN U = DOMAIN T \cup {v} /\ (\A h \in DOMAIN T : h # v => U[h] = T[h])
      /\ U[v].state = "queued" /\ U[v].call = b[q] /\ U[v].args = Values(f, b[q])
  BY DEF Put
<1>7. Told(D, U)
  <2>1. Values(f, b[q]) = Values(Under(D), b[q])
    BY <1>1, <1>2, ReadsIs
  <2> SUFFICES ASSUME NEW h \in DOMAIN U
               PROVE  /\ U[h].args = Values(Under(D), U[h].call)
                      /\ U[h].state = "done"  => U[h].result = <<U[h].call.node, U[h].args>>
                      /\ U[h].state = "threw" => U[h].call.node \in throws
    BY DEF Told
  <2>2. CASE h = v
    BY <1>6, <2>1, <2>2
  <2>3. CASE h # v
    <3>1. h \in DOMAIN T /\ U[h] = T[h]
      BY <1>6, <2>3
    <3> QED BY <1>2, <3>1 DEF Told
  <2> QED BY <2>2, <2>3
<1>8. Logs(s, b, at, D, q + 1, f, U)
  <2>1. Over(b, q + 1, U) = Over(b, q, U)
    <3>1. q \in Nat /\ q >= 1
      BY <1>1
    <3>2. ~ (b[q].op = "call" \/ (b[q].op = "spawn" /\ U[b[q].def].state \in TaskOver))
      BY <1>6 DEF TaskOver
    <3>3. Over(b, q + 1, U) = Over(b, q, U) \cup
            (IF b[q].op = "call" \/ (b[q].op = "spawn" /\ U[b[q].def].state \in TaskOver) THEN {q} ELSE {})
      BY <3>1, OverNext
    <3> QED BY <3>2, <3>3
  <2>2. ASSUME NEW p \in 1 .. q - 1, b[p].op = "spawn" PROVE U[b[p].def] = T[b[p].def]
    <3>1. p \in DOMAIN b /\ q \in DOMAIN b /\ p # q
      BY <1>1
    <3>2. b[p].def # v /\ b[p].def \in DOMAIN T
      BY <1>1, <2>2, <3>1
    <3> QED BY <1>6, <3>2
  <2>3. Over(b, q, U) = Over(b, q, T)
    BY <2>2 DEF Over
  <2> QED BY <1>2, <2>1, <2>3, LogsSame
<1> QED BY <1>4, <1>5, <1>7, <1>8 DEF Good

\* What starts nothing and defines nothing, or what is a value of D.
LEMMA AfterOther ==
  ASSUME NEW s, NEW b, NEW at, NEW D, NEW g, NEW q, NEW f, NEW T, Amid(s, b, at, D, g, q, f, T), b[q].op \in {"await", "fetch"},
         NEW h, h.mem = f.mem, h.ran = f.ran,
         b[q].def \in DOMAIN D => h.env = Put(f.env, b[q].def, D[b[q].def]),
         b[q].def \notin DOMAIN D => h.env = f.env
  PROVE  Good(s, b, at, D, q + 1, h, T)
<1>1. q \in 1 .. Len(b) /\ Len(b) \in Nat /\ DOMAIN b = 1 .. Len(b)
  BY TaskAt
<1>2. Meant(s, b, at, D) /\ Knows(D, b, q, f) /\ Holds(D, b, q, f) /\ Logs(s, b, at, D, q, f, T) /\ Told(D, T)
  BY DEF Amid, Good
<1>3. Knows(D, b, q + 1, h)
  <2>1. q \in Nat
    BY <1>1
  <2> QED BY <1>2, <2>1, KnowsMore
<1>4. Holds(D, b, q + 1, h)
  <2>1. ~ Sret(b[q])
    BY DEF Sret
  <2> QED BY <1>1, <1>2, <2>1, HoldsMore
<1>5. Logs(s, b, at, D, q + 1, h, T)
  <2>1. Over(b, q + 1, T) = Over(b, q, T)
    <3>1. q \in Nat /\ q >= 1
      BY <1>1
    <3>2. ~ (b[q].op = "call" \/ (b[q].op = "spawn" /\ T[b[q].def].state \in TaskOver))
      OBVIOUS
    <3>3. Over(b, q + 1, T) = Over(b, q, T) \cup
            (IF b[q].op = "call" \/ (b[q].op = "spawn" /\ T[b[q].def].state \in TaskOver) THEN {q} ELSE {})
      BY <3>1, OverNext
    <3> QED BY <3>2, <3>3
  <2> QED BY <1>2, <2>1, LogsSame
<1> QED BY <1>2, <1>3, <1>4, <1>5 DEF Good

LEMMA AfterAwait ==
  ASSUME NEW s, NEW b, NEW at, NEW D, NEW g, NEW q, NEW f, NEW T, Amid(s, b, at, D, g, q, f, T), b[q].op = "await"
  PROVE  Good(s, b, at, D, q + 1, f, T)
<1>1. Meant(s, b, at, D) /\ Plain(s) /\ Solves(s, D, Len(s)) /\ q \in DOMAIN b
  BY TaskAt DEF Amid, Meant
<1>2. b[q].def = None
  BY <1>1 DEF Meant, Woven, Awaiting
<1>3. b[q].def \notin DOMAIN D
  BY <1>1, <1>2, NoHandle
<1> QED BY <1>3, AfterOther

\* The result of the task is fetched.
LEMMA AfterFetch ==
  ASSUME NEW s, NEW b, NEW at, NEW D, NEW g, NEW q, NEW f, NEW T, Amid(s, b, at, D, g, q, f, T), b[q].op = "fetch",
         NEW h, h = Bind(f, b[q].def, T[Task(b[q].id)].result)
  PROVE  Good(s, b, at, D, q + 1, h, T)
<1> DEFINE i == at[q]  c == s[i]
<1>1. /\ Meant(s, b, at, D) /\ Plain(s) /\ Solves(s, D, Len(s)) /\ q \in DOMAIN b /\ Told(D, T) /\ IsFrame(f)
      /\ Reached(b, g, q, T, Ran(f))
  BY TaskAt DEF Amid, Meant, Good
<1>2. b[q] = Fetch(c) /\ i \in CallsIn(s) /\ c \in AnyIns /\ i \in DOMAIN s /\ c.op = "call"
  <2>1. b[q] = Fetch(c) /\ i \in CallsIn(s) /\ c \in AnyIns
    BY <1>1, StandsFor
  <2> QED BY <2>1 DEF CallsIn
<1>3. PICK p \in 1 .. q - 1 : b[p].op = "spawn" /\ at[p] = i
  BY <1>1 DEF Meant, Woven, Fetching
<1>4. p \in Starts(b) /\ b[p].def \in DOMAIN T /\ T[b[p].def].call = b[p] /\ p \in DOMAIN b
  BY <1>3, TaskAt DEF Starts
<1>5. b[p] = StageSpawn(c)
  BY <1>1, <1>3, <1>4, StandsFor
<1>6. b[p].def = Task(c.id) /\ b[p].node = c.node /\ b[q].id = c.id /\ b[q].def = c.def
  BY <1>2, <1>5, SpawnIs, SpawnFetchOps
<1> DEFINE t == T[Task(b[q].id)]
<1>7. t.state = "done"
  BY <1>1, <1>4, <1>6, NonePending
<1>8. t.result = Term(D, c)
  BY <1>1, <1>4, <1>5, <1>6, <1>7 DEF Told, Term
<1>9. ~ pipe.sig[c.node].sret
  BY <1>4, <1>6 DEF Amid, Sretted
<1>10. (Binds(c) <=> c.def \in DOMAIN D) /\ (Binds(c) => Gives(s, D, i, D[c.def])) /\ (Binds(c) <=> c.def # None)
  <2>1. (Binds(s[i]) <=> s[i].def \in DOMAIN D) /\ (Binds(s[i]) => Gives(s, D, i, D[s[i].def]))
    BY <1>1, <1>2, KnownIs
  <2> QED BY <1>2, <1>9, <2>1 DEF Binds
<1>11. Binds(c) => D[c.def] = Term(D, c)
  BY <1>2, <1>10 DEF Gives
<1>12. Binding(f, h, b[q].def, t.result)
  BY <1>1, BindIs
<1> HIDE DEF c, t, i
<1>13. /\ h.mem = f.mem /\ h.ran = f.ran
       /\ b[q].def = None => h.env = f.env
       /\ b[q].def # None => h.env = Put(f.env, b[q].def, t.result)
  BY <1>12 DEF Binding
<1>14. b[q].def \in DOMAIN D => h.env = Put(f.env, b[q].def, D[b[q].def])
  BY <1>6, <1>8, <1>10, <1>11, <1>13
<1>15. b[q].def \notin DOMAIN D => h.env = f.env
  BY <1>6, <1>10, <1>13
<1> QED BY <1>13, <1>14, <1>15, AfterOther

\* Task id goes to state x, with the result e.
Goes(T, U, id, x, e) ==
  /\ DOMAIN U = DOMAIN T /\ \A h \in DOMAIN T : h # id => U[h] = T[h]
  /\ U[id].state = x /\ U[id].call = T[id].call /\ U[id].args = T[id].args /\ U[id].result = e

LEMMA TaskGoes ==
  ASSUME NEW T, IsTasks(T), NEW id \in DOMAIN T, NEW x, NEW e
  PROVE  /\ Goes(T, [T EXCEPT ![id].state = x], id, x, T[id].result)
         /\ Goes(T, [T EXCEPT ![id].state = x, ![id].result = e], id, x, e)
<1>1. PICK X : T \in [DOMAIN T -> TaskOf(X)]
  BY DEF IsTasks
<1>2. \A t \in TaskOf(X) : /\ [t EXCEPT !.state = x].state = x /\ [t EXCEPT !.state = x].call = t.call
                           /\ [t EXCEPT !.state = x].args = t.args /\ [t EXCEPT !.state = x].result = t.result
                           /\ [t EXCEPT !.state = x, !.result = e].state = x
                           /\ [t EXCEPT !.state = x, !.result = e].call = t.call
                           /\ [t EXCEPT !.state = x, !.result = e].args = t.args
                           /\ [t EXCEPT !.state = x, !.result = e].result = e
  BY DEF TaskOf
<1>3. T[id] \in TaskOf(X)
  BY <1>1
<1>4. ASSUME NEW r, NEW d, r.state = x, r.call = T[id].call, r.args = T[id].args, r.result = d
      PROVE  Goes(T, [T EXCEPT ![id] = r], id, x, d)
  <2> DEFINE U == [T EXCEPT ![id] = r]
  <2>1. DOMAIN U = DOMAIN T /\ U[id] = r /\ \A h \in DOMAIN T : h # id => U[h] = T[h]
    BY <1>1
  <2> HIDE DEF U
  <2>2. Goes(T, U, id, x, d)
    BY <1>4, <2>1 DEF Goes
  <2> QED BY <2>2 DEF U
<1>5. Goes(T, [T EXCEPT ![id].state = x], id, x, T[id].result)
  <2> DEFINE r == [T[id] EXCEPT !.state = x]
  <2>1. r.state = x /\ r.call = T[id].call /\ r.args = T[id].args /\ r.result = T[id].result
    BY <1>2, <1>3
  <2>2. [T EXCEPT ![id].state = x] = [T EXCEPT ![id] = r]
    OBVIOUS
  <2> HIDE DEF r
  <2> QED BY <1>4, <2>1, <2>2
<1>6. Goes(T, [T EXCEPT ![id].state = x, ![id].result = e], id, x, e)
  <2> DEFINE r == [T[id] EXCEPT !.state = x, !.result = e]
  <2>1. r.state = x /\ r.call = T[id].call /\ r.args = T[id].args /\ r.result = e
    BY <1>2, <1>3
  <2>2. [T EXCEPT ![id].state = x, ![id].result = e] = [T EXCEPT ![id] = r]
    BY <1>1
  <2> HIDE DEF r
  <2> QED BY <1>4, <2>1, <2>2
<1> QED BY <1>5, <1>6

\* What the tasks are told stays, if what becomes of one is right.
LEMMA GoesTold ==
  ASSUME NEW D, NEW T, Told(D, T), NEW id \in DOMAIN T, NEW U, NEW x, NEW e, Goes(T, U, id, x, e),
         x = "done" => e = <<T[id].call.node, T[id].args>>, x = "threw" => T[id].call.node \in throws
  PROVE  Told(D, U)
<1> SUFFICES ASSUME NEW h \in DOMAIN U
             PROVE  /\ U[h].args = Values(Under(D), U[h].call)
                    /\ U[h].state = "done"  => U[h].result = <<U[h].call.node, U[h].args>>
                    /\ U[h].state = "threw" => U[h].call.node \in throws
  BY DEF Told
<1>1. CASE h = id
  BY <1>1 DEF Told, Goes
<1>2. CASE h # id
  <2>1. h \in DOMAIN T /\ U[h] = T[h]
    BY <1>2 DEF Goes
  <2> QED BY <2>1 DEF Told
<1> QED BY <1>1, <1>2

\* A task begins.
LEMMA AfterBegin ==
  ASSUME NEW s, NEW b, NEW at, NEW D, NEW g, NEW q, NEW f, NEW T, Amid(s, b, at, D, g, q, f, T),
         NEW id \in DOMAIN T, T[id].state = "queued", NEW U, NEW e, Goes(T, U, id, "running", e)
  PROVE  Good(s, b, at, D, q, f, U)
<1>1. Knows(D, b, q, f) /\ Holds(D, b, q, f) /\ Logs(s, b, at, D, q, f, T) /\ Told(D, T)
  BY DEF Amid, Good
<1>2. Told(D, U)
  BY <1>1, GoesTold
<1>3. Over(b, q, U) = Over(b, q, T)
  <2>1. \A k \in 1 .. q - 1 : b[k].op = "spawn" => (U[b[k].def].state \in TaskOver <=> T[b[k].def].state \in TaskOver)
    <3> SUFFICES ASSUME NEW k \in 1 .. q - 1, b[k].op = "spawn"
                 PROVE  U[b[k].def].state \in TaskOver <=> T[b[k].def].state \in TaskOver
      OBVIOUS
    <3>1. b[k].def \in DOMAIN T
      BY TaskAt
    <3> QED BY <3>1 DEF Goes, TaskOver
  <2> QED BY <2>1 DEF Over
<1>4. Logs(s, b, at, D, q, f, U)
  BY <1>1, <1>3, LogsSame
<1> QED BY <1>1, <1>2, <1>4 DEF Good

\* A task ends, and its stage is noted.
LEMMA AfterEnd ==
  ASSUME NEW s, NEW b, NEW at, NEW D, NEW g, NEW q, NEW f, NEW T, Amid(s, b, at, D, g, q, f, T),
         NEW id \in DOMAIN T, T[id].state = "running",
         NEW U, NEW x \in TaskOver, NEW e, Goes(T, U, id, x, e),
         x = "done" => e = <<T[id].call.node, T[id].args>>, x = "threw" => T[id].call.node \in throws,
         NEW h, h.env = f.env, h.mem = f.mem, h.ran = Append(f.ran, <<T[id].call.id, <<T[id].call.node, T[id].args>>>>)
  PROVE  Good(s, b, at, D, q, h, U)
<1>1. /\ Knows(D, b, q, f) /\ Holds(D, b, q, f) /\ Logs(s, b, at, D, q, f, T) /\ Told(D, T) /\ IsFrame(f)
      /\ Meant(s, b, at, D)
  BY DEF Amid, Good
<1>2. Told(D, U)
  BY <1>1, GoesTold
<1>3. Knows(D, b, q, h) /\ Holds(D, b, q, h)
  BY <1>1 DEF Knows, Holds
<1>4. /\ q \in 1 .. Len(b) /\ Len(b) \in Nat /\ DOMAIN b = 1 .. Len(b)
      /\ \A k \in 1 .. q - 1 : b[k].op = "spawn" => k \in Starts(b) /\ b[k].def \in DOMAIN T /\ T[b[k].def].call = b[k]
      /\ \A i \in DOMAIN T : \E k \in 1 .. q - 1 : b[k].op = "spawn" /\ b[k].def = i
      /\ \A j, k \in DOMAIN b : b[j].op = "spawn" /\ b[k].op = "spawn" /\ b[j].def = b[k].def => j = k
  BY TaskAt
<1>5. PICK k \in 1 .. q - 1 : b[k].op = "spawn" /\ b[k].def = id
  BY <1>4
<1>6. k \in Starts(b) /\ T[id].call = b[k] /\ k \in DOMAIN b
  BY <1>4, <1>5
<1>7. k \notin Over(b, q, T)
  BY <1>5 DEF Over, TaskOver
<1>8. Over(b, q, U) = Over(b, q, T) \cup {k}
  <2>1. ASSUME NEW p \in 1 .. q - 1, b[p].op = "spawn"
        PROVE  U[b[p].def].state \in TaskOver <=> p = k \/ T[b[p].def].state \in TaskOver
    <3>1. p \in DOMAIN b /\ b[p].def \in DOMAIN T
      BY <1>4, <2>1
    <3>2. b[p].def = id => p = k
      BY <1>4, <1>5, <1>6, <2>1, <3>1
    <3> QED BY <1>5, <3>1, <3>2 DEF Goes
  <2> QED BY <1>5, <2>1 DEF Over
<1>9. <<T[id].call.id, <<T[id].call.node, T[id].args>>>> = Noted(s, D, at[k])
  <2>1. b[k] = StageSpawn(s[at[k]]) /\ s[at[k]] \in AnyIns
    BY <1>1, <1>5, <1>6, StandsFor
  <2>2. b[k].id = s[at[k]].id /\ b[k].node = s[at[k]].node
    BY <2>1, SpawnIs
  <2>3. T[id].args = Values(Under(D), b[k])
    BY <1>1, <1>6 DEF Told
  <2> QED BY <1>6, <2>1, <2>2, <2>3 DEF Noted, Term
<1>10. Logs(s, b, at, D, q, h, U)
  <2>1. q \in Nat /\ q <= Len(b) + 1
    BY <1>4
  <2>2. h.ran = Append(f.ran, Noted(s, D, at[k]))
    BY <1>9
  <2> QED BY <1>1, <1>6, <1>7, <1>8, <2>1, <2>2, LogsMore
<1> QED BY <1>2, <1>3, <1>10 DEF Good

-----------------------------------------------------------------------------
(***************************************************************************)
(* How the call ends.                                                      *)
(***************************************************************************)
\* All calls were made once and none threw, or one threw, and the first one
\* unless stages were overtaken.
Concluded(s, D, f, pc) ==
  /\ pc = "returned" =>
       /\ \A i \in CallsIn(s) : s[i].node \notin throws
       /\ f.result = Results(D, s) /\ IsInjective(f.ran) /\ ToSet(f.ran) = {Noted(s, D, i) : i \in CallsIn(s)}
  /\ pc = "unwound" =>
       \E i \in CallsIn(s) : s[i].node \in throws /\ f.exc = s[i].node /\ (Outsiders = {} => First(s, i))

\* What is behind did not throw, if it is done.
LEMMA PassedWell ==
  ASSUME NEW s, NEW b, NEW at, NEW D, NEW g, NEW q, NEW f, NEW T, Amid(s, b, at, D, g, q, f, T),
         NEW p \in Starts(b), p < q, b[p].op = "spawn" => T[b[p].def].state = "done"
  PROVE  s[at[p]].node \notin throws
<1>1. Reached(b, g, q, T, Ran(f)) /\ Meant(s, b, at, D)
  BY DEF Amid
<1>2. p \in 1 .. q - 1 /\ b[p].op \in {"call", "spawn"} /\ b[p].node = s[at[p]].node
  <2>1. p \in DOMAIN b /\ b[p].op \in {"call", "spawn"} /\ b[p].node = s[at[p]].node
    BY <1>1, StartOnce DEF Starts
  <2>2. q \in 1 .. Len(b) /\ Len(b) \in Nat /\ DOMAIN b = 1 .. Len(b)
    BY TaskAt
  <2> QED BY <2>1, <2>2
<1>3. CASE b[p].op = "call"
  BY <1>1, <1>2, <1>3 DEF Reached, Carried
<1>4. CASE b[p].op = "spawn"
  <2>1. b[p].def \in DOMAIN T /\ T[b[p].def].call = b[p]
    BY <1>2, <1>4, TaskAt
  <2> QED BY <1>1, <1>2, <1>4, <2>1 DEF Reached, Outcome
<1> QED BY <1>2, <1>3, <1>4

LEMMA Smaller == ASSUME NEW n \in Nat, NEW i \in 1 .. n, i # n PROVE i < n
OBVIOUS

\* The return is the last instruction.
LEMMA AfterReturn ==
  ASSUME NEW s, NEW b, NEW at, NEW D, NEW g, NEW q, NEW f, NEW T, Amid(s, b, at, D, g, q, f, T), b[q].op = "ret",
         NEW h, h = Step(f, b[q])
  PROVE  Concluded(s, D, h, "returned")
<1>1. Reached(b, g, q, T, Ran(f)) /\ Meant(s, b, at, D) /\ IsFrame(f) /\ Good(s, b, at, D, q, f, T) /\ Plain(s)
  BY DEF Amid, Meant
<1>2. q \in 1 .. Len(b) /\ Len(b) \in Nat /\ DOMAIN b = 1 .. Len(b) /\ Direct(b, q)
  BY TaskAt
<1>3. b[q] = s[at[q]] /\ at[q] \in 1 .. Len(s) /\ DOMAIN s = 1 .. Len(s) /\ Len(s) \in Nat
  BY <1>1, <1>2, StandsFor
<1>4. at[q] = Len(s) /\ s[Len(s)].op = "ret"
  BY <1>1, <1>3 DEF Plain
<1>5. /\ Good(s, b, at, D, q + 1, h, T)
      /\ h.result = IF b[q].args = << >> THEN None ELSE Values(Under(D), b[q])[1]
  BY <1>1, <1>2, StepGood
<1>6. h.result = Results(D, s)
  BY <1>3, <1>4, <1>5 DEF Results
<1>7. ASSUME NEW i \in CallsIn(s) PROVE \E p \in Over(b, q + 1, T) : at[p] = i /\ s[i].node \notin throws
  <2>1. PICK p \in Starts(b) : at[p] = i
    BY <1>1, StartedAt
  <2>2. i \in 1 .. Len(s) /\ i # Len(s)
    BY <1>3, <1>4 DEF CallsIn
  <2>3. p \in Primary(b) /\ q \in Primary(b) /\ at[p] < at[q] /\ p \in DOMAIN b
    <3>1. p \in Primary(b) /\ p \in DOMAIN b
      BY <2>1 DEF Starts, Primary
    <3>2. q \in Primary(b)
      BY <1>2 DEF Primary
    <3>3. at[p] < at[q]
      <4>1. i < Len(s)
        BY <1>3, <2>2, Smaller
      <4> QED BY <1>4, <2>1, <4>1
    <3> QED BY <3>1, <3>2, <3>3
  <2>4. p < q /\ p \in 1 .. q - 1
    <3>1. p < q
      BY <1>1, <2>3, KeepsTurn
    <3> QED BY <1>2, <2>3, <3>1
  <2>5. b[p].op = "spawn" => T[b[p].def].state = "done"
    <3>1. b[p].op = "spawn" => b[p].def \in DOMAIN T
      BY <2>4, TaskAt
    <3> QED BY <1>1, <3>1, NonePending
  <2>6. s[i].node \notin throws
    BY <2>1, <2>4, <2>5, PassedWell
  <2>7. p \in 1 .. (q + 1) - 1
    BY <1>2, <2>4
  <2>8. p \in Over(b, q + 1, T)
    BY <2>1, <2>5, <2>7 DEF Over, Starts, TaskOver
  <2> QED BY <2>1, <2>6, <2>8
<1>8. ASSUME NEW p \in Over(b, q + 1, T) PROVE at[p] \in CallsIn(s)
  <2>1. p \in 1 .. (q + 1) - 1 /\ b[p].op \in {"call", "spawn"}
    BY DEF Over
  <2>2. p \in Starts(b)
    BY <1>2, <2>1 DEF Starts
  <2> QED BY <1>1, <2>2, StartOnce
<1>9. {Noted(s, D, at[p]) : p \in Over(b, q + 1, T)} = {Noted(s, D, i) : i \in CallsIn(s)}
  BY <1>7, <1>8
<1>10. IsInjective(h.ran) /\ ToSet(h.ran) = {Noted(s, D, i) : i \in CallsIn(s)}
  BY <1>5, <1>9 DEF Good, Logs
<1> QED BY <1>6, <1>7, <1>10 DEF Concluded

\* What started before the start at p was before it, if all stages are spawned.
LEMMA TurnsBefore ==
  ASSUME NEW s, NEW b, NEW at, NEW D, Meant(s, b, at, D), Outsiders = {}, NEW p \in Starts(b), NEW k \in CallsIn(s), k < at[p]
  PROVE  \E l \in Starts(b) : at[l] = k /\ l < p
<1>1. PICK l \in Starts(b) : at[l] = k
  BY StartedAt
<1>2. l \in 1 .. Len(b) /\ p \in 1 .. Len(b) /\ Len(b) \in Nat
  <2>1. l \in DOMAIN b /\ p \in DOMAIN b
    BY DEF Starts
  <2> QED BY <2>1, StandsFor
<1>3. at[p] \in Nat /\ k \in Nat
  <2>1. at[p] \in CallsIn(s)
    BY StartOnce
  <2>2. CallsIn(s) \subseteq Nat
    BY DEF CallsIn, Meant, Plain
  <2> QED BY <2>1, <2>2
<1>4. ~ (p < l)
  BY <1>1, <1>3 DEF Meant, Woven, Turns
<1>5. p # l
  BY <1>1, <1>3
<1> QED BY <1>1, <1>2, <1>4, <1>5

\* A call throws.
LEMMA AfterThrow ==
  ASSUME NEW s, NEW b, NEW at, NEW D, NEW g, NEW q, NEW f, NEW T, Amid(s, b, at, D, g, q, f, T),
         b[q].op = "call", b[q].node \in throws, NEW h, h.exc = b[q].node
  PROVE  Concluded(s, D, h, "unwound")
<1>1. Reached(b, g, q, T, Ran(f)) /\ Meant(s, b, at, D) /\ q \in DOMAIN b
  BY DEF Amid, Reached
<1>2. q \in Starts(b)
  BY <1>1 DEF Starts
<1>3. at[q] \in CallsIn(s) /\ b[q].node = s[at[q]].node
  BY <1>1, <1>2, StartOnce
<1>4. ASSUME Outsiders = {}, NEW k \in CallsIn(s), k < at[q] PROVE s[k].node \notin throws
  <2>1. PICK p \in Starts(b) : at[p] = k /\ p < q
    BY <1>1, <1>2, <1>4, TurnsBefore
  <2>2. p \in 1 .. q - 1
    BY <1>1, <2>1, TaskAt DEF Starts
  <2>3. b[p].op = "spawn" => T[b[p].def].state = "done"
    <3>1. b[p].op = "spawn" => b[p].def \in DOMAIN T
      BY <2>2, TaskAt
    <3> QED BY <1>1, <3>1, NonePending
  <2> QED BY <2>1, <2>3, PassedWell
<1>5. Outsiders = {} => First(s, at[q])
  BY <1>3, <1>4 DEF First
<1> QED BY <1>3, <1>5 DEF Concluded

\* The tasks of the join at q are those spawned from m on.
JoinOf(b, q, m) ==
  /\ DOMAIN b[q].args = 1 .. q - m
  /\ \A k \in 1 .. q - m : m + k - 1 \in 1 .. q - 1 /\ b[m + k - 1].op = "spawn" /\ b[q].args[k] = b[m + k - 1].def

LEMMA JoinAt ==
  ASSUME NEW s, NEW b, NEW at, NEW D, NEW g, NEW q, NEW f, NEW T, Amid(s, b, at, D, g, q, f, T), b[q].op = "await"
  PROVE  \E m \in 1 .. q - 1 : JoinOf(b, q, m)
<1>1. Meant(s, b, at, D) /\ q \in 1 .. Len(b) /\ Len(b) \in Nat /\ DOMAIN b = 1 .. Len(b)
  BY TaskAt DEF Amid
<1>2. PICK m \in 1 .. q - 1 : Joins(b, q, m)
  BY <1>1 DEF Meant, Woven, Awaiting
<1>3. DOMAIN b[q].args = 1 .. q - m
  BY <1>2 DEF Joins
<1>4. \A k \in 1 .. q - m : b[m + k - 1].op = "spawn" /\ b[q].args[k] = b[m + k - 1].def
  BY <1>2 DEF Joins
<1>5. \A k \in 1 .. q - m : m + k - 1 \in 1 .. q - 1
  BY <1>1
<1> QED BY <1>3, <1>4, <1>5 DEF JoinOf

\* All tasks of the join at q are over, and h throws what the first of them threw that did.
Throwing(b, q, T, h) ==
  /\ \A j \in DOMAIN b[q].args : T[b[q].args[j]].state \in TaskOver
  /\ \E n \in DOMAIN b[q].args :
       /\ T[b[q].args[n]].state = "threw" /\ h.exc = T[b[q].args[n]].call.node
       /\ \A j \in DOMAIN b[q].args : T[b[q].args[j]].state = "threw" => n <= j

\* The join throws what the first of its tasks threw.
LEMMA AwaitThrows ==
  ASSUME NEW s, NEW b, NEW at, NEW D, NEW g, NEW q, NEW f, NEW T, Amid(s, b, at, D, g, q, f, T), b[q].op = "await",
         NEW h, Throwing(b, q, T, h)
  PROVE  Concluded(s, D, h, "unwound")
<1>1. Reached(b, g, q, T, Ran(f)) /\ Meant(s, b, at, D) /\ Told(D, T)
  BY DEF Amid, Good
<1>2. PICK m \in 1 .. q - 1 : JoinOf(b, q, m)
  BY JoinAt
<1>3. /\ q \in 1 .. Len(b) /\ Len(b) \in Nat /\ DOMAIN b = 1 .. Len(b)
      /\ \A k \in 1 .. q - 1 : b[k].op = "spawn" => k \in Starts(b) /\ b[k].def \in DOMAIN T /\ T[b[k].def].call = b[k]
      /\ \A j, k \in DOMAIN b : b[j].op = "spawn" /\ b[k].op = "spawn" /\ b[j].def = b[k].def => j = k
  BY TaskAt
<1>4. PICK n \in DOMAIN b[q].args :
        /\ T[b[q].args[n]].state = "threw" /\ h.exc = T[b[q].args[n]].call.node
        /\ \A j \in DOMAIN b[q].args : T[b[q].args[j]].state = "threw" => n <= j
  BY DEF Throwing
<1>5. \A j \in DOMAIN b[q].args : T[b[q].args[j]].state \in TaskOver
  BY DEF Throwing
<1>6. PICK p : p = m + n - 1
  OBVIOUS
<1>7. n \in 1 .. q - m
  BY <1>2 DEF JoinOf
<1>8. p \in 1 .. q - 1 /\ b[p].op = "spawn" /\ b[q].args[n] = b[p].def
  BY <1>2, <1>6, <1>7 DEF JoinOf
<1>9. p \in Starts(b) /\ b[p].def \in DOMAIN T /\ T[b[p].def].call = b[p]
  BY <1>3, <1>8
<1>10. at[p] \in CallsIn(s) /\ b[p].node = s[at[p]].node
  BY <1>1, <1>9, StartOnce
<1>11. s[at[p]].node \in throws /\ h.exc = s[at[p]].node
  <2>1. T[b[p].def].call.node \in throws
    BY <1>1, <1>4, <1>8, <1>9 DEF Told
  <2> QED BY <1>4, <1>8, <1>9, <1>10, <2>1
<1>12. ASSUME Outsiders = {}, NEW k \in CallsIn(s), k < at[p] PROVE s[k].node \notin throws
  <2>1. PICK l \in Starts(b) : at[l] = k /\ l < p
    BY <1>1, <1>9, <1>12, TurnsBefore
  <2>2. l \in 1 .. q - 1 /\ l < q /\ l \in DOMAIN b
    <3>1. l \in DOMAIN b
      BY DEF Starts
    <3>2. l \in 1 .. Len(b)
      BY <1>3, <3>1
    <3> QED BY <1>3, <1>8, <2>1, <3>1, <3>2
  <2>3. ASSUME b[l].op = "spawn" PROVE T[b[l].def].state = "done"
    <3>1. b[l].def \in DOMAIN T
      BY <1>3, <2>2, <2>3
    <3>2. CASE b[l].def \in ToSet(b[q].args)
      <4>1. PICK j \in DOMAIN b[q].args : b[l].def = b[q].args[j]
        BY <3>2 DEF ToSet
      <4>2. j \in 1 .. q - m
        BY <1>2 DEF JoinOf
      <4>3. m + j - 1 \in 1 .. q - 1 /\ b[m + j - 1].op = "spawn" /\ b[m + j - 1].def = b[l].def
        BY <1>2, <4>1, <4>2 DEF JoinOf
      <4>4. m + j - 1 \in DOMAIN b
        BY <1>3, <4>3
      <4>5. l = m + j - 1
        BY <1>3, <2>2, <2>3, <4>3, <4>4
      <4>6. ~ (n <= j)
        BY <1>3, <1>6, <1>7, <2>1, <4>2, <4>5
      <4>7. T[b[q].args[j]].state \in TaskOver /\ T[b[q].args[j]].state # "threw"
        BY <1>4, <1>5, <4>1, <4>6
      <4> QED BY <4>1, <4>7 DEF TaskOver
    <3>3. CASE b[l].def \notin ToSet(b[q].args)
      BY <1>1, <3>1, <3>3, NonePending
    <3> QED BY <3>2, <3>3
  <2> QED BY <2>1, <2>2, <2>3, PassedWell
<1>13. Outsiders = {} => First(s, at[p])
  BY <1>10, <1>11, <1>12 DEF First
<1> QED BY <1>10, <1>11, <1>13 DEF Concluded

-----------------------------------------------------------------------------
(***************************************************************************)
(* The invariant of the serial and the parallel body.                      *)
(***************************************************************************)
\* What is in a sequence once is there one time.
LEMMA OneTime ==
  ASSUME NEW r, IsInjective(r), NEW x
  PROVE  /\ x \in ToSet(r) => Times(r, x) = 1
         /\ x \notin ToSet(r) => Times(r, x) = 0
<1> DEFINE S == {i \in DOMAIN r : r[i] = x}
<1>1. CASE x \in ToSet(r)
  <2>1. PICK i \in DOMAIN r : r[i] = x
    BY <1>1 DEF ToSet
  <2>2. \A j \in DOMAIN r : r[j] = x => j = i
    BY <2>1 DEF IsInjective
  <2>3. S = {i}
    BY <2>1, <2>2
  <2>4. Times(r, x) = 1
    BY <2>3, FS_Singleton DEF Times
  <2> QED BY <1>1, <2>4
<1>2. CASE x \notin ToSet(r)
  <2>1. S = {}
    BY <1>2 DEF ToSet
  <2>2. Times(r, x) = 0
    BY <2>1, FS_EmptySet DEF Times
  <2> QED BY <1>2, <2>2
<1> QED BY <1>1, <1>2

LEMMA SameTimes ==
  ASSUME NEW r, NEW t, IsInjective(r), IsInjective(t), ToSet(r) = ToSet(t), NEW x
  PROVE  Times(r, x) = Times(t, x)
BY OneTime

\* The call follows the serial body, in the midst of it and at its end.
Follows(s, b, q, f, T) == \E at, D : Meant(s, b, at, D) /\ Good(s, b, at, D, q, f, T)
Closed(s, f, pc)       == \E D : Plain(s) /\ Solves(s, D, Len(s)) /\ Concluded(s, D, f, pc)
Weaves(s, b)           == Plain(s) /\ \E at : Woven(s, b, at)

SerialInv ==
  /\ stagePc = "grouping" => Weaves(serial, body)
  /\ stagePc = "running"  => Sretted(task) \/ Follows(serial, body, pos, frame, task)
  /\ stagePc \in Left     => Sretted(task) \/ Closed(serial, frame, stagePc)

\* What is so of the pipeline stays so.
LEMMA SerialUnmoved ==
  ASSUME pipe' = pipe, throws' = throws, NEW s, NEW b, NEW q, NEW f, NEW T, NEW pc
  PROVE  /\ Weaves(s, b)' <=> Weaves(s, b)
         /\ Follows(s, b, q, f, T)' <=> Follows(s, b, q, f, T)
         /\ Closed(s, f, pc)' <=> Closed(s, f, pc)
         /\ Sretted(T)' <=> Sretted(T)
<1>1. CodeNodes(pipe)' = CodeNodes(pipe) /\ (Outsiders = {})' <=> (Outsiders = {})
  BY DEF CodeNodes, Nodes, Outsiders
<1>2. Plain(s)' <=> Plain(s)
  BY <1>1 DEF Plain
<1>3. \A at : Woven(s, b, at)' <=> Woven(s, b, at)
  <2> SUFFICES ASSUME NEW at PROVE Woven(s, b, at)' <=> Woven(s, b, at)
    OBVIOUS
  <2>1. Turns(b, at)' <=> Turns(b, at)
    BY <1>1 DEF Turns
  <2> QED BY <2>1 DEF Woven
<1>4. \A c : Sret(c)' <=> Sret(c)
  BY DEF Sret
<1>5. \A c : Binds(c)' <=> Binds(c)
  BY DEF Binds
<1>6. \A D, i, e : Gives(s, D, i, e)' <=> Gives(s, D, i, e)
  <2>1. \A D, i, e : Loaded(s, D, i, e)' <=> Loaded(s, D, i, e)
    BY <1>4 DEF Loaded
  <2> QED BY <2>1 DEF Gives
<1>7. \A D : Solves(s, D, Len(s))' <=> Solves(s, D, Len(s))
  <2>1. Bound(s, Len(s))' = Bound(s, Len(s))
    BY <1>5 DEF Bound
  <2> QED BY <1>5, <1>6, <2>1 DEF Solves
<1>8. \A at, D : Meant(s, b, at, D)' <=> Meant(s, b, at, D)
  BY <1>2, <1>3, <1>7 DEF Meant
<1>9. \A at, D : Good(s, b, at, D, q, f, T)' <=> Good(s, b, at, D, q, f, T)
  <2>1. \A D : Holds(D, b, q, f)' <=> Holds(D, b, q, f)
    BY <1>4 DEF Holds
  <2>2. \A D : Told(D, T)' <=> Told(D, T)
    BY DEF Told
  <2> QED BY <2>1, <2>2 DEF Good
<1>10. \A D : Concluded(s, D, f, pc)' <=> Concluded(s, D, f, pc)
  <2>1. \A i : First(s, i)' <=> First(s, i)
    BY DEF First
  <2> QED BY <1>1, <2>1 DEF Concluded
<1>11. Weaves(s, b)' <=> Weaves(s, b)
  BY <1>2, <1>3 DEF Weaves
<1>12. Follows(s, b, q, f, T)' <=> Follows(s, b, q, f, T)
  BY <1>8, <1>9 DEF Follows
<1>13. Closed(s, f, pc)' <=> Closed(s, f, pc)
  BY <1>2, <1>7, <1>10 DEF Closed
<1>14. Sretted(T)' <=> Sretted(T)
  BY DEF Sretted
<1> QED BY <1>11, <1>12, <1>13, <1>14

LEMMA SerialReckoned ==
  ASSUME pipe' = pipe, throws' = throws,
         stagePc' = "grouping" => Weaves(serial', body'),
         stagePc' = "running"  => Sretted(task') \/ Follows(serial', body', pos', frame', task'),
         stagePc' \in Left     => Sretted(task') \/ Closed(serial', frame', stagePc')
  PROVE  SerialInv'
<1>1. PICK s, b, q, f, T, pc : s = serial' /\ b = body' /\ q = pos' /\ f = frame' /\ T = task' /\ pc = stagePc'
  OBVIOUS
<1>2. /\ Weaves(s, b)' <=> Weaves(s, b)
      /\ Follows(s, b, q, f, T)' <=> Follows(s, b, q, f, T)
      /\ Closed(s, f, pc)' <=> Closed(s, f, pc)
      /\ Sretted(T)' <=> Sretted(T)
  BY SerialUnmoved
<1>3. (stagePc = "grouping" => Weaves(serial, body))'
  BY <1>1, <1>2
<1>4. (stagePc = "running" => Sretted(task) \/ Follows(serial, body, pos, frame, task))'
  BY <1>1, <1>2
<1>5. (stagePc \in Left => Sretted(task) \/ Closed(serial, frame, stagePc))'
  BY <1>1, <1>2 DEF Left
<1> QED BY <1>3, <1>4, <1>5 DEF SerialInv

\* Before the call: the body that is given or generated, and the groups.
LEMMA SerialGenerate == ASSUME Inv, Generate PROVE SerialInv'
<1>1. /\ Setting /\ stagePc = "stub" /\ UNCHANGED <<pipe, throws>>
      /\ \/ stagePc' = "broken"
         \/ stagePc' = "grouping" /\ body' = pipe.body /\ serial' = pipe.body /\ pipe.body # << >>
         \/ /\ stagePc' = "grouping" /\ body' = Generated.code \o Return(Generated) /\ serial' = body'
            /\ Generated.ok /\ Return(Generated) # << >>
  BY DEF Inv, Generate
<1>2. ASSUME NEW s, Plain(s) PROVE Weaves(s, s)
  BY <1>2, WovenSelf DEF Weaves
<1>3. CASE stagePc' = "broken"
  BY <1>1, <1>3, SerialReckoned DEF Left
<1>4. CASE stagePc' = "grouping" /\ body' = pipe.body /\ serial' = pipe.body /\ pipe.body # << >>
  <2>1. Plain(pipe.body)
    BY <1>1, <1>4, HandMadePlain DEF Setting
  <2>2. Weaves(serial', body')
    BY <1>2, <1>4, <2>1
  <2> QED BY <1>1, <1>4, <2>2, SerialReckoned DEF Left
<1>5. CASE /\ stagePc' = "grouping" /\ body' = Generated.code \o Return(Generated) /\ serial' = body'
           /\ Generated.ok /\ Return(Generated) # << >>
  <2>1. Plain(Generated.code \o Return(Generated))
    BY <1>1, <1>5, GeneratedPlain
  <2>2. Weaves(serial', body')
    BY <1>2, <1>5, <2>1
  <2> QED BY <1>1, <1>5, <2>2, SerialReckoned DEF Left
<1> QED BY <1>1, <1>3, <1>4, <1>5

LEMMA SerialParallelize == ASSUME Inv, SerialInv, Parallelize PROVE SerialInv'
<1>1. /\ Setting /\ stagePc = "grouping" /\ group \in Nat \ {0} /\ BodyOk(body, group) /\ Weaves(serial, body)
      /\ pos = 1 /\ frame = Begin /\ task = << >> /\ UNCHANGED <<pipe, throws, serial, pos, frame, task>>
  BY DEF Inv, SerialInv, Parallelize, Resting
<1>2. CASE /\ group <= Len(pipe.groups) /\ body' = Grouped(body, pipe.groups[group]) /\ stagePc' = stagePc
  <2>1. group \in DOMAIN pipe.groups
    BY <1>1, <1>2 DEF Setting, PipelineOk
  <2>2. Plain(serial) /\ PipelineOk(pipe)
    BY <1>1 DEF Weaves, Setting
  <2>3. PICK at : Woven(serial, body, at)
    BY <1>1 DEF Weaves
  <2>4. \E e : Woven(serial, Grouped(body, pipe.groups[group]), e)
    BY <1>1, <2>1, <2>2, <2>3, GroupedWoven
  <2>5. Weaves(serial', body')
    BY <1>1, <1>2, <2>2, <2>4 DEF Weaves
  <2> QED BY <1>1, <1>2, <2>5, SerialReckoned DEF Left
<1>3. CASE stagePc' = "running" /\ body' = body
  <2>1. PICK at : Plain(serial) /\ Woven(serial, body, at)
    BY <1>1 DEF Weaves
  <2>2. PICK D : Solves(serial, D, Len(serial))
    BY <2>1, Denotes
  <2>3. Meant(serial, body, at, D)
    BY <1>1, <2>1, <2>2 DEF Meant, BodyOk
  <2>4. Good(serial, body, at, D, 1, Begin, << >>)
    BY GoodBegin
  <2>5. Follows(serial, body, 1, Begin, << >>)
    BY <2>3, <2>4 DEF Follows
  <2>6. Follows(serial', body', pos', frame', task')
    BY <1>1, <1>3, <2>5
  <2> QED BY <1>1, <1>3, <2>6, SerialReckoned DEF Left
<1> QED BY <1>2, <1>3 DEF Parallelize

\* A task of a stage that returns through sret stays one.
LEMMA SrettedStays ==
  ASSUME NEW T, NEW U, Sretted(T), DOMAIN T \subseteq DOMAIN U, \A h \in DOMAIN T : U[h].call.node = T[h].call.node
  PROVE  Sretted(U)
BY DEF Sretted

\* In the midst of the call.
LEMMA InTheMidst ==
  ASSUME Inv, SerialInv, stagePc = "running", ~ Sretted(task)
  PROVE  \E at, D : Amid(serial, body, at, D, group, pos, frame, task)
<1>1. PICK at, D : Meant(serial, body, at, D) /\ Good(serial, body, at, D, pos, frame, task)
  BY DEF SerialInv, Follows
<1>2. Reached(body, group, pos, task, Ran(frame)) /\ IsFrame(frame) /\ frame.exc = "none"
  BY RunningIs
<1> QED BY <1>1, <1>2 DEF Amid

\* The instructions, one by one.
LEMMA SerialStraight ==
  ASSUME Inv, SerialInv, stagePc = "running", Straight, pos' = pos + 1, UNCHANGED <<pipe, throws, body, group, serial>>
  PROVE  SerialInv'
<1>1. /\ Here.op \notin {"spawn", "await", "fetch"} /\ Here = body[pos] /\ task' = task
      /\ frame' = Step(frame, Here)
      /\ stagePc' = IF frame'.exc # "none" THEN "unwound" ELSE IF Here.op = "ret" THEN "returned" ELSE "running"
  BY DEF Straight, Here
<1>2. CASE Sretted(task)
  BY <1>1, <1>2, SerialReckoned DEF Left
<1>3. CASE ~ Sretted(task)
  <2>1. PICK at, D : Amid(serial, body, at, D, group, pos, frame, task)
    BY <1>3, InTheMidst
  <2>2. /\ Meant(serial, body, at, D) /\ Good(serial, body, at, D, pos, frame, task) /\ IsFrame(frame) /\ frame.exc = "none"
        /\ pos \in DOMAIN body /\ Direct(body, pos) /\ Setting /\ Plain(serial) /\ Solves(serial, D, Len(serial))
    <3>1. Meant(serial, body, at, D) /\ Good(serial, body, at, D, pos, frame, task) /\ IsFrame(frame) /\ frame.exc = "none"
      BY <2>1 DEF Amid
    <3>2. pos \in DOMAIN body /\ Direct(body, pos) /\ Setting
      BY <2>1, TaskAt
    <3> QED BY <3>1, <3>2 DEF Meant
  <2>3. PICK h : h = frame'
    OBVIOUS
  <2>4. CASE Here.op = "call" /\ Here.node \in throws
    <3>1. h.exc = Here.node
      BY <1>1, <2>2, <2>3, <2>4, StepIs
    <3>2. Here.node # "none"
      BY <2>2, <2>4 DEF Inv, CodeNodes, Setting, PipelineOk
    <3>3. stagePc' = "unwound"
      BY <1>1, <2>3, <3>1, <3>2
    <3>4. Concluded(serial, D, h, "unwound")
      BY <1>1, <2>1, <2>4, <3>1, AfterThrow
    <3>5. Closed(serial', frame', stagePc')
      BY <2>2, <2>3, <3>3, <3>4 DEF Closed
    <3> QED BY <3>3, <3>5, SerialReckoned DEF Left
  <2>5. CASE ~ (Here.op = "call" /\ Here.node \in throws)
    <3>1. h.exc = "none" /\ Good(serial, body, at, D, pos + 1, h, task)
      BY <1>1, <2>2, <2>3, <2>5, StepGood
    <3>2. CASE Here.op = "ret"
      <4>1. stagePc' = "returned"
        BY <1>1, <2>3, <3>1, <3>2
      <4>2. Concluded(serial, D, h, "returned")
        BY <1>1, <2>1, <2>3, <3>2, AfterReturn
      <4>3. Closed(serial', frame', stagePc')
        BY <2>2, <2>3, <4>1, <4>2 DEF Closed
      <4> QED BY <4>1, <4>3, SerialReckoned DEF Left
    <3>3. CASE Here.op # "ret"
      <4>1. stagePc' = "running"
        BY <1>1, <2>3, <3>1, <3>3
      <4>2. Follows(serial, body, pos + 1, h, task)
        BY <2>2, <3>1 DEF Follows
      <4>3. Follows(serial', body', pos', frame', task')
        BY <1>1, <2>3, <4>2
      <4> QED BY <4>1, <4>3, SerialReckoned DEF Left
    <3> QED BY <3>2, <3>3
  <2> QED BY <2>4, <2>5
<1> QED BY <1>2, <1>3

LEMMA SerialSpawn ==
  ASSUME Inv, SerialInv, stagePc = "running", SpawnTask, pos' = pos + 1, UNCHANGED <<pipe, throws, body, group, serial>>
  PROVE  SerialInv'
<1>1. /\ Here.op = "spawn" /\ Here = body[pos] /\ frame' = frame /\ stagePc' = "running"
      /\ task' = Put(task, Here.def, [state |-> "queued", call |-> Here, args |-> Values(frame, Here), result |-> Undef])
  BY DEF SpawnTask, Here
<1>2. /\ Reached(body, group, pos, task, Ran(frame)) /\ IsTasks(task) /\ Here \in AnyIns /\ BodyOk(body, group)
      /\ pos \in DOMAIN body
  BY RunningIs
<1>3. PICK c, a, h, U : c = Here /\ a = Values(frame, Here) /\ h = Here.def /\ U = task'
  OBVIOUS
<1>4. U = Put(task, h, [state |-> "queued", call |-> c, args |-> a, result |-> Undef])
  BY <1>1, <1>3
<1>5. Given(task, U, h, c)
  BY <1>2, <1>3, <1>4, TaskPut
<1>6. ASSUME Sretted(task) PROVE Sretted(U)
  <2>1. DOMAIN task \subseteq DOMAIN U /\ U[h].call = c /\ \A y \in DOMAIN task : y # h => U[y] = task[y]
    BY <1>5 DEF Given
  <2>2. ASSUME h \in DOMAIN task PROVE task[h].call.node = c.node
    <3>1. PICK k \in 1 .. pos - 1 : body[k].op = "spawn" /\ body[k].def = h /\ task[h].call = body[k]
      BY <1>2, <2>2 DEF Reached, Carried
    <3>2. k \in DOMAIN body
      BY <1>2, <3>1 DEF BodyOk
    <3>3. body[k].def = Task(body[k].id) /\ body[pos].def = Task(body[pos].id)
      BY <1>1, <1>2, <3>1, <3>2 DEF BodyOk, Forked
    <3>4. body[k].id = body[pos].id
      BY <1>1, <1>3, <3>1, <3>3, HandlesDiffer
    <3>5. k \in Starts(body) /\ pos \in Starts(body)
      BY <1>1, <1>2, <3>1, <3>2 DEF Starts
    <3>6. body[k].node = body[pos].node
      BY <1>2, <3>4, <3>5 DEF BodyOk, Named
    <3> QED BY <1>1, <1>3, <3>1, <3>6
  <2>3. \A y \in DOMAIN task : U[y].call.node = task[y].call.node
    BY <2>1, <2>2
  <2> QED BY <1>6, <2>1, <2>3, SrettedStays
<1>7. CASE Sretted(task)
  BY <1>1, <1>3, <1>6, <1>7, SerialReckoned DEF Left
<1>8. CASE ~ Sretted(task)
  <2>1. PICK at, D : Amid(serial, body, at, D, group, pos, frame, task)
    BY <1>8, InTheMidst
  <2>2. U = Put(task, body[pos].def,
                [state |-> "queued", call |-> body[pos], args |-> Values(frame, body[pos]), result |-> Undef])
    BY <1>1, <1>3
  <2>3. Good(serial, body, at, D, pos + 1, frame, U)
    BY <1>1, <2>1, <2>2, AfterSpawn
  <2>4. Follows(serial, body, pos + 1, frame, U)
    BY <2>1, <2>3 DEF Follows, Amid
  <2>5. Follows(serial', body', pos', frame', task')
    BY <1>1, <1>3, <2>4
  <2> QED BY <1>1, <2>5, SerialReckoned DEF Left
<1> QED BY <1>7, <1>8

LEMMA SerialAwait ==
  ASSUME Inv, SerialInv, stagePc = "running", AwaitAll, pos' = pos + 1, UNCHANGED <<pipe, throws, body, group, serial>>
  PROVE  SerialInv'
<1> DEFINE threw == {i \in DOMAIN Here.args : task[Here.args[i]].state = "threw"}
           who == task[Here.args[Min(threw)]].call.node
<1>1. /\ Here.op = "await" /\ Here = body[pos] /\ task' = task
      /\ \A i \in DOMAIN Here.args : task[Here.args[i]].state \in TaskOver
      /\ IF threw = {} THEN frame' = frame /\ stagePc' = "running"
         ELSE frame' = [frame EXCEPT !.exc = who] /\ stagePc' = "unwound"
  BY DEF AwaitAll, Here
<1>2. stagePc' \in {"running", "unwound"}
  BY <1>1
<1>3. CASE Sretted(task)
  BY <1>1, <1>2, <1>3, SerialReckoned DEF Left
<1>4. CASE ~ Sretted(task)
  <2>1. PICK at, D : Amid(serial, body, at, D, group, pos, frame, task)
    BY <1>4, InTheMidst
  <2>2. Meant(serial, body, at, D) /\ IsFrame(frame)
    BY <2>1 DEF Amid
  <2>3. CASE threw = {}
    <3>1. Good(serial, body, at, D, pos + 1, frame, task)
      BY <1>1, <2>1, AfterAwait
    <3>2. Follows(serial, body, pos + 1, frame, task)
      BY <2>2, <3>1 DEF Follows
    <3>3. frame' = frame /\ stagePc' = "running"
      BY <1>1, <2>3
    <3>4. Follows(serial', body', pos', frame', task')
      BY <1>1, <3>2, <3>3
    <3> QED BY <3>3, <3>4, SerialReckoned DEF Left
  <2>4. CASE threw # {}
    <3>1. frame' = [frame EXCEPT !.exc = who] /\ stagePc' = "unwound"
      BY <1>1, <2>4
    <3>2. PICK e, h : e = who /\ h = frame'
      OBVIOUS
    <3>3. h.exc = e
      <4>1. Sets(frame, [frame EXCEPT !["exc"] = e], "exc", e)
        <5>1. "exc" \in FrameFields \ {"ran"}
          BY DEF FrameFields
        <5> QED BY <2>2, <5>1, FieldSet
      <4>2. h = [frame EXCEPT !["exc"] = e]
        BY <3>1, <3>2
      <4> QED BY <4>1, <4>2 DEF Sets
    <3>4. threw \in SUBSET Nat
      <4>1. PICK m \in 1 .. pos - 1 : JoinOf(body, pos, m)
        BY <1>1, <2>1, JoinAt
      <4>2. DOMAIN Here.args = 1 .. pos - m
        BY <1>1, <4>1 DEF JoinOf
      <4>3. DOMAIN Here.args \subseteq Nat
        BY <4>2
      <4> QED BY <4>3
    <3>5. Min(threw) \in threw /\ \A y \in threw : Min(threw) <= y
      BY <2>4, <3>4, LeastIn
    <3>6. Throwing(body, pos, task, h)
      <4>1. PICK n : n = Min(threw)
        OBVIOUS
      <4>2. /\ n \in DOMAIN body[pos].args /\ task[body[pos].args[n]].state = "threw"
            /\ \A j \in DOMAIN body[pos].args : task[body[pos].args[j]].state = "threw" => n <= j
        BY <1>1, <3>5, <4>1
      <4>3. h.exc = task[body[pos].args[n]].call.node
        BY <1>1, <3>2, <3>3, <4>1
      <4>4. \A j \in DOMAIN body[pos].args : task[body[pos].args[j]].state \in TaskOver
        BY <1>1
      <4> HIDE DEF threw, who
      <4> QED BY <4>2, <4>3, <4>4 DEF Throwing
    <3>7. Concluded(serial, D, h, "unwound")
      BY <1>1, <2>1, <3>6, AwaitThrows
    <3>8. Closed(serial', frame', stagePc')
      BY <2>2, <3>1, <3>2, <3>7 DEF Closed, Meant
    <3> QED BY <3>1, <3>8, SerialReckoned DEF Left
  <2> QED BY <2>3, <2>4
<1> QED BY <1>3, <1>4

LEMMA SerialFetch ==
  ASSUME Inv, SerialInv, stagePc = "running", FetchResult, pos' = pos + 1, UNCHANGED <<pipe, throws, body, group, serial>>
  PROVE  SerialInv'
<1>1. /\ Here.op = "fetch" /\ Here = body[pos] /\ task' = task /\ stagePc' = "running"
      /\ frame' = Bind(frame, Here.def, task[Task(Here.id)].result)
  BY DEF FetchResult, Here
<1>2. CASE Sretted(task)
  BY <1>1, <1>2, SerialReckoned DEF Left
<1>3. CASE ~ Sretted(task)
  <2>1. PICK at, D : Amid(serial, body, at, D, group, pos, frame, task)
    BY <1>3, InTheMidst
  <2>2. PICK h : h = frame'
    OBVIOUS
  <2>3. h = Bind(frame, body[pos].def, task[Task(body[pos].id)].result)
    BY <1>1, <2>2
  <2>4. Good(serial, body, at, D, pos + 1, h, task)
    BY <1>1, <2>1, <2>3, AfterFetch
  <2>5. Follows(serial, body, pos + 1, h, task)
    BY <2>1, <2>4 DEF Follows, Amid
  <2>6. Follows(serial', body', pos', frame', task')
    BY <1>1, <2>2, <2>5
  <2> QED BY <1>1, <2>6, SerialReckoned DEF Left
<1> QED BY <1>2, <1>3

\* Tasks run while the body is in the midst of the call.
LEMMA TasksRunAmid == ASSUME Inv, NEW id \in DOMAIN task, task[id].state \notin TaskOver PROVE stagePc = "running"
<1>1. stagePc \notin Resting
  BY BeginIs DEF Inv
<1>2. stagePc \notin Left
  BY DEF Inv
<1> QED BY <1>1, <1>2 DEF Inv

LEMMA GoesSretted == ASSUME NEW T, NEW U, NEW id \in DOMAIN T, NEW x, NEW e, Goes(T, U, id, x, e) PROVE Sretted(T) <=> Sretted(U)
<1>1. DOMAIN U = DOMAIN T /\ \A h \in DOMAIN T : U[h].call = T[h].call
  BY DEF Goes
<1> QED BY <1>1 DEF Sretted

LEMMA SerialTaskStep ==
  ASSUME Inv, SerialInv, stagePc = "running", UNCHANGED <<pipe, throws, stagePc, body, group, serial, pos>>,
         NEW id \in DOMAIN task, NEW x, NEW e, Goes(task, task', id, x, e),
         \A at, D : Amid(serial, body, at, D, group, pos, frame, task) => Good(serial, body, at, D, pos, frame', task')
  PROVE  SerialInv'
<1>1. PICK U, h : U = task' /\ h = frame'
  OBVIOUS
<1>2. Sretted(task) <=> Sretted(U)
  <2>1. Goes(task, U, id, x, e)
    BY <1>1
  <2> QED BY <2>1, GoesSretted
<1>3. CASE Sretted(task)
  BY <1>1, <1>2, <1>3, SerialReckoned DEF Left
<1>4. CASE ~ Sretted(task)
  <2>1. PICK at, D : Amid(serial, body, at, D, group, pos, frame, task)
    BY <1>4, InTheMidst
  <2>2. Good(serial, body, at, D, pos, h, U)
    BY <1>1, <2>1
  <2>3. Follows(serial, body, pos, h, U)
    BY <2>1, <2>2 DEF Follows, Amid
  <2>4. Follows(serial', body', pos', frame', task')
    BY <1>1, <2>3
  <2> QED BY <2>4, SerialReckoned DEF Left
<1> QED BY <1>3, <1>4

LEMMA SerialBegins == ASSUME Inv, SerialInv, NEW id \in DOMAIN task, TaskBegins(id) PROVE SerialInv'
<1>1. /\ task[id].state = "queued" /\ task' = [task EXCEPT ![id].state = "running"]
      /\ UNCHANGED <<pipe, throws, stagePc, body, group, serial, pos, frame>>
  BY DEF TaskBegins
<1>2. stagePc = "running"
  BY <1>1, TasksRunAmid DEF TaskOver
<1>3. IsTasks(task)
  BY DEF Inv
<1>4. PICK U, e : U = task' /\ e = task[id].result
  OBVIOUS
<1>5. Goes(task, U, id, "running", e)
  BY <1>1, <1>3, <1>4, TaskGoes
<1>6. ASSUME NEW at, NEW D, Amid(serial, body, at, D, group, pos, frame, task)
      PROVE  Good(serial, body, at, D, pos, frame', task')
  <2>1. Good(serial, body, at, D, pos, frame, U)
    BY <1>1, <1>5, <1>6, AfterBegin
  <2> QED BY <1>1, <1>4, <2>1
<1>7. Goes(task, task', id, "running", e)
  BY <1>4, <1>5
<1> QED BY <1>1, <1>2, <1>6, <1>7, SerialTaskStep

LEMMA SerialEnds == ASSUME Inv, SerialInv, NEW id \in DOMAIN task, TaskEnds(id) PROVE SerialInv'
<1> DEFINE n == task[id].call.node
           x == IF n \in throws THEN "threw" ELSE "done"
           t == <<n, task[id].args>>
           e == IF n \in throws THEN task[id].result ELSE t
<1>1. /\ task[id].state = "running" /\ task' = [task EXCEPT ![id].state = x, ![id].result = e]
      /\ frame' = [frame EXCEPT !.ran = Append(@, <<task[id].call.id, t>>)]
      /\ UNCHANGED <<pipe, throws, stagePc, body, group, serial, pos>>
  BY DEF TaskEnds
<1>2. stagePc = "running"
  BY <1>1, TasksRunAmid DEF TaskOver
<1>3. IsTasks(task) /\ IsFrame(frame)
  BY DEF Inv
<1>4. x \in TaskOver /\ (x = "done" => e = <<task[id].call.node, task[id].args>>) /\ (x = "threw" => task[id].call.node \in throws)
  BY DEF TaskOver
<1>5. PICK y, r, U, h : y = x /\ r = e /\ U = task' /\ h = frame'
  OBVIOUS
<1>6. Goes(task, U, id, y, r)
  BY <1>1, <1>3, <1>5, TaskGoes
<1>7. y \in TaskOver /\ (y = "done" => r = <<task[id].call.node, task[id].args>>) /\ (y = "threw" => task[id].call.node \in throws)
  BY <1>4, <1>5
<1>8. h.env = frame.env /\ h.mem = frame.mem /\ h.ran = Append(frame.ran, <<task[id].call.id, <<task[id].call.node, task[id].args>>>>)
  <2>1. PICK V : frame \in [FrameFields -> V]
    BY <1>3 DEF IsFrame
  <2>2. \A z : LET k == [frame EXCEPT !.ran = z] IN k.env = frame.env /\ k.mem = frame.mem /\ k.ran = z
    BY <2>1 DEF FrameFields
  <2> QED BY <1>1, <1>5, <2>2
<1> HIDE DEF x, e, t, n
<1>9. ASSUME NEW at, NEW D, Amid(serial, body, at, D, group, pos, frame, task)
      PROVE  Good(serial, body, at, D, pos, frame', task')
  <2>1. Good(serial, body, at, D, pos, h, U)
    BY <1>1, <1>6, <1>7, <1>8, <1>9, AfterEnd
  <2> QED BY <1>5, <2>1
<1>10. Goes(task, task', id, y, r)
  BY <1>5, <1>6
<1> QED BY <1>1, <1>2, <1>9, <1>10, SerialTaskStep

\* Every step keeps it.
LEMMA SerialNext == Inv /\ SerialInv /\ [StageNext]_stageVars => SerialInv'
<1> SUFFICES ASSUME Inv, SerialInv, [StageNext]_stageVars PROVE SerialInv'
  OBVIOUS
<1>1. CASE Generate
  BY <1>1, SerialGenerate
<1>2. CASE Parallelize
  BY <1>2, SerialParallelize
<1>3. CASE Exec
  <2>1. stagePc = "running" /\ pos' = pos + 1 /\ UNCHANGED <<pipe, throws, body, group, serial>>
        /\ (Straight \/ SpawnTask \/ AwaitAll \/ FetchResult)
    BY <1>3 DEF Exec
  <2> QED BY <2>1, SerialStraight, SerialSpawn, SerialAwait, SerialFetch
<1>4. ASSUME NEW id \in DOMAIN task, TaskBegins(id) \/ TaskEnds(id) PROVE SerialInv'
  BY <1>4, SerialBegins, SerialEnds
<1>5. CASE UNCHANGED stageVars
  <2>1. UNCHANGED <<pipe, throws, stagePc, body, group, serial, pos, frame, task>>
    BY <1>5 DEF stageVars
  <2> QED BY <2>1, SerialReckoned DEF SerialInv
<1> QED BY <1>1, <1>2, <1>3, <1>4, <1>5 DEF StageNext, Ended

LEMMA SerialInit == StageInit => SerialInv
BY DEF StageInit, SerialInv, Left

\* What the invariant says of the end.
LEMMA SerialThen == Inv /\ SerialInv => ParallelIsSerial
<1> SUFFICES ASSUME Inv, SerialInv, ~ SretTasks PROVE SameResult
  BY DEF ParallelIsSerial
<1>1. ~ Sretted(task)
  BY DEF SretTasks, Sretted
<1>2. CASE stagePc \notin Left
  BY <1>2 DEF SameResult, Left
<1>3. CASE stagePc \in Left
  <2>1. PICK D : Plain(serial) /\ Solves(serial, D, Len(serial)) /\ Concluded(serial, D, frame, stagePc)
    BY <1>1, <1>3 DEF SerialInv, Closed
  <2>2. PICK e : e = SerialEnd
    OBVIOUS
  <2>3. SerialOk(serial, D, e)
    BY <2>1, <2>2, SerialEndIs DEF Inv
  <2>4. CASE stagePc = "returned"
    <3>1. /\ \A i \in CallsIn(serial) : serial[i].node \notin throws
          /\ frame.result = Results(D, serial) /\ IsInjective(frame.ran)
          /\ ToSet(frame.ran) = {Noted(serial, D, i) : i \in CallsIn(serial)}
      BY <2>1, <2>4 DEF Concluded
    <3>2. /\ e.exc = "none" /\ e.result = Results(D, serial) /\ IsInjective(e.ran)
          /\ ToSet(e.ran) = {Noted(serial, D, i) : i \in CallsIn(serial)}
      BY <2>3, <3>1 DEF SerialOk
    <3>3. \A y : Times(frame.ran, y) = Times(e.ran, y)
      BY <3>1, <3>2, SameTimes
    <3> QED BY <2>2, <2>4, <3>1, <3>2, <3>3 DEF SameResult
  <2>5. CASE stagePc = "unwound"
    <3>1. PICK i \in CallsIn(serial) : serial[i].node \in throws /\ frame.exc = serial[i].node /\ (Outsiders = {} => First(serial, i))
      BY <2>1, <2>5 DEF Concluded
    <3>2. e.exc # "none" /\ (Outsiders = {} => e.exc = frame.exc)
      BY <2>3, <3>1 DEF SerialOk
    <3> QED BY <2>2, <2>5, <3>2 DEF SameResult
  <2> QED BY <1>3, <2>4, <2>5 DEF Left
<1> QED BY <1>2, <1>3

-----------------------------------------------------------------------------
(***************************************************************************)
(* What the passes promise, for every pipeline that is well formed.        *)
(***************************************************************************)
\* The activation of the pipeline, whose argument structures and result buffers
\* the tasks use, is not left while a task can still run.
THEOREM StageFrameOutlivesTasks == StageSpec => []FrameOutlivesTasks
<1>1. Inv => FrameOutlivesTasks
  BY DEF Inv, FrameOutlivesTasks, Left
<1> QED BY <1>1, InvAlways, PTL

\* Every operand is defined before it is used, and a stage starts after all the
\* stages upstream of it have returned.
THEOREM StageOrder == StageSpec => []StagesOrdered
<1>1. Inv => OperandsDominate
  BY DEF Inv, OperandsDominate, BodyOk, OperandsIn
<1>2. Inv => EdgesOrder
  <2> SUFFICES ASSUME Inv, NEW i \in DOMAIN pipe.edges, pipe.edges[i][2] \in StartedNodes,
                      pipe.edges[i][1] \in CodeNodes(pipe)
               PROVE  pipe.edges[i][1] \in EndedNodes
    BY DEF EdgesOrder
  <2>1. Ordered(task, Ran(frame))
    BY DEF Inv
  <2>2. StartedNodes \subseteq Ran(frame) \cup {task[h].call.node : h \in DOMAIN task}
    BY DEF StartedNodes, Ran
  <2>3. EndedNodes = Ran(frame) \ throws
    BY DEF EndedNodes, Ran
  <2> QED BY <2>1, <2>2, <2>3 DEF Ordered
<1>3. Inv => StagesOrdered
  BY <1>1, <1>2 DEF StagesOrdered
<1> QED BY <1>3, InvAlways, PTL

\* A pipeline whose stages were made parallel makes the calls of the serial one,
\* with the same arguments, and returns or throws what that does, unless a stage
\* that returns through sret was made a task.
THEOREM StageParallelIsSerial == StageSpec => []ParallelIsSerial
<1>1. StageInit => Inv /\ SerialInv
  BY InvInit, SerialInit
<1>2. (Inv /\ SerialInv) /\ [StageNext]_stageVars => (Inv /\ SerialInv)'
  BY InvNext, SerialNext
<1>3. Inv /\ SerialInv => ParallelIsSerial
  BY SerialThen
<1> QED BY <1>1, <1>2, <1>3, PTL DEF StageSpec
=============================================================================
