----------------------------- MODULE FoldLemmas -----------------------------
(***************************************************************************)
(* What the proofs share: induction, and folds over sequences.             *)
(***************************************************************************)
EXTENDS Naturals, Sequences, FiniteSets, FiniteSetsExt, SequencesExt,
        FiniteSetTheorems, NaturalsInduction, WellFoundedInduction, TLAPS

-----------------------------------------------------------------------------
(***************************************************************************)
(* Induction over the numbers, for sets.                                   *)
(***************************************************************************)
\* A set of naturals that is not empty has a least member.
LEMMA NatMin ==
  ASSUME NEW T \in SUBSET Nat, T # {}
  PROVE  \E n \in T : \A m \in T : n <= m
<1> DEFINE R == {ss \in Nat \X Nat : ss[1] < ss[2]}
<1>1. IsWellFoundedOn(R, Nat)
  BY NatLessThanWellFounded DEF OpToRel
<1>2. \A m, n \in Nat : m < n => <<m, n>> \in R
  OBVIOUS
<1> HIDE DEF R
<1>3. PICK n \in T : \A m \in T : <<m, n>> \notin R
  BY <1>1, WFMin
<1>4. ASSUME NEW m \in T PROVE n <= m
  <2>1. m \in Nat /\ n \in Nat
    OBVIOUS
  <2>2. <<m, n>> \notin R
    BY <1>3
  <2>3. ~(m < n)
    BY <1>2, <2>1, <2>2
  <2> QED BY <2>1, <2>3
<1> QED BY <1>4

\* A set of numbers that has 0 and with a number the next one has them all.
LEMMA AllNumbers ==
  ASSUME NEW T \in SUBSET Nat, 0 \in T, \A n \in T : n + 1 \in T
  PROVE  T = Nat
<1> SUFFICES ASSUME Nat \ T # {} PROVE FALSE
  OBVIOUS
<1>1. PICK n \in Nat \ T : \A m \in Nat \ T : n <= m
  BY NatMin
<1>2. n # 0 /\ n - 1 \in Nat /\ n - 1 \in T
  BY <1>1
<1> QED BY <1>1, <1>2

-----------------------------------------------------------------------------
(***************************************************************************)
(* Folds over a sequence go from one element to the next.                  *)
(***************************************************************************)
\* The greatest number of a set that holds the greatest one there can be.
LEMMA GreatestIs ==
  ASSUME NEW n \in Nat, NEW s \in SUBSET (1 .. n + 1), n + 1 \in s
  PROVE  Max(s) = n + 1
<1>1. \A y \in s : n + 1 >= y
  OBVIOUS
<1>2. \A x \in s : (\A y \in s : x >= y) => x = n + 1
  OBVIOUS
<1> QED BY <1>1, <1>2 DEF Max

\* A finite set of numbers has a greatest member.
LEMMA GreatestIn ==
  ASSUME NEW n \in Nat, NEW s \in SUBSET (1 .. n), s # {}
  PROVE  Max(s) \in s
<1> DEFINE K == {m \in Nat : \A t \in SUBSET (1 .. m) : t # {} => Max(t) \in t}
<1>1. 0 \in K
  <2>1. 1 .. 0 = {}
    OBVIOUS
  <2> QED BY <2>1
<1>2. ASSUME NEW m \in K PROVE m + 1 \in K
  <2> SUFFICES ASSUME NEW t \in SUBSET (1 .. m + 1), t # {} PROVE Max(t) \in t
    OBVIOUS
  <2>1. CASE m + 1 \in t
    BY <2>1, GreatestIs
  <2>2. CASE m + 1 \notin t
    <3>1. t \in SUBSET (1 .. m)
      BY <2>2
    <3> QED BY <3>1
  <2> QED BY <2>1, <2>2
<1>3. K = Nat
  <2>1. K \in SUBSET Nat
    OBVIOUS
  <2> HIDE DEF K
  <2> QED BY <1>1, <1>2, <2>1, AllNumbers
<1> QED BY <1>3

\* What is left of 1 .. i without its greatest member.
LEMMA Shortened ==
  ASSUME NEW n \in Nat, NEW i \in 1 .. n
  PROVE  1 .. i # {} /\ Max(1 .. i) = i /\ (1 .. i) \ {Max(1 .. i)} = 1 .. (i - 1)
<1>1. i - 1 \in Nat /\ (i - 1) + 1 = i /\ i \in 1 .. i
  OBVIOUS
<1>2. Max(1 .. i) = i
  BY <1>1, GreatestIs
<1>3. (1 .. i) \ {i} = 1 .. (i - 1)
  OBVIOUS
<1> QED BY <1>1, <1>2, <1>3

\* The function a fold is defined by: F steps from the value for the places before.
Folding(n, b, F, G) ==
  \A s \in SUBSET (1 .. n) : G[s] = IF s = {} THEN b ELSE F[<<G[s \ {Max(s)}], Max(s)>>]

\* There is a function that folds every subset, whatever is folded.
LEMMA FoldingExists ==
  ASSUME NEW n \in Nat, NEW T, NEW b \in T, NEW F \in [T \X (1 .. n) -> T]
  PROVE  \E G \in [SUBSET (1 .. n) -> T] : Folding(n, b, F, G)
<1> DEFINE After(G, s) == IF s = {} THEN b ELSE F[<<G[s \ {Max(s)}], Max(s)>>]
           Upto(m) == \E G \in [SUBSET (1 .. n) -> T] : \A s \in SUBSET (1 .. m) : G[s] = After(G, s)
           K == {m \in Nat : m <= n => Upto(m)}
<1>1. 0 \in K
  <2> DEFINE G == [s \in SUBSET (1 .. n) |-> b]
  <2>1. 1 .. 0 = {} /\ {} \in SUBSET (1 .. n)
    OBVIOUS
  <2>2. G \in [SUBSET (1 .. n) -> T] /\ \A s \in SUBSET (1 .. 0) : G[s] = After(G, s)
    BY <2>1
  <2>3. Upto(0)
    BY <2>2
  <2> QED BY <2>3
<1>2. ASSUME NEW m \in K PROVE m + 1 \in K
  <2> SUFFICES ASSUME m + 1 <= n PROVE Upto(m + 1)
    <3>1. m + 1 \in Nat
      OBVIOUS
    <3> HIDE DEF Upto
    <3> QED BY <3>1
  <2>1. m \in Nat /\ m + 1 \in 1 .. n /\ m <= n
    OBVIOUS
  <2>2. Upto(m)
    <3> HIDE DEF Upto
    <3> QED BY <2>1
  <2>3. PICK G \in [SUBSET (1 .. n) -> T] : \A s \in SUBSET (1 .. m) : G[s] = After(G, s)
    BY <2>2
  <2> DEFINE H == [s \in SUBSET (1 .. n) |-> IF m + 1 \in s THEN F[<<G[s \ {m + 1}], m + 1>>] ELSE G[s]]
  <2>4. H \in [SUBSET (1 .. n) -> T]
    <3>1. ASSUME NEW s \in SUBSET (1 .. n) PROVE H[s] \in T
      <4>1. s \ {m + 1} \in SUBSET (1 .. n) /\ G[s \ {m + 1}] \in T /\ G[s] \in T
        OBVIOUS
      <4>2. <<G[s \ {m + 1}], m + 1>> \in T \X (1 .. n)
        BY <2>1, <4>1
      <4> QED BY <4>1, <4>2
    <3> QED BY <3>1
  <2>5. ASSUME NEW s \in SUBSET (1 .. m + 1) PROVE H[s] = After(H, s)
    <3>1. s \in SUBSET (1 .. n) /\ \A x : s \ {x} \in SUBSET (1 .. n)
      <4>1. (1 .. m + 1) \subseteq (1 .. n)
        BY <2>1
      <4>2. s \in SUBSET (1 .. n)
        BY <4>1
      <4> HIDE DEF After, H
      <4> QED BY <4>2
    <3>2. CASE m + 1 \in s
      <4>1. Max(s) = m + 1
        BY <2>1, <3>2, GreatestIs
      <4>2. m + 1 \notin s \ {m + 1}
        OBVIOUS
      <4>3. H[s \ {m + 1}] = G[s \ {m + 1}]
        BY <3>1, <4>2
      <4>4. H[s] = F[<<G[s \ {m + 1}], m + 1>>]
        BY <3>1, <3>2
      <4> QED BY <3>2, <4>1, <4>3, <4>4
    <3>3. CASE m + 1 \notin s
      <4>1. s \in SUBSET (1 .. m)
        BY <2>1, <3>3
      <4>2. H[s] = G[s] /\ H[s \ {Max(s)}] = G[s \ {Max(s)}]
        BY <3>1, <3>3
      <4> QED BY <2>3, <4>1, <4>2
    <3> QED BY <3>2, <3>3
  <2>6. \E J \in [SUBSET (1 .. n) -> T] : \A s \in SUBSET (1 .. m + 1) : J[s] = After(J, s)
    <3> HIDE DEF H, After
    <3> QED BY <2>4, <2>5
  <2> QED BY <2>6
<1>3. K = Nat
  <2>1. K \in SUBSET Nat
    OBVIOUS
  <2> HIDE DEF K
  <2> QED BY <1>1, <1>2, <2>1, AllNumbers
<1>4. Upto(n)
  <2> HIDE DEF Upto
  <2> QED BY <1>3
<1> QED BY <1>4 DEF Folding

\* A walk from b over n places, with the steps F.
Walk(n, b, F, w) == w[0] = b /\ \A i \in 1 .. n : w[i] = F[<<w[i - 1], i>>]

\* Along the initial segments the fold takes one element after the other.
LEMMA FoldWalks ==
  ASSUME NEW n \in Nat, NEW T, NEW b, NEW F, NEW G, Folding(n, b, F, G)
  PROVE  LET w == [i \in 0 .. n |-> G[1 .. i]] IN Walk(n, b, F, w) /\ w[n] = G[1 .. n]
<1> DEFINE w == [i \in 0 .. n |-> G[1 .. i]]
<1>1. 1 .. 0 = {} /\ 0 \in 0 .. n /\ n \in 0 .. n
  OBVIOUS
<1>2. w[0] = b
  BY <1>1 DEF Folding
<1>3. ASSUME NEW i \in 1 .. n PROVE w[i] = F[<<w[i - 1], i>>]
  <2>1. i \in 0 .. n /\ i - 1 \in 0 .. n /\ 1 .. i \in SUBSET (1 .. n)
    OBVIOUS
  <2>2. G[1 .. i] = F[<<G[1 .. (i - 1)], i>>]
    BY <2>1, Shortened DEF Folding
  <2> QED BY <2>1, <2>2
<1> QED BY <1>1, <1>2, <1>3 DEF Walk

\* I is a fold from b whose steps are those of F, as long as it stays in T.
Stepping(n, T, b, F, I) ==
  I[{}] = b /\ \A j \in 1 .. n : I[1 .. (j - 1)] \in T => I[1 .. j] = F[<<I[1 .. (j - 1)], j>>]

Walks(n, T, b, F, w, e) == w \in [0 .. n -> T] /\ Walk(n, b, F, w) /\ w[n] = e

\* If the steps of F stay in T, the fold walks through T.
LEMMA FoldIs ==
  ASSUME NEW n \in Nat, NEW T, NEW b \in T, NEW F \in [T \X (1 .. n) -> T], NEW I, Stepping(n, T, b, F, I)
  PROVE  \E w : Walks(n, T, b, F, w, I[1 .. n])
<1>0. I[{}] = b /\ \A j \in 1 .. n : I[1 .. (j - 1)] \in T => I[1 .. j] = F[<<I[1 .. (j - 1)], j>>]
  BY DEF Stepping
<1> DEFINE K == {m \in Nat : m <= n => I[1 .. m] \in T}
<1>1. 1 .. 0 = {}
  OBVIOUS
<1>2. 0 \in K
  BY <1>0, <1>1
<1>3. ASSUME NEW m \in K PROVE m + 1 \in K
  <2>1. m \in Nat /\ (m + 1) - 1 = m
    OBVIOUS
  <2>2. ASSUME m + 1 <= n PROVE I[1 .. (m + 1)] \in T
    <3>1. m + 1 \in 1 .. n /\ m <= n /\ I[1 .. m] \in T
      BY <2>1, <2>2
    <3>2. I[1 .. (m + 1)] = F[<<I[1 .. m], m + 1>>]
      BY <1>0, <2>1, <3>1
    <3>3. <<I[1 .. m], m + 1>> \in T \X (1 .. n)
      BY <3>1
    <3> QED BY <3>2, <3>3
  <2> QED BY <2>1, <2>2
<1>4. K = Nat
  <2>1. K \in SUBSET Nat
    OBVIOUS
  <2> HIDE DEF K
  <2> QED BY <1>2, <1>3, <2>1, AllNumbers
<1>5. \A m \in 0 .. n : I[1 .. m] \in T
  BY <1>4
<1> DEFINE w == [m \in 0 .. n |-> I[1 .. m]]
<1>6. w \in [0 .. n -> T] /\ w[n] = I[1 .. n] /\ w[0] = b
  BY <1>0, <1>1, <1>5
<1>7. \A j \in 1 .. n : w[j] = F[<<w[j - 1], j>>]
  <2> SUFFICES ASSUME NEW j \in 1 .. n PROVE w[j] = F[<<w[j - 1], j>>]
    OBVIOUS
  <2>1. j \in 0 .. n /\ j - 1 \in 0 .. n
    OBVIOUS
  <2> QED BY <1>0, <1>5, <2>1
<1> QED BY <1>6, <1>7 DEF Walk, Walks

\* The least number of a set of naturals.
LEMMA LeastIn ==
  ASSUME NEW s \in SUBSET Nat, s # {}
  PROVE  Min(s) \in s /\ \A y \in s : Min(s) <= y
<1>1. \E x \in s : \A y \in s : x <= y
  BY NatMin
<1> QED BY <1>1 DEF Min
=============================================================================
