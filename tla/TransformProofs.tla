--------------------------- MODULE TransformProofs ---------------------------
(***************************************************************************)
(* Proofs about Transform: no step of the build leaves a use of a function *)
(* that is gone, the linker's table names functions that are exported,     *)
(* public functions stay, and the engine finds what it needs.              *)
(***************************************************************************)
EXTENDS Transform, FoldLemmas

-----------------------------------------------------------------------------
(* One more.                                                               *)

LEMMA OneMore ==
  ASSUME NEW S, NEW x, IsFiniteSet(S), x \notin S
  PROVE  Cardinality(S \cup {x}) = Cardinality(S) + 1
BY FS_AddElement

-----------------------------------------------------------------------------
(* What Closure computes.                                                  *)
Size == Cardinality(Addrs)

Layers(edges, roots, m, w) ==
  w = [n \in 0 .. m |-> IF n = 0 THEN roots
                        ELSE LET v == w[n - 1] IN v \cup After(edges, v)]

LEMMA LayersExist ==
  ASSUME NEW edges, NEW roots, NEW m \in Nat
  PROVE  \E w : Layers(edges, roots, m, w)
<1> DEFINE T == {k \in Nat : \E w : Layers(edges, roots, k, w)}
<1>1. 0 \in T
  <2> DEFINE w == [n \in 0 .. 0 |-> roots]
  <2>1. Layers(edges, roots, 0, w)
    BY DEF Layers
  <2> QED BY <2>1
<1>2. ASSUME NEW k \in T PROVE k + 1 \in T
  <2>1. PICK v : Layers(edges, roots, k, v)
    OBVIOUS
  <2> DEFINE w == [n \in 0 .. (k + 1) |->
                     IF n <= k THEN v[n] ELSE v[k] \cup After(edges, v[k])]
  <2>2. \A n \in 0 .. k : w[n] = v[n]
    OBVIOUS
  <2>3. w[k + 1] = v[k] \cup After(edges, v[k])
    OBVIOUS
  <2>4. /\ v[0] = roots
        /\ \A n \in 1 .. k : v[n] = v[n - 1] \cup After(edges, v[n - 1])
    <3>1. 0 \in 0 .. k /\ \A n \in 1 .. k : n \in 0 .. k /\ n # 0
      OBVIOUS
    <3> HIDE DEF w, T
    <3>2. v[0] = roots
      BY <2>1, <3>1 DEF Layers
    <3>3. ASSUME NEW n \in 1 .. k PROVE v[n] = v[n - 1] \cup After(edges, v[n - 1])
      BY <2>1, <3>1 DEF Layers
    <3> QED BY <3>2, <3>3
  <2>5. w[0] = roots
    BY <2>2, <2>4
  <2>6. ASSUME NEW n \in 1 .. (k + 1)
        PROVE  w[n] = w[n - 1] \cup After(edges, w[n - 1])
    <3> HIDE DEF w
    <3>1. CASE n = k + 1
      <4>1. n - 1 = k /\ w[k] = v[k]
        BY <2>2, <3>1
      <4> QED BY <2>3, <3>1, <4>1
    <3>2. CASE n # k + 1
      <4>1. n \in 1 .. k /\ n \in 0 .. k /\ n - 1 \in 0 .. k
        BY <3>2
      <4> QED BY <2>2, <2>4, <4>1
    <3> QED BY <3>1, <3>2
  <2>7. w = [n \in 0 .. (k + 1) |-> w[n]]
    OBVIOUS
  <2> HIDE DEF w
  <2>8. ASSUME NEW n \in 0 .. (k + 1)
        PROVE  w[n] = IF n = 0 THEN roots ELSE w[n - 1] \cup After(edges, w[n - 1])
    <3>1. n = 0 \/ (n \in 1 .. (k + 1) /\ n # 0)
      OBVIOUS
    <3> QED BY <2>5, <2>6, <3>1
  <2>9. w = [n \in 0 .. (k + 1) |-> IF n = 0 THEN roots
                        ELSE w[n - 1] \cup After(edges, w[n - 1])]
    BY <2>7, <2>8
  <2>10. Layers(edges, roots, k + 1, w)
    BY <2>9 DEF Layers
  <2> QED BY <2>10
<1> HIDE DEF T
<1>3. T = Nat
  <2>1. T \in SUBSET Nat
    BY DEF T
  <2> QED BY <1>1, <1>2, <2>1, AllNumbers
<1> QED BY <1>3 DEF T

LEMMA LayersAre ==
  ASSUME NEW edges, NEW roots, NEW m \in Nat, NEW w, Layers(edges, roots, m, w)
  PROVE  /\ DOMAIN w = 0 .. m /\ w = [n \in 0 .. m |-> w[n]] /\ w[0] = roots
         /\ \A n \in 1 .. m : w[n] = w[n - 1] \cup After(edges, w[n - 1])
<1>1. 0 \in 0 .. m /\ \A n \in 1 .. m : n \in 0 .. m /\ n # 0
  OBVIOUS
<1>2. w[0] = roots
  BY <1>1 DEF Layers
<1>3. ASSUME NEW n \in 1 .. m PROVE w[n] = w[n - 1] \cup After(edges, w[n - 1])
  BY <1>1 DEF Layers
<1>4. DOMAIN w = 0 .. m /\ w = [n \in 0 .. m |-> w[n]]
  BY DEF Layers
<1> QED BY <1>2, <1>3, <1>4

LEMMA AfterEdges ==
  ASSUME NEW next \in [Addrs -> SUBSET Addrs], NEW S \in SUBSET Addrs
  PROVE  After(Edges(next), S) = UNION {next[a] : a \in S}
<1>1. ASSUME NEW y \in After(Edges(next), S) PROVE y \in UNION {next[a] : a \in S}
  <2>1. PICK e \in Edges(next) : e[1] \in S /\ y = e[2]
    BY <1>1 DEF After
  <2>2. PICK a \in Addrs : e \in {a} \X next[a]
    BY <2>1 DEF Edges
  <2> QED BY <2>1, <2>2
<1>2. ASSUME NEW a \in S, NEW y \in next[a] PROVE y \in After(Edges(next), S)
  <2>1. <<a, y>> \in Edges(next)
    BY <1>2 DEF Edges
  <2> QED BY <2>1 DEF After
<1> QED BY <1>1, <1>2

\* The layers there are, and that Closure is the last of them.
LEMMA ClosureLayers ==
  ASSUME NEW next \in [Addrs -> SUBSET Addrs], NEW roots \in SUBSET Addrs
  PROVE  \E w : /\ w \in [0 .. Size -> SUBSET Addrs] /\ w[0] = roots
                /\ \A n \in 1 .. Size : w[n] = w[n - 1] \cup UNION {next[a] : a \in w[n - 1]}
                /\ Closure(next, roots) = w[Size]
<1>1. Size \in Nat
  BY AddressAssumption, FS_CardinalityType DEF Size
<1> DEFINE w == CHOOSE w : Layers(Edges(next), roots, Size, w)
<1>2. Layers(Edges(next), roots, Size, w)
  BY <1>1, LayersExist
<1>3. Closure(next, roots) = w[Size]
  BY DEF Closure, Layers, Size
<1> HIDE DEF w
<1>4. /\ DOMAIN w = 0 .. Size /\ w = [n \in 0 .. Size |-> w[n]] /\ w[0] = roots
      /\ \A n \in 1 .. Size : w[n] = w[n - 1] \cup After(Edges(next), w[n - 1])
  BY <1>1, <1>2, LayersAre
<1> DEFINE T == {n \in Nat : n <= Size => w[n] \subseteq Addrs}
<1>5. 0 \in T
  BY <1>4
<1>6. ASSUME NEW n \in T PROVE n + 1 \in T
  <2> SUFFICES ASSUME n + 1 <= Size PROVE w[n + 1] \subseteq Addrs
    OBVIOUS
  <2>1. n + 1 \in 1 .. Size /\ (n + 1) - 1 = n /\ w[n] \subseteq Addrs
    BY <1>1
  <2>2. w[n + 1] = w[n] \cup UNION {next[a] : a \in w[n]}
    <3>1. w[n + 1] = w[n] \cup After(Edges(next), w[n])
      <4>1. w[n + 1] = w[(n + 1) - 1] \cup After(Edges(next), w[(n + 1) - 1])
        BY <1>4, <2>1
      <4> QED BY <2>1, <4>1
    <3>2. w[n] \in SUBSET Addrs
      BY <2>1
    <3>3. After(Edges(next), w[n]) = UNION {next[a] : a \in w[n]}
      BY <3>2, AfterEdges
    <3> QED BY <3>1, <3>3
  <2> QED BY <2>1, <2>2
<1>7. T = Nat
  <2>1. T \in SUBSET Nat
    OBVIOUS
  <2> HIDE DEF T
  <2> QED BY <1>5, <1>6, <2>1, AllNumbers
<1>8. \A n \in 0 .. Size : w[n] \in SUBSET Addrs
  BY <1>1, <1>7
<1>9. w \in [0 .. Size -> SUBSET Addrs]
  BY <1>4, <1>8
<1>10. ASSUME NEW n \in 1 .. Size
       PROVE  w[n] = w[n - 1] \cup UNION {next[a] : a \in w[n - 1]}
  <2>1. w[n - 1] \in SUBSET Addrs
    BY <1>1, <1>8
  <2> QED BY <1>4, <2>1, AfterEdges
<1> QED BY <1>3, <1>4, <1>9, <1>10

LEMMA ClosureHolds ==
  ASSUME NEW next \in [Addrs -> SUBSET Addrs], NEW roots \in SUBSET Addrs
  PROVE  roots \subseteq Closure(next, roots) /\ Closure(next, roots) \subseteq Addrs
<1>1. Size \in Nat
  BY AddressAssumption, FS_CardinalityType DEF Size
<1>2. PICK w : /\ w \in [0 .. Size -> SUBSET Addrs] /\ w[0] = roots
               /\ \A n \in 1 .. Size : w[n] = w[n - 1] \cup UNION {next[a] : a \in w[n - 1]}
               /\ Closure(next, roots) = w[Size]
  BY ClosureLayers
<1> DEFINE T == {n \in Nat : n <= Size => roots \subseteq w[n]}
<1>3. 0 \in T
  BY <1>2
<1>4. ASSUME NEW n \in T PROVE n + 1 \in T
  <2> SUFFICES ASSUME n + 1 <= Size PROVE roots \subseteq w[n + 1]
    OBVIOUS
  <2>1. n + 1 \in 1 .. Size /\ (n + 1) - 1 = n /\ roots \subseteq w[n]
    BY <1>1
  <2>2. w[n + 1] = w[n] \cup UNION {next[a] : a \in w[n]}
    BY <1>2, <2>1
  <2> QED BY <2>1, <2>2
<1>5. T = Nat
  <2>1. T \in SUBSET Nat
    OBVIOUS
  <2> HIDE DEF T
  <2> QED BY <1>3, <1>4, <2>1, AllNumbers
<1>6. roots \subseteq w[Size]
  BY <1>1, <1>5
<1>7. w[Size] \in SUBSET Addrs
  BY <1>1, <1>2
<1> QED BY <1>2, <1>6, <1>7

\* It is the least closed set with the roots.
LEMMA ClosureLeast ==
  ASSUME NEW next \in [Addrs -> SUBSET Addrs], NEW roots \in SUBSET Addrs,
         NEW R, roots \subseteq R, \A a \in R \cap Addrs : next[a] \subseteq R
  PROVE  Closure(next, roots) \subseteq R
<1>1. Size \in Nat
  BY AddressAssumption, FS_CardinalityType DEF Size
<1>2. PICK w : /\ w \in [0 .. Size -> SUBSET Addrs] /\ w[0] = roots
               /\ \A n \in 1 .. Size : w[n] = w[n - 1] \cup UNION {next[a] : a \in w[n - 1]}
               /\ Closure(next, roots) = w[Size]
  BY ClosureLayers
<1> DEFINE T == {n \in Nat : n <= Size => w[n] \subseteq R}
<1>3. 0 \in T
  BY <1>2
<1>4. ASSUME NEW n \in T PROVE n + 1 \in T
  <2> SUFFICES ASSUME n + 1 <= Size PROVE w[n + 1] \subseteq R
    OBVIOUS
  <2>1. n + 1 \in 1 .. Size /\ n \in 0 .. Size /\ (n + 1) - 1 = n /\ w[n] \subseteq R
    BY <1>1
  <2>2. w[n + 1] = w[n] \cup UNION {next[a] : a \in w[n]}
    BY <1>2, <2>1
  <2>3. w[n] \subseteq Addrs
    BY <1>2, <2>1
  <2> QED BY <2>1, <2>2, <2>3
<1>5. T = Nat
  <2>1. T \in SUBSET Nat
    OBVIOUS
  <2> HIDE DEF T
  <2> QED BY <1>3, <1>4, <2>1, AllNumbers
<1>6. w[Size] \subseteq R
  BY <1>1, <1>5
<1> QED BY <1>2, <1>6

\* It is closed: a layer that adds nothing is the last that could, and each
\* layer before it holds one more address at least.
LEMMA ClosureCloses ==
  ASSUME NEW next \in [Addrs -> SUBSET Addrs], NEW roots \in SUBSET Addrs
  PROVE  \A a \in Closure(next, roots) : next[a] \subseteq Closure(next, roots)
<1>1. Size \in Nat
  BY AddressAssumption, FS_CardinalityType DEF Size
<1>2. PICK w : /\ w \in [0 .. Size -> SUBSET Addrs] /\ w[0] = roots
               /\ \A n \in 1 .. Size : w[n] = w[n - 1] \cup UNION {next[a] : a \in w[n - 1]}
               /\ Closure(next, roots) = w[Size]
  BY ClosureLayers
<1> DEFINE Shut(A) == \A a \in A : next[a] \subseteq A
           T == {n \in Nat : n <= Size => Shut(w[n]) \/ Cardinality(w[n]) >= n}
<1>3. \A A \in SUBSET Addrs : IsFiniteSet(A) /\ Cardinality(A) \in Nat /\ Cardinality(A) <= Size
  BY AddressAssumption, FS_Subset, FS_CardinalityType DEF Size
<1>4. 0 \in T
  BY <1>1, <1>2, <1>3
<1>5. ASSUME NEW n \in T PROVE n + 1 \in T
  <2> SUFFICES ASSUME n + 1 <= Size PROVE Shut(w[n + 1]) \/ Cardinality(w[n + 1]) >= n + 1
    OBVIOUS
  <2>1. n + 1 \in 1 .. Size /\ n + 1 \in 0 .. Size /\ n \in 0 .. Size /\ (n + 1) - 1 = n
    BY <1>1
  <2>2. w[n + 1] = w[n] \cup UNION {next[a] : a \in w[n]}
    BY <1>2, <2>1
  <2>3. w[n] \in SUBSET Addrs /\ w[n + 1] \in SUBSET Addrs
    BY <1>2, <2>1
  <2>4. CASE Shut(w[n])
    <3>1. w[n + 1] = w[n]
      BY <2>2, <2>4
    <3> QED BY <2>4, <3>1
  <2>5. CASE ~ Shut(w[n])
    <3>1. PICK a \in w[n] : ~ (next[a] \subseteq w[n])
      BY <2>5
    <3>2. PICK x \in next[a] : x \notin w[n]
      BY <3>1
    <3>3. w[n] \cup {x} \in SUBSET w[n + 1]
      BY <2>2, <3>2
    <3> DEFINE c == Cardinality(w[n])  d == Cardinality(w[n + 1])
    <3>4. IsFiniteSet(w[n]) /\ IsFiniteSet(w[n + 1]) /\ c \in Nat /\ d \in Nat
      BY <1>3, <2>3
    <3>5. Cardinality(w[n] \cup {x}) = c + 1
      <4>1. x \notin w[n] /\ IsFiniteSet(w[n])
        BY <3>2, <3>4
      <4> QED BY <4>1, OneMore
    <3>6. Cardinality(w[n] \cup {x}) <= d
      BY <3>3, <3>4, FS_Subset
    <3>7. c >= n
      BY <2>1, <2>5
    <3> HIDE DEF c, d
    <3>8. d >= n + 1
      BY <3>4, <3>5, <3>6, <3>7
    <3> QED BY <3>8 DEF d
  <2> QED BY <2>4, <2>5
<1>6. T = Nat
  <2>1. T \in SUBSET Nat
    OBVIOUS
  <2> HIDE DEF T
  <2> QED BY <1>4, <1>5, <2>1, AllNumbers
<1>7. w[Size] \in SUBSET Addrs
  BY <1>1, <1>2
<1>8. CASE ~ Shut(w[Size])
  <2>1. Cardinality(w[Size]) >= Size
    BY <1>1, <1>6, <1>8
  <2>2. PICK a \in w[Size] : ~ (next[a] \subseteq w[Size])
    BY <1>8
  <2>3. PICK x \in next[a] : x \notin w[Size]
    BY <2>2
  <2>4. w[Size] \cup {x} \in SUBSET Addrs
    BY <1>7, <2>3
  <2> DEFINE c == Cardinality(w[Size])
  <2>5. c \in Nat /\ IsFiniteSet(w[Size])
    BY <1>3, <1>7
  <2>6. Cardinality(w[Size] \cup {x}) = c + 1
    <3>1. x \notin w[Size] /\ IsFiniteSet(w[Size])
      BY <2>3, <2>5
    <3> QED BY <3>1, OneMore
  <2>7. Cardinality(w[Size] \cup {x}) <= Size
    BY <1>3, <2>4
  <2> HIDE DEF c
  <2> QED BY <1>1, <2>1, <2>5, <2>6, <2>7 DEF c
<1> QED BY <1>2, <1>8

-----------------------------------------------------------------------------
(* Modules, and what the operators on them keep.                           *)

Origins == Entries \cup {Main, "wrapper"}
Labels  == {"_Z", "__topo_internal__Z", "_Zt", ".topo_parallel_wrap"} \X Origins
Objects == [of : Origins, name : Labels, link : {"external", "internal"},
            inl : {"none", "hint", "always"}, stub : BOOLEAN,
            calls : SUBSET Addrs, refs : SUBSET Addrs]
Modules == [Addrs -> Objects \cup {Gone}]

Closed(f) == \A a \in Alive(f) : Uses(f, a) \subseteq Alive(f)

\* What holds of names and origins: no two objects have one name, before
\* wrappers are made no two have one origin.
NamesDiffer(f)   == \A a, b \in Alive(f) : f[a].name = f[b].name => a = b
OriginsDiffer(f) == \A a, b \in Alive(f) : f[a].of = f[b].of => a = b

\* The objects of g at A are those of f, perhaps rewritten, perhaps relinked.
Same(g, f, A)   == \A a \in A : g[a].of = f[a].of /\ g[a].name = f[a].name
Linked(g, f, A) == \A a \in A : g[a].link = f[a].link

LEMMA NotGone ==
  ASSUME NEW o \in Objects
  PROVE  o # Gone
<1>1. DOMAIN o = {"of", "name", "link", "inl", "stub", "calls", "refs"}
  BY DEF Objects
<1>2. DOMAIN Gone = {"gone"}
  BY DEF Gone
<1> QED BY <1>1, <1>2

LEMMA StillObject ==
  ASSUME NEW o \in Objects, NEW x, DOMAIN x = DOMAIN o
  PROVE  x # Gone
BY DEF Objects, Gone

LEMMA AliveIsObject ==
  ASSUME NEW f \in Modules
  PROVE  \A a \in Addrs : a \in Alive(f) <=> f[a] \in Objects
BY NotGone DEF Modules, Alive

LEMMA ObjectParts ==
  ASSUME NEW o \in Objects
  PROVE  /\ o.of \in Origins /\ o.name \in Labels /\ o.link \in {"external", "internal"}
         /\ o.calls \subseteq Addrs /\ o.refs \subseteq Addrs
BY DEF Objects

LEMMA UsesInAddrs ==
  ASSUME NEW f \in Modules, NEW a \in Alive(f)
  PROVE  Uses(f, a) \subseteq Addrs
BY AliveIsObject, ObjectParts DEF Uses, Alive

LEMMA ThroughAlive ==
  ASSUME NEW f \in Modules, Closed(f), NEW a \in Alive(f), NEW S \in SUBSET Alive(f)
  PROVE  Through(f, a, S) \subseteq Alive(f)
<1> DEFINE next == [b \in Addrs |-> IF b \in S THEN f[b].calls ELSE {}]
<1>1. \A b \in Alive(f) : f[b].calls \subseteq Addrs /\ f[b].calls \subseteq Alive(f)
  BY UsesInAddrs DEF Closed, Uses
<1>2. next \in [Addrs -> SUBSET Addrs]
  BY <1>1
<1>3. \A b \in Alive(f) \cap Addrs : next[b] \subseteq Alive(f)
  BY <1>1
<1> HIDE DEF next
<1>4. Closure(next, f[a].calls) \subseteq Alive(f)
  BY <1>1, <1>2, <1>3, ClosureLeast
<1> QED BY <1>4 DEF Through, next

LEMMA InlinedKeeps ==
  ASSUME NEW f \in Modules, Closed(f), NEW S \in SUBSET Alive(f)
  PROVE  /\ Inlined(f, S) \in Modules /\ Alive(Inlined(f, S)) = Alive(f)
         /\ Closed(Inlined(f, S))
         /\ Same(Inlined(f, S), f, Alive(f)) /\ Linked(Inlined(f, S), f, Alive(f))
<1> DEFINE g == Inlined(f, S)  into(a) == Through(f, a, S)
           refs(a) == f[a].refs \cup UNION {f[b].refs : b \in into(a) \cap S}
<1>1. \A a \in Addrs \ Alive(f) : g[a] = Gone
  BY DEF Inlined, Alive
<1>2. \A a \in Alive(f) : g[a] = [f[a] EXCEPT !.calls = into(a) \ S, !.refs = refs(a)]
  BY DEF Inlined, Alive
<1>3. \A a \in Alive(f) : Uses(f, a) \subseteq Alive(f) /\ into(a) \subseteq Alive(f)
  BY ThroughAlive DEF Closed
<1>4. \A a \in Alive(f) : refs(a) \subseteq Alive(f)
  BY <1>3 DEF Uses
<1>5. ASSUME NEW a \in Alive(f)
      PROVE  /\ g[a] \in Objects /\ g[a].of = f[a].of /\ g[a].name = f[a].name
             /\ g[a].link = f[a].link /\ g[a].calls = into(a) \ S /\ g[a].refs = refs(a)
  <2>1. f[a] \in Objects
    BY AliveIsObject DEF Alive
  <2>2. into(a) \ S \subseteq Addrs /\ refs(a) \subseteq Addrs
    BY <1>3, <1>4 DEF Alive
  <2>3. g[a] = [f[a] EXCEPT !.calls = into(a) \ S, !.refs = refs(a)]
    BY <1>2
  <2> HIDE DEF g, into, refs
  <2> QED BY <2>1, <2>2, <2>3 DEF Objects
<1>6. DOMAIN g = Addrs /\ g = [a \in Addrs |-> g[a]]
  BY DEF Inlined
<1> HIDE DEF g
<1>7. g \in Modules
  BY <1>1, <1>5, <1>6 DEF Modules, Alive
<1>8. Alive(g) = Alive(f)
  BY <1>1, <1>5, NotGone DEF Alive
<1>9. Closed(g)
  BY <1>3, <1>4, <1>5, <1>8 DEF Closed, Uses
<1> QED BY <1>5, <1>7, <1>8, <1>9 DEF Same, Linked, g

LEMMA EraseKeeps ==
  ASSUME NEW f \in Modules, NEW S
  PROVE  /\ Erase(f, S) \in Modules /\ Alive(Erase(f, S)) = Alive(f) \ S
         /\ \A a \in Alive(f) \ S : Erase(f, S)[a] = f[a]
BY DEF Erase, Modules, Alive

\* Erasing what nothing else uses leaves no use behind.
LEMMA EraseCloses ==
  ASSUME NEW f \in Modules, Closed(f), NEW S,
         \A a \in Alive(f) \ S : Uses(f, a) \cap S = {}
  PROVE  Closed(Erase(f, S))
BY EraseKeeps DEF Closed, Uses

LEMMA SweptKeeps ==
  ASSUME NEW f \in Modules, Closed(f)
  PROVE  /\ Swept(f) \in Modules /\ Closed(Swept(f)) /\ Alive(Swept(f)) \subseteq Alive(f)
         /\ \A a \in Alive(Swept(f)) : Swept(f)[a] = f[a]
         /\ \A a \in Alive(f) : ~ Local(f, a) => a \in Alive(Swept(f))
<1> DEFINE next == [a \in Addrs |-> IF f[a] = Gone THEN {} ELSE Uses(f, a)]
           roots == {a \in Alive(f) : ~ Local(f, a)}
           live == Closure(next, roots)
           dead == Addrs \ live
<1>1. next \in [Addrs -> SUBSET Addrs] /\ roots \in SUBSET Addrs
  BY UsesInAddrs DEF Alive
<1>2. \A a \in Alive(f) : next[a] = Uses(f, a)
  BY DEF Alive
<1>3. Swept(f) = Erase(f, dead)
  BY DEF Swept
<1> HIDE DEF next
<1>4. roots \subseteq live /\ live \subseteq Addrs
  BY <1>1, ClosureHolds
<1>5. \A a \in live : next[a] \subseteq live
  BY <1>1, ClosureCloses
<1>6. \A a \in Alive(f) \ dead : a \in live
  BY DEF Alive
<1>7. \A a \in Alive(f) \ dead : Uses(f, a) \cap dead = {}
  BY <1>2, <1>5, <1>6
<1> HIDE DEF dead, roots, live
<1>8. Closed(Swept(f))
  BY <1>3, <1>7, EraseCloses
<1>9. roots \cap dead = {}
  BY <1>4 DEF dead
<1>10. Alive(Swept(f)) = Alive(f) \ dead /\ Swept(f) \in Modules
  BY <1>3, EraseKeeps
<1>11. \A a \in Alive(f) \ dead : Swept(f)[a] = f[a]
  BY <1>3, EraseKeeps
<1> QED BY <1>8, <1>9, <1>10, <1>11 DEF roots

\* Objects of S are moved to unused addresses.
LEMMA ReplacedKeeps ==
  ASSUME NEW f \in Modules, Closed(f), NEW S \in SUBSET Alive(f),
         NEW to \in Injection(S, Unused(f)), NEW link \in {"external", "internal"}
  PROVE  /\ Replaced(f, to, link) \in Modules /\ Closed(Replaced(f, to, link))
         /\ Alive(Replaced(f, to, link)) = (Alive(f) \ S) \cup Range(to)
         /\ Same(Replaced(f, to, link), f, Alive(f) \ S)
         /\ Linked(Replaced(f, to, link), f, Alive(f) \ S)
         /\ \A a \in S : /\ Replaced(f, to, link)[to[a]].of = f[a].of
                         /\ Replaced(f, to, link)[to[a]].name = f[a].name
<1> DEFINE g == Replaced(f, to, link)
           moved(A) == {IF a \in DOMAIN to THEN to[a] ELSE a : a \in A}
           fixed(o) == [o EXCEPT !.calls = moved(o.calls), !.refs = moved(o.refs)]
           kept == (Alive(f) \ S) \cup Range(to)
<1>1. /\ to \in [S -> Unused(f)] /\ DOMAIN to = S
      /\ \A a, b \in S : to[a] = to[b] => a = b
  BY DEF Injection, IsInjective
<1>2. Range(to) = {to[a] : a \in S} /\ Range(to) \subseteq Addrs /\ Range(to) \cap Alive(f) = {}
  BY <1>1 DEF Range, Unused, Alive
<1>3. /\ DOMAIN g = Addrs /\ g = [x \in Addrs |-> g[x]]
      /\ \A x \in Addrs :
           g[x] = IF x \in Range(to)
                  THEN LET a == CHOOSE b \in DOMAIN to : to[b] = x
                       IN [fixed(f[a]) EXCEPT !.link = link]
                  ELSE IF x \in DOMAIN to \/ f[x] = Gone THEN Gone ELSE fixed(f[x])
  BY DEF Replaced
<1> HIDE DEF g
<1>4. ASSUME NEW a \in S PROVE g[to[a]] = [fixed(f[a]) EXCEPT !.link = link]
  <2>1. to[a] \in Range(to) /\ to[a] \in Addrs
    BY <1>2
  <2>2. (CHOOSE b \in DOMAIN to : to[b] = to[a]) = a
    BY <1>1
  <2> HIDE DEF fixed
  <2> QED BY <1>3, <2>1, <2>2
<1>5. \A x \in Alive(f) \ S : g[x] = fixed(f[x])
  BY <1>1, <1>2, <1>3 DEF Alive
<1>6. \A x \in Addrs \ kept : g[x] = Gone
  BY <1>1, <1>3 DEF Alive
<1>7. ASSUME NEW A \in SUBSET Alive(f) PROVE moved(A) \subseteq kept
  BY <1>1, <1>2
<1>8. kept \subseteq Addrs
  BY <1>2 DEF Alive
<1>9. ASSUME NEW a \in Alive(f)
      PROVE  /\ fixed(f[a]) \in Objects /\ fixed(f[a]).of = f[a].of /\ fixed(f[a]).name = f[a].name
             /\ fixed(f[a]).link = f[a].link
             /\ fixed(f[a]).calls \subseteq kept /\ fixed(f[a]).refs \subseteq kept
  <2>1. f[a] \in Objects /\ f[a].calls \subseteq Alive(f) /\ f[a].refs \subseteq Alive(f)
    BY AliveIsObject DEF Alive, Closed, Uses
  <2>2. moved(f[a].calls) \subseteq kept /\ moved(f[a].refs) \subseteq kept
    BY <1>7, <2>1
  <2> HIDE DEF moved, kept
  <2>3. moved(f[a].calls) \subseteq Addrs /\ moved(f[a].refs) \subseteq Addrs
    BY <1>8, <2>2
  <2> QED BY <2>1, <2>2, <2>3 DEF Objects
<1>10. ASSUME NEW a \in S
       PROVE  /\ g[to[a]] \in Objects /\ g[to[a]].of = f[a].of /\ g[to[a]].name = f[a].name
              /\ g[to[a]].calls \subseteq kept /\ g[to[a]].refs \subseteq kept
  <2> DEFINE o == fixed(f[a])
  <2>1. g[to[a]] = [o EXCEPT !.link = link]
    BY <1>4
  <2>2. /\ o \in Objects /\ o.of = f[a].of /\ o.name = f[a].name
        /\ o.calls \subseteq kept /\ o.refs \subseteq kept
    BY <1>9
  <2> HIDE DEF o, kept
  <2> QED BY <2>1, <2>2 DEF Objects
<1>11. ASSUME NEW x \in kept
       PROVE  g[x] \in Objects /\ g[x].calls \subseteq kept /\ g[x].refs \subseteq kept
  <2>1. CASE x \in Alive(f) \ S
    <3> HIDE DEF fixed, kept
    <3> QED BY <1>5, <1>9, <2>1
  <2>2. CASE x \in Range(to)
    <3>1. PICK a \in S : x = to[a]
      BY <1>2, <2>2
    <3> HIDE DEF kept
    <3> QED BY <1>10, <3>1
  <2> QED BY <2>1, <2>2
<1>12. g \in Modules
  <2> HIDE DEF kept
  <2> QED BY <1>3, <1>6, <1>11 DEF Modules
<1>13. Alive(g) = kept
  <2> HIDE DEF kept
  <2> QED BY <1>6, <1>8, <1>11, NotGone DEF Alive
<1>14. Closed(g)
  <2> HIDE DEF kept
  <2> QED BY <1>11, <1>13 DEF Closed, Uses
<1>15. Same(g, f, Alive(f) \ S) /\ Linked(g, f, Alive(f) \ S)
  <2> HIDE DEF fixed
  <2> QED BY <1>5, <1>9 DEF Same, Linked
<1> HIDE DEF fixed
<1> QED BY <1>10, <1>12, <1>13, <1>14, <1>15 DEF g

-----------------------------------------------------------------------------
(* The invariant: modules are closed, names tell objects apart, and the    *)
(* mapping is right until something is erased.                             *)

Plain(f) ==
  /\ OriginsDiffer(f)
  /\ \A a \in Alive(f) : f[a].name \in {Orig(f[a].of), Prefix(f[a].of)}
Unhashed(f) == \A a \in Alive(f) : \A e \in Origins : f[a].name # Hash(e)

Early       == {"verify", "visibility", "embed"}
MappedRight == Early \cup {"codegen", "inline", "always"}
AsCompiled  == {"map", "verify", "visibility"}
OneOrigin   == {"map", "layout", "parallel"} \cup MappedRight
NoHash      == OneOrigin \cup {"flatten", "standard", "collect", "obfuscate"}
Places      == NoHash \cup {"promote", "postverify"} \cup Over

InputsOK ==
  /\ pc \in Places /\ cfg \in Configs
  /\ vis \in [Entries -> {"public", "protected", "private", "internal", "ignore"}]

NamesOK ==
  /\ NamesDiffer(fn)
  /\ pc \in AsCompiled => \A a \in Alive(fn) : fn[a].name = Orig(fn[a].of) /\ ~ Local(fn, a)
  /\ pc \in OneOrigin => Plain(fn)
  /\ pc \in NoHash => Unhashed(fn)

MapOK ==
  /\ mapping \in [Entries -> Addrs \cup {Null}]
  /\ \A d, e \in Entries : mapping[d] = mapping[e] /\ mapping[e] # Null => d = e
  /\ pc \in MappedRight => \A e \in Entries : mapping[e] # Null => mapping[e] \in Alive(fn)
  /\ pc \in Early => \A e \in Entries : mapping[e] # Null => fn[mapping[e]].of = e

JitOK == pc \in {"obfuscate", "promote"} => \A j \in jit : j.at \in Alive(fn)

BuildOK == InputsOK /\ fn \in Modules /\ ModuleClosed /\ NamesOK /\ MapOK /\ JitOK

\* Fewer objects, with the names they had.
LEMMA FewerNames ==
  ASSUME NEW f, NEW g, Alive(g) \subseteq Alive(f), Same(g, f, Alive(g))
  PROVE  /\ NamesDiffer(f) => NamesDiffer(g)
         /\ Plain(f) => Plain(g)
         /\ Unhashed(f) => Unhashed(g)
BY DEF Same, NamesDiffer, Plain, OriginsDiffer, Unhashed

LEMMA MovedNames ==
  ASSUME NEW f \in Modules, Closed(f), NEW S \in SUBSET Alive(f),
         NEW to \in Injection(S, Unused(f)), NEW link \in {"external", "internal"}
  PROVE  /\ NamesDiffer(f) => NamesDiffer(Replaced(f, to, link))
         /\ Plain(f) => Plain(Replaced(f, to, link))
         /\ Unhashed(f) => Unhashed(Replaced(f, to, link))
<1> DEFINE g == Replaced(f, to, link)  from(x) == IF x \in S THEN to[x] ELSE x
<1>1. /\ Alive(g) = (Alive(f) \ S) \cup Range(to) /\ Same(g, f, Alive(f) \ S)
      /\ \A a \in S : g[to[a]].of = f[a].of /\ g[to[a]].name = f[a].name
  BY ReplacedKeeps
<1>2. DOMAIN to = S /\ Range(to) = {to[a] : a \in S}
  BY DEF Injection, Range
<1> HIDE DEF g
<1>3. \A x \in Alive(g) : \E a \in Alive(f) :
        x = from(a) /\ g[x].of = f[a].of /\ g[x].name = f[a].name
  <2> SUFFICES ASSUME NEW x \in Alive(g)
               PROVE  \E a \in Alive(f) : x = from(a) /\ g[x].of = f[a].of /\ g[x].name = f[a].name
    OBVIOUS
  <2>1. CASE x \in Alive(f) \ S
    BY <1>1, <2>1 DEF Same
  <2>2. CASE x \in Range(to)
    <3>1. PICK a \in S : x = to[a]
      BY <1>2, <2>2
    <3> QED BY <1>1, <3>1
  <2> QED BY <1>1, <2>1, <2>2
<1> HIDE DEF from
<1> QED BY <1>3 DEF NamesDiffer, Plain, OriginsDiffer, Unhashed, g

\* A pass that leaves the mapping alone, after visibility was applied.
LEMMA PassKeeps ==
  ASSUME BuildOK, UNCHANGED <<vis, cfg, mapping>>, pc' \in Places \ AsCompiled,
         fn' \in Modules, Closed(fn'), NamesDiffer(fn'),
         pc' \in OneOrigin => Plain(fn'), pc' \in NoHash => Unhashed(fn'),
         pc' \in MappedRight => pc \in MappedRight /\ Alive(fn') = Alive(fn),
         pc' \notin Early, JitOK'
  PROVE  BuildOK'
<1>1. InputsOK'
  BY DEF BuildOK, InputsOK
<1>2. NamesOK'
  BY DEF NamesOK
<1>3. MapOK'
  BY DEF BuildOK, MapOK
<1> QED BY <1>1, <1>2, <1>3 DEF BuildOK, ModuleClosed, Closed

\* What a step of the module operators gives, when it only drops or rewrites.
LEMMA RewriteKeeps ==
  ASSUME BuildOK, UNCHANGED <<vis, cfg, mapping>>, pc' \in Places \ AsCompiled, pc' \notin Early,
         fn' \in Modules, Closed(fn'), Alive(fn') \subseteq Alive(fn), Same(fn', fn, Alive(fn')),
         pc' \in OneOrigin => pc \in OneOrigin, pc' \in NoHash => pc \in NoHash,
         pc' \in MappedRight => pc \in MappedRight /\ Alive(fn') = Alive(fn), JitOK'
  PROVE  BuildOK'
<1>1. NamesDiffer(fn') /\ (Plain(fn) => Plain(fn')) /\ (Unhashed(fn) => Unhashed(fn'))
  BY FewerNames DEF BuildOK, NamesOK
<1> QED BY <1>1, PassKeeps DEF BuildOK, NamesOK

LEMMA BuildInit == Init => BuildOK
<1> SUFFICES ASSUME Init PROVE BuildOK
  OBVIOUS
<1>1. PICK program \in Programs, c \in Configs :
        LET there == program.defined \cup {Main}
            home == [e \in there |-> Home[e]]
            places(S) == {home[e] : e \in S \cap there}
            object(e) == [of |-> e, name |-> Orig(e), link |-> "external", inl |-> "none",
                          stub |-> e \in Pipelines, calls |-> places(program.calls[e]),
                          refs |-> places(program.refs[e])]
        IN /\ fn = [a \in Addrs |-> IF a \in Range(home)
                                    THEN object(CHOOSE e \in there : home[e] = a) ELSE Gone]
           /\ vis = program.vis /\ cfg = c
  BY DEF Init, InitFrom
<1> DEFINE there == program.defined \cup {Main}
           home == [e \in there |-> Home[e]]
           places(S) == {home[e] : e \in S \cap there}
           object(e) == [of |-> e, name |-> Orig(e), link |-> "external", inl |-> "none",
                         stub |-> e \in Pipelines, calls |-> places(program.calls[e]),
                         refs |-> places(program.refs[e])]
<1>2. /\ pc = "map" /\ mapping = [e \in Entries |-> Null]
      /\ fn = [a \in Addrs |-> IF a \in Range(home)
                               THEN object(CHOOSE e \in there : home[e] = a) ELSE Gone]
  BY <1>1 DEF Init, InitFrom
<1>3. InputsOK
  BY <1>1, <1>2, InputAssumption DEF InputsOK, Places, NoHash, OneOrigin
<1>4. there \subseteq Entries \cup {Main} /\ there \subseteq Origins
  BY InputAssumption DEF Origins
<1>5. Home \in Injection(Entries \cup {Main}, Addrs)
  BY AddressAssumption DEF Home
<1>6. /\ DOMAIN home = there /\ Range(home) \subseteq Addrs
      /\ \A e \in there : home[e] \in Range(home)
      /\ \A d, e \in there : home[d] = home[e] => d = e
      /\ \A a \in Range(home) : \E e \in there : home[e] = a
  <2>1. /\ \A e \in there : home[e] = Home[e] /\ Home[e] \in Addrs
        /\ \A d, e \in there : Home[d] = Home[e] => d = e
    BY <1>4, <1>5 DEF Injection, IsInjective
  <2>2. DOMAIN home = there
    OBVIOUS
  <2> HIDE DEF home, there
  <2> QED BY <2>1, <2>2 DEF Range
<1>7. \A S : places(S) \subseteq Range(home)
  BY <1>6
<1>8. ASSUME NEW e \in there PROVE object(e) \in Objects
  <2>1. places(program.calls[e]) \subseteq Addrs /\ places(program.refs[e]) \subseteq Addrs
    BY <1>6, <1>7
  <2>2. Orig(e) \in Labels /\ e \in Origins
    BY <1>4 DEF Orig, Labels
  <2> HIDE DEF places
  <2> QED BY <2>1, <2>2 DEF Objects
<1>9. \A a \in Range(home) : \E e \in there : home[e] = a /\ fn[a] = object(e)
  <2> SUFFICES ASSUME NEW a \in Range(home) PROVE \E e \in there : home[e] = a /\ fn[a] = object(e)
    OBVIOUS
  <2> DEFINE e == CHOOSE e \in there : home[e] = a
  <2>1. e \in there /\ home[e] = a
    BY <1>6
  <2>2. fn[a] = object(e)
    <3> HIDE DEF object, home
    <3> QED BY <1>2, <1>6
  <2> HIDE DEF e, object
  <2> QED BY <2>1, <2>2
<1>10. \A a \in Addrs \ Range(home) : fn[a] = Gone
  <2> HIDE DEF object, home
  <2> QED BY <1>2
<1>11. DOMAIN fn = Addrs /\ fn = [a \in Addrs |-> fn[a]]
  <2> HIDE DEF object, home
  <2> QED BY <1>2
<1>12. fn \in Modules
  <2> HIDE DEF object, home
  <2> QED BY <1>8, <1>9, <1>10, <1>11 DEF Modules
<1>13. Alive(fn) = Range(home)
  <2> HIDE DEF object, home
  <2> QED BY <1>6, <1>8, <1>9, <1>10, NotGone DEF Alive
<1>14. ASSUME NEW a \in Alive(fn)
       PROVE  /\ fn[a].name = Orig(fn[a].of) /\ fn[a].link = "external"
              /\ fn[a].of \in there /\ home[fn[a].of] = a
              /\ fn[a].calls \subseteq Range(home) /\ fn[a].refs \subseteq Range(home)
  <2>1. PICK e \in there : home[e] = a /\ fn[a] = object(e)
    BY <1>9, <1>13
  <2>2. /\ object(e).of = e /\ object(e).name = Orig(e) /\ object(e).link = "external"
        /\ object(e).calls = places(program.calls[e]) /\ object(e).refs = places(program.refs[e])
    OBVIOUS
  <2> HIDE DEF object, places, home
  <2> QED BY <1>7, <2>1, <2>2
<1> HIDE DEF object, places, home, there
<1>15. ModuleClosed
  BY <1>13, <1>14 DEF ModuleClosed, Uses
<1>16. OriginsDiffer(fn)
  BY <1>14 DEF OriginsDiffer
<1>17. NamesOK
  <2>1. NamesDiffer(fn)
    BY <1>14, <1>16 DEF NamesDiffer, OriginsDiffer, Orig
  <2>2. \A a \in Alive(fn) : fn[a].name = Orig(fn[a].of) /\ ~ Local(fn, a)
    BY <1>14 DEF Local
  <2>3. Plain(fn)
    BY <1>14, <1>16 DEF Plain
  <2>4. Unhashed(fn)
    BY <1>14 DEF Unhashed, Orig, Hash
  <2> QED BY <2>1, <2>2, <2>3, <2>4 DEF NamesOK
<1>18. MapOK
  BY <1>2 DEF MapOK, MappedRight, Early
<1>19. JitOK
  BY <1>2 DEF JitOK
<1> QED BY <1>3, <1>12, <1>15, <1>17, <1>18, <1>19 DEF BuildOK

LEMMA MapSymbolsKeeps == BuildOK /\ MapSymbols => BuildOK'
<1> SUFFICES ASSUME BuildOK, MapSymbols PROVE BuildOK'
  OBVIOUS
<1>1. /\ pc = "map" /\ pc' = "verify" /\ UNCHANGED <<vis, cfg, fn, jit>>
      /\ mapping' = Mapped(fn)
  BY DEF MapSymbols, AtStep
<1>2. \A a \in Alive(fn) : fn[a].name = Orig(fn[a].of) /\ ~ Local(fn, a)
  BY <1>1 DEF BuildOK, NamesOK, AsCompiled
<1>3. ASSUME NEW e \in Entries, mapping'[e] # Null
      PROVE  mapping'[e] \in Alive(fn) /\ fn[mapping'[e]].of = e
  <2>1. Named(fn, Orig(e)) # {}
    BY <1>1, <1>3 DEF Mapped
  <2>2. mapping'[e] \in Named(fn, Orig(e))
    BY <1>1, <2>1 DEF Mapped
  <2>3. mapping'[e] \in Alive(fn) /\ fn[mapping'[e]].name = Orig(e)
    BY <2>2 DEF Named
  <2> QED BY <1>2, <2>3 DEF Orig
<1>4. mapping' \in [Entries -> Addrs \cup {Null}]
  <2>1. DOMAIN mapping' = Entries /\ mapping' = [e \in Entries |-> mapping'[e]]
    BY <1>1 DEF Mapped
  <2> QED BY <1>3, <2>1 DEF Alive
<1>5. MapOK'
  BY <1>1, <1>3, <1>4 DEF MapOK
<1>6. NamesOK' /\ InputsOK'
  BY <1>1 DEF BuildOK, NamesOK, InputsOK, AsCompiled, OneOrigin, MappedRight, Early, NoHash, Places
<1>7. JitOK'
  BY <1>1 DEF JitOK
<1> QED BY <1>1, <1>5, <1>6, <1>7 DEF BuildOK, ModuleClosed

\* Objects are rewritten in place.
LEMMA TouchKeeps ==
  ASSUME NEW f \in Modules, NEW g, g = [a \in Addrs |-> g[a]],
         \A a \in Addrs \ Alive(f) : g[a] = f[a],
         \A a \in Alive(f) : g[a] \in Objects /\ Uses(g, a) \subseteq Alive(f)
  PROVE  g \in Modules /\ Alive(g) = Alive(f) /\ Closed(g)
<1>1. \A a \in Addrs : a \notin Alive(f) => g[a] = Gone
  BY DEF Alive
<1>2. g \in Modules
  BY <1>1 DEF Modules, Alive
<1>3. Alive(g) = Alive(f)
  BY <1>1, NotGone DEF Alive
<1> QED BY <1>2, <1>3 DEF Closed

\* Linkage alone changes, at the addresses of A.
Relink(f, A, link) == [a \in Addrs |-> IF a \in A THEN [f[a] EXCEPT !.link = link] ELSE f[a]]

LEMMA RelinkKeeps ==
  ASSUME NEW f \in Modules, Closed(f), NEW A \in SUBSET Alive(f), NEW link \in {"external", "internal"}
  PROVE  /\ Relink(f, A, link) \in Modules /\ Closed(Relink(f, A, link))
         /\ Alive(Relink(f, A, link)) = Alive(f) /\ Same(Relink(f, A, link), f, Alive(f))
<1> DEFINE g == Relink(f, A, link)
<1>1. g = [a \in Addrs |-> g[a]] /\ \A a \in Addrs \ Alive(f) : g[a] = f[a]
  BY DEF Relink
<1>2. ASSUME NEW a \in Alive(f)
      PROVE  /\ g[a] \in Objects /\ Uses(g, a) \subseteq Alive(f)
             /\ g[a].of = f[a].of /\ g[a].name = f[a].name
  <2>1. f[a] \in Objects /\ a \in Addrs
    BY AliveIsObject DEF Alive
  <2>2. g[a] = f[a] \/ g[a] = [f[a] EXCEPT !.link = link]
    BY <2>1 DEF Relink
  <2> HIDE DEF g
  <2>3. /\ g[a] \in Objects /\ g[a].calls = f[a].calls /\ g[a].refs = f[a].refs
        /\ g[a].of = f[a].of /\ g[a].name = f[a].name
    BY <2>1, <2>2 DEF Objects
  <2> QED BY <2>3 DEF Closed, Uses
<1> HIDE DEF g
<1>3. \A a \in Alive(f) : g[a] \in Objects /\ Uses(g, a) \subseteq Alive(f)
  BY <1>2
<1>4. g \in Modules /\ Closed(g) /\ Alive(g) = Alive(f)
  BY <1>1, <1>3, TouchKeeps
<1> QED BY <1>2, <1>4 DEF Same, g

LEMMA VerifyKeeps == BuildOK /\ Verify => BuildOK'
<1> SUFFICES ASSUME BuildOK, Verify PROVE BuildOK'
  OBVIOUS
<1>1. /\ pc = "verify" /\ pc' \in {"visibility", "failed"}
      /\ UNCHANGED <<vis, cfg, fn, mapping, jit>>
  BY DEF Verify, AtStep
<1>2. NamesOK' /\ InputsOK'
  BY <1>1 DEF BuildOK, NamesOK, InputsOK, AsCompiled, OneOrigin, MappedRight, Early, NoHash, Places, Over
<1>3. MapOK'
  BY <1>1 DEF BuildOK, MapOK, MappedRight, Early
<1>4. JitOK'
  BY <1>1 DEF JitOK
<1> QED BY <1>1, <1>2, <1>3, <1>4 DEF BuildOK, ModuleClosed

LEMMA AppliedKeeps ==
  ASSUME NEW o \in Objects, NEW v
  PROVE  /\ Applied(o, v) \in Objects /\ Applied(o, v).of = o.of
         /\ Applied(o, v).calls = o.calls /\ Applied(o, v).refs = o.refs
         /\ Applied(o, v).name = IF v = "internal" /\ cfg.debug THEN Prefix(o.of) ELSE o.name
         /\ Applied(o, v).link = IF v \in {"protected", "private", "internal"} THEN "internal" ELSE o.link
<1> DEFINE link == IF v \in {"protected", "private", "internal"} THEN "internal" ELSE o.link
           inl == CASE v = "internal" -> "always" [] v = "private" /\ cfg.hint -> "hint" [] OTHER -> o.inl
           name == IF v = "internal" /\ cfg.debug THEN Prefix(o.of) ELSE o.name
<1>1. Applied(o, v) = [o EXCEPT !.link = link, !.inl = inl, !.name = name]
  BY DEF Applied
<1>2. link \in {"external", "internal"} /\ inl \in {"none", "hint", "always"}
  BY DEF Objects
<1>3. name \in Labels
  BY ObjectParts DEF Labels, Prefix
<1> HIDE DEF link, inl, name
<1>4. /\ Applied(o, v) \in Objects /\ Applied(o, v).of = o.of
      /\ Applied(o, v).calls = o.calls /\ Applied(o, v).refs = o.refs
      /\ Applied(o, v).name = name /\ Applied(o, v).link = link
  BY <1>1, <1>2, <1>3 DEF Objects
<1> QED BY <1>4 DEF name, link

\* Each address has one entry, so that the visibility applied is its own.
LEMMA OneEntry ==
  ASSUME MapOK, NEW e \in Entries, mapping[e] # Null
  PROVE  EntryAt(mapping[e]) = {e}
BY DEF MapOK, EntryAt

LEMMA ApplyVisibilityKeeps == BuildOK /\ ApplyVisibility => BuildOK'
<1> SUFFICES ASSUME BuildOK, ApplyVisibility PROVE BuildOK'
  OBVIOUS
<1>1. /\ pc = "visibility" /\ pc' = "embed" /\ UNCHANGED <<vis, cfg, mapping, jit>>
      /\ fn' = [a \in Addrs |-> IF EntryAt(a) = {} THEN fn[a]
                                ELSE Applied(fn[a], vis[CHOOSE e \in EntryAt(a) : TRUE])]
  BY DEF ApplyVisibility, AtStep
<1>2. /\ \A a \in Alive(fn) : fn[a].name = Orig(fn[a].of)
      /\ OriginsDiffer(fn) /\ fn \in Modules /\ Closed(fn)
  BY <1>1 DEF BuildOK, NamesOK, AsCompiled, OneOrigin, MappedRight, Early, Plain, ModuleClosed, Closed
<1>3. /\ mapping \in [Entries -> Addrs \cup {Null}]
      /\ \A e \in Entries : mapping[e] # Null => mapping[e] \in Alive(fn) /\ fn[mapping[e]].of = e
  BY <1>1 DEF BuildOK, MapOK, MappedRight, Early
<1>4. \A a \in Addrs \ Alive(fn) : fn'[a] = fn[a]
  <2>1. \A a \in Addrs \ Alive(fn) : EntryAt(a) = {}
    BY <1>3, AddressAssumption DEF EntryAt
  <2> QED BY <1>1, <2>1
<1>5. ASSUME NEW a \in Alive(fn)
      PROVE  /\ fn'[a] \in Objects /\ fn'[a].of = fn[a].of
             /\ fn'[a].calls = fn[a].calls /\ fn'[a].refs = fn[a].refs
             /\ fn'[a].name \in {Orig(fn[a].of), Prefix(fn[a].of)}
  <2>1. fn[a] \in Objects /\ a \in Addrs
    BY <1>2, AliveIsObject DEF Alive
  <2>2. fn[a].name = Orig(fn[a].of)
    BY <1>2
  <2>3. CASE EntryAt(a) = {}
    BY <1>1, <2>1, <2>2, <2>3
  <2>4. CASE EntryAt(a) # {}
    <3> DEFINE v == vis[CHOOSE e \in EntryAt(a) : TRUE]
    <3>1. fn'[a] = Applied(fn[a], v)
      BY <1>1, <2>1, <2>4
    <3> HIDE DEF v
    <3>2. /\ fn'[a] \in Objects /\ fn'[a].of = fn[a].of
          /\ fn'[a].calls = fn[a].calls /\ fn'[a].refs = fn[a].refs
          /\ fn'[a].name = IF v = "internal" /\ cfg.debug THEN Prefix(fn[a].of) ELSE fn[a].name
      BY <2>1, <3>1, AppliedKeeps
    <3> QED BY <2>2, <3>2
  <2> QED BY <2>3, <2>4
<1>6. \A a \in Alive(fn) : Uses(fn', a) \subseteq Alive(fn)
  BY <1>2, <1>5 DEF Closed, Uses
<1>7. fn' \in Modules /\ Alive(fn') = Alive(fn) /\ Closed(fn')
  <2>1. fn' = [a \in Addrs |-> fn'[a]]
    BY <1>1
  <2> QED BY <1>2, <1>4, <1>5, <1>6, <2>1, TouchKeeps
<1>8. Plain(fn')
  BY <1>2, <1>5, <1>7 DEF Plain, OriginsDiffer
<1>9. NamesDiffer(fn') /\ Unhashed(fn')
  BY <1>8 DEF NamesDiffer, Unhashed, Plain, OriginsDiffer, Orig, Prefix, Hash
<1>10. NamesOK'
  BY <1>1, <1>8, <1>9 DEF NamesOK, AsCompiled
<1>11. MapOK'
  <2>1. ASSUME NEW e \in Entries, mapping'[e] # Null
        PROVE  mapping'[e] \in Alive(fn') /\ fn'[mapping'[e]].of = e
    <3>1. mapping'[e] = mapping[e] /\ mapping[e] \in Alive(fn) /\ fn[mapping[e]].of = e
      BY <1>1, <1>3, <2>1
    <3> QED BY <1>5, <1>7, <3>1
  <2>2. /\ mapping' \in [Entries -> Addrs \cup {Null}]
        /\ \A d, e \in Entries : mapping'[d] = mapping'[e] /\ mapping'[e] # Null => d = e
    BY <1>1 DEF BuildOK, MapOK
  <2> QED BY <2>1, <2>2 DEF MapOK
<1>12. InputsOK' /\ JitOK'
  BY <1>1 DEF BuildOK, InputsOK, JitOK, Places, NoHash, OneOrigin, MappedRight, Early
<1> QED BY <1>7, <1>10, <1>11, <1>12 DEF BuildOK, ModuleClosed, Closed

\* Entries whose functions are still where the mapping says.
LEMMA AtAlive ==
  ASSUME MapOK, pc \in MappedRight, NEW S \in SUBSET Entries
  PROVE  At(S) \subseteq Alive(fn)
BY DEF MapOK, At

LEMMA StagesAreEntries == AllStages \subseteq Entries /\ Pipelines \subseteq Entries
BY BlocksAssumption DEF AllStages

LEMMA EmbedKeeps == BuildOK /\ Embed => BuildOK'
<1> SUFFICES ASSUME BuildOK, Embed PROVE BuildOK'
  OBVIOUS
<1>1. /\ pc = "embed" /\ pc' \in {"collect", "codegen"} /\ UNCHANGED <<vis, cfg, mapping, jit>>
      /\ fn' = Relink(fn, At(AllStages), "external") \/ fn' = fn
  BY DEF Embed, AtStep, Relink
<1>2. fn \in Modules /\ Closed(fn)
  BY DEF BuildOK, ModuleClosed, Closed
<1>3. At(AllStages) \subseteq Alive(fn)
  BY <1>1, AtAlive, StagesAreEntries DEF BuildOK, MappedRight, Early
<1>4. fn' \in Modules /\ Closed(fn') /\ Alive(fn') = Alive(fn) /\ Same(fn', fn, Alive(fn'))
  <2>1. CASE fn' = fn
    BY <1>2, <2>1 DEF Same
  <2>2. CASE fn' # fn
    BY <1>1, <1>2, <1>3, <2>2, RelinkKeeps
  <2> QED BY <2>1, <2>2
<1>5. JitOK'
  BY <1>1 DEF JitOK
<1>6. /\ pc' \in Places \ AsCompiled /\ pc' \notin Early
      /\ pc \in OneOrigin /\ pc \in NoHash /\ pc \in MappedRight
  BY <1>1 DEF Places, NoHash, OneOrigin, MappedRight, Early, AsCompiled
<1> QED BY <1>1, <1>4, <1>5, <1>6, RewriteKeeps

LEMMA CodeGenKeeps == BuildOK /\ CodeGen => BuildOK'
<1> SUFFICES ASSUME BuildOK, CodeGen PROVE BuildOK'
  OBVIOUS
<1>1. /\ pc = "codegen" /\ pc' = "inline" /\ UNCHANGED <<vis, cfg, mapping, jit>>
      /\ fn' = [a \in Addrs |->
                  IF a \in At(Pipelines) /\ fn[a].stub
                  THEN LET p == CHOOSE q \in Pipelines : mapping[q] = a
                       IN [fn[a] EXCEPT !.stub = FALSE, !.calls = At(Stages[p])]
                  ELSE fn[a]]
  BY DEF CodeGen, AtStep
<1>2. fn \in Modules /\ Closed(fn)
  BY DEF BuildOK, ModuleClosed, Closed
<1>3. /\ \A S \in SUBSET Entries : At(S) \subseteq Alive(fn)
      /\ pc \in OneOrigin /\ pc \in NoHash /\ pc \in MappedRight /\ pc \notin Early
  BY <1>1, AtAlive DEF BuildOK, MappedRight, Early, OneOrigin, NoHash
<1>4. At(Pipelines) \subseteq Alive(fn)
  BY <1>3, StagesAreEntries
<1>5. ASSUME NEW a \in Alive(fn)
      PROVE  /\ fn'[a] \in Objects /\ Uses(fn', a) \subseteq Alive(fn)
             /\ fn'[a].of = fn[a].of /\ fn'[a].name = fn[a].name
  <2>1. fn[a] \in Objects /\ a \in Addrs /\ fn[a].refs \subseteq Alive(fn)
    BY <1>2, AliveIsObject DEF Alive, Closed, Uses
  <2>2. CASE ~ (a \in At(Pipelines) /\ fn[a].stub)
    <3>1. fn'[a] = fn[a]
      BY <1>1, <2>1, <2>2
    <3> QED BY <1>2, <2>1, <3>1 DEF Closed, Uses
  <2>3. CASE a \in At(Pipelines) /\ fn[a].stub
    <3> DEFINE p == CHOOSE q \in Pipelines : mapping[q] = a
               to == At(Stages[p])
    <3>1. p \in Pipelines
      BY <2>3 DEF At
    <3>2. to \subseteq Alive(fn)
      BY <1>3, <3>1, BlocksAssumption
    <3>3. fn'[a] = [fn[a] EXCEPT !.stub = FALSE, !.calls = to]
      BY <1>1, <2>1, <2>3
    <3> HIDE DEF to, p
    <3>4. to \subseteq Addrs
      BY <3>2 DEF Alive
    <3>5. /\ fn'[a] \in Objects /\ fn'[a].calls = to /\ fn'[a].refs = fn[a].refs
          /\ fn'[a].of = fn[a].of /\ fn'[a].name = fn[a].name
      BY <2>1, <3>3, <3>4 DEF Objects
    <3> QED BY <2>1, <3>2, <3>5 DEF Uses
  <2> QED BY <2>2, <2>3
<1>6. /\ fn' = [a \in Addrs |-> fn'[a]]
      /\ \A a \in Addrs \ Alive(fn) : fn'[a] = fn[a]
  <2> DEFINE made(a) ==
        IF a \in At(Pipelines) /\ fn[a].stub
        THEN LET p == CHOOSE q \in Pipelines : mapping[q] = a
             IN [fn[a] EXCEPT !.stub = FALSE, !.calls = At(Stages[p])]
        ELSE fn[a]
  <2>1. fn' = [a \in Addrs |-> fn'[a]]
    <3>1. fn' = [a \in Addrs |-> made(a)]
      BY <1>1
    <3> HIDE DEF made
    <3> QED BY <3>1
  <2>2. ASSUME NEW a \in Addrs \ Alive(fn) PROVE fn'[a] = fn[a]
    <3>1. ~ (a \in At(Pipelines) /\ fn[a].stub)
      BY <1>4
    <3> QED BY <1>1, <3>1
  <2> QED BY <2>1, <2>2
<1>7. fn' \in Modules /\ Closed(fn') /\ Alive(fn') = Alive(fn)
  BY <1>2, <1>5, <1>6, TouchKeeps
<1>8. Same(fn', fn, Alive(fn')) /\ JitOK'
  BY <1>1, <1>5, <1>7 DEF Same, JitOK
<1>9. pc' \in Places \ AsCompiled /\ pc' \notin Early
  BY <1>1 DEF Places, NoHash, OneOrigin, MappedRight, Early, AsCompiled
<1> QED BY <1>1, <1>3, <1>7, <1>8, <1>9, RewriteKeeps

LEMMA CodeGenFailsKeeps == BuildOK /\ CodeGenFails => BuildOK'
<1> SUFFICES ASSUME BuildOK, CodeGenFails PROVE BuildOK'
  OBVIOUS
<1>1. pc' = "malformed" /\ UNCHANGED <<vis, cfg, fn, mapping, jit>>
  BY DEF CodeGenFails, AtStep
<1>2. /\ pc' \in Places \ AsCompiled /\ pc' \notin Early
      /\ pc' \notin OneOrigin /\ pc' \notin NoHash /\ pc' \notin MappedRight
  BY <1>1 DEF Places, Over, NoHash, OneOrigin, MappedRight, Early, AsCompiled
<1>3. Same(fn', fn, Alive(fn')) /\ Closed(fn') /\ fn' \in Modules /\ JitOK'
  BY <1>1 DEF Same, JitOK, BuildOK, ModuleClosed, Closed
<1>4. Alive(fn') = Alive(fn)
  BY <1>1
<1> QED BY <1>1, <1>2, <1>3, <1>4, RewriteKeeps

LEMMA TopoInlineKeeps == BuildOK /\ TopoInline => BuildOK'
<1> SUFFICES ASSUME BuildOK, TopoInline PROVE BuildOK'
  OBVIOUS
<1> DEFINE inl(a) ==
      LET v == vis[CHOOSE e \in EntryAt(a) : TRUE]
      IN IF /\ a \in FunctorCallees /\ ~ Recursive(fn, a)
            /\ v \in {"private", "internal"}
         THEN "always" ELSE Hinted(a, v)
<1>1. /\ pc = "inline" /\ pc' = "always" /\ UNCHANGED <<vis, cfg, mapping, jit>>
      /\ fn' = [a \in Addrs |-> IF EntryAt(a) = {} THEN fn[a] ELSE [fn[a] EXCEPT !.inl = inl(a)]]
  BY DEF TopoInline, AtStep
<1>2. fn \in Modules /\ Closed(fn)
  BY DEF BuildOK, ModuleClosed, Closed
<1>3. \A a \in Addrs \ Alive(fn) : EntryAt(a) = {}
  BY <1>1, AddressAssumption DEF BuildOK, MapOK, MappedRight, EntryAt
<1>4. ASSUME NEW a \in Alive(fn) PROVE inl(a) \in {"none", "hint", "always"}
  <2>1. fn[a].inl \in {"none", "hint", "always"}
    BY <1>2, AliveIsObject DEF Alive, Objects
  <2>2. \A v : Hinted(a, v) \in {"none", "hint", "always"}
    BY <2>1 DEF Hinted
  <2> QED BY <2>2
<1> HIDE DEF inl
<1>5. ASSUME NEW a \in Alive(fn)
      PROVE  /\ fn'[a] \in Objects /\ Uses(fn', a) \subseteq Alive(fn)
             /\ fn'[a].of = fn[a].of /\ fn'[a].name = fn[a].name
  <2>1. fn[a] \in Objects /\ a \in Addrs /\ Uses(fn, a) \subseteq Alive(fn)
    BY <1>2, AliveIsObject DEF Alive, Closed
  <2>2. fn'[a] = fn[a] \/ fn'[a] = [fn[a] EXCEPT !.inl = inl(a)]
    BY <1>1, <2>1
  <2>3. /\ fn'[a] \in Objects /\ fn'[a].calls = fn[a].calls /\ fn'[a].refs = fn[a].refs
        /\ fn'[a].of = fn[a].of /\ fn'[a].name = fn[a].name
    BY <1>4, <2>1, <2>2 DEF Objects
  <2> QED BY <2>1, <2>3 DEF Uses
<1>6. /\ fn' = [a \in Addrs |-> fn'[a]]
      /\ \A a \in Addrs \ Alive(fn) : fn'[a] = fn[a]
  BY <1>1, <1>3
<1>7. fn' \in Modules /\ Closed(fn') /\ Alive(fn') = Alive(fn)
  BY <1>2, <1>5, <1>6, TouchKeeps
<1>8. Same(fn', fn, Alive(fn')) /\ JitOK'
  BY <1>1, <1>5, <1>7 DEF Same, JitOK
<1>9. /\ pc' \in Places \ AsCompiled /\ pc' \notin Early
      /\ pc \in OneOrigin /\ pc \in NoHash /\ pc \in MappedRight
  BY <1>1 DEF Places, NoHash, OneOrigin, MappedRight, Early, AsCompiled
<1> QED BY <1>1, <1>7, <1>8, <1>9, RewriteKeeps

LEMMA AlwaysInlineKeeps == BuildOK /\ AlwaysInline => BuildOK'
<1> SUFFICES ASSUME BuildOK, AlwaysInline PROVE BuildOK'
  OBVIOUS
<1> DEFINE S == {a \in Alive(fn) : fn[a].inl = "always" /\ ~ Recursive(fn, a)}
           f == Inlined(fn, S)
           E == {a \in S : Local(f, a) /\ Users(f, a) = {}}
<1>1. /\ pc = "always" /\ pc' = "layout" /\ UNCHANGED <<vis, cfg, mapping, jit>>
      /\ fn' = Erase(f, E)
  BY DEF AlwaysInline, AtStep
<1>2. fn \in Modules /\ Closed(fn) /\ S \in SUBSET Alive(fn)
  BY DEF BuildOK, ModuleClosed, Closed
<1> HIDE DEF S
<1>3. f \in Modules /\ Alive(f) = Alive(fn) /\ Closed(f) /\ Same(f, fn, Alive(fn))
  BY <1>2, InlinedKeeps
<1> HIDE DEF f
<1>4. \A a \in Alive(f) \ E : Uses(f, a) \cap E = {}
  BY DEF Users
<1> HIDE DEF E
<1>5. fn' \in Modules /\ Closed(fn') /\ Alive(fn') = Alive(f) \ E
  BY <1>1, <1>3, <1>4, EraseKeeps, EraseCloses
<1>6. Same(fn', fn, Alive(fn')) /\ Alive(fn') \subseteq Alive(fn)
  BY <1>1, <1>3, <1>5, EraseKeeps DEF Same
<1>7. /\ pc' \in Places \ AsCompiled /\ pc' \notin Early /\ pc' \notin MappedRight
      /\ pc \in OneOrigin /\ pc \in NoHash /\ JitOK'
  BY <1>1 DEF Places, NoHash, OneOrigin, MappedRight, Early, AsCompiled, JitOK
<1> QED BY <1>1, <1>5, <1>6, <1>7, RewriteKeeps

LEMMA LayoutKeeps == BuildOK /\ Layout => BuildOK'
<1> SUFFICES ASSUME BuildOK, Layout PROVE BuildOK'
  OBVIOUS
<1>1. /\ pc = "layout" /\ pc' = "parallel" /\ UNCHANGED <<vis, cfg, mapping, jit>>
      /\ \E S \in SUBSET (At(Pipelines) \cap Alive(fn)) :
           \E to \in Injection(S, Unused(fn)) : fn' = Replaced(fn, to, "internal")
  BY DEF Layout, AtStep
<1>2. PICK S \in SUBSET Alive(fn) : \E to \in Injection(S, Unused(fn)) : fn' = Replaced(fn, to, "internal")
  BY <1>1
<1>3. PICK to \in Injection(S, Unused(fn)) : fn' = Replaced(fn, to, "internal")
  BY <1>2
<1>4. fn \in Modules /\ Closed(fn) /\ NamesDiffer(fn) /\ Plain(fn) /\ Unhashed(fn)
  BY <1>1 DEF BuildOK, ModuleClosed, Closed, NamesOK, OneOrigin, NoHash
<1>5. fn' \in Modules /\ Closed(fn')
  BY <1>3, <1>4, ReplacedKeeps
<1>6. NamesDiffer(fn') /\ Plain(fn') /\ Unhashed(fn')
  BY <1>3, <1>4, MovedNames
<1>7. pc' \in Places \ AsCompiled /\ pc' \notin Early /\ pc' \notin MappedRight /\ JitOK'
  BY <1>1 DEF Places, NoHash, OneOrigin, MappedRight, Early, AsCompiled, JitOK
<1> QED BY <1>1, <1>5, <1>6, <1>7, PassKeeps

LEMMA ParallelKeeps == BuildOK /\ Parallel => BuildOK'
<1> SUFFICES ASSUME BuildOK, Parallel PROVE BuildOK'
  OBVIOUS
<1>1. pc = "parallel" /\ pc' = "flatten" /\ UNCHANGED <<vis, cfg, mapping, jit>>
  BY DEF Parallel, AtStep
<1>2. fn \in Modules /\ Closed(fn) /\ NamesDiffer(fn) /\ Plain(fn) /\ Unhashed(fn)
  BY <1>1 DEF BuildOK, ModuleClosed, Closed, NamesOK, OneOrigin, NoHash
<1>3. /\ pc' \in Places \ AsCompiled /\ pc' \notin Early /\ pc' \notin MappedRight
      /\ pc' \notin OneOrigin /\ JitOK'
  BY <1>1 DEF Places, NoHash, OneOrigin, MappedRight, Early, AsCompiled, JitOK
<1>4. CASE UNCHANGED fn
  BY <1>1, <1>2, <1>3, <1>4, PassKeeps DEF Closed, Alive, NamesDiffer, Unhashed
<1>5. CASE ~ UNCHANGED fn
  <2>a. PICK p \in Alive(fn) :
          \E S \in SUBSET fn[p].calls : \E to \in Injection(S, Unused(fn)) : fn' = Spawning(p, S, to)
    BY <1>5 DEF Parallel
  <2>b. PICK S \in SUBSET fn[p].calls : \E to \in Injection(S, Unused(fn)) : fn' = Spawning(p, S, to)
    BY <2>a
  <2>1. PICK to \in Injection(S, Unused(fn)) : fn' = Spawning(p, S, to)
    BY <2>b
  <2> DEFINE wrapper(a) ==
        [of |-> "wrapper", name |-> Wrap(fn[a].of), stub |-> FALSE,
         link |-> "internal", inl |-> "none", calls |-> {a}, refs |-> {}]
             all == Alive(fn) \cup Range(to)
  <2>2. /\ to \in [S -> Unused(fn)] /\ DOMAIN to = S
        /\ \A a, b \in S : to[a] = to[b] => a = b
    BY DEF Injection, IsInjective
  <2>3. Range(to) = {to[a] : a \in S} /\ Range(to) \subseteq Addrs /\ Range(to) \cap Alive(fn) = {}
    BY <2>2 DEF Range, Unused, Alive
  <2>4. fn[p].calls \subseteq Alive(fn) /\ fn[p].refs \subseteq Alive(fn) /\ S \subseteq Alive(fn)
    BY <1>2 DEF Closed, Uses
  <2>5. ASSUME NEW a \in S PROVE fn'[to[a]] = wrapper(a)
    <3>1. to[a] \in Range(to) /\ to[a] \in Addrs
      BY <2>3
    <3>2. (CHOOSE b \in S : to[b] = to[a]) = a
      BY <2>2
    <3> QED BY <2>1, <3>1, <3>2 DEF Spawning
  <2>6. fn'[p] = [fn[p] EXCEPT !.calls = @ \ S, !.refs = @ \cup Range(to)]
    BY <2>1, <2>3 DEF Alive, Spawning
  <2>7. \A x \in Addrs : x \notin Range(to) /\ x # p => fn'[x] = fn[x]
    BY <2>1 DEF Spawning
  <2>8. fn' = [x \in Addrs |-> fn'[x]]
    BY <2>1 DEF Spawning
  <2>9. ASSUME NEW a \in S
        PROVE  /\ fn'[to[a]] \in Objects /\ fn'[to[a]].name = Wrap(fn[a].of)
               /\ Uses(fn', to[a]) \subseteq Alive(fn)
    <3>1. fn[a].of \in Origins /\ a \in Addrs /\ a \in Alive(fn)
      BY <1>2, <2>4, AliveIsObject, ObjectParts DEF Alive
    <3>2. Wrap(fn[a].of) \in Labels
      BY <3>1 DEF Wrap, Labels
    <3>3. wrapper(a) \in Objects
      BY <3>1, <3>2 DEF Objects, Origins
    <3>4. wrapper(a).name = Wrap(fn[a].of) /\ wrapper(a).calls = {a} /\ wrapper(a).refs = {}
      OBVIOUS
    <3> HIDE DEF wrapper
    <3> QED BY <2>5, <3>1, <3>3, <3>4 DEF Uses
  <2>10. /\ fn'[p] \in Objects /\ fn'[p].name = fn[p].name /\ fn'[p].of = fn[p].of
         /\ Uses(fn', p) \subseteq all
    <3>1. fn[p] \in Objects
      BY <1>2, AliveIsObject DEF Alive
    <3>2. fn[p].calls \ S \subseteq Addrs /\ fn[p].refs \cup Range(to) \subseteq Addrs
      BY <2>3, <2>4 DEF Alive
    <3>3. /\ fn'[p] \in Objects /\ fn'[p].name = fn[p].name /\ fn'[p].of = fn[p].of
          /\ fn'[p].calls = fn[p].calls \ S /\ fn'[p].refs = fn[p].refs \cup Range(to)
      BY <2>6, <3>1, <3>2 DEF Objects
    <3> QED BY <2>4, <3>3 DEF Uses
  <2>11. ASSUME NEW x \in Alive(fn)
         PROVE  /\ fn'[x] \in Objects /\ fn'[x].name = fn[x].name
                /\ Uses(fn', x) \subseteq all
    <3>1. CASE x = p
      BY <2>10, <3>1
    <3>2. CASE x # p
      <4>1. fn'[x] = fn[x] /\ fn[x] \in Objects /\ Uses(fn, x) \subseteq Alive(fn)
        BY <1>2, <2>3, <2>7, <3>2, AliveIsObject DEF Alive, Closed
      <4> QED BY <4>1 DEF Uses
    <3> QED BY <3>1, <3>2
  <2>12. \A x \in Addrs \ all : fn'[x] = Gone
    BY <2>7 DEF Alive
  <2> HIDE DEF wrapper
  <2>13. \A x \in all : fn'[x] \in Objects /\ Uses(fn', x) \subseteq all
    BY <2>3, <2>9, <2>11
  <2>14. all \subseteq Addrs
    BY <2>3 DEF Alive
  <2> HIDE DEF all
  <2>15. fn' \in Modules
    BY <2>8, <2>12, <2>13 DEF Modules
  <2>16. Alive(fn') = all
    BY <2>12, <2>13, <2>14, NotGone DEF Alive
  <2>17. Closed(fn')
    BY <2>13, <2>16 DEF Closed
  <2>18. \A x \in all : \/ x \in Alive(fn) /\ fn'[x].name = fn[x].name
                        \/ \E a \in S : x = to[a] /\ fn'[x].name = Wrap(fn[a].of)
    BY <2>3, <2>9, <2>11 DEF all
  <2>19. Unhashed(fn')
    <3> SUFFICES ASSUME NEW x \in all, NEW e \in Origins PROVE fn'[x].name # Hash(e)
      BY <2>16 DEF Unhashed
    <3>1. CASE x \in Alive(fn) /\ fn'[x].name = fn[x].name
      BY <1>2, <3>1 DEF Unhashed
    <3>2. CASE \E a \in S : x = to[a] /\ fn'[x].name = Wrap(fn[a].of)
      BY <3>2 DEF Wrap, Hash
    <3> QED BY <2>18, <3>1, <3>2
  <2>20. NamesDiffer(fn')
    <3> SUFFICES ASSUME NEW x \in all, NEW y \in all, fn'[x].name = fn'[y].name PROVE x = y
      BY <2>16 DEF NamesDiffer
    <3>1. \A z \in Alive(fn), a \in S : fn[z].name # Wrap(fn[a].of)
      BY <1>2 DEF Plain, Orig, Prefix, Wrap
    <3>2. \A a, b \in S : Wrap(fn[a].of) = Wrap(fn[b].of) => a = b
      BY <1>2, <2>4 DEF Plain, OriginsDiffer, Wrap
    <3> QED BY <1>2, <2>18, <3>1, <3>2 DEF NamesDiffer
  <2> QED BY <1>1, <1>3, <2>15, <2>17, <2>19, <2>20, PassKeeps
<1> QED BY <1>4, <1>5

LEMMA FlattenKeeps == BuildOK /\ Flatten => BuildOK'
<1> SUFFICES ASSUME BuildOK, Flatten PROVE BuildOK'
  OBVIOUS
<1> DEFINE A == At(Removable) \cap Alive(fn)
<1>1. /\ pc = "flatten" /\ pc' = "standard" /\ UNCHANGED <<vis, cfg, mapping, jit>>
      /\ fn' = Relink(fn, A, "internal")
  BY DEF Flatten, AtStep, Relink
<1>2. fn \in Modules /\ Closed(fn) /\ A \in SUBSET Alive(fn)
  BY DEF BuildOK, ModuleClosed, Closed
<1> HIDE DEF A
<1>3. fn' \in Modules /\ Closed(fn') /\ Alive(fn') = Alive(fn) /\ Same(fn', fn, Alive(fn'))
  BY <1>1, <1>2, RelinkKeeps
<1>4. /\ pc' \in Places \ AsCompiled /\ pc' \notin Early /\ pc' \notin MappedRight
      /\ pc' \notin OneOrigin /\ pc \in NoHash /\ JitOK'
  BY <1>1 DEF Places, NoHash, OneOrigin, MappedRight, Early, AsCompiled, JitOK
<1> QED BY <1>1, <1>3, <1>4, RewriteKeeps

LEMMA StandardKeeps == BuildOK /\ Standard => BuildOK'
<1> SUFFICES ASSUME BuildOK, Standard PROVE BuildOK'
  OBVIOUS
<1>1. pc = "standard" /\ pc' = "collect" /\ UNCHANGED <<vis, cfg, mapping, jit>>
  BY DEF Standard, AtStep
<1>2. PICK S \in SUBSET Alive(fn) :
        LET f == Swept(Inlined(fn, S))
        IN \/ fn' = f
           \/ \E a \in Alive(f) : \E to \in Injection({a}, Unused(f)) : fn' = Replaced(f, to, "internal")
  BY DEF Standard
<1> DEFINE g == Inlined(fn, S)  f == Swept(g)
<1>3. fn \in Modules /\ Closed(fn) /\ NamesDiffer(fn) /\ Unhashed(fn)
  BY <1>1 DEF BuildOK, ModuleClosed, Closed, NamesOK, NoHash
<1>4. g \in Modules /\ Alive(g) = Alive(fn) /\ Closed(g) /\ Same(g, fn, Alive(fn))
  BY <1>3, InlinedKeeps
<1> HIDE DEF g
<1>5. f \in Modules /\ Closed(f) /\ Alive(f) \subseteq Alive(g) /\ Same(f, g, Alive(f))
  BY <1>4, SweptKeeps DEF Same
<1>6. fn' = f \/ \E a \in Alive(f) : \E to \in Injection({a}, Unused(f)) : fn' = Replaced(f, to, "internal")
  BY <1>2 DEF g
<1> HIDE DEF f
<1>7. NamesDiffer(f) /\ Unhashed(f)
  BY <1>3, <1>4, <1>5, FewerNames
<1>8. fn' \in Modules /\ Closed(fn') /\ NamesDiffer(fn') /\ Unhashed(fn')
  <2>1. CASE fn' = f
    BY <1>5, <1>7, <2>1
  <2>2. ASSUME NEW a \in Alive(f), NEW to \in Injection({a}, Unused(f)), fn' = Replaced(f, to, "internal")
        PROVE  fn' \in Modules /\ Closed(fn') /\ NamesDiffer(fn') /\ Unhashed(fn')
    <3>1. fn' \in Modules /\ Closed(fn')
      BY <1>5, <2>2, ReplacedKeeps
    <3>2. NamesDiffer(fn') /\ Unhashed(fn')
      BY <1>5, <1>7, <2>2, MovedNames
    <3> QED BY <3>1, <3>2
  <2> QED BY <1>6, <2>1, <2>2
<1>9. /\ pc' \in Places \ AsCompiled /\ pc' \notin Early /\ pc' \notin MappedRight
      /\ pc' \notin OneOrigin /\ JitOK'
  BY <1>1 DEF Places, NoHash, OneOrigin, MappedRight, Early, AsCompiled, JitOK
<1> QED BY <1>1, <1>8, <1>9, PassKeeps

LEMMA CollectKeeps == BuildOK /\ Collect => BuildOK'
<1> SUFFICES ASSUME BuildOK, Collect PROVE BuildOK'
  OBVIOUS
<1>1. /\ pc = "collect" /\ pc' = "obfuscate" /\ UNCHANGED <<vis, cfg, fn, mapping>>
      /\ jit' = IF ~ cfg.embed THEN {}
                ELSE {[name |-> fn[a].name, at |-> a] :
                        a \in UNION {Named(fn, Orig(e)) : e \in AllStages \cup Pipelines}}
  BY DEF Collect, AtStep
<1>2. \A j \in jit' : j.at \in Alive(fn)
  BY <1>1 DEF Named
<1>3. JitOK'
  BY <1>1, <1>2 DEF JitOK
<1>4. /\ pc' \in Places \ AsCompiled /\ pc' \notin Early /\ pc' \notin MappedRight
      /\ pc' \notin OneOrigin /\ pc \in NoHash
  BY <1>1 DEF Places, NoHash, OneOrigin, MappedRight, Early, AsCompiled
<1>5. fn' \in Modules /\ Closed(fn') /\ Same(fn', fn, Alive(fn')) /\ Alive(fn') = Alive(fn)
  BY <1>1 DEF BuildOK, ModuleClosed, Closed, Same
<1> QED BY <1>1, <1>3, <1>4, <1>5, RewriteKeeps

LEMMA ObfuscateKeeps == BuildOK /\ Obfuscate => BuildOK'
<1> SUFFICES ASSUME BuildOK, Obfuscate PROVE BuildOK'
  OBVIOUS
<1> DEFINE es(a) == EntryAt(a) \cap Renamed
           e(a) == CHOOSE x \in es(a) : TRUE
<1>1. /\ pc = "obfuscate" /\ pc' = "promote" /\ UNCHANGED <<vis, cfg, mapping, jit>>
      /\ fn' = [a \in Addrs |-> IF es(a) = {} THEN fn[a] ELSE [fn[a] EXCEPT !.name = Hash(e(a))]]
  BY DEF Obfuscate, AtStep
<1>2. fn \in Modules /\ Closed(fn) /\ NamesDiffer(fn) /\ Unhashed(fn)
  BY <1>1 DEF BuildOK, ModuleClosed, Closed, NamesOK, NoHash
<1>3. \A a \in Addrs : es(a) # {} => a \in Alive(fn)
  BY DEF EntryAt, Renamed
<1>4. \A a \in Addrs : es(a) # {} => e(a) \in Entries /\ mapping[e(a)] = a
  BY DEF EntryAt
<1> HIDE DEF es, e
<1>5. ASSUME NEW a \in Alive(fn)
      PROVE  /\ fn'[a] \in Objects /\ Uses(fn', a) \subseteq Alive(fn)
             /\ es(a) = {} => fn'[a].name = fn[a].name
             /\ es(a) # {} => fn'[a].name = Hash(e(a))
  <2>1. fn[a] \in Objects /\ a \in Addrs /\ Uses(fn, a) \subseteq Alive(fn)
    BY <1>2, AliveIsObject DEF Alive, Closed
  <2>2. CASE es(a) = {}
    <3>1. fn'[a] = fn[a]
      BY <1>1, <2>1, <2>2
    <3> QED BY <2>1, <2>2, <3>1 DEF Uses
  <2>3. CASE es(a) # {}
    <3>1. Hash(e(a)) \in Labels
      BY <1>4, <2>1, <2>3 DEF Hash, Labels, Origins
    <3>2. fn'[a] = [fn[a] EXCEPT !.name = Hash(e(a))]
      BY <1>1, <2>1, <2>3
    <3>3. /\ fn'[a] \in Objects /\ fn'[a].name = Hash(e(a))
          /\ fn'[a].calls = fn[a].calls /\ fn'[a].refs = fn[a].refs
      BY <2>1, <3>1, <3>2 DEF Objects
    <3> QED BY <2>1, <2>3, <3>3 DEF Uses
  <2> QED BY <2>2, <2>3
<1>6. /\ fn' = [a \in Addrs |-> fn'[a]]
      /\ \A a \in Addrs \ Alive(fn) : fn'[a] = fn[a]
  BY <1>1, <1>3
<1>7. fn' \in Modules /\ Closed(fn') /\ Alive(fn') = Alive(fn)
  BY <1>2, <1>5, <1>6, TouchKeeps
<1>8. NamesDiffer(fn')
  <2> SUFFICES ASSUME NEW a \in Alive(fn), NEW b \in Alive(fn), fn'[a].name = fn'[b].name PROVE a = b
    BY <1>7 DEF NamesDiffer
  <2>1. a \in Addrs /\ b \in Addrs
    BY DEF Alive
  <2>2. CASE es(a) = {} /\ es(b) = {}
    BY <1>2, <1>5, <2>2 DEF NamesDiffer
  <2>3. CASE es(a) # {} /\ es(b) # {}
    <3>1. Hash(e(a)) = Hash(e(b))
      BY <1>5, <2>3
    <3>2. e(a) = e(b)
      BY <3>1 DEF Hash
    <3> QED BY <1>4, <2>1, <2>3, <3>2
  <2>4. \A x, y \in Alive(fn) : es(x) = {} /\ es(y) # {} => fn'[x].name # fn'[y].name
    <3> SUFFICES ASSUME NEW x \in Alive(fn), NEW y \in Alive(fn), es(x) = {}, es(y) # {}
                 PROVE  fn'[x].name # fn'[y].name
      OBVIOUS
    <3>1. e(y) \in Origins
      BY <1>4 DEF Origins, Alive
    <3> QED BY <1>2, <1>5, <3>1 DEF Unhashed
  <2> QED BY <2>2, <2>3, <2>4
<1>9. JitOK'
  BY <1>1, <1>7 DEF BuildOK, JitOK
<1>10. /\ pc' \in Places \ AsCompiled /\ pc' \notin Early /\ pc' \notin MappedRight
       /\ pc' \notin OneOrigin /\ pc' \notin NoHash
  BY <1>1 DEF Places, NoHash, OneOrigin, MappedRight, Early, AsCompiled
<1> QED BY <1>1, <1>7, <1>8, <1>9, <1>10, PassKeeps

LEMMA PromoteKeeps == BuildOK /\ Promote => BuildOK'
<1> SUFFICES ASSUME BuildOK, Promote PROVE BuildOK'
  OBVIOUS
<1> DEFINE A == {j.at : j \in jit}
<1>1. /\ pc = "promote" /\ pc' = "postverify" /\ UNCHANGED <<vis, cfg, mapping, jit>>
      /\ fn' = Relink(fn, A, "external")
  BY DEF Promote, AtStep, Relink
<1>2. fn \in Modules /\ Closed(fn) /\ A \in SUBSET Alive(fn)
  BY <1>1 DEF BuildOK, ModuleClosed, Closed, JitOK
<1> HIDE DEF A
<1>3. fn' \in Modules /\ Closed(fn') /\ Alive(fn') = Alive(fn) /\ Same(fn', fn, Alive(fn'))
  BY <1>1, <1>2, RelinkKeeps
<1>4. /\ pc' \in Places \ AsCompiled /\ pc' \notin Early /\ pc' \notin MappedRight
      /\ pc' \notin OneOrigin /\ pc' \notin NoHash /\ JitOK'
  BY <1>1 DEF Places, NoHash, OneOrigin, MappedRight, Early, AsCompiled, JitOK
<1> QED BY <1>1, <1>3, <1>4, RewriteKeeps

LEMMA PostVerifyKeeps == BuildOK /\ PostVerify => BuildOK'
<1> SUFFICES ASSUME BuildOK, PostVerify PROVE BuildOK'
  OBVIOUS
<1>1. pc' \in {"failed", "written"} /\ UNCHANGED <<vis, cfg, fn, mapping, jit>>
  BY DEF PostVerify, AtStep
<1>2. /\ pc' \in Places \ AsCompiled /\ pc' \notin Early
      /\ pc' \notin OneOrigin /\ pc' \notin NoHash /\ pc' \notin MappedRight
  BY <1>1 DEF Places, Over, NoHash, OneOrigin, MappedRight, Early, AsCompiled
<1>3. Same(fn', fn, Alive(fn')) /\ Closed(fn') /\ fn' \in Modules /\ JitOK'
  BY <1>1 DEF Same, JitOK, BuildOK, ModuleClosed, Closed
<1>4. Alive(fn') = Alive(fn)
  BY <1>1
<1> QED BY <1>1, <1>2, <1>3, <1>4, RewriteKeeps

LEMMA BuildSame == BuildOK /\ UNCHANGED vars => BuildOK'
BY DEF vars, BuildOK, InputsOK, ModuleClosed, NamesOK, MapOK, JitOK

LEMMA BuildNext == BuildOK /\ [Next]_vars => BuildOK'
BY MapSymbolsKeeps, VerifyKeeps, ApplyVisibilityKeeps, EmbedKeeps, CodeGenKeeps, CodeGenFailsKeeps,
   TopoInlineKeeps, AlwaysInlineKeeps, LayoutKeeps, ParallelKeeps, FlattenKeeps, StandardKeeps,
   CollectKeeps, ObfuscateKeeps, PromoteKeeps, PostVerifyKeeps, BuildSame DEF Next, Finished

LEMMA BuildKeeps == Spec => []BuildOK
BY BuildInit, BuildNext, PTL DEF Spec

(***************************************************************************)
(* No pass leaves a call or a pointer to a function it erased, whatever is *)
(* inlined, replaced, outlined, dropped or given a used address.           *)
(***************************************************************************)
THEOREM UsesStayAlive == Spec => []ModuleClosed
<1>1. BuildOK => ModuleClosed
  BY DEF BuildOK
<1> QED BY <1>1, BuildKeeps, PTL

-----------------------------------------------------------------------------
(* What the linker exports.                                                *)

ExportsOK ==
  pc \in {"postverify", "written"} =>
    \A x \in exports : \E a \in Alive(fn) : fn[a].name = x.current /\ ~ Local(fn, a)

LEMMA ExportsNext == BuildOK /\ ExportsOK /\ [Next]_vars => ExportsOK'
<1> SUFFICES ASSUME BuildOK, ExportsOK, [Next]_vars, pc' \in {"postverify", "written"}
             PROVE  \A x \in exports' : \E a \in Alive(fn') : fn'[a].name = x.current /\ ~ Local(fn', a)
  BY DEF ExportsOK
<1>1. CASE pc \in {"postverify", "written"}
  <2>1. UNCHANGED <<fn, exports>>
    BY <1>1 DEF Next, vars, AtStep, MapSymbols, Verify, ApplyVisibility, Embed, CodeGen, CodeGenFails,
                TopoInline, AlwaysInline, Layout, Parallel, Flatten, Standard, Collect, Obfuscate,
                Promote, PostVerify, Finished
  <2> QED BY <1>1, <2>1 DEF ExportsOK, Local
<1>2. CASE pc \notin {"postverify", "written"}
  <2>1. Promote
    BY <1>2 DEF Next, vars, AtStep, MapSymbols, Verify, ApplyVisibility, Embed, CodeGen, CodeGenFails,
                TopoInline, AlwaysInline, Layout, Parallel, Flatten, Standard, Collect, Obfuscate,
                PostVerify, Finished
  <2> DEFINE A == {j.at : j \in jit}
  <2>2. /\ pc = "promote" /\ fn' = Relink(fn, A, "external")
        /\ exports' = {[original |-> j.name, current |-> fn[j.at].name] : j \in jit}
    BY <2>1 DEF Promote, AtStep, Relink
  <2>3. fn \in Modules /\ Closed(fn) /\ A \in SUBSET Alive(fn)
    BY <2>2 DEF BuildOK, ModuleClosed, Closed, JitOK
  <2>4. ASSUME NEW j \in jit
        PROVE  j.at \in Alive(fn') /\ fn'[j.at].name = fn[j.at].name /\ ~ Local(fn', j.at)
    <3>1. j.at \in A /\ j.at \in Addrs /\ fn[j.at] \in Objects
      BY <2>3, AliveIsObject DEF Alive
    <3>2. fn'[j.at] = [fn[j.at] EXCEPT !.link = "external"]
      BY <2>2, <3>1 DEF Relink
    <3> HIDE DEF A
    <3>3. Alive(fn') = Alive(fn)
      BY <2>2, <2>3, RelinkKeeps
    <3> QED BY <2>3, <3>1, <3>2, <3>3 DEF Objects, Local
  <2> QED BY <2>2, <2>4
<1> QED BY <1>1, <1>2

(***************************************************************************)
(* Each line of the table the linker is given names exactly one function   *)
(* of the module that is written, and one that it exports: renaming after  *)
(* the table's names were found never gives two functions one name, though *)
(* the mapping may point at addresses that were used again.                *)
(***************************************************************************)
THEOREM ExportsAreFunctions == Spec => []ExportsNameFunctions
<1>1. Init => ExportsOK
  BY DEF Init, InitFrom, ExportsOK
<1>2. BuildOK /\ ExportsOK => ExportsNameFunctions
  <2> SUFFICES ASSUME BuildOK, ExportsOK, pc \in {"postverify", "written"}, NEW x \in exports
               PROVE  \E a \in Addrs : Named(fn, x.current) = {a} /\ ~ Local(fn, a)
    BY DEF ExportsNameFunctions
  <2>1. PICK a \in Alive(fn) : fn[a].name = x.current /\ ~ Local(fn, a)
    BY DEF ExportsOK
  <2>2. Named(fn, x.current) = {a}
    BY <2>1 DEF BuildOK, NamesOK, NamesDiffer, Named
  <2> QED BY <2>1, <2>2 DEF Alive
<1> QED BY <1>1, <1>2, ExportsNext, BuildKeeps, PTL DEF Spec

-----------------------------------------------------------------------------
(* What stays in the binary under its own name: the object the mapping     *)
(* points at, as long as a pass has no reason of its own to touch it.      *)

Rooted(e) ==
  /\ mapping[e] \in Alive(fn)
  /\ fn[mapping[e]].name = Orig(e) /\ ~ Local(fn, mapping[e])

\* An object that is rewritten keeps its root when name and linkage are kept.
LEMMA RootedThere ==
  ASSUME BuildOK', NEW e \in Entries, Rooted(e), UNCHANGED mapping,
         mapping[e] \in Alive(fn'), fn'[mapping[e]].name = fn[mapping[e]].name,
         \/ fn'[mapping[e]].link = fn[mapping[e]].link
         \/ fn'[mapping[e]].link = "external"
  PROVE  Rooted(e)'
BY DEF Rooted, Local

LEMMA RootedSame ==
  ASSUME NEW e \in Entries, Rooted(e), UNCHANGED <<fn, mapping>>
  PROVE  Rooted(e)'
BY DEF Rooted, Local

\* A mapped address belongs to one entry only.
LEMMA RootedAlone ==
  ASSUME BuildOK, NEW e \in Entries, Rooted(e)
  PROVE  /\ mapping[e] \in Addrs /\ mapping[e] # Null
         /\ \A S \in SUBSET Entries : mapping[e] \in At(S) => e \in S
         /\ EntryAt(mapping[e]) = {e}
<1>1. mapping[e] \in Addrs /\ mapping[e] # Null
  BY AddressAssumption DEF Rooted, Alive
<1>2. \A d \in Entries : mapping[d] = mapping[e] => d = e
  BY <1>1 DEF BuildOK, MapOK
<1> QED BY <1>1, <1>2 DEF At, EntryAt

\* What the passes after visibility do to a rooted object: nothing, but that a
\* clone may replace a pipeline and a removable function is made local.
LEMMA RootedStays ==
  ASSUME BuildOK, BuildOK', Next, NEW e \in Entries, Rooted(e),
         pc \notin {"map", "visibility", "obfuscate"},
         pc = "layout" => e \notin Pipelines \/ ~ soaWon',
         pc = "flatten" => e \notin Removable
  PROVE  Rooted(e)'
<1> DEFINE a == mapping[e]
<1>1. /\ fn \in Modules /\ Closed(fn) /\ a \in Addrs /\ a \in Alive(fn) /\ fn[a] \in Objects
      /\ ~ Local(fn, a)
  BY AliveIsObject, RootedAlone DEF BuildOK, ModuleClosed, Closed, Rooted
<1>2. \A S \in SUBSET Entries : a \in At(S) => e \in S
  BY RootedAlone
<1> HIDE DEF a
<1>3. ASSUME UNCHANGED mapping, a \in Alive(fn'), fn'[a].name = fn[a].name,
             fn'[a].link = fn[a].link \/ fn'[a].link = "external"
      PROVE  Rooted(e)'
  BY <1>3, RootedThere DEF a
<1>4. CASE Verify \/ CodeGenFails \/ Collect \/ PostVerify \/ Finished
  <2>1. UNCHANGED <<fn, mapping>>
    BY <1>4 DEF Verify, CodeGenFails, Collect, PostVerify, Finished, vars
  <2> QED BY <2>1, RootedSame
<1>5. CASE Embed
  <2>1. pc = "embed" /\ UNCHANGED mapping /\ (fn' = Relink(fn, At(AllStages), "external") \/ fn' = fn)
    BY <1>5 DEF Embed, AtStep, Relink
  <2>2. fn'[a] = fn[a] \/ fn'[a] = [fn[a] EXCEPT !.link = "external"]
    BY <1>1, <2>1 DEF Relink
  <2>3. /\ fn'[a] \in Objects /\ fn'[a].name = fn[a].name
        /\ fn'[a].link = fn[a].link \/ fn'[a].link = "external"
    BY <1>1, <2>2 DEF Objects
  <2>4. a \in Alive(fn')
    BY <1>1, <2>3, NotGone DEF Alive
  <2> QED BY <1>3, <2>1, <2>3, <2>4
<1>6. CASE CodeGen
  <2>1. UNCHANGED mapping
    BY <1>6 DEF CodeGen
  <2>2. fn'[a] = fn[a] \/ \E calls : fn'[a] = [fn[a] EXCEPT !.stub = FALSE, !.calls = calls]
    BY <1>1, <1>6 DEF CodeGen
  <2>3. fn'[a].name = fn[a].name /\ fn'[a].link = fn[a].link
    BY <1>1, <2>2 DEF Objects
  <2>4. a \in Alive(fn')
    <3>1. DOMAIN fn'[a] = DOMAIN fn[a]
      BY <2>2
    <3> QED BY <1>1, <3>1, StillObject DEF Alive
  <2> QED BY <1>3, <2>1, <2>3, <2>4
<1>7. CASE TopoInline
  <2>1. UNCHANGED mapping
    BY <1>7 DEF TopoInline
  <2>2. fn'[a] = fn[a] \/ \E inl : fn'[a] = [fn[a] EXCEPT !.inl = inl]
    BY <1>1, <1>7 DEF TopoInline
  <2>3. fn'[a].name = fn[a].name /\ fn'[a].link = fn[a].link
    BY <1>1, <2>2 DEF Objects
  <2>4. a \in Alive(fn')
    <3>1. DOMAIN fn'[a] = DOMAIN fn[a]
      BY <2>2
    <3> QED BY <1>1, <3>1, StillObject DEF Alive
  <2> QED BY <1>3, <2>1, <2>3, <2>4
<1>8. CASE AlwaysInline
  <2> DEFINE S == {b \in Alive(fn) : fn[b].inl = "always" /\ ~ Recursive(fn, b)}
             f == Inlined(fn, S)
             E == {b \in S : Local(f, b) /\ Users(f, b) = {}}
  <2>1. UNCHANGED mapping /\ fn' = Erase(f, E)
    BY <1>8 DEF AlwaysInline
  <2>2. S \in SUBSET Alive(fn)
    OBVIOUS
  <2> HIDE DEF S
  <2>3. f \in Modules /\ Alive(f) = Alive(fn) /\ Same(f, fn, Alive(fn)) /\ Linked(f, fn, Alive(fn))
    BY <1>1, <2>2, InlinedKeeps
  <2> HIDE DEF f
  <2>4. a \notin E
    BY <1>1, <2>3 DEF Linked, Local
  <2> HIDE DEF E
  <2>5. a \in Alive(fn') /\ fn'[a] = f[a]
    BY <1>1, <2>1, <2>3, <2>4, EraseKeeps
  <2>6. fn'[a].name = fn[a].name /\ fn'[a].link = fn[a].link
    BY <1>1, <2>3, <2>5 DEF Same, Linked
  <2> QED BY <1>3, <2>1, <2>5, <2>6
<1>9. CASE Layout
  <2>1. pc = "layout" /\ UNCHANGED mapping
    BY <1>9 DEF Layout, AtStep
  <2>2. PICK S \in SUBSET (At(Pipelines) \cap Alive(fn)) :
          /\ \E to \in Injection(S, Unused(fn)) : fn' = Replaced(fn, to, "internal")
          /\ soaWon' = (S # {})
    BY <1>9 DEF Layout
  <2>3. PICK to \in Injection(S, Unused(fn)) : fn' = Replaced(fn, to, "internal")
    BY <2>2
  <2>4. a \notin S
    BY <1>2, <2>1, <2>2, StagesAreEntries
  <2>5. /\ Alive(fn') = (Alive(fn) \ S) \cup Range(to)
        /\ Same(fn', fn, Alive(fn) \ S) /\ Linked(fn', fn, Alive(fn) \ S)
    BY <1>1, <2>3, ReplacedKeeps
  <2> QED BY <1>1, <1>3, <2>1, <2>4, <2>5 DEF Same, Linked
<1>10. CASE Parallel
  <2>1. UNCHANGED mapping
    BY <1>10 DEF Parallel
  <2>2. CASE UNCHANGED fn
    BY <2>1, <2>2, RootedSame
  <2>3. CASE ~ UNCHANGED fn
    <3>1. PICK p \in Alive(fn) :
            \E S \in SUBSET fn[p].calls : \E to \in Injection(S, Unused(fn)) : fn' = Spawning(p, S, to)
      BY <1>10, <2>3 DEF Parallel
    <3>2. PICK S \in SUBSET fn[p].calls : \E to \in Injection(S, Unused(fn)) : fn' = Spawning(p, S, to)
      BY <3>1
    <3>3. PICK to \in Injection(S, Unused(fn)) : fn' = Spawning(p, S, to)
      BY <3>2
    <3>4. a \notin Range(to)
      BY <1>1 DEF Injection, Range, Unused, Alive
    <3>5. fn'[a] = fn[a] \/ fn'[a] = [fn[a] EXCEPT !.calls = @ \ S, !.refs = @ \cup Range(to)]
      BY <1>1, <3>3, <3>4 DEF Spawning
    <3>6. fn'[a].name = fn[a].name /\ fn'[a].link = fn[a].link
      BY <1>1, <3>5 DEF Objects
    <3>7. a \in Alive(fn')
      <4>1. DOMAIN fn'[a] = DOMAIN fn[a]
        BY <3>5
      <4> QED BY <1>1, <4>1, StillObject DEF Alive
    <3> QED BY <1>3, <2>1, <3>6, <3>7
  <2> QED BY <2>2, <2>3
<1>11. CASE Flatten
  <2> DEFINE A == At(Removable) \cap Alive(fn)
  <2>1. pc = "flatten" /\ UNCHANGED mapping /\ fn' = Relink(fn, A, "internal")
    BY <1>11 DEF Flatten, AtStep, Relink
  <2>2. a \notin A
    BY <1>2, <2>1 DEF Removable, OfVisibility
  <2> HIDE DEF A
  <2>3. fn'[a] = fn[a]
    BY <1>1, <2>1, <2>2 DEF Relink
  <2>4. a \in Alive(fn')
    BY <1>1, <2>3 DEF Alive
  <2> QED BY <1>3, <2>1, <2>3, <2>4
<1>12. CASE Standard
  <2>1. UNCHANGED mapping
    BY <1>12 DEF Standard
  <2>2. PICK S \in SUBSET Alive(fn) :
          LET f == Swept(Inlined(fn, S))
          IN \/ fn' = f
             \/ \E b \in Alive(f) : Local(f, b) /\ \E to \in Injection({b}, Unused(f)) :
                                                     fn' = Replaced(f, to, "internal")
    BY <1>12 DEF Standard
  <2> DEFINE g == Inlined(fn, S)  f == Swept(g)
  <2>3. /\ g \in Modules /\ Closed(g) /\ Alive(g) = Alive(fn)
        /\ g[a].name = fn[a].name /\ g[a].link = fn[a].link
    BY <1>1, InlinedKeeps DEF Same, Linked
  <2> HIDE DEF g
  <2>4. f \in Modules /\ Closed(f) /\ a \in Alive(f) /\ f[a] = g[a]
    BY <1>1, <2>3, SweptKeeps DEF Local
  <2>5. \/ fn' = f
        \/ \E b \in Alive(f) : Local(f, b) /\ \E to \in Injection({b}, Unused(f)) :
                                                fn' = Replaced(f, to, "internal")
    BY <2>2 DEF g
  <2> HIDE DEF f
  <2>6. CASE fn' = f
    BY <1>3, <2>1, <2>3, <2>4, <2>6
  <2>7. ASSUME NEW b \in Alive(f), Local(f, b),
               NEW to \in Injection({b}, Unused(f)), fn' = Replaced(f, to, "internal")
        PROVE  Rooted(e)'
    <3>1. a # b
      BY <1>1, <2>3, <2>4, <2>7 DEF Local
    <3> DEFINE B == {b}
    <3>2. B \in SUBSET Alive(f) /\ to \in Injection(B, Unused(f))
      OBVIOUS
    <3> HIDE DEF B
    <3>3. /\ Alive(fn') = (Alive(f) \ B) \cup Range(to)
          /\ Same(fn', f, Alive(f) \ B) /\ Linked(fn', f, Alive(f) \ B)
      BY <2>4, <2>7, <3>2, ReplacedKeeps
    <3> QED BY <1>3, <2>1, <2>3, <2>4, <3>1, <3>3 DEF Same, Linked, B
  <2> QED BY <2>5, <2>6, <2>7
<1>13. CASE Promote
  <2> DEFINE A == {j.at : j \in jit}
  <2>1. UNCHANGED mapping /\ fn' = Relink(fn, A, "external")
    BY <1>13 DEF Promote, Relink
  <2> HIDE DEF A
  <2>2. fn'[a] = fn[a] \/ fn'[a] = [fn[a] EXCEPT !.link = "external"]
    BY <1>1, <2>1 DEF Relink
  <2>3. /\ fn'[a] \in Objects /\ fn'[a].name = fn[a].name
        /\ fn'[a].link = fn[a].link \/ fn'[a].link = "external"
    BY <1>1, <2>2 DEF Objects
  <2>4. a \in Alive(fn')
    BY <1>1, <2>3, NotGone DEF Alive
  <2> QED BY <1>3, <2>1, <2>3, <2>4
<1>14. CASE MapSymbols \/ ApplyVisibility \/ Obfuscate
  BY <1>14 DEF MapSymbols, ApplyVisibility, Obfuscate, AtStep
<1> QED BY <1>4, <1>5, <1>6, <1>7, <1>8, <1>9, <1>10, <1>11, <1>12, <1>13, <1>14 DEF Next

-----------------------------------------------------------------------------
(* What is public.                                                         *)

\* No clone has won before the layouts are compared.
NoCloneYet == pc \in {"map", "layout"} \cup MappedRight => ~ soaWon

PublicOK ==
  pc \notin {"map", "failed", "malformed"} /\ ~ soaWon =>
    \A e \in OfVisibility({"public"}) : mapping[e] # Null => Rooted(e)

LEMMA NoCloneNext == NoCloneYet /\ [Next]_vars => NoCloneYet' /\ (soaWon => soaWon')
<1> SUFFICES ASSUME NoCloneYet, [Next]_vars PROVE NoCloneYet' /\ (soaWon => soaWon')
  OBVIOUS
<1>1. CASE Layout
  BY <1>1 DEF Layout, AtStep, NoCloneYet, MappedRight, Early
<1>2. CASE ~ Layout
  <2>1. UNCHANGED soaWon
    BY <1>2 DEF Next, vars, MapSymbols, Verify, ApplyVisibility, Embed, CodeGen, CodeGenFails,
                TopoInline, AlwaysInline, Parallel, Flatten, Standard, Collect, Obfuscate,
                Promote, PostVerify, Finished
  <2>2. \/ pc \in {"map", "layout"} \cup MappedRight
        \/ pc' \notin {"map", "layout"} \cup MappedRight
    BY <1>2 DEF Next, vars, AtStep, MapSymbols, Verify, ApplyVisibility, Embed, CodeGen, CodeGenFails,
                TopoInline, AlwaysInline, Parallel, Flatten, Standard, Collect, Obfuscate,
                Promote, PostVerify, Finished, MappedRight, Early, Over
  <2> QED BY <2>1, <2>2 DEF NoCloneYet
<1> QED BY <1>1, <1>2

\* The mapping that is made finds every function under its own name.
LEMMA MappedIsRooted ==
  ASSUME BuildOK, BuildOK', MapSymbols, NEW e \in Entries, mapping'[e] # Null
  PROVE  Rooted(e)'
<1>1. pc = "map" /\ mapping' = Mapped(fn) /\ fn' = fn
  BY DEF MapSymbols, AtStep
<1>2. Named(fn, Orig(e)) # {}
  BY <1>1 DEF Mapped
<1>3. mapping'[e] \in Named(fn, Orig(e))
  BY <1>1, <1>2 DEF Mapped
<1>4. \A a \in Alive(fn) : ~ Local(fn, a)
  BY <1>1 DEF BuildOK, NamesOK, AsCompiled
<1>5. /\ mapping'[e] \in Alive(fn) /\ fn[mapping'[e]].name = Orig(e)
      /\ ~ Local(fn, mapping'[e])
  BY <1>3, <1>4 DEF Named
<1> QED BY <1>1, <1>5 DEF Rooted

\* What is done to an object whose entry is mapped to it depends on that alone.
LEMMA VisibilityApplied ==
  ASSUME BuildOK, ApplyVisibility, NEW e \in Entries, mapping[e] # Null
  PROVE  /\ mapping[e] \in Alive(fn) /\ fn[mapping[e]] \in Objects /\ fn[mapping[e]].of = e
         /\ fn[mapping[e]].name = Orig(e)
         /\ fn'[mapping[e]] = Applied(fn[mapping[e]], vis[e])
<1>1. /\ pc = "visibility"
      /\ fn' = [a \in Addrs |-> IF EntryAt(a) = {} THEN fn[a]
                                ELSE Applied(fn[a], vis[CHOOSE x \in EntryAt(a) : TRUE])]
  BY DEF ApplyVisibility, AtStep
<1>2. mapping[e] \in Alive(fn) /\ fn[mapping[e]].of = e
  BY <1>1 DEF BuildOK, MapOK, MappedRight, Early
<1>3. fn[mapping[e]].name = Orig(e)
  BY <1>1, <1>2 DEF BuildOK, NamesOK, AsCompiled
<1>4. mapping[e] \in Addrs /\ fn[mapping[e]] \in Objects
  BY <1>2, AliveIsObject DEF BuildOK, Alive
<1>5. EntryAt(mapping[e]) = {e}
  BY OneEntry DEF BuildOK
<1>6. (CHOOSE x \in EntryAt(mapping[e]) : TRUE) = e
  BY <1>5
<1> QED BY <1>1, <1>2, <1>3, <1>4, <1>5, <1>6

LEMMA PublicNext ==
  BuildOK /\ BuildOK' /\ NoCloneYet /\ PublicOK /\ [Next]_vars => PublicOK'
<1> SUFFICES ASSUME BuildOK, BuildOK', NoCloneYet, PublicOK, [Next]_vars, ~ soaWon',
                    pc' \notin {"map", "failed", "malformed"},
                    NEW e \in OfVisibility({"public"})', mapping'[e] # Null
             PROVE  Rooted(e)'
  BY DEF PublicOK
<1>1. e \in Entries /\ vis'[e] = "public" /\ ~ soaWon
  BY NoCloneNext DEF OfVisibility
<1>2. vis' = vis
  BY DEF Next, vars, AtStep, MapSymbols, Verify, ApplyVisibility, Embed, CodeGen, CodeGenFails,
         TopoInline, AlwaysInline, Layout, Parallel, Flatten, Standard, Collect, Obfuscate,
         Promote, PostVerify, Finished
<1>3. CASE MapSymbols
  BY <1>1, <1>3, MappedIsRooted
<1>4. CASE [Next]_vars /\ ~ MapSymbols
  <2>1. mapping' = mapping
    BY <1>4 DEF Next, vars, Verify, ApplyVisibility, Embed, CodeGen, CodeGenFails,
                TopoInline, AlwaysInline, Layout, Parallel, Flatten, Standard, Collect, Obfuscate,
                Promote, PostVerify, Finished
  <2>2. pc \notin {"map", "failed", "malformed"}
    BY <1>4 DEF Next, vars, AtStep, Verify, ApplyVisibility, Embed, CodeGen, CodeGenFails,
                TopoInline, AlwaysInline, Layout, Parallel, Flatten, Standard, Collect, Obfuscate,
                Promote, PostVerify, Finished
  <2>3. e \in OfVisibility({"public"})
    BY <1>1, <1>2 DEF OfVisibility
  <2>4. Rooted(e)
    BY <1>1, <2>1, <2>2, <2>3 DEF PublicOK
  <2>5. CASE ApplyVisibility
    <3> DEFINE a == mapping[e]
    <3>1. /\ a \in Alive(fn) /\ fn[a] \in Objects /\ fn'[a] = Applied(fn[a], "public")
      BY <1>1, <1>2, <2>1, <2>5, VisibilityApplied
    <3>2. fn'[a].name = fn[a].name /\ fn'[a].link = fn[a].link /\ fn'[a] \in Objects
      BY <3>1, AppliedKeeps
    <3>3. a \in Alive(fn')
      BY <3>1, <3>2, NotGone DEF Alive
    <3> QED BY <1>1, <2>1, <2>4, <3>2, <3>3, RootedThere
  <2>6. CASE Obfuscate
    <3> DEFINE a == mapping[e]
    <3>1. EntryAt(a) = {e} /\ a \in Addrs /\ a \in Alive(fn)
      BY <1>1, <2>4, RootedAlone DEF Rooted
    <3>2. EntryAt(a) \cap Renamed = {}
      BY <2>3, <3>1 DEF Renamed
    <3> HIDE DEF a
    <3>3. fn'[a] = fn[a]
      BY <2>6, <3>1, <3>2 DEF Obfuscate
    <3>4. a \in Alive(fn')
      BY <3>1, <3>3 DEF Alive
    <3> QED BY <1>1, <2>1, <2>4, <3>3, <3>4, RootedThere DEF a
  <2>7. CASE UNCHANGED vars
    BY <1>1, <2>4, <2>7, RootedSame DEF vars
  <2>8. CASE Next /\ ~ ApplyVisibility /\ ~ Obfuscate
    <3>1. pc \notin {"map", "visibility", "obfuscate"}
      BY <1>4, <2>8 DEF Next, AtStep, Verify, Embed, CodeGen, CodeGenFails,
                TopoInline, AlwaysInline, Layout, Parallel, Flatten, Standard, Collect,
                Promote, PostVerify, Finished, Over
    <3>2. e \notin Removable
      BY <1>1, <1>2 DEF Removable, OfVisibility
    <3> QED BY <1>1, <2>4, <2>8, <3>1, <3>2, RootedStays
  <2> QED BY <1>4, <2>5, <2>6, <2>7, <2>8
<1> QED BY <1>3, <1>4

(***************************************************************************)
(* What .topo declares public is exported under its own name by the binary *)
(* that is written, unless an SoA clone replaced a pipeline: the first     *)
(* half of VisibilityKept.                                                 *)
(***************************************************************************)
THEOREM PublicIsExported == Spec => []PublicExported
<1>1. Init => NoCloneYet /\ PublicOK
  BY DEF Init, InitFrom, NoCloneYet, PublicOK
<1>2. BuildOK /\ PublicOK => PublicExported
  <2> SUFFICES ASSUME BuildOK, PublicOK, pc = "written", ~ soaWon,
                      NEW e \in OfVisibility({"public"}), mapping[e] # Null
               PROVE  Exported(e)
    BY DEF PublicExported
  <2>1. Rooted(e)
    BY DEF PublicOK
  <2> QED BY <2>1 DEF Rooted, Exported, Named
<1>3. BuildOK /\ NoCloneYet /\ PublicOK /\ [Next]_vars => (NoCloneYet /\ PublicOK)'
  BY BuildNext, NoCloneNext, PublicNext
<1> QED BY <1>1, <1>2, <1>3, BuildKeeps, PTL DEF Spec

-----------------------------------------------------------------------------
(* What the engine finds.                                                  *)

Passing == {"codegen", "inline", "always", "layout", "parallel", "flatten", "standard"}

Exempt(x) ==
  \/ cfg.opt > 0 /\ x.of \in Removable
  \/ cfg.debug /\ vis[x.of] = "internal"
  \/ soaWon /\ x.of \in Pipelines

StagesOK ==
  /\ pc \in {"map"} \cup Early => snapshot = {}
  /\ pc \in Passing => cfg.opt > 0
  /\ pc = "embed" =>
       \A e \in Entries : mapping[e] # Null /\ ~ (cfg.debug /\ vis[e] = "internal")
                            => fn[mapping[e]].name = Orig(e)
  /\ pc \in Passing \cup {"collect"} =>
       /\ snapshot # {} => cfg.embed
       /\ \A x \in snapshot : x.of \in AllStages /\ (Exempt(x) \/ (x.name = Orig(x.of) /\ Rooted(x.of)))
  /\ pc \in {"obfuscate", "promote"} =>
       \A x \in snapshot : Exempt(x) \/ \E j \in jit : j.name = x.name
  /\ pc \in {"postverify", "written"} => \A x \in snapshot : Exempt(x) \/ Resolves(x)

LEMMA ExemptStays ==
  ASSUME NoCloneYet, [Next]_vars, NEW x, Exempt(x)
  PROVE  Exempt(x)'
<1>1. UNCHANGED <<vis, cfg>>
  BY DEF Next, vars, AtStep, MapSymbols, Verify, ApplyVisibility, Embed, CodeGen, CodeGenFails,
         TopoInline, AlwaysInline, Layout, Parallel, Flatten, Standard, Collect, Obfuscate,
         Promote, PostVerify, Finished
<1>2. Removable' = Removable
  BY <1>1 DEF Removable, OfVisibility
<1> QED BY <1>1, <1>2, NoCloneNext DEF Exempt

LEMMA StagesNext ==
  BuildOK /\ BuildOK' /\ NoCloneYet /\ StagesOK /\ [Next]_vars => StagesOK'
<1> SUFFICES ASSUME BuildOK, BuildOK', NoCloneYet, StagesOK, [Next]_vars PROVE StagesOK'
  OBVIOUS
<1> DEFINE Quiet == {"map", "verify", "visibility", "failed", "malformed"}
<1>1. CASE UNCHANGED vars
  BY <1>1 DEF StagesOK, vars, Exempt, Removable, OfVisibility, Rooted, Local, Resolves
<1>2. CASE MapSymbols \/ Verify \/ CodeGenFails
  <2>1. pc' \in Quiet
    BY <1>2 DEF MapSymbols, Verify, CodeGenFails, AtStep
  <2>2. pc' \in {"map"} \cup Early => snapshot' = {}
    BY <1>2 DEF MapSymbols, Verify, CodeGenFails, AtStep, StagesOK, Early
  <2> QED BY <2>1, <2>2 DEF StagesOK, Passing, Early
<1>3. CASE ApplyVisibility
  <2>1. pc' = "embed" /\ UNCHANGED <<vis, cfg, mapping>> /\ snapshot' = {}
    BY <1>3 DEF ApplyVisibility, AtStep, StagesOK, Early
  <2>2. ASSUME NEW e \in Entries, mapping[e] # Null, ~ (cfg.debug /\ vis[e] = "internal")
        PROVE  fn'[mapping[e]].name = Orig(e)
    <3>1. /\ fn[mapping[e]] \in Objects /\ fn[mapping[e]].name = Orig(e)
          /\ fn'[mapping[e]] = Applied(fn[mapping[e]], vis[e])
      BY <1>3, <2>2, VisibilityApplied
    <3> QED BY <2>2, <3>1, AppliedKeeps
  <2> QED BY <2>1, <2>2 DEF StagesOK, Passing, Early
<1>4. CASE Embed
  <2>1. /\ pc = "embed" /\ pc' = (IF cfg.opt = 0 THEN "collect" ELSE "codegen")
        /\ UNCHANGED <<vis, cfg, mapping>>
    BY <1>4 DEF Embed, AtStep
  <2>2. pc' = "codegen" => cfg'.opt > 0
    <3>1. cfg.opt \in Nat
      BY InputAssumption DEF BuildOK, InputsOK
    <3> QED BY <2>1, <3>1
  <2>3. CASE ~ cfg.embed
    <3>1. snapshot' = {}
      BY <1>4, <2>1, <2>3 DEF Embed, StagesOK, Early
    <3> QED BY <2>1, <2>2, <3>1 DEF StagesOK, Passing, Early
  <2>4. CASE cfg.embed
    <3>1. /\ snapshot' = {[of |-> fn[a].of, name |-> fn[a].name] : a \in At(AllStages)}
          /\ fn' = Relink(fn, At(AllStages), "external")
      BY <1>4, <2>4 DEF Embed, Relink
    <3>2. ASSUME NEW x \in snapshot'
          PROVE  x.of \in AllStages /\ (Exempt(x)' \/ (x.name = Orig(x.of) /\ Rooted(x.of)'))
      <4>1. PICK e \in AllStages : /\ mapping[e] # Null /\ mapping[e] \in At(AllStages)
                                   /\ x = [of |-> fn[mapping[e]].of, name |-> fn[mapping[e]].name]
        BY <3>1 DEF At
      <4> DEFINE a == mapping[e]
      <4>2. e \in Entries /\ a \in Alive(fn) /\ fn[a].of = e
        BY <2>1, <4>1, StagesAreEntries DEF BuildOK, MapOK, MappedRight, Early
      <4>3. x.of = e /\ x.name = fn[a].name
        BY <4>1, <4>2
      <4>4. CASE cfg.debug /\ vis[e] = "internal"
        BY <2>1, <4>3, <4>4 DEF Exempt
      <4>5. CASE ~ (cfg.debug /\ vis[e] = "internal")
        <5>1. fn[a].name = Orig(e)
          BY <2>1, <4>1, <4>2, <4>5 DEF StagesOK
        <5>2. fn[a] \in Objects /\ a \in Addrs
          BY <4>2, AliveIsObject DEF BuildOK, Alive
        <5>3. fn'[a] = [fn[a] EXCEPT !.link = "external"]
          BY <3>1, <4>1, <5>2 DEF Relink
        <5>4. fn'[a] \in Objects /\ fn'[a].name = Orig(e) /\ fn'[a].link = "external"
          BY <5>1, <5>2, <5>3 DEF Objects
        <5>5. Rooted(e)'
          BY <2>1, <5>2, <5>4, NotGone DEF Rooted, Alive, Local
        <5> QED BY <4>3, <5>1, <5>5
      <4> QED BY <4>3, <4>4, <4>5
    <3> QED BY <2>1, <2>2, <2>4, <3>2 DEF StagesOK, Passing, Early
  <2> QED BY <2>3, <2>4
<1>5. CASE CodeGen \/ TopoInline \/ AlwaysInline \/ Layout \/ Parallel \/ Flatten \/ Standard
  <2>1. /\ pc \in Passing /\ pc' \in Passing \cup {"collect"} /\ UNCHANGED <<vis, cfg, mapping, snapshot>>
        /\ Next /\ pc \notin {"map", "visibility", "obfuscate"}
    BY <1>5 DEF CodeGen, TopoInline, AlwaysInline, Layout, Parallel, Flatten, Standard, AtStep, Passing, Next
  <2>2. cfg.opt > 0
    BY <2>1 DEF StagesOK
  <2>3. ASSUME NEW x \in snapshot
        PROVE  x.of \in AllStages /\ (Exempt(x)' \/ (x.name = Orig(x.of) /\ Rooted(x.of)'))
    <3>1. x.of \in AllStages /\ (Exempt(x) \/ (x.name = Orig(x.of) /\ Rooted(x.of)))
      BY <2>1 DEF StagesOK
    <3>2. CASE Exempt(x)
      BY <3>1, <3>2, ExemptStays
    <3>3. CASE x.of \in Removable \/ (soaWon' /\ x.of \in Pipelines)
      <4>1. Exempt(x)'
        BY <2>1, <2>2, <3>3 DEF Exempt, Removable, OfVisibility
      <4> QED BY <3>1, <4>1
    <3>4. CASE ~ Exempt(x) /\ ~ (x.of \in Removable \/ (soaWon' /\ x.of \in Pipelines))
      <4>1. x.of \in Entries /\ Rooted(x.of) /\ x.name = Orig(x.of)
        BY <3>1, <3>4, StagesAreEntries
      <4>2. Rooted(x.of)'
        BY <2>1, <3>4, <4>1, RootedStays
      <4> QED BY <3>1, <4>1, <4>2
    <3> QED BY <3>2, <3>3, <3>4
  <2>4. (snapshot # {} => cfg.embed) /\ pc' # "embed" /\ pc' \notin {"obfuscate", "promote", "postverify", "written"}
    BY <2>1 DEF StagesOK, Passing
  <2> QED BY <2>1, <2>2, <2>3, <2>4 DEF StagesOK, Passing, Early
<1>6. CASE Collect
  <2>1. /\ pc = "collect" /\ pc' = "obfuscate" /\ UNCHANGED <<snapshot>>
        /\ jit' = IF ~ cfg.embed THEN {}
                  ELSE {[name |-> fn[a].name, at |-> a] :
                          a \in UNION {Named(fn, Orig(e)) : e \in AllStages \cup Pipelines}}
    BY <1>6 DEF Collect, AtStep
  <2>2. ASSUME NEW x \in snapshot PROVE Exempt(x)' \/ \E j \in jit' : j.name = x.name
    <3>1. /\ cfg.embed /\ x.of \in AllStages
          /\ Exempt(x) \/ (x.name = Orig(x.of) /\ Rooted(x.of))
      BY <2>1 DEF StagesOK
    <3>2. CASE Exempt(x)
      BY <3>2, ExemptStays
    <3>3. CASE x.name = Orig(x.of) /\ Rooted(x.of)
      <4> DEFINE a == mapping[x.of]
      <4>1. a \in Named(fn, Orig(x.of)) /\ fn[a].name = x.name
        BY <3>3 DEF Rooted, Named
      <4>2. a \in UNION {Named(fn, Orig(e)) : e \in AllStages \cup Pipelines}
        BY <3>1, <4>1
      <4> HIDE DEF a
      <4>3. [name |-> fn[a].name, at |-> a] \in jit'
        BY <2>1, <3>1, <4>2
      <4> QED BY <4>1, <4>3
    <3> QED BY <3>1, <3>2, <3>3
  <2> QED BY <2>1, <2>2 DEF StagesOK, Passing, Early
<1>7. CASE Obfuscate
  <2>1. pc = "obfuscate" /\ pc' = "promote" /\ UNCHANGED <<snapshot, jit>>
    BY <1>7 DEF Obfuscate, AtStep
  <2>2. \A x \in snapshot : Exempt(x)' \/ \E j \in jit : j.name = x.name
    BY <2>1, ExemptStays DEF StagesOK
  <2> QED BY <2>1, <2>2 DEF StagesOK, Passing, Early
<1>8. CASE Promote
  <2>1. /\ pc = "promote" /\ pc' = "postverify" /\ UNCHANGED <<snapshot, jit>>
        /\ exports' = {[original |-> j.name, current |-> fn[j.at].name] : j \in jit}
    BY <1>8 DEF Promote, AtStep
  <2>2. ASSUME NEW x \in snapshot PROVE Exempt(x)' \/ Resolves(x)'
    <3>1. Exempt(x) \/ \E j \in jit : j.name = x.name
      BY <2>1 DEF StagesOK
    <3>2. CASE Exempt(x)
      BY <3>2, ExemptStays
    <3>3. ASSUME NEW j \in jit, j.name = x.name PROVE Resolves(x)'
      <4>1. [original |-> j.name, current |-> fn[j.at].name] \in exports'
        BY <2>1
      <4> QED BY <3>3, <4>1 DEF Resolves
    <3> QED BY <3>1, <3>2, <3>3
  <2> QED BY <2>1, <2>2 DEF StagesOK, Passing, Early
<1>9. CASE PostVerify
  <2>1. /\ pc = "postverify" /\ pc' \in {"failed", "written"} /\ UNCHANGED <<snapshot, exports>>
    BY <1>9 DEF PostVerify, AtStep
  <2>2. \A x \in snapshot : Exempt(x)' \/ Resolves(x)'
    BY <2>1, ExemptStays DEF StagesOK, Resolves
  <2> QED BY <2>1, <2>2 DEF StagesOK, Passing, Early
<1> QED BY <1>1, <1>2, <1>3, <1>4, <1>5, <1>6, <1>7, <1>8, <1>9 DEF Next, Finished

(***************************************************************************)
(* The engine resolves every stage the embedded module leaves open, but    *)
(* for those the property names.                                           *)
(***************************************************************************)
THEOREM StagesAreResolved == Spec => []ExternalStagesResolve
<1>1. Init => NoCloneYet /\ StagesOK
  BY DEF Init, InitFrom, NoCloneYet, StagesOK, Passing
<1>2. StagesOK => ExternalStagesResolve
  BY DEF StagesOK, ExternalStagesResolve, Exempt
<1>3. BuildOK /\ NoCloneYet /\ StagesOK /\ [Next]_vars => (NoCloneYet /\ StagesOK)'
  BY BuildNext, NoCloneNext, StagesNext
<1> QED BY <1>1, <1>2, <1>3, BuildKeeps, PTL DEF Spec

-----------------------------------------------------------------------------
(* Internal functions: what becomes of the calls between functions.        *)

LEMMA ThroughCloses ==
  ASSUME NEW f \in Modules, Closed(f), NEW a \in Alive(f), NEW S \in SUBSET Alive(f)
  PROVE  /\ f[a].calls \subseteq Through(f, a, S)
         /\ \A b \in Through(f, a, S) \cap S : f[b].calls \subseteq Through(f, a, S)
<1> DEFINE next == [b \in Addrs |-> IF b \in S THEN f[b].calls ELSE {}]
<1>1. \A b \in Alive(f) : f[b].calls \subseteq Addrs
  BY UsesInAddrs DEF Uses
<1>2. next \in [Addrs -> SUBSET Addrs] /\ f[a].calls \in SUBSET Addrs
  BY <1>1
<1>3. \A b \in S : next[b] = f[b].calls
  BY DEF Alive
<1> HIDE DEF next
<1>4. f[a].calls \subseteq Closure(next, f[a].calls)
  BY <1>2, ClosureHolds
<1>5. \A b \in Closure(next, f[a].calls) : next[b] \subseteq Closure(next, f[a].calls)
  BY <1>2, ClosureCloses
<1> QED BY <1>3, <1>4, <1>5 DEF Through, next

LEMMA ThroughLeast ==
  ASSUME NEW f \in Modules, Closed(f), NEW a \in Alive(f), NEW S \in SUBSET Alive(f),
         NEW R, f[a].calls \subseteq R, \A b \in R \cap S : f[b].calls \subseteq R
  PROVE  Through(f, a, S) \subseteq R
<1> DEFINE next == [b \in Addrs |-> IF b \in S THEN f[b].calls ELSE {}]
<1>1. \A b \in Alive(f) : f[b].calls \subseteq Addrs
  BY UsesInAddrs DEF Uses
<1>2. next \in [Addrs -> SUBSET Addrs] /\ f[a].calls \in SUBSET Addrs
  BY <1>1
<1>3. \A b \in R \cap Addrs : next[b] \subseteq R
  OBVIOUS
<1> HIDE DEF next
<1>4. Closure(next, f[a].calls) \subseteq R
  BY <1>2, <1>3, ClosureLeast
<1> QED BY <1>4 DEF Through, next

\* A cycle stays one if what is on it is moved and keeps its calls.
LEMMA CycleFollowed ==
  ASSUME NEW f \in Modules, Closed(f), NEW g \in Modules, Closed(g),
         NEW m \in [Addrs -> Addrs], NEW R \in SUBSET Alive(f), NEW a \in R,
         \A b \in R : m[b] \in Alive(g) /\ \A c \in f[b].calls : c \in R /\ m[c] \in g[m[b]].calls,
         Recursive(f, a)
  PROVE  Recursive(g, m[a])
<1> DEFINE there == Through(g, m[a], Alive(g))
           Q == {c \in R : m[c] \in there}
<1>1. m[a] \in Alive(g) /\ a \in Alive(f)
  OBVIOUS
<1>2. /\ g[m[a]].calls \subseteq there
      /\ \A b \in there \cap Alive(g) : g[b].calls \subseteq there
  BY <1>1, ThroughCloses
<1> HIDE DEF there
<1>3. f[a].calls \subseteq Q
  BY <1>2
<1>4. \A b \in Q \cap Alive(f) : f[b].calls \subseteq Q
  BY <1>2
<1> HIDE DEF Q
<1>5. Through(f, a, Alive(f)) \subseteq Q
  BY <1>1, <1>3, <1>4, ThroughLeast
<1>6. a \in Q
  BY <1>5 DEF Recursive
<1> QED BY <1>6 DEF Q, Recursive, there

LEMMA CycleStays ==
  ASSUME NEW f \in Modules, Closed(f), NEW g \in Modules, Closed(g),
         NEW R \in SUBSET Alive(f), R \subseteq Alive(g), NEW a \in R,
         \A b \in R : g[b].calls = f[b].calls /\ f[b].calls \subseteq R,
         Recursive(f, a)
  PROVE  Recursive(g, a)
<1> DEFINE m == [b \in Addrs |-> b]
<1>1. m \in [Addrs -> Addrs] /\ \A b \in Addrs : m[b] = b
  OBVIOUS
<1>2. R \subseteq Addrs
  BY DEF Alive
<1> HIDE DEF m
<1>3. \A b \in R : m[b] \in Alive(g) /\ \A c \in f[b].calls : c \in R /\ m[c] \in g[m[b]].calls
  BY <1>1, <1>2
<1>4. Recursive(g, m[a])
  BY <1>1, <1>3, CycleFollowed
<1> QED BY <1>1, <1>2, <1>4

LEMMA InlinedParts ==
  ASSUME NEW f \in Modules, Closed(f), NEW S \in SUBSET Alive(f), NEW a \in Alive(f)
  PROVE  Inlined(f, S)[a].calls = Through(f, a, S) \ S /\ Inlined(f, S)[a].inl = f[a].inl
<1> DEFINE into == Through(f, a, S)  refs == f[a].refs \cup UNION {f[b].refs : b \in into \cap S}
<1>1. f[a] \in Objects /\ a \in Addrs
  BY AliveIsObject DEF Alive
<1>2. Inlined(f, S)[a] = [f[a] EXCEPT !.calls = into \ S, !.refs = refs]
  BY <1>1, NotGone DEF Inlined
<1> HIDE DEF into, refs
<1>3. Inlined(f, S)[a].calls = into \ S /\ Inlined(f, S)[a].inl = f[a].inl
  BY <1>1, <1>2 DEF Objects
<1> QED BY <1>3 DEF into

\* Inlining what is not recursive leaves the cycles as they were.
LEMMA CycleInlined ==
  ASSUME NEW f \in Modules, Closed(f), NEW S \in SUBSET {b \in Alive(f) : ~ Recursive(f, b)},
         NEW a \in Alive(f), Recursive(f, a)
  PROVE  Recursive(Inlined(f, S), a)
<1> DEFINE g == Inlined(f, S)
           from(b) == Through(f, b, Alive(f))
           there == Through(g, a, Alive(g))
           Back(b) == b = a \/ a \in from(b)
           Q == {b \in from(a) : Back(b) => b \in there}
<1>1. g \in Modules /\ Closed(g) /\ Alive(g) = Alive(f)
  BY InlinedKeeps
<1>2. \A b \in Alive(f) : g[b].calls = Through(f, b, S) \ S /\ f[b].calls \subseteq Through(f, b, S)
  BY InlinedParts, ThroughCloses
<1>3. /\ g[a].calls \subseteq there
      /\ \A b \in there \cap Alive(g) : g[b].calls \subseteq there
  BY <1>1, ThroughCloses
<1> HIDE DEF g, there
<1>4. ASSUME NEW b \in Alive(f)
      PROVE  /\ from(b) \subseteq Alive(f) /\ f[b].calls \subseteq from(b)
             /\ \A c \in from(b) : f[c].calls \subseteq from(b)
  BY ThroughCloses, ThroughAlive
<1>5. ASSUME NEW b \in Alive(f), NEW c \in from(b) PROVE from(c) \subseteq from(b)
  <2>1. c \in Alive(f) /\ f[c].calls \subseteq from(b)
    BY <1>4
  <2>2. \A d \in from(b) \cap Alive(f) : f[d].calls \subseteq from(b)
    BY <1>4
  <2> QED BY <2>1, <2>2, ThroughLeast
<1>6. a \in from(a) /\ \A b \in S : b \in Alive(f) /\ b \notin from(b)
  BY DEF Recursive
<1> HIDE DEF from
<1>7. ASSUME NEW c \in from(a), Back(c) PROVE c \notin S
  BY <1>4, <1>5, <1>6, <1>7
<1>8. f[a].calls \subseteq Q
  <2> SUFFICES ASSUME NEW c \in f[a].calls, Back(c) PROVE c \in from(a) /\ c \in there
    BY <1>4
  <2>1. c \in from(a)
    BY <1>4
  <2>2. c \in g[a].calls
    BY <1>2, <1>7, <2>1
  <2> QED BY <1>3, <2>1, <2>2
<1>9. ASSUME NEW b \in Q, NEW c \in f[b].calls PROVE c \in Q
  <2>1. b \in Alive(f) /\ b \in from(a) /\ c \in from(a) /\ c \in Alive(f) /\ c \in from(b)
    BY <1>4
  <2> SUFFICES ASSUME Back(c) PROVE c \in there
    BY <2>1
  <2>2. Back(b)
    BY <1>5, <2>1
  <2>3. b \in there
    BY <2>2
  <2>4. c \in g[b].calls
    BY <1>2, <1>7, <2>1
  <2> QED BY <1>1, <1>3, <2>1, <2>3, <2>4
<1>10. \A b \in Q \cap Alive(f) : f[b].calls \subseteq Q
  BY <1>9
<1> HIDE DEF Q
<1>11. from(a) \subseteq Q
  BY <1>8, <1>10, ThroughLeast DEF from
<1>12. a \in Q
  BY <1>6, <1>11
<1> QED BY <1>12 DEF Q, Recursive, g, there

\* What the sweep leaves of the local functions is used by what it leaves.
LEMMA SweptUsed ==
  ASSUME NEW f \in Modules, Closed(f), NEW a \in Alive(Swept(f)), Local(f, a)
  PROVE  \E b \in Alive(Swept(f)) : a \in Uses(f, b)
<1> DEFINE next == [b \in Addrs |-> IF f[b] = Gone THEN {} ELSE Uses(f, b)]
           roots == {b \in Alive(f) : ~ Local(f, b)}
           live == Closure(next, roots)
<1>1. next \in [Addrs -> SUBSET Addrs] /\ roots \in SUBSET Addrs
  BY UsesInAddrs DEF Alive
<1>2. \A b \in Addrs : next[b] = IF f[b] = Gone THEN {} ELSE Uses(f, b)
  OBVIOUS
<1>3. Swept(f) = Erase(f, Addrs \ live)
  BY DEF Swept
<1> HIDE DEF next, roots
<1>4. roots \subseteq live /\ live \subseteq Addrs /\ \A b \in live : next[b] \subseteq live
  <2>1. roots \subseteq live /\ live \subseteq Addrs
    BY <1>1, ClosureHolds
  <2>2. \A b \in live : next[b] \subseteq live
    BY <1>1, ClosureCloses
  <2> QED BY <2>1, <2>2
<1>5. Alive(Swept(f)) = Alive(f) \cap live
  BY <1>3, <1>4 DEF Erase, Alive
<1> HIDE DEF live
<1>6. SUFFICES ASSUME \A b \in Alive(f) \cap live : a \notin Uses(f, b) PROVE FALSE
  BY <1>5
<1> DEFINE R == live \ {a}
<1>7. roots \subseteq R
  BY <1>4, <1>5 DEF roots
<1>8. \A b \in R \cap Addrs : next[b] \subseteq R
  BY <1>2, <1>4, <1>6 DEF Alive
<1> HIDE DEF R
<1>9. live \subseteq R
  BY <1>1, <1>7, <1>8, ClosureLeast DEF live
<1> QED BY <1>5, <1>9 DEF R

\* Where the replaced objects are: to[a] for a in S.
Moved(S, to) == [b \in Addrs |-> IF b \in S THEN to[b] ELSE b]
Carried(m, A) == {m[b] : b \in A}

LEMMA ReplacedParts ==
  ASSUME NEW f \in Modules, Closed(f), NEW S \in SUBSET Alive(f),
         NEW to \in Injection(S, Unused(f)), NEW a \in Alive(f)
  PROVE  /\ Replaced(f, to, "internal")[Moved(S, to)[a]].of = f[a].of
         /\ Replaced(f, to, "internal")[Moved(S, to)[a]].inl = f[a].inl
         /\ Replaced(f, to, "internal")[Moved(S, to)[a]].link = IF a \in S THEN "internal" ELSE f[a].link
         /\ Replaced(f, to, "internal")[Moved(S, to)[a]].calls = Carried(Moved(S, to), f[a].calls)
         /\ Replaced(f, to, "internal")[Moved(S, to)[a]].refs = Carried(Moved(S, to), f[a].refs)
<1> DEFINE g == Replaced(f, to, "internal")
           moved(A) == {IF b \in DOMAIN to THEN to[b] ELSE b : b \in A}
           fixed(o) == [o EXCEPT !.calls = moved(o.calls), !.refs = moved(o.refs)]
<1> DEFINE m == Moved(S, to)
<1>1. /\ to \in [S -> Unused(f)] /\ DOMAIN to = S
      /\ \A b, c \in S : to[b] = to[c] => b = c
  BY DEF Injection, IsInjective
<1>2. Range(to) = {to[b] : b \in S} /\ Range(to) \subseteq Addrs /\ Range(to) \cap Alive(f) = {}
  BY <1>1 DEF Range, Unused, Alive
<1>3. \A x \in Addrs :
        g[x] = IF x \in Range(to)
               THEN LET b == CHOOSE c \in DOMAIN to : to[c] = x
                    IN [fixed(f[b]) EXCEPT !.link = "internal"]
               ELSE IF x \in DOMAIN to \/ f[x] = Gone THEN Gone ELSE fixed(f[x])
  BY DEF Replaced
<1>4. f[a] \in Objects /\ a \in Addrs /\ f[a].calls \subseteq Addrs /\ f[a].refs \subseteq Addrs
  BY AliveIsObject, ObjectParts DEF Alive
<1>5. moved(f[a].calls) = Carried(m, f[a].calls) /\ moved(f[a].refs) = Carried(m, f[a].refs)
  BY <1>1, <1>4 DEF Moved, Carried
<1>6. \/ a \in S /\ g[m[a]] = [fixed(f[a]) EXCEPT !.link = "internal"]
      \/ a \notin S /\ g[m[a]] = fixed(f[a])
  <2>1. CASE a \in S
    <3>1. m[a] = to[a] /\ to[a] \in Range(to) /\ to[a] \in Addrs
      BY <1>2, <1>4, <2>1 DEF Moved
    <3>2. (CHOOSE c \in DOMAIN to : to[c] = to[a]) = a
      BY <1>1, <2>1
    <3> HIDE DEF fixed, g
    <3> QED BY <1>3, <2>1, <3>1, <3>2
  <2>2. CASE a \notin S
    <3>1. m[a] = a /\ a \notin Range(to) /\ f[a] # Gone
      BY <1>2, <1>4, <2>2 DEF Alive, Moved
    <3> HIDE DEF fixed, g
    <3> QED BY <1>1, <1>3, <1>4, <2>2, <3>1
  <2> QED BY <2>1, <2>2
<1> HIDE DEF g, moved, m
<1> QED BY <1>4, <1>5, <1>6 DEF Objects, g, m

-----------------------------------------------------------------------------
(* Internal functions: what is asked of them until they are inlined, and   *)
(* what is left of them then.                                              *)

Secret == OfVisibility({"internal"})
Wanted(e) == cfg.embed /\ e \in AllStages

Shaded(f) ==
  \A a \in Alive(f) : f[a].of \in Secret => f[a].inl = "always" /\ (Local(f, a) \/ Wanted(f[a].of))
Unseen(f) ==
  \A a \in Alive(f) : f[a].of \in Secret => Recursive(f, a) \/ Taken(f, a) \/ Wanted(f[a].of)

Shading == {"embed", "codegen", "inline", "always", "layout", "parallel", "flatten", "standard"}
Settled == {"collect", "obfuscate", "promote", "postverify", "written"}

HiddenOK ==
  /\ pc \in {"verify", "visibility"} =>
       \A a \in Alive(fn) : fn[a].of \in Entries => mapping[fn[a].of] = a
  /\ pc \in Shading => Shaded(fn)
  /\ pc \in Settled /\ cfg.opt > 0 => Unseen(fn)


\* What inlining and sweeping leave.
LEMMA SweptUnseen ==
  ASSUME NEW f \in Modules, Closed(f), Shaded(f),
         NEW S \in SUBSET {a \in Alive(f) : ~ Recursive(f, a)},
         {a \in Alive(f) : f[a].inl = "always" /\ ~ Recursive(f, a)} \subseteq S
  PROVE  Unseen(Swept(Inlined(f, S)))
<1> DEFINE g == Inlined(f, S)  h == Swept(g)
<1>1. /\ g \in Modules /\ Closed(g) /\ Alive(g) = Alive(f)
      /\ Same(g, f, Alive(f)) /\ Linked(g, f, Alive(f))
  BY InlinedKeeps
<1>2. \A a \in Alive(f) : g[a].calls = Through(f, a, S) \ S
  BY InlinedParts
<1>3. \A a \in Alive(f) : Recursive(f, a) => Recursive(g, a)
  BY CycleInlined
<1> HIDE DEF g
<1>4. /\ h \in Modules /\ Closed(h) /\ Alive(h) \subseteq Alive(g)
      /\ \A a \in Alive(h) : h[a] = g[a]
  BY <1>1, SweptKeeps
<1>5. \A a \in Alive(h) : Local(g, a) => \E b \in Alive(h) : a \in Uses(g, b)
  BY <1>1, SweptUsed
<1> HIDE DEF h
<1>6. ASSUME NEW a \in Alive(h), Recursive(g, a) PROVE Recursive(h, a)
  <2>1. \A b \in Alive(h) : h[b].calls = g[b].calls /\ g[b].calls \subseteq Alive(h)
    BY <1>4 DEF Closed, Uses
  <2> QED BY <1>1, <1>4, <1>6, <2>1, CycleStays
<1>7. SUFFICES ASSUME NEW a \in Alive(h), h[a].of \in Secret, ~ Wanted(h[a].of), ~ Recursive(h, a)
               PROVE  Taken(h, a)
  BY DEF Unseen, h, g
<1>8. a \in Alive(f) /\ h[a] = g[a] /\ g[a].of = f[a].of /\ g[a].link = f[a].link
  BY <1>1, <1>4 DEF Same, Linked
<1>9. f[a].inl = "always" /\ Local(f, a)
  BY <1>7, <1>8 DEF Shaded
<1>10. a \in S
  BY <1>3, <1>6, <1>7, <1>8, <1>9
<1>11. PICK b \in Alive(h) : a \in Uses(g, b)
  BY <1>5, <1>8, <1>9 DEF Local
<1>12. a \notin g[b].calls
  BY <1>1, <1>2, <1>4, <1>10
<1> QED BY <1>4, <1>11, <1>12 DEF Taken, Uses

\* Moving a function whose address is not taken.
LEMMA MovedUnseen ==
  ASSUME NEW f \in Modules, Closed(f), Unseen(f), NEW a \in Alive(f), ~ Taken(f, a),
         NEW to \in Injection({a}, Unused(f))
  PROVE  Unseen(Replaced(f, to, "internal"))
<1> DEFINE g == Replaced(f, to, "internal")
           m == Moved({a}, to)
<1>1. /\ g \in Modules /\ Closed(g) /\ Alive(g) = (Alive(f) \ {a}) \cup Range(to)
  <2>1. {a} \in SUBSET Alive(f) /\ \A b \in {a} : ~ Taken(f, b)
    OBVIOUS
  <2> QED BY <2>1, ReplacedKeeps
<1>2. to[a] \in Unused(f) /\ DOMAIN to = {a} /\ Range(to) = {to[a]}
  BY DEF Injection, Range
<1>3. m \in [Addrs -> Addrs] /\ a \in Addrs /\ m[a] = to[a] /\ \A b \in Addrs \ {a} : m[b] = b
  BY <1>2 DEF Unused, Alive, Moved
<1>4. ASSUME NEW b \in Alive(f)
      PROVE  /\ g[m[b]].of = f[b].of /\ g[m[b]].calls = Carried(m, f[b].calls)
             /\ g[m[b]].refs = Carried(m, f[b].refs)
  <2>1. {a} \in SUBSET Alive(f)
    OBVIOUS
  <2> QED BY <2>1, ReplacedParts
<1> HIDE DEF g, m
<1>5. \A x \in Alive(g) : \E b \in Alive(f) : x = m[b]
  BY <1>1, <1>2, <1>3 DEF Alive
<1>6. \A b \in Alive(f) : m[b] \in Alive(g) /\ f[b].calls \subseteq Alive(f)
  BY <1>1, <1>2, <1>3 DEF Closed, Uses, Alive
<1>7. ASSUME NEW b \in Alive(f), Recursive(f, b) PROVE Recursive(g, m[b])
  <2>1. \A d \in Alive(f) : m[d] \in Alive(g) /\ \A c \in f[d].calls : c \in Alive(f) /\ m[c] \in g[m[d]].calls
    BY <1>4, <1>6 DEF Carried
  <2>2. Alive(f) \in SUBSET Alive(f) /\ Recursive(f, b)
    BY <1>7
  <2> QED BY <1>1, <1>3, <2>1, <2>2, CycleFollowed
<1>8. ASSUME NEW b \in Alive(f), Taken(f, b) PROVE Taken(g, m[b])
  <2>1. PICK d \in Alive(f) : b \in f[d].refs
    BY <1>8 DEF Taken
  <2>2. m[b] \in g[m[d]].refs
    BY <1>4, <2>1 DEF Carried
  <2> QED BY <1>6, <2>2 DEF Taken
<1>9. \A x \in Alive(g) : g[x].of \in Secret => Recursive(g, x) \/ Taken(g, x) \/ Wanted(g[x].of)
  <2> SUFFICES ASSUME NEW x \in Alive(g), g[x].of \in Secret
               PROVE  Recursive(g, x) \/ Taken(g, x) \/ Wanted(g[x].of)
    OBVIOUS
  <2>1. PICK b \in Alive(f) : x = m[b]
    BY <1>5
  <2>2. g[x].of = f[b].of
    BY <1>4, <2>1
  <2>3. Recursive(f, b) \/ Taken(f, b) \/ Wanted(f[b].of)
    BY <2>2 DEF Unseen
  <2> QED BY <1>7, <1>8, <2>1, <2>2, <2>3
<1> QED BY <1>9 DEF Unseen, g

LEMMA ShadedThen ==
  ASSUME UNCHANGED <<vis, cfg>>, pc' \in Shading, Shaded(fn')
  PROVE  HiddenOK'
BY DEF HiddenOK, Shaded, Secret, OfVisibility, Wanted, Shading, Settled

LEMMA UnseenThen ==
  ASSUME UNCHANGED <<vis, cfg>>, pc' \in Settled, cfg.opt > 0 => Unseen(fn')
  PROVE  HiddenOK'
BY DEF HiddenOK, Unseen, Secret, OfVisibility, Wanted, Shading, Settled

\* Names and linkage do not matter to what is left.
LEMMA UnseenKept ==
  ASSUME NEW f \in Modules, Closed(f), NEW g \in Modules, Closed(g), Alive(g) = Alive(f), Unseen(f),
         \A a \in Alive(f) : g[a].of = f[a].of /\ g[a].calls = f[a].calls /\ g[a].refs = f[a].refs
  PROVE  Unseen(g)
<1>1. ASSUME NEW a \in Alive(f), Recursive(f, a) PROVE Recursive(g, a)
  <2>1. \A b \in Alive(f) : g[b].calls = f[b].calls /\ f[b].calls \subseteq Alive(f)
    BY DEF Closed, Uses
  <2> QED BY <1>1, <2>1, CycleStays
<1>2. \A a \in Alive(f) : Taken(f, a) => Taken(g, a)
  BY DEF Taken
<1> QED BY <1>1, <1>2 DEF Unseen

\* The mapping that is made finds every declared function that there is.
LEMMA MapSymbolsHides == BuildOK /\ MapSymbols => HiddenOK'
<1> SUFFICES ASSUME BuildOK, MapSymbols PROVE HiddenOK'
  OBVIOUS
<1>1. pc = "map" /\ pc' = "verify" /\ mapping' = Mapped(fn) /\ fn' = fn
  BY DEF MapSymbols, AtStep
<1>2. ASSUME NEW a \in Alive(fn), fn[a].of \in Entries PROVE mapping'[fn[a].of] = a
  <2>1. fn[a].name = Orig(fn[a].of) /\ NamesDiffer(fn)
    BY <1>1 DEF BuildOK, NamesOK, AsCompiled
  <2>2. Named(fn, Orig(fn[a].of)) = {a}
    BY <2>1 DEF Named, NamesDiffer
  <2> QED BY <1>1, <1>2, <2>2 DEF Mapped
<1> QED BY <1>1, <1>2 DEF HiddenOK, Shading, Settled

LEMMA VerifyHides == HiddenOK /\ Verify => HiddenOK'
BY DEF Verify, AtStep, HiddenOK, Shading, Settled

LEMMA ApplyVisibilityHides == BuildOK /\ HiddenOK /\ ApplyVisibility => HiddenOK'
<1> SUFFICES ASSUME BuildOK, HiddenOK, ApplyVisibility PROVE HiddenOK'
  OBVIOUS
<1>1. /\ pc = "visibility" /\ pc' = "embed" /\ UNCHANGED <<vis, cfg, mapping>>
      /\ fn' = [a \in Addrs |-> IF EntryAt(a) = {} THEN fn[a]
                                ELSE Applied(fn[a], vis[CHOOSE e \in EntryAt(a) : TRUE])]
  BY DEF ApplyVisibility, AtStep
<1>2. \A e \in Entries : mapping[e] # Null => mapping[e] \in Alive(fn)
  BY <1>1 DEF BuildOK, MapOK, MappedRight, Early
<1>3. \A a \in Alive(fn) : a \in Addrs /\ a # Null
  BY AddressAssumption DEF Alive
<1>4. \A a \in Alive(fn) : fn[a].of \in Entries => mapping[fn[a].of] = a
  BY <1>1 DEF HiddenOK
<1>5. ASSUME NEW x \in Alive(fn'), fn'[x].of \in Secret
      PROVE  fn'[x].inl = "always" /\ Local(fn', x)
  <2>1. x \in Addrs /\ fn'[x] # Gone
    BY DEF Alive
  <2>2. x \in Alive(fn)
    <3>1. CASE EntryAt(x) = {}
      BY <1>1, <2>1, <3>1 DEF Alive
    <3>2. CASE EntryAt(x) # {}
      BY <1>2, <1>3, <2>1, <3>2, AddressAssumption DEF EntryAt
    <3> QED BY <3>1, <3>2
  <2>3. fn'[x].of = fn[x].of
    <3>1. CASE EntryAt(x) = {}
      BY <1>1, <2>1, <3>1
    <3>2. CASE EntryAt(x) # {}
      <4>1. fn[x] \in Objects
        BY <2>2, AliveIsObject DEF BuildOK, Alive
      <4>2. fn'[x] = Applied(fn[x], vis[CHOOSE e \in EntryAt(x) : TRUE])
        BY <1>1, <2>1, <3>2
      <4> QED BY <4>1, <4>2, AppliedKeeps
    <3> QED BY <3>1, <3>2
  <2> DEFINE e == fn[x].of
  <2>4. e \in Entries /\ vis[e] = "internal"
    BY <1>5, <2>3 DEF Secret, OfVisibility
  <2>5. mapping[e] = x /\ mapping[e] # Null
    BY <1>3, <1>4, <2>2, <2>4
  <2>6. fn[x] \in Objects /\ fn'[x] = Applied(fn[x], "internal")
    BY <2>4, <2>5, VisibilityApplied
  <2> HIDE DEF e
  <2>7. fn'[x].link = "internal"
    BY <2>6, AppliedKeeps
  <2>8. fn'[x].inl = "always"
    BY <2>6 DEF Applied, Objects
  <2> QED BY <2>7, <2>8 DEF Local
<1>6. Shaded(fn')
  BY <1>5 DEF Shaded
<1> QED BY <1>1, <1>6, ShadedThen DEF Shading

LEMMA EmbedHides == BuildOK /\ HiddenOK /\ Embed => HiddenOK'
<1> SUFFICES ASSUME BuildOK, HiddenOK, Embed PROVE HiddenOK'
  OBVIOUS
<1>1. /\ pc = "embed" /\ pc' = IF cfg.opt = 0 THEN "collect" ELSE "codegen"
      /\ UNCHANGED <<vis, cfg, mapping>>
      /\ \/ cfg.embed /\ fn' = Relink(fn, At(AllStages), "external")
         \/ fn' = fn
  BY DEF Embed, AtStep, Relink
<1>2. fn \in Modules /\ Closed(fn) /\ Shaded(fn)
  BY <1>1 DEF BuildOK, ModuleClosed, Closed, HiddenOK, Shading
<1>3. Shaded(fn')
  <2>1. CASE fn' = fn
    BY <1>2, <2>1
  <2>2. CASE cfg.embed /\ fn' = Relink(fn, At(AllStages), "external")
    <3>1. At(AllStages) \subseteq Alive(fn)
      BY <1>1, AtAlive, StagesAreEntries DEF BuildOK, MappedRight, Early
    <3>2. Alive(fn') = Alive(fn)
      BY <1>2, <2>2, <3>1, RelinkKeeps
    <3>3. ASSUME NEW x \in Alive(fn)
          PROVE  /\ fn'[x].of = fn[x].of /\ fn'[x].inl = fn[x].inl
                 /\ fn'[x].link = fn[x].link \/ Wanted(fn[x].of)
      <4>1. fn[x] \in Objects /\ x \in Addrs
        BY <1>2, AliveIsObject DEF Alive
      <4>2. CASE x \notin At(AllStages)
        BY <2>2, <4>1, <4>2 DEF Relink
      <4>3. CASE x \in At(AllStages)
        <5>1. PICK e \in AllStages : x = mapping[e] /\ mapping[e] # Null
          BY <4>3 DEF At
        <5>2. fn[x].of = e
          BY <1>1, <5>1, StagesAreEntries DEF BuildOK, MapOK, Early
        <5>3. fn'[x] = [fn[x] EXCEPT !.link = "external"]
          BY <2>2, <4>1, <4>3 DEF Relink
        <5>4. fn'[x].of = fn[x].of /\ fn'[x].inl = fn[x].inl
          BY <4>1, <5>3 DEF Objects
        <5> QED BY <2>2, <5>2, <5>4 DEF Wanted
      <4> QED BY <4>2, <4>3
    <3> QED BY <1>2, <3>2, <3>3 DEF Shaded, Local
  <2> QED BY <1>1, <2>1, <2>2
<1>4. CASE cfg.opt = 0
  <2>1. pc' \in Settled /\ ~ (cfg.opt > 0)
    BY <1>1, <1>4 DEF Settled
  <2> QED BY <1>1, <2>1, UnseenThen
<1>5. CASE cfg.opt # 0
  BY <1>1, <1>3, <1>5, ShadedThen DEF Shading
<1> QED BY <1>4, <1>5

LEMMA CodeGenHides == BuildOK /\ HiddenOK /\ CodeGen => HiddenOK'
<1> SUFFICES ASSUME BuildOK, HiddenOK, CodeGen PROVE HiddenOK'
  OBVIOUS
<1> DEFINE stages(a) == LET p == CHOOSE q \in Pipelines : mapping[q] = a IN At(Stages[p])
<1>1. /\ pc = "codegen" /\ pc' = "inline" /\ UNCHANGED <<vis, cfg>>
      /\ fn' = [a \in Addrs |-> IF a \in At(Pipelines) /\ fn[a].stub
                                THEN [fn[a] EXCEPT !.stub = FALSE, !.calls = stages(a)] ELSE fn[a]]
  BY DEF CodeGen, AtStep
<1>2. Shaded(fn) /\ fn \in Modules /\ At(Pipelines) \subseteq Alive(fn)
  BY <1>1, AtAlive, StagesAreEntries DEF BuildOK, HiddenOK, Shading, MappedRight
<1> HIDE DEF stages
<1>3. ASSUME NEW x \in Alive(fn')
      PROVE  /\ x \in Alive(fn) /\ fn'[x].of = fn[x].of
             /\ fn'[x].inl = fn[x].inl /\ fn'[x].link = fn[x].link
  <2>1. x \in Alive(fn)
    BY <1>1, <1>2 DEF Alive
  <2>2. fn[x] \in Objects /\ x \in Addrs
    BY <1>2, <2>1, AliveIsObject DEF Alive
  <2>3. fn'[x] = fn[x] \/ fn'[x] = [fn[x] EXCEPT !.stub = FALSE, !.calls = stages(x)]
    BY <1>1, <2>2
  <2> QED BY <2>1, <2>2, <2>3 DEF Objects
<1>4. Shaded(fn')
  BY <1>2, <1>3 DEF Shaded, Local
<1> QED BY <1>1, <1>4, ShadedThen DEF Shading

LEMMA TopoInlineHides == BuildOK /\ HiddenOK /\ TopoInline => HiddenOK'
<1> SUFFICES ASSUME BuildOK, HiddenOK, TopoInline PROVE HiddenOK'
  OBVIOUS
<1> DEFINE inl(a) ==
      LET v == vis[CHOOSE e \in EntryAt(a) : TRUE]
      IN IF /\ a \in FunctorCallees /\ ~ Recursive(fn, a)
            /\ v \in {"private", "internal"}
         THEN "always" ELSE Hinted(a, v)
<1>1. /\ pc = "inline" /\ pc' = "always" /\ UNCHANGED <<vis, cfg, mapping>>
      /\ fn' = [a \in Addrs |-> IF EntryAt(a) = {} THEN fn[a] ELSE [fn[a] EXCEPT !.inl = inl(a)]]
  BY DEF TopoInline, AtStep
<1>2. Shaded(fn) /\ fn \in Modules
  BY <1>1 DEF BuildOK, HiddenOK, Shading
<1>3. \A a \in Addrs \ Alive(fn) : EntryAt(a) = {}
  BY <1>1, AddressAssumption DEF BuildOK, MapOK, MappedRight, EntryAt
<1>4. ASSUME NEW a \in Alive(fn), fn[a].inl = "always" PROVE inl(a) = "always"
  <2>1. \A v : Hinted(a, v) = "always"
    BY <1>4 DEF Hinted
  <2> QED BY <2>1
<1> HIDE DEF inl
<1>5. ASSUME NEW x \in Alive(fn')
      PROVE  /\ x \in Alive(fn) /\ fn'[x].of = fn[x].of /\ fn'[x].link = fn[x].link
             /\ (fn[x].inl = "always" => fn'[x].inl = "always")
  <2>1. x \in Alive(fn)
    BY <1>1, <1>3 DEF Alive
  <2>2. fn[x] \in Objects /\ x \in Addrs
    BY <1>2, <2>1, AliveIsObject DEF Alive
  <2>3. fn'[x] = fn[x] \/ fn'[x] = [fn[x] EXCEPT !.inl = inl(x)]
    BY <1>1, <2>2
  <2>4. CASE fn'[x] = fn[x]
    BY <2>1, <2>4
  <2>5. CASE fn'[x] = [fn[x] EXCEPT !.inl = inl(x)]
    <3>1. fn'[x].of = fn[x].of /\ fn'[x].link = fn[x].link /\ fn'[x].inl = inl(x)
      BY <2>2, <2>5 DEF Objects
    <3> QED BY <1>4, <2>1, <3>1
  <2> QED BY <2>3, <2>4, <2>5
<1>6. Shaded(fn')
  BY <1>2, <1>5 DEF Shaded, Local
<1> QED BY <1>1, <1>6, ShadedThen DEF Shading

LEMMA AlwaysInlineHides == BuildOK /\ HiddenOK /\ AlwaysInline => HiddenOK'
<1> SUFFICES ASSUME BuildOK, HiddenOK, AlwaysInline PROVE HiddenOK'
  OBVIOUS
<1> DEFINE S == {a \in Alive(fn) : fn[a].inl = "always" /\ ~ Recursive(fn, a)}
           f == Inlined(fn, S)
           E == {a \in S : Local(f, a) /\ Users(f, a) = {}}
<1>1. /\ pc = "always" /\ pc' = "layout" /\ UNCHANGED <<vis, cfg>> /\ fn' = Erase(f, E)
  BY DEF AlwaysInline, AtStep
<1>2. fn \in Modules /\ Closed(fn) /\ Shaded(fn) /\ S \in SUBSET Alive(fn)
  BY <1>1 DEF BuildOK, ModuleClosed, Closed, HiddenOK, Shading
<1> HIDE DEF S
<1>3. /\ f \in Modules /\ Alive(f) = Alive(fn) /\ Same(f, fn, Alive(fn)) /\ Linked(f, fn, Alive(fn))
  BY <1>2, InlinedKeeps
<1>4. \A a \in Alive(fn) : f[a].inl = fn[a].inl
  BY <1>2, InlinedParts
<1> HIDE DEF f, E
<1>5. Alive(fn') = Alive(f) \ E /\ \A a \in Alive(f) \ E : fn'[a] = f[a]
  BY <1>1, <1>3, EraseKeeps
<1>6. Shaded(fn')
  BY <1>2, <1>3, <1>4, <1>5 DEF Shaded, Same, Linked, Local
<1> QED BY <1>1, <1>6, ShadedThen DEF Shading

LEMMA LayoutHides == BuildOK /\ HiddenOK /\ Layout => HiddenOK'
<1> SUFFICES ASSUME BuildOK, HiddenOK, Layout PROVE HiddenOK'
  OBVIOUS
<1>1. /\ pc = "layout" /\ pc' = "parallel" /\ UNCHANGED <<vis, cfg>>
      /\ \E S \in SUBSET (At(Pipelines) \cap Alive(fn)) :
           \E to \in Injection(S, Unused(fn)) : fn' = Replaced(fn, to, "internal")
  BY DEF Layout, AtStep
<1>2. PICK S \in SUBSET Alive(fn) : \E to \in Injection(S, Unused(fn)) : fn' = Replaced(fn, to, "internal")
  BY <1>1
<1>3. PICK to \in Injection(S, Unused(fn)) : fn' = Replaced(fn, to, "internal")
  BY <1>2
<1>4. fn \in Modules /\ Closed(fn) /\ Shaded(fn)
  BY <1>1 DEF BuildOK, ModuleClosed, Closed, HiddenOK, Shading
<1> DEFINE m == Moved(S, to)
<1>5. Alive(fn') = (Alive(fn) \ S) \cup Range(to)
  BY <1>3, <1>4, ReplacedKeeps
<1>6. \A x \in Alive(fn') : \E a \in Alive(fn) : x = m[a]
  <2>1. DOMAIN to = S /\ Range(to) = {to[a] : a \in S}
    BY DEF Injection, Range
  <2> QED BY <1>5, <2>1 DEF Moved, Alive
<1>7. ASSUME NEW a \in Alive(fn)
      PROVE  /\ fn'[m[a]].of = fn[a].of /\ fn'[m[a]].inl = fn[a].inl
             /\ fn'[m[a]].link \in {fn[a].link, "internal"}
  BY <1>3, <1>4, ReplacedParts
<1> HIDE DEF m
<1>8. Shaded(fn')
  BY <1>4, <1>6, <1>7 DEF Shaded, Local
<1> QED BY <1>1, <1>8, ShadedThen DEF Shading

LEMMA ParallelHides == BuildOK /\ HiddenOK /\ Parallel => HiddenOK'
<1> SUFFICES ASSUME BuildOK, HiddenOK, Parallel PROVE HiddenOK'
  OBVIOUS
<1>1. /\ pc = "parallel" /\ pc' = "flatten" /\ UNCHANGED <<vis, cfg>>
  BY DEF Parallel, AtStep
<1>2. fn \in Modules /\ Shaded(fn)
  BY <1>1 DEF BuildOK, HiddenOK, Shading
<1>3. CASE fn' = fn
  BY <1>1, <1>2, <1>3, ShadedThen DEF Shading
<1>4. CASE fn' # fn
  <2>a. PICK p \in Alive(fn) :
          \E S \in SUBSET fn[p].calls : \E to \in Injection(S, Unused(fn)) : fn' = Spawning(p, S, to)
    BY <1>4 DEF Parallel
  <2>b. PICK S \in SUBSET fn[p].calls : \E to \in Injection(S, Unused(fn)) : fn' = Spawning(p, S, to)
    BY <2>a
  <2>1. PICK to \in Injection(S, Unused(fn)) : fn' = Spawning(p, S, to)
    BY <2>b
  <2>2. ASSUME NEW x \in Alive(fn')
        PROVE  \/ fn'[x].of = "wrapper"
               \/ /\ x \in Alive(fn) /\ fn'[x].of = fn[x].of
                  /\ fn'[x].inl = fn[x].inl /\ fn'[x].link = fn[x].link
    <3>1. x \in Addrs
      BY DEF Alive
    <3>2. CASE x \in Range(to)
      BY <2>1, <3>1, <3>2 DEF Spawning
    <3>3. CASE x \notin Range(to) /\ x = p
      <4>1. fn[p] \in Objects
        BY <1>2, AliveIsObject DEF Alive
      <4>2. fn'[p] = [fn[p] EXCEPT !.calls = fn[p].calls \ S, !.refs = fn[p].refs \cup Range(to)]
        BY <2>1, <3>1, <3>3 DEF Spawning
      <4>3. fn'[p].of = fn[p].of /\ fn'[p].inl = fn[p].inl /\ fn'[p].link = fn[p].link
        BY <4>1, <4>2 DEF Objects
      <4> QED BY <3>3, <4>3
    <3>4. CASE x \notin Range(to) /\ x # p
      <4>1. fn'[x] = fn[x]
        BY <2>1, <3>1, <3>4 DEF Spawning
      <4> QED BY <4>1 DEF Alive
    <3> QED BY <3>2, <3>3, <3>4
  <2>3. Shaded(fn')
    BY <1>2, <2>2, BlocksAssumption DEF Shaded, Local, Secret, OfVisibility
  <2> QED BY <1>1, <2>3, ShadedThen DEF Shading
<1> QED BY <1>3, <1>4

LEMMA FlattenHides == BuildOK /\ HiddenOK /\ Flatten => HiddenOK'
<1> SUFFICES ASSUME BuildOK, HiddenOK, Flatten PROVE HiddenOK'
  OBVIOUS
<1>1. /\ pc = "flatten" /\ pc' = "standard" /\ UNCHANGED <<vis, cfg>>
      /\ fn' = Relink(fn, At(Removable) \cap Alive(fn), "internal")
  BY DEF Flatten, AtStep, Relink
<1>2. fn \in Modules /\ Shaded(fn)
  BY <1>1 DEF BuildOK, HiddenOK, Shading
<1>3. ASSUME NEW x \in Alive(fn')
      PROVE  /\ x \in Alive(fn) /\ fn'[x].of = fn[x].of /\ fn'[x].inl = fn[x].inl
             /\ fn'[x].link \in {fn[x].link, "internal"}
  <2>1. x \in Alive(fn)
    BY <1>1 DEF Relink, Alive
  <2>2. fn[x] \in Objects /\ x \in Addrs
    BY <1>2, <2>1, AliveIsObject DEF Alive
  <2>3. fn'[x] = fn[x] \/ fn'[x] = [fn[x] EXCEPT !.link = "internal"]
    BY <1>1, <2>2 DEF Relink
  <2> QED BY <2>1, <2>2, <2>3 DEF Objects
<1>4. Shaded(fn')
  BY <1>2, <1>3 DEF Shaded, Local
<1> QED BY <1>1, <1>4, ShadedThen DEF Shading

LEMMA StandardHides == BuildOK /\ HiddenOK /\ Standard => HiddenOK'
<1> SUFFICES ASSUME BuildOK, HiddenOK, Standard PROVE HiddenOK'
  OBVIOUS
<1> DEFINE able == {a \in Alive(fn) : ~ Recursive(fn, a)}
           must == {a \in able : fn[a].inl = "always"}
           f(S) == Swept(Inlined(fn, S))
<1>1. /\ pc = "standard" /\ pc' = "collect" /\ UNCHANGED <<vis, cfg>>
      /\ \E S \in SUBSET able : must \subseteq S /\
           \/ fn' = f(S)
           \/ \E a \in Alive(f(S)) : /\ Local(f(S), a) /\ ~ Taken(f(S), a)
                                     /\ \E to \in Injection({a}, Unused(f(S))) :
                                          fn' = Replaced(f(S), to, "internal")
  BY DEF Standard, AtStep
<1>2. fn \in Modules /\ Closed(fn) /\ Shaded(fn)
  BY <1>1 DEF BuildOK, ModuleClosed, Closed, HiddenOK, Shading
<1>3. PICK S \in SUBSET able : must \subseteq S /\
           \/ fn' = f(S)
           \/ \E a \in Alive(f(S)) : /\ Local(f(S), a) /\ ~ Taken(f(S), a)
                                     /\ \E to \in Injection({a}, Unused(f(S))) :
                                          fn' = Replaced(f(S), to, "internal")
  BY <1>1
<1> DEFINE h == f(S)
<1>4. Unseen(h)
  <2>1. /\ S \in SUBSET {a \in Alive(fn) : ~ Recursive(fn, a)}
        /\ {a \in Alive(fn) : fn[a].inl = "always" /\ ~ Recursive(fn, a)} \subseteq S
    BY <1>3
  <2> QED BY <1>2, <2>1, SweptUnseen
<1>5. h \in Modules /\ Closed(h)
  <2>1. S \in SUBSET Alive(fn)
    OBVIOUS
  <2>2. Inlined(fn, S) \in Modules /\ Closed(Inlined(fn, S))
    BY <1>2, <2>1, InlinedKeeps
  <2> QED BY <2>2, SweptKeeps
<1>6. \/ fn' = h
      \/ \E a \in Alive(h) : /\ ~ Taken(h, a)
                             /\ \E to \in Injection({a}, Unused(h)) : fn' = Replaced(h, to, "internal")
  BY <1>3
<1> HIDE DEF h
<1>7. Unseen(fn')
  BY <1>4, <1>5, <1>6, MovedUnseen
<1> QED BY <1>1, <1>7, UnseenThen DEF Settled

\* After the passes only names and linkage change.
LEMMA RenamedHides ==
  ASSUME BuildOK, BuildOK', HiddenOK, UNCHANGED <<vis, cfg>>, pc \in Settled, pc' \in Settled,
         Alive(fn') = Alive(fn),
         \A a \in Alive(fn) : fn'[a].of = fn[a].of /\ fn'[a].calls = fn[a].calls /\ fn'[a].refs = fn[a].refs
  PROVE  HiddenOK'
<1>1. fn \in Modules /\ Closed(fn) /\ fn' \in Modules /\ Closed(fn')
  BY DEF BuildOK, ModuleClosed, Closed
<1>2. ASSUME cfg.opt > 0 PROVE Unseen(fn')
  <2>1. Unseen(fn)
    BY <1>2 DEF HiddenOK
  <2> QED BY <1>1, <2>1, UnseenKept
<1> QED BY <1>2, UnseenThen

LEMMA ObfuscateHides == BuildOK /\ BuildOK' /\ HiddenOK /\ Obfuscate => HiddenOK'
<1> SUFFICES ASSUME BuildOK, BuildOK', HiddenOK, Obfuscate PROVE HiddenOK'
  OBVIOUS
<1> DEFINE name(a) == Hash(CHOOSE e \in EntryAt(a) \cap Renamed : TRUE)
<1>1. /\ pc = "obfuscate" /\ pc' = "promote" /\ UNCHANGED <<vis, cfg>>
      /\ fn' = [a \in Addrs |-> IF EntryAt(a) \cap Renamed = {} THEN fn[a]
                                ELSE [fn[a] EXCEPT !.name = name(a)]]
  BY DEF Obfuscate, AtStep
<1>2. \A a \in Alive(fn) : fn[a] \in Objects /\ a \in Addrs
  BY AliveIsObject DEF BuildOK, Alive
<1>3. \A a \in Addrs : EntryAt(a) \cap Renamed # {} => a \in Alive(fn)
  BY DEF EntryAt, Renamed
<1> HIDE DEF name
<1>4. ASSUME NEW a \in Alive(fn)
      PROVE  /\ fn'[a] # Gone /\ fn'[a].of = fn[a].of
             /\ fn'[a].calls = fn[a].calls /\ fn'[a].refs = fn[a].refs
  <2>1. fn'[a] = fn[a] \/ fn'[a] = [fn[a] EXCEPT !.name = name(a)]
    BY <1>1, <1>2
  <2>2. /\ fn'[a].of = fn[a].of /\ fn'[a].calls = fn[a].calls /\ fn'[a].refs = fn[a].refs
        /\ DOMAIN fn'[a] = DOMAIN fn[a]
    BY <1>2, <2>1 DEF Objects
  <2> QED BY <1>2, <2>2, StillObject
<1>5. \A a \in Addrs \ Alive(fn) : fn'[a] = Gone
  BY <1>1, <1>3 DEF Alive
<1>6. Alive(fn') = Alive(fn)
  BY <1>4, <1>5 DEF Alive
<1>7. pc \in Settled /\ pc' \in Settled
  BY <1>1 DEF Settled
<1> QED BY <1>1, <1>4, <1>6, <1>7, RenamedHides

LEMMA PromoteHides == BuildOK /\ BuildOK' /\ HiddenOK /\ Promote => HiddenOK'
<1> SUFFICES ASSUME BuildOK, BuildOK', HiddenOK, Promote PROVE HiddenOK'
  OBVIOUS
<1> DEFINE A == {j.at : j \in jit}
<1>1. /\ pc = "promote" /\ pc' = "postverify" /\ UNCHANGED <<vis, cfg>>
      /\ fn' = [a \in Addrs |-> IF \E j \in jit : j.at = a
                                THEN [fn[a] EXCEPT !.link = "external"] ELSE fn[a]]
  BY DEF Promote, AtStep
<1>2. \A j \in jit : j.at \in Alive(fn)
  BY <1>1 DEF BuildOK, JitOK
<1>3. \A a \in Alive(fn) : fn[a] \in Objects /\ a \in Addrs
  BY AliveIsObject DEF BuildOK, Alive
<1>4. ASSUME NEW a \in Alive(fn)
      PROVE  /\ fn'[a] # Gone /\ fn'[a].of = fn[a].of
             /\ fn'[a].calls = fn[a].calls /\ fn'[a].refs = fn[a].refs
  <2>1. fn'[a] = fn[a] \/ fn'[a] = [fn[a] EXCEPT !.link = "external"]
    BY <1>1, <1>3
  <2>2. /\ fn'[a].of = fn[a].of /\ fn'[a].calls = fn[a].calls /\ fn'[a].refs = fn[a].refs
        /\ DOMAIN fn'[a] = DOMAIN fn[a]
    BY <1>3, <2>1 DEF Objects
  <2> QED BY <1>3, <2>2, StillObject
<1>5. \A a \in Addrs \ Alive(fn) : fn'[a] = Gone
  BY <1>1, <1>2 DEF Alive
<1>6. Alive(fn') = Alive(fn)
  BY <1>4, <1>5 DEF Alive
<1>7. pc \in Settled /\ pc' \in Settled
  BY <1>1 DEF Settled
<1> QED BY <1>1, <1>4, <1>6, <1>7, RenamedHides

LEMMA HiddenNext == BuildOK /\ BuildOK' /\ HiddenOK /\ [Next]_vars => HiddenOK'
<1> SUFFICES ASSUME BuildOK, BuildOK', HiddenOK, [Next]_vars PROVE HiddenOK'
  OBVIOUS
<1>1. CASE Collect
  BY <1>1, RenamedHides DEF Collect, AtStep, Settled
<1>2. CASE PostVerify
  <2>1. pc = "postverify" /\ pc' \in {"failed", "written"} /\ UNCHANGED <<vis, cfg, fn>>
    BY <1>2 DEF PostVerify, AtStep
  <2>2. CASE pc' = "failed"
    BY <2>2 DEF HiddenOK, Shading, Settled
  <2>3. CASE pc' = "written"
    BY <2>1, <2>3, RenamedHides DEF Settled
  <2> QED BY <2>1, <2>2, <2>3
<1>3. CASE CodeGenFails
  BY <1>3 DEF CodeGenFails, AtStep, HiddenOK, Shading, Settled
<1>4. CASE UNCHANGED vars
  BY <1>4 DEF vars, HiddenOK, Shaded, Unseen, Secret, OfVisibility, Wanted
<1>5. CASE Finished
  BY <1>4, <1>5 DEF Finished
<1> QED BY <1>1, <1>2, <1>3, <1>4, <1>5, MapSymbolsHides, VerifyHides, ApplyVisibilityHides,
           EmbedHides, CodeGenHides, TopoInlineHides, AlwaysInlineHides, LayoutHides, ParallelHides,
           FlattenHides, StandardHides, ObfuscateHides, PromoteHides DEF Next

\* The binary shows what .topo declares, no less and no more: public functions
\* are exported under their own names (unless an SoA clone replaced a pipeline),
\* internal ones were inlined into their callers and dropped, but for those that
\* are recursive, have their address taken or are wanted by the engine.
THEOREM BinaryShowsWhatIsDeclared == Spec => []VisibilityKept
<1>1. Init => HiddenOK
  BY DEF Init, InitFrom, HiddenOK, Shading, Settled
<1>2. HiddenOK => InternalGone
  BY DEF HiddenOK, Settled, InternalGone, Unseen, Secret, Wanted
<1>3. Spec => []InternalGone
  BY <1>1, <1>2, BuildKeeps, HiddenNext, PTL DEF Spec
<1>4. PublicExported /\ InternalGone => VisibilityKept
  BY DEF VisibilityKept
<1> QED BY <1>3, <1>4, PublicIsExported, PTL
=============================================================================
