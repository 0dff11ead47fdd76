---------------------------- MODULE RuntimeProofs ----------------------------
(***************************************************************************)
(* What the runtime components of MCRuntime keep, for any threads, spans,  *)
(* engines and bounds: violations are dumped, only a whole engine is used, *)
(* spans end what they began, an arena gives out disjoint pieces and holds *)
(* what malloc gave it, and cost samples and averages are the true ones.   *)
(***************************************************************************)
EXTENDS MCRuntime, FoldLemmas, FunctionTheorems, SequenceTheorems

-----------------------------------------------------------------------------
(* Sums over finite sets.                                                  *)

LEMMA Shrinks ==
  ASSUME NEW S, IsFiniteSet(S), NEW s \in SUBSET S
  PROVE  /\ Cardinality(s) \in Nat /\ (s = {} <=> Cardinality(s) = 0)
         /\ \A x \in s : Cardinality(s \ {x}) + 1 = Cardinality(s)
<1>1. IsFiniteSet(s)
  BY FS_Subset
<1>2. Cardinality(s) \in Nat /\ (s = {} <=> Cardinality(s) = 0)
  BY <1>1, FS_CardinalityType, FS_EmptySet
<1>3. ASSUME NEW x \in s PROVE Cardinality(s \ {x}) + 1 = Cardinality(s)
  <2>1. Cardinality(s \ {x}) = Cardinality(s) - 1
    BY <1>1, FS_RemoveElement
  <2> QED BY <1>2, <2>1
<1> QED BY <1>2, <1>3

\* Induction over the subsets of a finite set.
LEMMA AllSubsets ==
  ASSUME NEW S, IsFiniteSet(S), NEW T,
         \A s \in SUBSET S : (\A x \in s : s \ {x} \in T) => s \in T
  PROVE  SUBSET S \subseteq T
<1> DEFINE N == {n \in Nat : \A s \in SUBSET S : Cardinality(s) = n => s \in T}
<1>1. 0 \in N
  BY Shrinks
<1>2. ASSUME NEW n \in N PROVE n + 1 \in N
  <2> SUFFICES ASSUME NEW s \in SUBSET S, Cardinality(s) = n + 1 PROVE s \in T
    OBVIOUS
  <2>1. ASSUME NEW x \in s PROVE s \ {x} \in T
    <3>1. Cardinality(s \ {x}) + 1 = Cardinality(s) /\ s \ {x} \in SUBSET S
      BY Shrinks
    <3>2. Cardinality(s \ {x}) \in Nat
      BY <3>1, Shrinks
    <3>3. Cardinality(s \ {x}) = n
      BY <3>1, <3>2
    <3> QED BY <3>1, <3>3
  <2> QED BY <2>1
<1>3. N = Nat
  <2>1. N \in SUBSET Nat
    OBVIOUS
  <2> HIDE DEF N
  <2> QED BY <1>1, <1>2, <2>1, AllNumbers
<1>4. ASSUME NEW s \in SUBSET S PROVE s \in T
  <2>1. Cardinality(s) \in N
    BY <1>3, Shrinks
  <2> QED BY <2>1
<1> QED BY <1>4

Pick(s) == CHOOSE x \in s : TRUE
Adding(f, S, G) ==
  G = [s \in SUBSET S |-> IF s = {} THEN 0 ELSE f[Pick(s)] + G[s \ {Pick(s)}]]

\* What SumFunction of the community modules computes.
Sum(f) == LET G == CHOOSE G : Adding(f, DOMAIN f, G) IN G[DOMAIN f]

LEMMA CostSum ==
  ASSUME NEW f PROVE Cost!SumFunction(f) = Sum(f)
BY DEF Cost!SumFunction, Cost!SumFunctionOnSet, Cost!FoldFunctionOnSet, Cost!MapThenFoldSet, Sum, Adding, Pick

LEMMA ArenaSum ==
  ASSUME NEW f PROVE Arena!SumFunction(f) = Sum(f)
BY DEF Arena!SumFunction, Arena!SumFunctionOnSet, Arena!FoldFunctionOnSet, Arena!MapThenFoldSet, Sum, Adding, Pick

LEMMA AddingExists ==
  ASSUME NEW S, IsFiniteSet(S), NEW f \in [S -> Nat]
  PROVE  \E G \in [SUBSET S -> Nat] : Adding(f, S, G)
<1> DEFINE Next0(G, s) == IF s = {} THEN 0 ELSE f[Pick(s)] + G[s \ {Pick(s)}]
           N == {n \in Nat : \E G \in [SUBSET S -> Nat] :
                   \A s \in SUBSET S : Cardinality(s) <= n => G[s] = Next0(G, s)}
<1>1. 0 \in N
  <2> DEFINE G == [s \in SUBSET S |-> 0]
  <2>1. \A s \in SUBSET S : Cardinality(s) <= 0 => s = {}
    BY Shrinks
  <2>2. G \in [SUBSET S -> Nat] /\ \A s \in SUBSET S : Cardinality(s) <= 0 => G[s] = Next0(G, s)
    BY <2>1
  <2> QED BY <2>2
<1>2. ASSUME NEW n \in N PROVE n + 1 \in N
  <2>1. PICK G \in [SUBSET S -> Nat] :
          \A s \in SUBSET S : Cardinality(s) <= n => G[s] = Next0(G, s)
    OBVIOUS
  <2> DEFINE H == [s \in SUBSET S |-> Next0(G, s)]
  <2>2. \A s \in SUBSET S : s # {} => Pick(s) \in s
    BY DEF Pick
  <2>3. H \in [SUBSET S -> Nat]
    <3>1. ASSUME NEW s \in SUBSET S PROVE Next0(G, s) \in Nat
      <4>1. CASE s = {}
        BY <4>1
      <4>2. CASE s # {}
        <5>1. f[Pick(s)] \in Nat /\ G[s \ {Pick(s)}] \in Nat
          BY <2>2, <4>2
        <5> QED BY <4>2, <5>1
      <4> QED BY <4>1, <4>2
    <3> QED BY <3>1
  <2>4. ASSUME NEW s \in SUBSET S, Cardinality(s) <= n + 1
        PROVE  H[s] = Next0(H, s)
    <3>1. CASE s = {}
      BY <3>1
    <3>2. CASE s # {}
      <4>1. Pick(s) \in s /\ s \ {Pick(s)} \in SUBSET S
        BY <2>2, <3>2
      <4>2. Cardinality(s \ {Pick(s)}) + 1 = Cardinality(s)
        BY <4>1, Shrinks
      <4>3. Cardinality(s \ {Pick(s)}) \in Nat /\ Cardinality(s) \in Nat
        BY <4>1, Shrinks
      <4>4. Cardinality(s \ {Pick(s)}) <= n
        BY <2>4, <4>2, <4>3
      <4>5. G[s \ {Pick(s)}] = Next0(G, s \ {Pick(s)})
        BY <2>1, <4>1, <4>4
      <4>6. H[s \ {Pick(s)}] = G[s \ {Pick(s)}]
        BY <4>1, <4>5
      <4>7. H[s] = f[Pick(s)] + G[s \ {Pick(s)}]
        BY <3>2
      <4> QED BY <3>2, <4>6, <4>7
    <3> QED BY <3>1, <3>2
  <2> HIDE DEF H, Next0
  <2> QED BY <2>3, <2>4
<1>3. N = Nat
  <2>1. N \in SUBSET Nat
    OBVIOUS
  <2> HIDE DEF N
  <2> QED BY <1>1, <1>2, <2>1, AllNumbers
<1>4. Cardinality(S) \in N
  BY <1>3, Shrinks
<1>5. PICK G \in [SUBSET S -> Nat] :
        \A s \in SUBSET S : Cardinality(s) <= Cardinality(S) => G[s] = Next0(G, s)
  BY <1>4
<1>6. ASSUME NEW s \in SUBSET S PROVE G[s] = Next0(G, s)
  <2>1. Cardinality(s) <= Cardinality(S)
    BY FS_Subset
  <2> QED BY <1>5, <2>1
<1>7. G = [s \in SUBSET S |-> Next0(G, s)]
  BY <1>6
<1> QED BY <1>7 DEF Adding

\* G adds f up over each subset of S, in any order.
Adds(f, S, G) ==
  /\ G \in [SUBSET S -> Nat] /\ G[{}] = 0
  /\ \A s \in SUBSET S : \A x \in s : G[s] = f[x] + G[s \ {x}]

LEMMA SumAdds ==
  ASSUME NEW S, IsFiniteSet(S), NEW f \in [S -> Nat]
  PROVE  \E G : Adds(f, S, G) /\ Sum(f) = G[S]
<1>1. DOMAIN f = S
  OBVIOUS
<1> DEFINE G == CHOOSE G : Adding(f, S, G)
<1>2. Adding(f, S, G) /\ Sum(f) = G[S]
  <2>1. \E H : Adding(f, S, H)
    BY AddingExists
  <2> QED BY <1>1, <2>1 DEF Sum
<1> HIDE DEF G
<1>3. \A s \in SUBSET S : G[s] = IF s = {} THEN 0 ELSE f[Pick(s)] + G[s \ {Pick(s)}]
  BY <1>2 DEF Adding
<1>4. \A s \in SUBSET S : s # {} => Pick(s) \in s
  BY DEF Pick
<1>5. ASSUME NEW s \in SUBSET S PROVE G[s] \in Nat
  <2> DEFINE T == {u \in SUBSET S : G[u] \in Nat}
  <2>1. ASSUME NEW u \in SUBSET S, \A x \in u : u \ {x} \in T PROVE u \in T
    <3>1. G[u] = IF u = {} THEN 0 ELSE f[Pick(u)] + G[u \ {Pick(u)}]
      BY <1>3
    <3>2. u # {} => Pick(u) \in u /\ f[Pick(u)] \in Nat /\ G[u \ {Pick(u)}] \in Nat
      BY <1>4, <2>1
    <3>3. G[u] \in Nat
      <4> HIDE DEF T
      <4> QED BY <3>1, <3>2
    <3> QED BY <3>3
  <2> HIDE DEF T
  <2>2. SUBSET S \subseteq T
    BY <2>1, AllSubsets
  <2> QED BY <2>2 DEF T
<1>6. ASSUME NEW s \in SUBSET S, NEW x \in s PROVE G[s] = f[x] + G[s \ {x}]
  <2> DEFINE T == {u \in SUBSET S : \A y \in u : G[u] = f[y] + G[u \ {y}]}
  <2>1. ASSUME NEW u \in SUBSET S, \A y \in u : u \ {y} \in T PROVE u \in T
    <3> SUFFICES ASSUME NEW y \in u PROVE G[u] = f[y] + G[u \ {y}]
      OBVIOUS
    <3> DEFINE c == Pick(u)
    <3>1. c \in u /\ G[u] = f[c] + G[u \ {c}]
      BY <1>3, <1>4
    <3> HIDE DEF c
    <3>2. CASE c = y
      BY <3>1, <3>2
    <3>3. CASE c # y
      <4>1. G[u \ {c}] = f[y] + G[(u \ {c}) \ {y}]
        BY <2>1, <3>1, <3>3
      <4>2. G[u \ {y}] = f[c] + G[(u \ {y}) \ {c}]
        BY <2>1, <3>1, <3>3
      <4>3. (u \ {c}) \ {y} = (u \ {y}) \ {c}
        OBVIOUS
      <4>4. PICK z \in Nat : z = G[(u \ {y}) \ {c}]
        BY <1>5
      <4>5. G[u \ {c}] = f[y] + z /\ G[u \ {y}] = f[c] + z
        BY <4>1, <4>2, <4>3, <4>4
      <4>6. f[y] \in Nat /\ f[c] \in Nat
        BY <3>1
      <4> HIDE DEF T
      <4> QED BY <3>1, <4>5, <4>6
    <3> QED BY <3>2, <3>3
  <2> HIDE DEF T
  <2>2. SUBSET S \subseteq T
    BY <2>1, AllSubsets
  <2> QED BY <2>2 DEF T
<1>7. G = [s \in SUBSET S |-> G[s]]
  BY <1>2 DEF Adding
<1>8. G \in [SUBSET S -> Nat]
  BY <1>5, <1>7
<1>9. G[{}] = 0
  BY <1>3
<1> QED BY <1>2, <1>6, <1>8, <1>9 DEF Adds

LEMMA SumsAgree ==
  ASSUME NEW S, NEW T, NEW f, NEW h, NEW G, NEW H, Adds(f, S, G), Adds(h, T, H),
         NEW A \in SUBSET S, A \in SUBSET T, IsFiniteSet(A), \A x \in A : f[x] = h[x]
  PROVE  G[A] = H[A]
<1> DEFINE E == {s \in SUBSET A : G[s] = H[s]}
<1>1. ASSUME NEW s \in SUBSET A, \A x \in s : s \ {x} \in E PROVE s \in E
  <2>1. CASE s = {}
    BY <2>1 DEF Adds
  <2>2. CASE s # {}
    <3>1. PICK x \in s : TRUE
      BY <2>2
    <3>2. G[s] = f[x] + G[s \ {x}] /\ H[s] = h[x] + H[s \ {x}]
      BY DEF Adds
    <3>3. G[s \ {x}] = H[s \ {x}] /\ f[x] = h[x]
      BY <1>1
    <3> QED BY <3>2, <3>3
  <2> QED BY <2>1, <2>2
<1> HIDE DEF E
<1>2. SUBSET A \subseteq E
  BY <1>1, AllSubsets
<1> QED BY <1>2 DEF E

LEMMA SumType ==
  ASSUME NEW S, IsFiniteSet(S), NEW f \in [S -> Nat]
  PROVE  Sum(f) \in Nat
<1>1. PICK G : Adds(f, S, G) /\ Sum(f) = G[S]
  BY SumAdds
<1> QED BY <1>1 DEF Adds

LEMMA SumOfNone ==
  ASSUME NEW f \in [{} -> Nat] PROVE Sum(f) = 0
<1>1. PICK G : Adds(f, {}, G) /\ Sum(f) = G[{}]
  BY SumAdds, FS_EmptySet
<1> QED BY <1>1 DEF Adds

\* An element more.
LEMMA SumOfMore ==
  ASSUME NEW S, IsFiniteSet(S), NEW x, x \notin S, NEW f \in [S \cup {x} -> Nat], NEW h \in [S -> Nat],
         \A y \in S : f[y] = h[y]
  PROVE  Sum(f) = f[x] + Sum(h)
<1>1. IsFiniteSet(S \cup {x})
  BY FS_AddElement
<1>2. PICK G : Adds(f, S \cup {x}, G) /\ Sum(f) = G[S \cup {x}]
  BY <1>1, SumAdds
<1>3. PICK H : Adds(h, S, H) /\ Sum(h) = H[S]
  BY SumAdds
<1>4. (S \cup {x}) \ {x} = S /\ x \in S \cup {x} /\ S \cup {x} \in SUBSET (S \cup {x})
  OBVIOUS
<1>5. G[S \cup {x}] = f[x] + G[S]
  <2>1. G[S \cup {x}] = f[x] + G[(S \cup {x}) \ {x}]
    BY <1>2, <1>4 DEF Adds
  <2> QED BY <1>4, <2>1
<1>6. G[S] = H[S]
  BY <1>2, <1>3, SumsAgree
<1> QED BY <1>2, <1>3, <1>5, <1>6

\* Another value for one element.
SameBut(S, x, f, h) ==
  /\ IsFiniteSet(S) /\ x \in S /\ f \in [S -> Nat] /\ h \in [S -> Nat]
  /\ \A y \in S \ {x} : f[y] = h[y]

LEMMA SumChanged ==
  ASSUME NEW S, NEW x, NEW f, NEW h, SameBut(S, x, f, h)
  PROVE  Sum(f) + h[x] = Sum(h) + f[x]
<1> /\ IsFiniteSet(S) /\ x \in S /\ f \in [S -> Nat] /\ h \in [S -> Nat]
    /\ \A y \in S \ {x} : f[y] = h[y]
  BY DEF SameBut
<1> DEFINE g == [y \in S \ {x} |-> f[y]]
<1>1. IsFiniteSet(S \ {x}) /\ (S \ {x}) \cup {x} = S /\ x \notin S \ {x}
  BY FS_Subset
<1>2. /\ g \in [S \ {x} -> Nat]
      /\ \A y \in S \ {x} : f[y] = g[y] /\ h[y] = g[y]
  OBVIOUS
<1> HIDE DEF g
<1>3. Sum(f) = f[x] + Sum(g)
  BY <1>1, <1>2, SumOfMore
<1>4. Sum(h) = h[x] + Sum(g)
  BY <1>1, <1>2, SumOfMore
<1>5. Sum(g) \in Nat /\ f[x] \in Nat /\ h[x] \in Nat
  BY <1>1, <1>2, SumType
<1> QED BY <1>3, <1>4, <1>5

\* Elements that add nothing.
Padded(S, f, A, h) ==
  /\ IsFiniteSet(S) /\ A \in SUBSET S /\ f \in [S -> Nat] /\ h \in [A -> Nat]
  /\ (\A y \in A : f[y] = h[y]) /\ \A y \in S \ A : f[y] = 0

LEMMA SumOfSome ==
  ASSUME NEW S, NEW f, NEW A, NEW h, Padded(S, f, A, h)
  PROVE  Sum(f) = Sum(h)
<1> /\ IsFiniteSet(S) /\ A \in SUBSET S /\ f \in [S -> Nat] /\ h \in [A -> Nat]
    /\ (\A y \in A : f[y] = h[y]) /\ \A y \in S \ A : f[y] = 0
  BY DEF Padded
<1>1. PICK G : Adds(f, S, G) /\ Sum(f) = G[S]
  BY SumAdds
<1>2. IsFiniteSet(A)
  BY FS_Subset
<1>3. PICK H : Adds(h, A, H) /\ Sum(h) = H[A]
  BY <1>2, SumAdds
<1>4. G[A] = H[A]
  BY <1>1, <1>2, <1>3, SumsAgree
<1> PICK D \in SUBSET S : A \cap D = {} /\ A \cup D = S
  <2>1. S \ A \in SUBSET S /\ A \cap (S \ A) = {} /\ A \cup (S \ A) = S
    OBVIOUS
  <2> QED BY <2>1
<1> DEFINE T == {s \in SUBSET D : G[A \cup s] = G[A]}
<1>5. ASSUME NEW s \in SUBSET D, \A x \in s : s \ {x} \in T PROVE s \in T
  <2>1. CASE s = {}
    <3>1. A \cup s = A
      BY <2>1
    <3> QED BY <3>1
  <2>2. CASE s # {}
    <3>1. PICK x \in s : TRUE
      BY <2>2
    <3>2. (A \cup s) \ {x} = A \cup (s \ {x}) /\ A \cup s \in SUBSET S /\ x \in A \cup s /\ f[x] = 0
      OBVIOUS
    <3>3. G[A \cup s] = f[x] + G[(A \cup s) \ {x}]
      BY <1>1, <3>2 DEF Adds
    <3>4. G[A \cup (s \ {x})] = G[A] /\ G[A] \in Nat
      BY <1>1, <1>5 DEF Adds
    <3>5. G[A \cup s] = G[A]
      <4> HIDE DEF T
      <4> QED BY <3>2, <3>3, <3>4
    <3> QED BY <3>5
  <2> QED BY <2>1, <2>2
<1> HIDE DEF T
<1>6. SUBSET D \subseteq T
  <2>1. IsFiniteSet(D)
    BY FS_Subset
  <2> QED BY <1>5, <2>1, AllSubsets
<1>7. D \in SUBSET D
  OBVIOUS
<1>8. G[S] = G[A]
  <2>1. G[A \cup D] = G[A]
    BY <1>6, <1>7 DEF T
  <2> QED BY <2>1
<1> QED BY <1>1, <1>3, <1>4, <1>8

-----------------------------------------------------------------------------
(***************************************************************************)
(* Containment: one thread registers the dump, for everyone.               *)
(***************************************************************************)
CallPlaces == {"out", "register", "record"}

ContainTypes ==
  /\ flag \in BOOLEAN /\ exited \in BOOLEAN /\ handlers \in Nat
  /\ callPc \in [Threads -> CallPlaces]

\* Before the flag is taken nobody has registered the dump or is about to;
\* then one thread is about to, or it is registered, once.
RegisteredOnce ==
  /\ ~flag => handlers = 0 /\ \A t \in Threads : callPc[t] = "out"
  /\ \A t \in Threads : callPc[t] = "register" => handlers = 0
  /\ \A t, u \in Threads : callPc[t] = "register" /\ callPc[u] = "register" => t = u
  /\ flag /\ (\A t \in Threads : callPc[t] # "register") => handlers = 1
  /\ ~flag => violations = << >>

WrittenAtExit == exited => dumped = Contain!Dump(handlers)

ContainInv == ContainTypes /\ RegisteredOnce /\ WrittenAtExit

LEMMA ContainInvInit == Contain!Init => ContainInv
<1> SUFFICES ASSUME Contain!Init PROVE ContainInv
  OBVIOUS
<1>1. ContainTypes
  BY DEF Contain!Init, ContainTypes, CallPlaces
<1>2. RegisteredOnce
  BY DEF Contain!Init, RegisteredOnce
<1>3. WrittenAtExit
  BY DEF Contain!Init, WrittenAtExit
<1> QED BY <1>1, <1>2, <1>3 DEF ContainInv

LEMMA ContainInvNext == ContainInv /\ [Contain!Next]_contain => ContainInv'
<1> SUFFICES ASSUME ContainInv, [Contain!Next]_contain PROVE ContainInv'
  OBVIOUS
<1> USE DEF ContainInv, ContainTypes, RegisteredOnce, CallPlaces
<1>1. CASE Contain!Exit
  BY <1>1 DEF Contain!Exit, WrittenAtExit, Contain!Dump
<1>2. CASE Contain!ResetViolations
  BY <1>2 DEF Contain!ResetViolations, WrittenAtExit
<1>3. CASE \E t \in Threads : Contain!Enter(t)
  BY <1>3 DEF Contain!Enter, Contain!Goto, WrittenAtExit
<1>4. CASE \E t \in Threads : Contain!Register(t)
  BY <1>4 DEF Contain!Register, Contain!Goto, WrittenAtExit
<1>5. CASE \E t \in Threads : Contain!Record(t)
  BY <1>5 DEF Contain!Record, Contain!Goto, WrittenAtExit
<1>6. CASE UNCHANGED contain
  BY <1>6 DEF contain, WrittenAtExit, Contain!Dump
<1> QED BY <1>1, <1>2, <1>3, <1>4, <1>5, <1>6 DEF Contain!Next

(***************************************************************************)
(* At exit every recorded violation is written, once, unless a thread is   *)
(* caught between taking the flag and registering the dump                 *)
(* (topo_containment.cpp, ensureAtexitRegistered).                         *)
(***************************************************************************)
THEOREM ViolationsAreDumped == Contain!Spec => []DumpedAtExit
<1>1. ContainInv => DumpedAtExit
  <2> SUFFICES ASSUME ContainInv, exited, \A t \in Threads : callPc[t] # "register"
               PROVE  dumped = violations
    BY DEF DumpedAtExit, Contain!DumpedAtExit
  <2>1. dumped = Contain!Dump(handlers)
    BY DEF ContainInv, WrittenAtExit
  <2>2. CASE flag
    <3>1. handlers = 1
      BY <2>2 DEF ContainInv, RegisteredOnce
    <3> QED BY <2>1, <3>1 DEF Contain!Dump
  <2>3. CASE ~flag
    <3>1. handlers = 0 /\ violations = << >>
      BY <2>3 DEF ContainInv, RegisteredOnce
    <3> QED BY <2>1, <3>1 DEF Contain!Dump
  <2> QED BY <2>2, <2>3
<1> QED BY <1>1, ContainInvInit, ContainInvNext, PTL DEF Contain!Spec, contain, Contain!containVars

-----------------------------------------------------------------------------
(***************************************************************************)
(* The loader of the JIT engine: the thread that loads it holds the lock,  *)
(* and the table that others call through is written before they may.      *)
(***************************************************************************)
LoadPlaces == {"out", "enter", "open", "resolve", "verify", "use"}
Loading    == {"open", "resolve", "verify"}
Entries    == Loader!Required \cup Loader!Optional

LoaderTypes ==
  /\ tried \in BOOLEAN /\ loaded \in BOOLEAN /\ wild \in BOOLEAN
  /\ loadPc \in [Threads -> LoadPlaces] /\ wants \in [Threads -> Entries]
  /\ DOMAIN table = Entries

\* The table holds the pointers into the library that is mapped, and no others.
TableOf == \A s \in Entries : table[s] = IF s \in mapped.symbols THEN mapped ELSE Loader!Absent

OneLoads ==
  /\ \A c \in Threads : loadPc[c] \in Loading => lock = c /\ tried /\ ~loaded
  /\ \A c \in Threads : loadPc[c] = "verify" => TableOf

LoadedIsWhole ==
  /\ loaded => tried /\ mapped.compatible /\ Loader!Required \subseteq mapped.symbols /\ TableOf
  /\ \A c \in Threads : loadPc[c] = "use" => loaded

LoaderInv == LoaderTypes /\ OneLoads /\ LoadedIsWhole /\ ~wild

LEMMA LoaderInvInit == Loader!Init => LoaderInv
<1> SUFFICES ASSUME Loader!Init PROVE LoaderInv
  OBVIOUS
<1>1. LoaderTypes
  <2>1. loadPc \in [Threads -> LoadPlaces] /\ DOMAIN table = Entries
    BY DEF Loader!Init, LoadPlaces, Loader!NoTable, Entries
  <2>2. wants \in [Threads -> Entries]
    BY DEF Loader!Init, Entries, Loader!Required
  <2>3. tried \in BOOLEAN /\ loaded \in BOOLEAN /\ wild \in BOOLEAN
    BY DEF Loader!Init
  <2> QED BY <2>1, <2>2, <2>3 DEF LoaderTypes
<1>2. OneLoads /\ LoadedIsWhole /\ ~wild
  BY DEF Loader!Init, OneLoads, LoadedIsWhole, Loading
<1> QED BY <1>1, <1>2 DEF LoaderInv

LEMMA LoaderInvNext == LoaderInv /\ [Loader!Next]_loader => LoaderInv'
<1> SUFFICES ASSUME LoaderInv, [Loader!Next]_loader PROVE LoaderInv'
  OBVIOUS
<1> USE RuntimeAssumption
    DEF LoaderInv, LoaderTypes, OneLoads, LoadedIsWhole, LoadPlaces, Loading, Loader!Free
<1>1. ASSUME NEW c \in Threads, NEW s \in Entries, Loader!Call(c, s) PROVE LoaderInv'
  BY <1>1 DEF Loader!Call, Loader!Goto, TableOf
<1>2. ASSUME NEW c \in Threads, Loader!LoadEnter(c) PROVE LoaderInv'
  <2>1. /\ loadPc[c] = "enter" /\ lock = Loader!Free
        /\ UNCHANGED <<disk, loaded, table, mapped, wants, wild>>
    BY <1>2 DEF Loader!LoadEnter
  <2>2. CASE tried /\ loadPc' = [loadPc EXCEPT ![c] = IF loaded THEN "use" ELSE "out"] /\ UNCHANGED <<lock, tried>>
    BY <2>1, <2>2 DEF TableOf
  <2>3. CASE ~ tried /\ lock' = c /\ tried' = TRUE /\ loadPc' = [loadPc EXCEPT ![c] = "open"]
    BY <2>1, <2>3 DEF TableOf
  <2> QED BY <1>2, <2>2, <2>3 DEF Loader!LoadEnter, Loader!After, Loader!Goto
<1>3. ASSUME NEW c \in Threads, Loader!LoadOpen(c) PROVE LoaderInv'
  BY <1>3 DEF Loader!LoadOpen, Loader!After, Loader!Goto
<1>4. ASSUME NEW c \in Threads, Loader!LoadResolve(c) PROVE LoaderInv'
  BY <1>4 DEF Loader!LoadResolve, Loader!Goto, TableOf
<1>5. ASSUME NEW c \in Threads, Loader!LoadVerify(c) PROVE LoaderInv'
  BY <1>5 DEF Loader!LoadVerify, Loader!After, Loader!Goto, TableOf
<1>6. ASSUME NEW c \in Threads, Loader!Use(c) PROVE LoaderInv'
  BY <1>6 DEF Loader!Use, Loader!Goto, TableOf
<1>7. CASE UNCHANGED loader
  BY <1>7 DEF loader, TableOf
<1> QED BY <1>1, <1>2, <1>3, <1>4, <1>5, <1>6, <1>7 DEF Loader!Next, Entries

(***************************************************************************)
(* No call goes through a pointer into a library that is not mapped, and   *)
(* an engine in use has the right version and every required symbol        *)
(* (topo_jit_api.cpp, loadEngine).                                         *)
(***************************************************************************)
THEOREM OnlyWholeEngines == Loader!Spec => []EngineUsable
<1>1. LoaderInv => EngineUsable
  BY DEF LoaderInv, LoadedIsWhole, TableOf, Entries, EngineUsable, Loader!EngineUsable
<1> QED BY <1>1, LoaderInvInit, LoaderInvNext, PTL DEF Loader!Spec, loader, Loader!loaderVars

-----------------------------------------------------------------------------
(***************************************************************************)
(* Tracing: while no init or shutdown has fallen into a thread's open      *)
(* spans, its stack mirrors them, or is empty because tracing is off.      *)
(***************************************************************************)
Span == [name : Spans, sampled : BOOLEAN]

ObserveTypes ==
  /\ initialized \in BOOLEAN /\ wrong \in BOOLEAN /\ straddled \in [Threads -> BOOLEAN]
  /\ stack \in [Threads -> Seq(Span)] /\ open \in [Threads -> Seq(Spans)]

Mirrors(t) ==
  Len(stack[t]) = Len(open[t]) /\ \A i \in 1 .. Len(open[t]) : stack[t][i].name = open[t][i]

StacksMirror ==
  \A t \in Threads : ~straddled[t] => IF initialized THEN Mirrors(t) ELSE stack[t] = << >>

ObserveInv == ObserveTypes /\ Observe!SpansBalanced /\ StacksMirror /\ ~wrong

LEMMA ObserveInvInit == Observe!Init => ObserveInv
<1> SUFFICES ASSUME Observe!Init PROVE ObserveInv
  OBVIOUS
<1>1. ObserveTypes
  <2>1. initialized \in BOOLEAN /\ wrong \in BOOLEAN /\ straddled \in [Threads -> BOOLEAN]
    BY DEF Observe!Init
  <2>2. stack \in [Threads -> Seq(Span)] /\ open \in [Threads -> Seq(Spans)]
    BY DEF Observe!Init
  <2> QED BY <2>1, <2>2 DEF ObserveTypes
<1>2. Observe!SpansBalanced
  BY DEF Observe!Init, Observe!SpansBalanced
<1>3. StacksMirror /\ ~wrong
  BY DEF Observe!Init, StacksMirror
<1> QED BY <1>1, <1>2, <1>3 DEF ObserveInv

LEMMA SpanBeginKeeps ==
  ASSUME ObserveInv, NEW t \in Threads, NEW s \in Spans, Observe!SpanBegin(t, s)
  PROVE  ObserveInv'
<1> USE DEF ObserveInv
<1>1. open' = [open EXCEPT ![t] = Append(open[t], s)]
  BY DEF Observe!SpanBegin
<1>2. ~initialized => stack' = stack
  BY DEF Observe!SpanBegin
<1>3. ASSUME initialized
      PROVE  \E b \in BOOLEAN : stack' = [stack EXCEPT ![t] = Append(stack[t], [name |-> s, sampled |-> b])]
  BY <1>3 DEF Observe!SpanBegin, Observe!ShouldSample
<1>4. UNCHANGED <<initialized, straddled, wrong>>
  BY DEF Observe!SpanBegin
<1>5. \E f \in Seq(Span) : /\ stack' = [stack EXCEPT ![t] = f]
                           /\ initialized => Len(f) = Len(stack[t]) + 1 /\ f[Len(f)].name = s
                                /\ \A i \in 1 .. Len(stack[t]) : f[i] = stack[t][i]
                           /\ ~initialized => f = stack[t]
  <2>1. CASE initialized
    <3>1. PICK b \in BOOLEAN : stack' = [stack EXCEPT ![t] = Append(stack[t], [name |-> s, sampled |-> b])]
      BY <1>3, <2>1
    <3>2. [name |-> s, sampled |-> b] \in Span
      BY DEF Span
    <3> DEFINE e == [name |-> s, sampled |-> b]
    <3>3. e \in Span /\ e.name = s
      BY <3>2
    <3>4. stack' = [stack EXCEPT ![t] = Append(stack[t], e)]
      BY <3>1
    <3> HIDE DEF e
    <3>5. stack[t] \in Seq(Span)
      BY DEF ObserveTypes
    <3>6. Append(stack[t], e) \in Seq(Span)
      BY <3>3, <3>5
    <3> WITNESS Append(stack[t], e) \in Seq(Span)
    <3> QED BY <2>1, <3>3, <3>4, <3>5
  <2>2. CASE ~initialized
    <3>1. stack[t] \in Seq(Span) /\ stack' = [stack EXCEPT ![t] = stack[t]]
      BY <1>2, <2>2 DEF ObserveTypes
    <3> QED BY <2>2, <3>1
  <2> QED BY <2>1, <2>2
<1>6. PICK f \in Seq(Span) : /\ stack' = [stack EXCEPT ![t] = f]
                             /\ initialized => Len(f) = Len(stack[t]) + 1 /\ f[Len(f)].name = s
                                  /\ \A i \in 1 .. Len(stack[t]) : f[i] = stack[t][i]
                             /\ ~initialized => f = stack[t]
  BY <1>5
<1>7. stack \in [Threads -> Seq(Span)] /\ open \in [Threads -> Seq(Spans)]
  BY DEF ObserveTypes
<1>8. stack' \in [Threads -> Seq(Span)] /\ open' \in [Threads -> Seq(Spans)]
  BY <1>1, <1>6, <1>7
<1>9. ObserveTypes'
  BY <1>4, <1>8 DEF ObserveTypes
<1>10. ASSUME NEW u \in Threads, u # t
       PROVE  stack'[u] = stack[u] /\ open'[u] = open[u]
  BY <1>1, <1>6, <1>7, <1>10
<1>11. Len(open'[t]) = Len(open[t]) + 1 /\ stack'[t] = f
  BY <1>1, <1>6, <1>7
<1>12. Observe!SpansBalanced'
  <2>1. Len(f) <= Len(stack[t]) + 1 /\ Len(stack[t]) <= Len(open[t])
    BY <1>6, <1>7 DEF Observe!SpansBalanced
  <2>2. Len(f) \in Nat /\ Len(stack[t]) \in Nat /\ Len(open[t]) \in Nat
    BY <1>7
  <2>3. Len(stack'[t]) <= Len(open'[t])
    BY <1>11, <2>1, <2>2
  <2> QED BY <1>10, <2>3 DEF Observe!SpansBalanced
<1>13. ASSUME initialized, ~straddled[t] PROVE Mirrors(t)'
  <2>1. Len(stack[t]) = Len(open[t]) /\ \A i \in 1 .. Len(open[t]) : stack[t][i].name = open[t][i]
    BY <1>13 DEF StacksMirror, Mirrors
  <2>2. Len(f) = Len(open'[t])
    BY <1>6, <1>11, <1>13, <2>1
  <2>3. ASSUME NEW i \in 1 .. Len(open'[t]) PROVE f[i].name = open'[t][i]
    BY <1>1, <1>6, <1>7, <1>11, <1>13, <2>1, <2>2
  <2> QED BY <1>11, <2>2, <2>3 DEF Mirrors
<1>14. StacksMirror'
  BY <1>4, <1>6, <1>10, <1>11, <1>13 DEF StacksMirror, Mirrors
<1> QED BY <1>4, <1>9, <1>12, <1>14

LEMMA SpanEndKeeps ==
  ASSUME ObserveInv, NEW t \in Threads, Observe!SpanEnd(t)
  PROVE  ObserveInv'
<1> USE DEF ObserveInv
<1> DEFINE n == Len(open[t])  m == Len(stack[t])
<1>1. n \in Nat /\ n # 0 /\ m \in Nat /\ m <= n
  BY DEF Observe!SpanEnd, Observe!SpansBalanced, ObserveTypes
<1>2. open' = [open EXCEPT ![t] = SubSeq(open[t], 1, n - 1)]
  BY DEF Observe!SpanEnd, Observe!Front
<1>3. stack' = [stack EXCEPT ![t] = IF m = 0 THEN << >> ELSE SubSeq(stack[t], 1, m - 1)]
  <2>1. stack[t] \in Seq(Span)
    BY DEF ObserveTypes
  <2>2. m = 0 <=> stack[t] = << >>
    BY <2>1
  <2> QED BY <2>2 DEF Observe!SpanEnd, Observe!Popped, Observe!Front
<1>4. initialized' = initialized
  BY DEF Observe!SpanEnd
<1>5. straddled' = [straddled EXCEPT ![t] = straddled[t] /\ open'[t] # << >>]
  BY DEF Observe!SpanEnd
<1>6. ~wrong'
  <2> SUFFICES ASSUME initialized, m # 0, ~straddled[t]
               PROVE  Observe!Last(stack[t]).name = Observe!Last(open[t])
    BY DEF Observe!SpanEnd, ObserveTypes
  <2> QED BY <1>1 DEF StacksMirror, Mirrors, Observe!Last
<1>7. ObserveTypes'
  <2>1. open' \in [Threads -> Seq(Spans)]
    BY <1>1, <1>2 DEF ObserveTypes
  <2>2. stack' \in [Threads -> Seq(Span)]
    BY <1>1, <1>3 DEF ObserveTypes
  <2>3. straddled' \in [Threads -> BOOLEAN]
    BY <1>5 DEF ObserveTypes
  <2>4. wrong' \in BOOLEAN
    BY DEF Observe!SpanEnd
  <2> QED BY <1>4, <2>1, <2>2, <2>3, <2>4 DEF ObserveTypes
<1>8. Len(open'[t]) = n - 1 /\ Len(stack'[t]) = IF m = 0 THEN 0 ELSE m - 1
  <2>1. open'[t] = SubSeq(open[t], 1, n - 1) /\ open[t] \in Seq(Spans)
    BY <1>2 DEF ObserveTypes
  <2>2. /\ stack'[t] = IF m = 0 THEN << >> ELSE SubSeq(stack[t], 1, m - 1)
        /\ stack[t] \in Seq(Span)
    BY <1>3 DEF ObserveTypes
  <2> QED BY <1>1, <2>1, <2>2
<1>9. ASSUME NEW u \in Threads, u # t
      PROVE  stack'[u] = stack[u] /\ open'[u] = open[u] /\ straddled'[u] = straddled[u]
  BY <1>2, <1>3, <1>5, <1>9 DEF ObserveTypes
<1>10. Observe!SpansBalanced'
  <2>1. Len(stack'[t]) <= Len(open'[t])
    BY <1>1, <1>8
  <2> QED BY <1>9, <2>1 DEF Observe!SpansBalanced
<1>11. StacksMirror'
  <2>1. CASE straddled[t] /\ ~straddled'[t]
    <3>1. open'[t] = << >>
      BY <1>5, <2>1 DEF ObserveTypes
    <3>2. stack'[t] \in Seq(Span) /\ Len(stack'[t]) = 0
      <4>1. Len(open'[t]) = 0
        BY <3>1
      <4>2. n = 1 /\ (m = 0 \/ m = 1)
        <5> HIDE DEF n, m
        <5> QED BY <1>1, <1>8, <4>1
      <4>3. Len(stack'[t]) = 0
        <5> HIDE DEF n, m
        <5> QED BY <1>8, <4>2
      <4> QED BY <1>7, <4>3 DEF ObserveTypes
    <3>3. stack'[t] = << >>
      BY <3>2
    <3> QED BY <1>4, <1>9, <3>1, <3>3 DEF StacksMirror, Mirrors
  <2>2. CASE ~straddled[t]
    <3>1. CASE initialized
      <4>1. Mirrors(t)'
        BY <1>1, <1>2, <1>3, <1>8, <2>2, <3>1 DEF StacksMirror, Mirrors, ObserveTypes
      <4> QED BY <1>4, <1>9, <3>1, <4>1 DEF StacksMirror, Mirrors
    <3>2. CASE ~initialized
      <4>1. stack'[t] = << >>
        BY <1>3, <2>2, <3>2 DEF StacksMirror, ObserveTypes
      <4> QED BY <1>4, <1>9, <3>2, <4>1 DEF StacksMirror, Mirrors
    <3> QED BY <3>1, <3>2
  <2>3. CASE straddled'[t]
    BY <1>4, <1>9, <2>3 DEF StacksMirror, Mirrors
  <2> QED BY <2>1, <2>2, <2>3
<1> QED BY <1>6, <1>7, <1>10, <1>11

\* Init and shutdown mark the threads that have a span open; the others have
\* an empty stack.
LEMMA StraddleKeeps ==
  ASSUME ObserveInv, Observe!Straddle, initialized' \in BOOLEAN, UNCHANGED <<stack, open, wrong>>
  PROVE  ObserveInv'
<1> USE DEF ObserveInv
<1>1. straddled' \in [Threads -> BOOLEAN]
  BY DEF Observe!Straddle, ObserveTypes
<1>2. ObserveTypes'
  BY <1>1 DEF ObserveTypes
<1>3. ASSUME NEW t \in Threads, ~straddled'[t] PROVE open[t] = << >> /\ stack[t] = << >>
  <2>1. open[t] = << >>
    BY <1>3 DEF Observe!Straddle, ObserveTypes
  <2> QED BY <2>1 DEF Observe!SpansBalanced, ObserveTypes
<1>4. StacksMirror'
  BY <1>3 DEF StacksMirror, Mirrors
<1> QED BY <1>2, <1>4 DEF Observe!SpansBalanced

LEMMA ObserveInvNext == ObserveInv /\ [Observe!Next]_observe => ObserveInv'
<1> SUFFICES ASSUME ObserveInv, [Observe!Next]_observe PROVE ObserveInv'
  OBVIOUS
<1>1. ASSUME UNCHANGED <<initialized, stack, open, straddled, wrong>> PROVE ObserveInv'
  BY <1>1 DEF ObserveInv, ObserveTypes, Observe!SpansBalanced, StacksMirror, Mirrors
<1>2. ASSUME NEW t \in Threads, NEW r \in Observe!Rates, Observe!InitExchange(t, r) PROVE ObserveInv'
  BY <1>1, <1>2, StraddleKeeps DEF Observe!InitExchange
<1>3. ASSUME NEW t \in Threads, Observe!Shutdown(t) PROVE ObserveInv'
  BY <1>3, StraddleKeeps DEF Observe!Shutdown
<1>4. ASSUME NEW t \in Threads, Observe!InitRate(t) PROVE ObserveInv'
  BY <1>1, <1>4 DEF Observe!InitRate
<1>5. CASE UNCHANGED observe
  BY <1>1, <1>5 DEF observe
<1> QED BY <1>2, <1>3, <1>4, <1>5, SpanBeginKeeps, SpanEndKeeps DEF Observe!Next

(***************************************************************************)
(* A thread's stack never holds more entries than it has spans open, and a *)
(* span that no init or shutdown fell into is written under its own name   *)
(* (topo_observe.cpp, topo_trace_span_begin and topo_trace_span_end).      *)
(***************************************************************************)
THEOREM SpansEndWhatTheyBegan == Observe!Spec => []SpansSound
<1>1. ObserveInv => SpansSound
  BY DEF ObserveInv, SpansSound, Observe!OwnSpanWritten
<1> QED BY <1>1, ObserveInvInit, ObserveInvNext, PTL DEF Observe!Spec, observe, Observe!observeVars

-----------------------------------------------------------------------------
(***************************************************************************)
(* The arena: the blocks do not touch each other, what is below a block's  *)
(* used mark has been given out, and a new piece starts above the mark.    *)
(* The words wrap around, but no sum that is used does.                    *)
(***************************************************************************)
Blks   == [data : Nat, capacity : Nat \ {0}, used : Nat]
Pieces == [at : Nat, size : Nat \ {0}, align : Nat \ {0}]

Within(g, b)  == b.data <= g.at /\ g.at + g.size <= b.data + b.used
ApartFrom(b, c) == b.data + b.capacity <= c.data \/ c.data + c.capacity <= b.data
Beside(g, h) == g.at + g.size <= h.at \/ h.at + h.size <= g.at

BlocksOK ==
  /\ default \in Nat
  /\ blocks \in Seq(Blks)
  /\ \A i \in 1 .. Len(blocks) : blocks[i].used <= blocks[i].capacity
                                 /\ blocks[i].data + blocks[i].capacity < WordSize
  /\ \A i, j \in 1 .. Len(blocks) : i # j => ApartFrom(blocks[i], blocks[j])
  /\ heap = {Arena!Chunk(blocks[i]) : i \in 1 .. Len(blocks)}
  /\ handle # "live" => blocks = << >>

GivenOK ==
  /\ given \subseteq Pieces
  /\ \A g \in given : g.at % g.align = 0 /\ \E i \in 1 .. Len(blocks) : Within(g, blocks[i])
  /\ \A g, h \in given : g # h => Beside(g, h)

ArenaInv == BlocksOK /\ GivenOK

LEMMA Unwrapped ==
  ASSUME NEW x \in Nat, x < WordSize
  PROVE  Arena!W(x) = x
BY RuntimeAssumption DEF Arena!W

\* Rounding an address up to an alignment, where the sum does not wrap around.
LEMMA RoundUpFacts ==
  ASSUME NEW addr \in Nat, NEW a \in Nat \ {0}, addr + a - 1 < WordSize
  PROVE  /\ Arena!RoundUp(addr, a) \in Nat /\ Arena!RoundUp(addr, a) % a = 0
         /\ addr <= Arena!RoundUp(addr, a) /\ Arena!RoundUp(addr, a) <= addr + a - 1
<1> DEFINE x == addr + a - 1
<1>1. x \in Nat /\ x < WordSize
  OBVIOUS
<1>2. Arena!W(addr + a - 1) = x
  BY <1>1, RuntimeAssumption DEF Arena!W
<1>3. PICK q \in Nat : q = x \div a /\ q * a <= x /\ x < q * a + a
  BY <1>1
<1>4. Arena!RoundUp(addr, a) = q * a
  BY <1>2, <1>3 DEF Arena!RoundUp
<1>5. (q * a) % a = 0 /\ q * a \in Nat
  OBVIOUS
<1>6. addr <= q * a /\ q * a <= x
  BY <1>3
<1> QED BY <1>4, <1>5, <1>6

\* What an allocation needs at addr, if it is below the top of the address space:
\* the padding and the size, or, where rounding up wraps around, more than is left.
LEMMA NeedsFacts ==
  ASSUME NEW addr \in Nat, NEW a \in Nat \ {0}, NEW size \in Nat \ {0}, NEW room \in Nat,
         addr + room < WordSize, size <= WordSize - 1 - a,
         Arena!Needs(addr, size, a) <= room
  PROVE  /\ addr + a - 1 < WordSize
         /\ Arena!Needs(addr, size, a) = Arena!RoundUp(addr, a) - addr + size
<1> DEFINE r == Arena!RoundUp(addr, a)
<1>1. WordSize \in Nat \ {0}
  BY RuntimeAssumption
<1>2. CASE addr + a - 1 < WordSize
  <2>1. r \in Nat /\ addr <= r /\ r <= addr + a - 1
    BY <1>2, RoundUpFacts
  <2> HIDE DEF r
  <2>2. r - addr \in Nat /\ r - addr < WordSize
    BY <1>2, <2>1, <1>1
  <2>3. Arena!W(r - addr) = r - addr
    BY <1>1, <2>2 DEF Arena!W
  <2>4. r - addr + size \in Nat /\ r - addr + size < WordSize
    BY <1>1, <2>1, <2>2
  <2>5. Arena!W(r - addr + size) = r - addr + size
    BY <1>1, <2>4 DEF Arena!W
  <2>6. Arena!Needs(addr, size, a) = Arena!W(Arena!W(r - addr) + size)
    BY DEF Arena!Needs, r
  <2>7. Arena!Needs(addr, size, a) = r - addr + size
    BY <2>3, <2>5, <2>6
  <2> QED BY <1>2, <2>7 DEF r
<1>3. CASE addr + a - 1 >= WordSize
  <2>1. Arena!W(addr + a - 1) = addr + a - 1 - WordSize
    BY <1>1, <1>3 DEF Arena!W
  <2>2. (addr + a - 1 - WordSize) \in Nat /\ addr + a - 1 - WordSize < a
    BY <1>1, <1>3
  <2>3. r = 0
    BY <2>1, <2>2 DEF Arena!RoundUp
  <2>4. Arena!W(0 - addr) = WordSize - addr
    BY <1>1, <1>3 DEF Arena!W
  <2>5. Arena!W(WordSize - addr + size) = WordSize - addr + size
    BY <1>1, <1>3 DEF Arena!W
  <2>6. Arena!Needs(addr, size, a) = WordSize - addr + size
    BY <2>3, <2>4, <2>5 DEF Arena!Needs
  <2> QED BY <1>1, <2>6
<1> QED BY <1>1, <1>2, <1>3

\* malloc returns a chunk that touches no block of the arena.
LEMMA NewBlockApart ==
  ASSUME BlocksOK, NEW n \in Nat \ {0}, NEW b \in Arena!Bases(n), NEW i \in 1 .. Len(blocks)
  PROVE  /\ b \in Nat /\ b + n < WordSize
         /\ b + n <= blocks[i].data \/ blocks[i].data + blocks[i].capacity <= b
<1>1. b \in Nat /\ b + n < WordSize
  BY RuntimeAssumption DEF Arena!Bases
<1> DEFINE d == blocks[i].data  c == blocks[i].capacity
<1>2. d \in Nat /\ c \in Nat \ {0}
  <2>1. blocks[i] \in Blks
    BY DEF BlocksOK
  <2> QED BY <2>1 DEF Blks
<1>3. Arena!Chunk(blocks[i]) \in heap
  BY DEF BlocksOK
<1>4. b .. (b + n - 1) \cap d .. (d + c - 1) = {}
  BY <1>3 DEF Arena!Bases, Arena!Bytes, Arena!Chunk
<1> HIDE DEF d, c
<1>5. ~(b <= d /\ d < b + n) /\ ~(d <= b /\ b < d + c)
  BY <1>1, <1>2, <1>4
<1>6. b + n <= d \/ d + c <= b
  BY <1>1, <1>2, <1>5
<1> QED BY <1>1, <1>6 DEF d, c

\* The first block of an arena, or none.
LEMMA CreateKeeps ==
  ASSUME ArenaInv, NEW n \in Capacities, Arena!Create(n)
  PROVE  ArenaInv'
<1>1. blocks = << >> /\ heap = {} /\ given = {} /\ given' = {} /\ handle' = "live"
  <2>1. blocks = << >>
    BY DEF Arena!Create, ArenaInv, BlocksOK
  <2>2. heap = {}
    BY <2>1 DEF ArenaInv, BlocksOK
  <2>3. given = {}
    BY <2>1 DEF ArenaInv, GivenOK
  <2> QED BY <2>1, <2>2, <2>3 DEF Arena!Create
<1>2. GivenOK'
  BY <1>1 DEF GivenOK
<1> DEFINE cap == IF n = 0 THEN DefaultCapacity ELSE n
<1>3. cap \in Nat \ {0}
  BY RuntimeAssumption
<1> HIDE DEF cap
<1>4. default' \in Nat
  BY <1>3 DEF Arena!Create, cap
<1>5. CASE blocks' = << >> /\ heap' = heap
  <2>1. BlocksOK'
    BY <1>1, <1>4, <1>5 DEF BlocksOK
  <2> QED BY <1>2, <2>1 DEF ArenaInv
<1>6. ASSUME NEW b \in Arena!Bases(cap), blocks' = <<Arena!Block(b, cap, 0)>>,
             heap' = heap \cup {[data |-> b, capacity |-> cap]}
      PROVE  BlocksOK'
  <2>1. b \in Nat /\ b + cap < WordSize
    BY RuntimeAssumption DEF Arena!Bases
  <2>2. Arena!Block(b, cap, 0) \in Blks /\ Arena!Chunk(Arena!Block(b, cap, 0)) = [data |-> b, capacity |-> cap]
    BY <1>3, <2>1 DEF Arena!Block, Blks, Arena!Chunk
  <2>3. /\ Arena!Block(b, cap, 0).used = 0 /\ Arena!Block(b, cap, 0).data = b
        /\ Arena!Block(b, cap, 0).capacity = cap
    BY DEF Arena!Block
  <2> DEFINE B == Arena!Block(b, cap, 0)
  <2> HIDE DEF B
  <2>4. blocks' = <<B>> /\ B \in Blks /\ Len(blocks') = 1 /\ blocks'[1] = B
    BY <1>6, <2>2 DEF B
  <2>5. B.used <= B.capacity /\ B.data + B.capacity < WordSize
    BY <1>3, <2>1, <2>3 DEF B
  <2>6. \A i \in 1 .. Len(blocks') : i = 1
    BY <2>4
  <2>7. heap' = {Arena!Chunk(blocks'[i]) : i \in 1 .. Len(blocks')}
    BY <1>1, <1>6, <2>2, <2>4, <2>6 DEF B
  <2> QED BY <1>1, <1>4, <2>4, <2>5, <2>6, <2>7 DEF BlocksOK
<1>7. \/ \E b \in Arena!Bases(cap) : /\ blocks' = <<Arena!Block(b, cap, 0)>>
                                      /\ heap' = heap \cup {[data |-> b, capacity |-> cap]}
      \/ blocks' = << >> /\ heap' = heap
  BY DEF Arena!Create, cap
<1> QED BY <1>2, <1>5, <1>6, <1>7 DEF ArenaInv

\* A piece above the used mark of the block it is in lies beside the others.
LEMMA GiveKeeps ==
  ASSUME ArenaInv, NEW g \in Pieces, g.at % g.align = 0, given' = given \cup {g},
         Len(blocks') \in Nat, NEW i \in 1 .. Len(blocks'), Within(g, blocks'[i]),
         \A h \in given : Beside(g, h) /\ \E j \in 1 .. Len(blocks') : Within(h, blocks'[j])
  PROVE  GivenOK'
<1>1. \A h \in given' : h \in given \/ h = g
  OBVIOUS
<1>2. given' \subseteq Pieces
  BY DEF ArenaInv, GivenOK
<1>3. \A h \in given' : h.at % h.align = 0 /\ \E j \in 1 .. Len(blocks') : Within(h, blocks'[j])
  BY <1>1 DEF ArenaInv, GivenOK
<1>4. \A h, k \in given' : h # k => Beside(h, k)
  BY <1>1 DEF ArenaInv, GivenOK, Beside
<1> QED BY <1>2, <1>3, <1>4 DEF GivenOK, Within

\* An allocation from the last block raises its used mark.
LEMMA InCurrentKeeps ==
  ASSUME ArenaInv, blocks # << >>, NEW size \in Nat \ {0}, NEW a \in Nat \ {0}, size <= WordSize - 1 - a,
         Arena!InCurrent(size, a), UNCHANGED <<handle, default>>
  PROVE  ArenaInv'
<1> DEFINE n == Len(blocks)  cur == blocks[n]  addr == cur.data + cur.used
           need == Arena!Needs(addr, size, a)  at == Arena!RoundUp(addr, a)
<1>1. blocks \in Seq(Blks) /\ n \in Nat /\ n # 0 /\ n \in 1 .. n /\ cur \in Blks
  BY DEF ArenaInv, BlocksOK
<1>2. cur.data \in Nat /\ cur.capacity \in Nat /\ cur.used \in Nat
  BY <1>1 DEF Blks
<1>3. cur.used <= cur.capacity /\ cur.data + cur.capacity < WordSize
  BY <1>1 DEF ArenaInv, BlocksOK
<1>4. /\ Arena!Fits(cur, size, a) /\ heap' = heap
      /\ blocks' = [blocks EXCEPT ![n].used = Arena!W(cur.used + need)]
      /\ given' = given \cup {[at |-> at, size |-> size, align |-> a]}
  BY DEF Arena!InCurrent, Arena!Last, Arena!Give
<1>5. need <= cur.capacity - cur.used
  BY <1>4 DEF Arena!Fits
<1>6. /\ at \in Nat /\ at % a = 0 /\ addr <= at /\ need = at - addr + size /\ need \in Nat
  <2> DEFINE room == cur.capacity - cur.used
  <2>1. addr \in Nat /\ room \in Nat /\ addr + room < WordSize
    BY <1>2, <1>3
  <2>2. need <= room
    BY <1>5
  <2> HIDE DEF addr, room
  <2>3. addr + a - 1 < WordSize /\ need = at - addr + size
    BY <2>1, <2>2, NeedsFacts
  <2>4. at \in Nat /\ at % a = 0 /\ addr <= at
    BY <2>1, <2>3, RoundUpFacts
  <2> QED BY <2>1, <2>3, <2>4
<1> DEFINE used == cur.used + need
<1>7. used \in Nat /\ cur.used <= used /\ used <= cur.capacity /\ used < WordSize
  <2>1. need \in Nat
    BY <1>6
  <2> HIDE DEF need, cur
  <2>2. cur.used + need \in Nat /\ cur.used <= cur.used + need /\ cur.used + need <= cur.capacity
    BY <1>2, <1>5, <2>1
  <2>3. cur.capacity < WordSize
    BY <1>2, <1>3, RuntimeAssumption
  <2> QED BY <1>2, <2>2, <2>3, RuntimeAssumption
<1>8. Arena!W(used) = used
  <2> HIDE DEF used
  <2> QED BY <1>7, Unwrapped
<1>9. at + size = cur.data + used
  <2> DEFINE c == cur.data  u == cur.used
  <2>1. c \in Nat /\ u \in Nat /\ addr = c + u
    BY <1>2
  <2> HIDE DEF c, u, at, need, addr
  <2>2. at + size = c + (u + need)
    BY <1>6, <2>1
  <2> QED BY <2>2 DEF c, u
<1> HIDE DEF used, need, at
<1>10. blocks' = [blocks EXCEPT ![n] = [cur EXCEPT !.used = used]]
  BY <1>1, <1>4, <1>8 DEF used
<1> DEFINE new == [cur EXCEPT !.used = used]
<1>11. new \in Blks /\ new.data = cur.data /\ new.capacity = cur.capacity /\ new.used = used
  BY <1>1, <1>7 DEF Blks
<1>12. Arena!Chunk(new) = Arena!Chunk(cur)
  BY <1>11 DEF Arena!Chunk
<1> HIDE DEF new
<1>13. /\ blocks' \in Seq(Blks) /\ Len(blocks') = n /\ blocks'[n] = new
       /\ \A i \in 1 .. n : i # n => blocks'[i] = blocks[i]
  BY <1>1, <1>10, <1>11 DEF new
<1> HIDE DEF n, cur, addr
<1>14. \A i \in 1 .. n : /\ blocks'[i].data = blocks[i].data
                        /\ blocks'[i].capacity = blocks[i].capacity
                        /\ Arena!Chunk(blocks'[i]) = Arena!Chunk(blocks[i])
  BY <1>11, <1>12, <1>13 DEF cur
<1>15. BlocksOK'
  <2>1. \A i \in 1 .. n : /\ blocks'[i].used <= blocks'[i].capacity
                         /\ blocks'[i].data + blocks'[i].capacity < WordSize
    BY <1>3, <1>7, <1>11, <1>13 DEF ArenaInv, BlocksOK, n
  <2>2. \A i, j \in 1 .. n : i # j => ApartFrom(blocks'[i], blocks'[j])
    BY <1>14 DEF ArenaInv, BlocksOK, ApartFrom, n
  <2>3. heap' = {Arena!Chunk(blocks'[i]) : i \in 1 .. n}
    BY <1>4, <1>14 DEF ArenaInv, BlocksOK, n
  <2>4. default' \in Nat /\ handle' = "live"
    BY <1>1 DEF ArenaInv, BlocksOK
  <2> QED BY <1>13, <2>1, <2>2, <2>3, <2>4 DEF BlocksOK
<1> DEFINE g == [at |-> at, size |-> size, align |-> a]
<1>16. g \in Pieces /\ g.at = at /\ g.size = size /\ g.align = a
  BY <1>6 DEF Pieces
<1> HIDE DEF g
<1>17. Within(g, blocks'[n])
  BY <1>1, <1>2, <1>6, <1>9, <1>11, <1>13, <1>16 DEF Within, addr
<1>18. ASSUME NEW h \in given
       PROVE  Beside(g, h) /\ \E j \in 1 .. n : Within(h, blocks'[j])
  <2>1. h.at \in Nat /\ h.size \in Nat
    BY DEF ArenaInv, GivenOK, Pieces
  <2>2. PICK j \in 1 .. n : Within(h, blocks[j])
    BY DEF ArenaInv, GivenOK, n
  <2>3. blocks[j] \in Blks
    BY <1>1 DEF n
  <2>4. blocks[j].data \in Nat /\ blocks[j].used \in Nat /\ blocks[j].capacity \in Nat
    BY <2>3 DEF Blks
  <2>5. h.at + h.size <= blocks[j].data + blocks[j].capacity /\ blocks[j].data <= h.at
    <3>1. blocks[j].used <= blocks[j].capacity
      BY DEF ArenaInv, BlocksOK, n
    <3>2. blocks[j].data <= h.at /\ h.at + h.size <= blocks[j].data + blocks[j].used
      BY <2>2 DEF Within
    <3> DEFINE d == blocks[j].data  u == blocks[j].used  c == blocks[j].capacity  e == h.at + h.size
    <3>3. d \in Nat /\ u \in Nat /\ c \in Nat /\ e \in Nat /\ e <= d + u /\ u <= c
      BY <2>1, <2>4, <3>1, <3>2
    <3> HIDE DEF d, u, c, e
    <3>4. e <= d + c
      BY <3>3
    <3> QED BY <3>2, <3>4 DEF d, c, e
  <2>6. CASE j = n
    <3>1. h.at + h.size <= addr
      BY <2>2, <2>6 DEF Within, addr, cur
    <3>2. h.at + h.size <= at
      BY <1>2, <1>6, <2>1, <3>1 DEF addr
    <3>3. Within(h, blocks'[n])
      <4>1. cur.data <= h.at /\ h.at + h.size <= cur.data + cur.used
        BY <2>2, <2>6 DEF Within, cur
      <4>2. blocks'[n].data = cur.data /\ blocks'[n].used = used
        BY <1>11, <1>13
      <4> QED BY <1>2, <1>7, <2>1, <4>1, <4>2 DEF Within
    <3> QED BY <1>1, <1>16, <3>2, <3>3 DEF Beside
  <2>7. CASE j # n
    <3>1. ApartFrom(blocks[j], cur)
      BY <1>1, <2>7 DEF ArenaInv, BlocksOK, n, cur
    <3>2. cur.data <= at /\ at + size <= cur.data + cur.capacity
      <4> DEFINE d == cur.data  u == cur.used  c == cur.capacity  e == at + size
      <4>1. /\ d \in Nat /\ u \in Nat /\ c \in Nat /\ used \in Nat /\ at \in Nat
            /\ d + u <= at /\ used <= c /\ e = d + used
        BY <1>2, <1>6, <1>7, <1>9 DEF addr
      <4> HIDE DEF d, u, c, e
      <4>2. d <= at /\ e <= d + c
        BY <4>1
      <4> QED BY <4>2 DEF d, c, e
    <3>3. Beside(g, h)
      <4>1. CASE blocks[j].data + blocks[j].capacity <= cur.data
        <5>1. at \in Nat
          BY <1>6
        <5>2. h.at + h.size <= cur.data
          <6> DEFINE e == h.at + h.size  f == blocks[j].data + blocks[j].capacity  d == cur.data
          <6>1. e \in Nat
            BY <2>1
          <6>2. f \in Nat
            BY <2>4
          <6>3. d \in Nat
            BY <1>2
          <6>4. e <= f /\ f <= d
            BY <2>5, <4>1
          <6> HIDE DEF d, e, f
          <6>5. e <= d
            BY <6>1, <6>2, <6>3, <6>4
          <6> QED BY <6>5 DEF d, e
        <5>3. h.at + h.size <= at
          BY <1>2, <2>1, <3>2, <5>1, <5>2
        <5> QED BY <1>16, <5>3 DEF Beside
      <4>2. CASE cur.data + cur.capacity <= blocks[j].data
        <5>1. at + size <= h.at
          <6> DEFINE e == at + size  f == cur.data + cur.capacity  g1 == blocks[j].data
          <6>1. e \in Nat /\ f \in Nat /\ g1 \in Nat /\ e <= f /\ f <= g1 /\ g1 <= h.at
            BY <1>2, <1>6, <2>4, <2>5, <3>2, <4>2
          <6> HIDE DEF e, f, g1
          <6>2. e <= h.at
            BY <2>1, <6>1
          <6> QED BY <6>2 DEF e
        <5> QED BY <1>16, <5>1 DEF Beside
      <4> QED BY <3>1, <4>1, <4>2 DEF ApartFrom
    <3>4. Within(h, blocks'[j])
      BY <1>13, <2>2, <2>7
    <3> QED BY <3>3, <3>4
  <2> QED BY <2>6, <2>7
<1>19. GivenOK'
  <2>1. given' = given \cup {g} /\ g.at % g.align = 0
    BY <1>4, <1>6, <1>16 DEF g, at, addr, cur, n
  <2>2. Len(blocks') = n /\ n \in 1 .. Len(blocks') /\ n \in Nat
    BY <1>1, <1>13
  <2> QED BY <1>16, <1>17, <1>18, <2>1, <2>2, GiveKeeps
<1> QED BY <1>15, <1>19 DEF ArenaInv

\* An allocation in a block of its own.
LEMMA InNewBlockKeeps ==
  ASSUME ArenaInv, blocks # << >>, NEW size \in Nat \ {0}, NEW a \in Nat \ {0}, size <= WordSize - 1 - a,
         Arena!InNewBlock(size, a), UNCHANGED <<handle, default>>
  PROVE  ArenaInv'
<1> DEFINE n == Len(blocks)  cap == Arena!Max({Arena!W(size + a), default})
<1>1. blocks \in Seq(Blks) /\ n \in Nat /\ default \in Nat /\ handle = "live"
  BY DEF ArenaInv, BlocksOK
<1>2. cap \in Nat \ {0}
  <2>1. size + a \in Nat \ {0} /\ size + a < WordSize
    BY RuntimeAssumption
  <2>2. Arena!W(size + a) = size + a
    BY <2>1, Unwrapped
  <2> DEFINE S == {size + a, default}
  <2>3. \E x \in S : \A y \in S : x >= y
    BY <1>1, <2>1
  <2>4. Arena!Max(S) \in S /\ \A y \in S : Arena!Max(S) >= y
    <3> HIDE DEF S
    <3> QED BY <2>3 DEF Arena!Max
  <2>5. Arena!Max(S) >= size + a /\ Arena!Max(S) \in Nat
    BY <1>1, <2>1, <2>4
  <2>6. cap = Arena!Max(S)
    BY <2>2
  <2> QED BY <2>1, <2>5, <2>6
<1> HIDE DEF cap
<1>3. PICK b \in Arena!Bases(cap) :
        LET need == Arena!Needs(b, size, a)
        IN /\ heap' = heap \cup {[data |-> b, capacity |-> cap]}
           /\ blocks' = Append(blocks, Arena!Block(b, cap, IF need <= cap THEN need ELSE 0))
           /\ IF need <= cap THEN Arena!Give(Arena!RoundUp(b, a), size, a) ELSE UNCHANGED given
  BY DEF Arena!InNewBlock, cap
<1> DEFINE need == Arena!Needs(b, size, a)  used == IF need <= cap THEN need ELSE 0
           at == Arena!RoundUp(b, a)  new == Arena!Block(b, cap, used)
<1>4. b \in Nat /\ b + cap < WordSize
  BY <1>2, RuntimeAssumption DEF Arena!Bases
<1>5. need <= cap => at \in Nat /\ at % a = 0 /\ b <= at /\ need = at - b + size /\ need \in Nat
  <2> SUFFICES ASSUME need <= cap
               PROVE  at \in Nat /\ at % a = 0 /\ b <= at /\ need = at - b + size /\ need \in Nat
    OBVIOUS
  <2>1. b + a - 1 < WordSize /\ need = at - b + size
    BY <1>2, <1>4, NeedsFacts
  <2>2. at \in Nat /\ at % a = 0 /\ b <= at
    BY <1>4, <2>1, RoundUpFacts
  <2> QED BY <1>4, <2>1, <2>2
<1> HIDE DEF need, at
<1>6. used \in Nat /\ used <= cap
  BY <1>2, <1>5
<1>7. blocks' = Append(blocks, new) /\ heap' = heap \cup {[data |-> b, capacity |-> cap]}
  BY <1>3 DEF need
<1>8. /\ need <= cap => given' = given \cup {[at |-> at, size |-> size, align |-> a]}
      /\ ~(need <= cap) => given' = given
  BY <1>3 DEF need, at, Arena!Give
<1> HIDE DEF used
<1>9. new \in Blks /\ new.data = b /\ new.capacity = cap /\ new.used = used
  BY <1>2, <1>4, <1>6 DEF Arena!Block, Blks
<1>10. Arena!Chunk(new) = [data |-> b, capacity |-> cap]
  BY <1>9 DEF Arena!Chunk
<1> HIDE DEF new
<1>11. /\ blocks' \in Seq(Blks) /\ Len(blocks') = n + 1 /\ blocks'[n + 1] = new
       /\ \A i \in 1 .. n : blocks'[i] = blocks[i]
  BY <1>1, <1>7, <1>9
<1> HIDE DEF n
<1>12. 1 .. (n + 1) = (1 .. n) \cup {n + 1} /\ n + 1 \notin 1 .. n
  BY <1>1 DEF n
<1>13. \A i \in 1 .. n : /\ b + cap <= blocks[i].data \/ blocks[i].data + blocks[i].capacity <= b
  BY <1>2, NewBlockApart DEF ArenaInv, n
<1>14. BlocksOK'
  <2>1. \A i \in 1 .. (n + 1) : /\ blocks'[i].used <= blocks'[i].capacity
                               /\ blocks'[i].data + blocks'[i].capacity < WordSize
    BY <1>4, <1>6, <1>9, <1>11, <1>12 DEF ArenaInv, BlocksOK, n
  <2>2. \A i, j \in 1 .. (n + 1) : i # j => ApartFrom(blocks'[i], blocks'[j])
    <3>1. \A i, j \in 1 .. n : i # j => ApartFrom(blocks[i], blocks[j])
      BY DEF ArenaInv, BlocksOK, n
    <3>2. \A i \in 1 .. n : ApartFrom(blocks[i], new) /\ ApartFrom(new, blocks[i])
      BY <1>9, <1>13 DEF ApartFrom
    <3> QED BY <1>11, <1>12, <3>1, <3>2
  <2>3. heap' = {Arena!Chunk(blocks'[i]) : i \in 1 .. (n + 1)}
    <3>1. heap = {Arena!Chunk(blocks[i]) : i \in 1 .. n}
      BY DEF ArenaInv, BlocksOK, n
    <3> QED BY <1>7, <1>10, <1>11, <1>12, <3>1
  <2>4. default' \in Nat /\ handle' = "live"
    BY <1>1
  <2> QED BY <1>11, <2>1, <2>2, <2>3, <2>4 DEF BlocksOK
<1>15. \A h \in given : \E j \in 1 .. (n + 1) : Within(h, blocks'[j])
  BY <1>11, <1>12 DEF ArenaInv, GivenOK, n
<1>16. GivenOK'
  <2>1. CASE need <= cap
    <3> DEFINE g == [at |-> at, size |-> size, align |-> a]
    <3>1. at \in Nat /\ at % a = 0 /\ b <= at /\ at + size = b + used
      BY <1>4, <1>5, <2>1 DEF used
    <3>2. g \in Pieces /\ g.at = at /\ g.size = size /\ g.align = a
      BY <3>1 DEF Pieces
    <3> HIDE DEF g
    <3>3. Within(g, blocks'[n + 1])
      BY <1>9, <1>11, <3>1, <3>2 DEF Within
    <3>4. ASSUME NEW h \in given PROVE Beside(g, h)
      <4>1. PICK i \in 1 .. n : Within(h, blocks[i])
        BY DEF ArenaInv, GivenOK, n
      <4>2. h.at \in Nat /\ h.size \in Nat
        BY DEF ArenaInv, GivenOK, Pieces
      <4>3. blocks[i] \in Blks
        BY <1>1 DEF n
      <4>4. blocks[i].data \in Nat /\ blocks[i].used \in Nat /\ blocks[i].capacity \in Nat
        BY <4>3 DEF Blks
      <4>5. blocks[i].used <= blocks[i].capacity
        BY DEF ArenaInv, BlocksOK, n
      <4>6. blocks[i].data <= h.at /\ h.at + h.size <= blocks[i].data + blocks[i].capacity
        <5> DEFINE d == blocks[i].data  u == blocks[i].used  c == blocks[i].capacity
                   e == h.at + h.size
        <5>1. blocks[i].data <= h.at /\ e <= d + u
          BY <4>1 DEF Within
        <5>2. d \in Nat /\ u \in Nat /\ c \in Nat /\ e \in Nat /\ u <= c
          BY <4>2, <4>4, <4>5
        <5> HIDE DEF d, u, c, e
        <5>3. e <= d + c
          BY <5>1, <5>2
        <5> QED BY <5>1, <5>3 DEF d, c, e
      <4>7. CASE b + cap <= blocks[i].data
        <5>1. b + cap <= h.at
          BY <1>2, <1>4, <4>2, <4>4, <4>6, <4>7
        <5>2. at + size <= b + cap
          BY <1>2, <1>4, <1>6, <3>1
        <5>3. at + size \in Nat /\ b + cap \in Nat
          BY <1>2, <1>4, <3>1
        <5>4. at + size <= h.at
          BY <4>2, <5>1, <5>2, <5>3
        <5> QED BY <3>2, <5>4 DEF Beside
      <4>8. CASE blocks[i].data + blocks[i].capacity <= b
        <5>1. h.at + h.size <= b
          BY <1>4, <4>2, <4>4, <4>6, <4>8
        <5>2. h.at + h.size <= at
          BY <1>4, <3>1, <4>2, <5>1
        <5> QED BY <3>2, <5>2 DEF Beside
      <4> QED BY <1>13, <4>7, <4>8
    <3>5. given' = given \cup {g} /\ g.at % g.align = 0
      BY <1>8, <2>1, <3>1, <3>2 DEF g
    <3>6. Len(blocks') = n + 1 /\ n + 1 \in 1 .. (n + 1) /\ n + 1 \in Nat
      BY <1>1, <1>11, <1>12 DEF n
    <3> QED BY <1>15, <3>2, <3>3, <3>4, <3>5, <3>6, GiveKeeps
  <2>2. CASE ~(need <= cap)
    BY <1>8, <1>11, <1>15, <2>2 DEF ArenaInv, GivenOK
  <2> QED BY <2>1, <2>2
<1> QED BY <1>14, <1>16 DEF ArenaInv

\* The chunks of the blocks are as many as the blocks, and are all there is.
LEMMA ChunksDiffer ==
  ASSUME BlocksOK, NEW i \in 1 .. Len(blocks), NEW j \in 1 .. Len(blocks), i # j
  PROVE  Arena!Chunk(blocks[i]) # Arena!Chunk(blocks[j])
<1>1. blocks[i] \in Blks /\ blocks[j] \in Blks
  BY DEF BlocksOK
<1>2. ApartFrom(blocks[i], blocks[j])
  BY DEF BlocksOK
<1>3. blocks[i].data # blocks[j].data
  BY <1>1, <1>2 DEF ApartFrom, Blks
<1> QED BY <1>3 DEF Arena!Chunk

LEMMA ResetKeeps ==
  ASSUME ArenaInv, Arena!ArenaReset
  PROVE  ArenaInv'
<1>1. given' = {} /\ handle = "live" /\ UNCHANGED <<handle, default>>
  BY DEF Arena!ArenaReset
<1>2. GivenOK'
  BY <1>1 DEF GivenOK
<1>3. CASE blocks = << >>
  <2>1. UNCHANGED <<blocks, heap>>
    BY <1>3 DEF Arena!ArenaReset
  <2>2. BlocksOK'
    BY <1>1, <2>1 DEF ArenaInv, BlocksOK
  <2> QED BY <1>2, <2>2 DEF ArenaInv
<1>4. CASE blocks # << >>
  <2> DEFINE first == [blocks[1] EXCEPT !.used = 0]
  <2>1. /\ blocks \in Seq(Blks) /\ Len(blocks) \in Nat \ {0} /\ 1 \in 1 .. Len(blocks)
        /\ blocks[1] \in Blks /\ Head(blocks) = blocks[1]
    BY <1>4 DEF ArenaInv, BlocksOK
  <2>2. blocks' = <<first>>
    BY <1>4, <2>1 DEF Arena!ArenaReset
  <2>3. first \in Blks /\ first.data = blocks[1].data /\ first.capacity = blocks[1].capacity /\ first.used = 0
    BY <2>1 DEF Blks
  <2>4. heap' = heap \ {Arena!Chunk(b) : b \in Arena!ToSet(Tail(blocks))}
    BY <1>4 DEF Arena!ArenaReset, Arena!Freed
  <2>5. Arena!ToSet(Tail(blocks)) = {blocks[i] : i \in 2 .. Len(blocks)}
    <3>1. /\ DOMAIN Tail(blocks) = 1 .. (Len(blocks) - 1)
          /\ \A i \in 1 .. (Len(blocks) - 1) : Tail(blocks)[i] = blocks[i + 1]
      BY <2>1
    <3>2. \A i \in 2 .. Len(blocks) : i - 1 \in 1 .. (Len(blocks) - 1) /\ blocks[i] = blocks[(i - 1) + 1]
      BY <2>1
    <3>3. \A i \in 1 .. (Len(blocks) - 1) : i + 1 \in 2 .. Len(blocks)
      BY <2>1
    <3>4. Arena!ToSet(Tail(blocks)) = {Tail(blocks)[i] : i \in 1 .. (Len(blocks) - 1)}
      BY <3>1 DEF Arena!ToSet
    <3>5. \A i \in 2 .. Len(blocks) : \E j \in 1 .. (Len(blocks) - 1) : blocks[i] = Tail(blocks)[j]
      BY <3>1, <3>2
    <3>6. \A j \in 1 .. (Len(blocks) - 1) : \E i \in 2 .. Len(blocks) : blocks[i] = Tail(blocks)[j]
      BY <3>1, <3>3
    <3> DEFINE A == {blocks[i] : i \in 2 .. Len(blocks)}  T == {Tail(blocks)[i] : i \in 1 .. (Len(blocks) - 1)}
    <3>7. \A x : x \in A <=> x \in T
      BY <3>5, <3>6
    <3>8. A = T
      <4> HIDE DEF A, T
      <4> QED BY <3>7
    <3> QED BY <3>4, <3>8
  <2>6. heap' = {Arena!Chunk(blocks[1])}
    <3>1. heap = {Arena!Chunk(blocks[i]) : i \in 1 .. Len(blocks)}
      BY DEF ArenaInv, BlocksOK
    <3>2. \A i \in 1 .. Len(blocks) : i # 1 <=> i \in 2 .. Len(blocks)
      BY <2>1
    <3>3. \A i \in 2 .. Len(blocks) : i \in 1 .. Len(blocks) /\ Arena!Chunk(blocks[1]) # Arena!Chunk(blocks[i])
      BY <2>1, <3>2, ChunksDiffer DEF ArenaInv
    <3> QED BY <2>1, <2>4, <2>5, <3>1, <3>2, <3>3
  <2> HIDE DEF first
  <2>7. Len(blocks') = 1 /\ blocks'[1] = first /\ blocks' \in Seq(Blks) /\ 1 .. 1 = {1}
    BY <2>2, <2>3
  <2>8. Arena!Chunk(first) = Arena!Chunk(blocks[1])
    BY <2>3 DEF Arena!Chunk
  <2>9. first.used <= first.capacity /\ first.data + first.capacity < WordSize
    <3>1. first.capacity \in Nat
      BY <2>3 DEF Blks
    <3> QED BY <2>1, <2>3, <3>1 DEF ArenaInv, BlocksOK
  <2>10. BlocksOK'
    <3>1. default' \in Nat /\ handle' = "live"
      BY <1>1 DEF ArenaInv, BlocksOK
    <3> QED BY <2>6, <2>7, <2>8, <2>9, <3>1 DEF BlocksOK
  <2> QED BY <1>2, <2>10 DEF ArenaInv
<1> QED BY <1>3, <1>4

LEMMA ArenaInvNext == ArenaInv /\ [Arena!Next]_arena => ArenaInv'
<1> SUFFICES ASSUME ArenaInv, [Arena!Next]_arena PROVE ArenaInv'
  OBVIOUS
<1>1. CASE Arena!CreateFails
  BY <1>1 DEF Arena!CreateFails, ArenaInv, BlocksOK, GivenOK
<1>2. CASE Arena!Destroy
  <2>1. blocks' = << >> /\ default' = 0 /\ given' = {}
    BY <1>2 DEF Arena!Destroy
  <2>2. heap' = heap \ {Arena!Chunk(b) : b \in Arena!ToSet(blocks)}
    BY <1>2 DEF Arena!Destroy, Arena!Freed
  <2>3. blocks \in Seq(Blks) /\ heap = {Arena!Chunk(blocks[i]) : i \in 1 .. Len(blocks)}
    BY DEF ArenaInv, BlocksOK
  <2>4. heap' = {}
    BY <2>2, <2>3 DEF Arena!ToSet
  <2>5. BlocksOK'
    BY <2>1, <2>4 DEF BlocksOK
  <2>6. GivenOK'
    BY <2>1 DEF GivenOK
  <2> QED BY <2>5, <2>6 DEF ArenaInv
<1>3. ASSUME NEW n \in Sizes, NEW align \in Alignments, Arena!Alloc(n, align) PROVE ArenaInv'
  <2> DEFINE a == IF align = 0 THEN MallocAlign ELSE align
  <2>1. n \in Nat \ {0} /\ a \in Nat \ {0} /\ blocks # << >>
    BY <1>3, RuntimeAssumption DEF Arena!Alloc
  <2>2. /\ Arena!InCurrent(n, a) \/ Arena!InNewBlock(n, a)
        /\ UNCHANGED <<handle, default>>
    BY <1>3 DEF Arena!Alloc
  <2>3. n <= WordSize - 1 - a
    BY <1>3 DEF Arena!Alloc
  <2> HIDE DEF a
  <2> QED BY <2>1, <2>2, <2>3, InCurrentKeeps, InNewBlockKeeps
<1>4. CASE UNCHANGED arena
  BY <1>4 DEF arena, ArenaInv, BlocksOK, GivenOK
<1> QED BY <1>1, <1>2, <1>3, <1>4, CreateKeeps, ResetKeeps DEF Arena!Next

-----------------------------------------------------------------------------
(* The used marks cover what was given out and the padding before it.      *)
SizesOf(G)  == [g \in G |-> g.size]
MarksOf(bs) == [i \in DOMAIN bs |-> bs[i].used]
UsedCovers  == IsFiniteSet(given) /\ Sum(SizesOf(given)) <= Sum(MarksOf(blocks))

LEMMA MarksType ==
  ASSUME NEW bs \in Seq(Blks)
  PROVE  /\ DOMAIN bs = 1 .. Len(bs) /\ IsFiniteSet(1 .. Len(bs))
         /\ MarksOf(bs) \in [1 .. Len(bs) -> Nat] /\ Sum(MarksOf(bs)) \in Nat
<1>1. Len(bs) \in Nat /\ DOMAIN bs = 1 .. Len(bs)
  OBVIOUS
<1>2. \A i \in 1 .. Len(bs) : bs[i] \in Blks
  BY <1>1
<1>3. \A i \in 1 .. Len(bs) : bs[i].used \in Nat
  BY <1>2 DEF Blks
<1>4. MarksOf(bs) \in [1 .. Len(bs) -> Nat]
  BY <1>1, <1>3 DEF MarksOf
<1>5. IsFiniteSet(1 .. Len(bs))
  BY <1>1, FS_Interval
<1> QED BY <1>1, <1>4, <1>5, SumType

LEMMA SizesType ==
  ASSUME NEW G \in SUBSET Pieces, IsFiniteSet(G)
  PROVE  SizesOf(G) \in [G -> Nat] /\ Sum(SizesOf(G)) \in Nat
<1>1. SizesOf(G) \in [G -> Nat]
  BY DEF SizesOf, Pieces
<1> QED BY <1>1, SumType

LEMMA PieceMore ==
  ASSUME NEW G \in SUBSET Pieces, IsFiniteSet(G), NEW g \in Pieces
  PROVE  IsFiniteSet(G \cup {g}) /\ Sum(SizesOf(G \cup {g})) <= Sum(SizesOf(G)) + g.size
<1>1. IsFiniteSet(G \cup {g}) /\ g.size \in Nat
  BY FS_AddElement DEF Pieces
<1>2. SizesOf(G) \in [G -> Nat] /\ Sum(SizesOf(G)) \in Nat
  BY SizesType
<1>3. CASE g \in G
  <2>1. G \cup {g} = G
    BY <1>3
  <2> QED BY <1>1, <1>2, <2>1
<1>4. CASE g \notin G
  <2> DEFINE f == SizesOf(G \cup {g})  h == SizesOf(G)
  <2>1. f \in [G \cup {g} -> Nat] /\ f[g] = g.size /\ \A x \in G : f[x] = h[x]
    BY DEF SizesOf, Pieces
  <2>2. h \in [G -> Nat]
    BY <1>2
  <2> HIDE DEF f, h
  <2>3. Sum(f) = f[g] + Sum(h)
    BY <1>4, <2>1, <2>2, SumOfMore
  <2>4. Sum(h) \in Nat
    BY <1>2 DEF h
  <2>5. Sum(f) <= Sum(h) + g.size
    BY <1>1, <2>1, <2>3, <2>4
  <2> QED BY <1>1, <2>5 DEF f, h
<1> QED BY <1>3, <1>4

\* A used mark raised, and a block more.
LEMMA MarkRaised ==
  ASSUME NEW bs \in Seq(Blks), NEW cs \in Seq(Blks), Len(cs) = Len(bs), NEW n \in 1 .. Len(bs), NEW k \in Nat,
         cs[n].used = bs[n].used + k, \A i \in 1 .. Len(bs) : i # n => cs[i] = bs[i]
  PROVE  Sum(MarksOf(cs)) = Sum(MarksOf(bs)) + k
<1> DEFINE f == MarksOf(cs)  h == MarksOf(bs)  N == 1 .. Len(bs)
<1>1. f \in [N -> Nat] /\ h \in [N -> Nat] /\ Sum(f) \in Nat /\ Sum(h) \in Nat /\ IsFiniteSet(N)
  BY MarksType
<1>2. f[n] = h[n] + k /\ \A i \in N \ {n} : f[i] = h[i]
  BY MarksType DEF MarksOf
<1>3. n \in N
  OBVIOUS
<1> HIDE DEF f, h, N
<1>4. Sum(f) + h[n] = Sum(h) + f[n]
  <2>1. SameBut(N, n, f, h)
    BY <1>1, <1>2, <1>3 DEF SameBut
  <2> QED BY <2>1, SumChanged
<1>5. h[n] \in Nat /\ f[n] \in Nat
  BY <1>1, <1>3
<1>6. Sum(f) = Sum(h) + k
  <2>1. Sum(f) \in Nat /\ Sum(h) \in Nat /\ f[n] = h[n] + k
    BY <1>1, <1>2
  <2> DEFINE a == Sum(f)  b == Sum(h)  x == h[n]  y == f[n]
  <2>2. a + x = b + y /\ a \in Nat /\ b \in Nat /\ x \in Nat /\ y = x + k
    BY <1>4, <1>5, <2>1
  <2> HIDE DEF a, b, x, y
  <2>3. a = b + k
    BY <2>2
  <2> QED BY <2>3 DEF a, b
<1> QED BY <1>6 DEF f, h

LEMMA MarkMore ==
  ASSUME NEW bs \in Seq(Blks), NEW b \in Blks
  PROVE  Sum(MarksOf(Append(bs, b))) = Sum(MarksOf(bs)) + b.used
<1> DEFINE cs == Append(bs, b)  n == Len(bs) + 1  N == 1 .. Len(bs)  f == MarksOf(cs)  h == MarksOf(bs)
<1>1. cs \in Seq(Blks) /\ Len(cs) = n /\ cs[n] = b /\ \A i \in N : cs[i] = bs[i]
  OBVIOUS
<1>2. h \in [N -> Nat] /\ Sum(h) \in Nat /\ IsFiniteSet(N)
  BY MarksType
<1>3. f \in [1 .. n -> Nat] /\ DOMAIN cs = 1 .. n /\ DOMAIN bs = N
  <2> HIDE DEF cs, n
  <2> QED BY <1>1, MarksType
<1>4. 1 .. n = N \cup {n} /\ n \notin N
  <2>1. Len(bs) \in Nat
    OBVIOUS
  <2> QED BY <2>1
<1>5. f[n] = b.used /\ \A i \in N : f[i] = h[i]
  <2> HIDE DEF cs, n, N
  <2> QED BY <1>1, <1>3, <1>4 DEF MarksOf
<1> HIDE DEF f, h, N, n, cs
<1>6. Sum(f) = f[n] + Sum(h)
  <2>1. f \in [N \cup {n} -> Nat] /\ n \notin N
    BY <1>3, <1>4
  <2>2. h \in [N -> Nat] /\ IsFiniteSet(N) /\ \A i \in N : f[i] = h[i]
    BY <1>2, <1>5
  <2> QED BY <2>1, <2>2, SumOfMore
<1>7. b.used \in Nat
  BY DEF Blks
<1>8. Sum(f) = Sum(h) + b.used
  BY <1>2, <1>5, <1>6, <1>7
<1> QED BY <1>8 DEF f, h, cs

\* What a request takes of a block with room for it is at least its size.
LEMMA NeedsMost ==
  ASSUME NEW addr \in Nat, NEW a \in Nat \ {0}, NEW size \in Nat \ {0}, NEW room \in Nat,
         addr + room < WordSize, size <= WordSize - 1 - a, Arena!Needs(addr, size, a) <= room
  PROVE  /\ Arena!RoundUp(addr, a) \in Nat
         /\ Arena!Needs(addr, size, a) \in Nat /\ size <= Arena!Needs(addr, size, a)
<1> DEFINE need == Arena!Needs(addr, size, a)  at == Arena!RoundUp(addr, a)
<1>1. addr + a - 1 < WordSize /\ need = at - addr + size
  BY NeedsFacts
<1>2. at \in Nat /\ addr <= at
  BY <1>1, RoundUpFacts
<1> HIDE DEF need, at
<1>3. need \in Nat /\ size <= need
  BY <1>1, <1>2
<1> QED BY <1>2, <1>3 DEF need, at

\* A piece more, and marks that rise by at least its size.
LEMMA CoversMore ==
  ASSUME UsedCovers, given \subseteq Pieces, blocks \in Seq(Blks), NEW g \in Pieces, NEW k \in Nat, g.size <= k,
         given' = given \cup {g}, Sum(MarksOf(blocks')) = Sum(MarksOf(blocks)) + k
  PROVE  UsedCovers'
<1> DEFINE was == Sum(SizesOf(given))  is == Sum(SizesOf(given \cup {g}))  marks == Sum(MarksOf(blocks))
<1>1. IsFiniteSet(given \cup {g}) /\ is <= was + g.size
  BY PieceMore DEF UsedCovers
<1>2. was \in Nat /\ is \in Nat /\ marks \in Nat /\ was <= marks /\ g.size \in Nat
  <2>1. was \in Nat
    BY SizesType DEF UsedCovers
  <2>2. is \in Nat
    BY <1>1, SizesType
  <2>3. marks \in Nat
    BY MarksType
  <2>4. g.size \in Nat
    BY DEF Pieces
  <2> QED BY <2>1, <2>2, <2>3, <2>4 DEF UsedCovers
<1>3. is <= Sum(MarksOf(blocks'))
  <2> HIDE DEF was, is, marks
  <2>1. is <= marks + k
    BY <1>1, <1>2
  <2> QED BY <2>1 DEF marks
<1> QED BY <1>1, <1>3 DEF UsedCovers

LEMMA InCurrentCovers ==
  ASSUME ArenaInv, ArenaInv', UsedCovers, blocks # << >>, NEW size \in Nat \ {0}, NEW a \in Nat \ {0},
         size <= WordSize - 1 - a, Arena!InCurrent(size, a)
  PROVE  UsedCovers'
<1> DEFINE n == Len(blocks)  cur == blocks[n]  addr == cur.data + cur.used
           need == Arena!Needs(addr, size, a)  at == Arena!RoundUp(addr, a)
           room == cur.capacity - cur.used  new == [cur EXCEPT !.used = Arena!W(cur.used + need)]
<1>1. blocks \in Seq(Blks) /\ blocks' \in Seq(Blks) /\ n \in 1 .. n /\ cur \in Blks /\ DOMAIN blocks = 1 .. n
  BY DEF ArenaInv, BlocksOK
<1>2. cur.data \in Nat /\ cur.capacity \in Nat /\ cur.used \in Nat
  BY <1>1 DEF Blks
<1>3. cur.used <= cur.capacity /\ cur.data + cur.capacity < WordSize
  BY <1>1 DEF ArenaInv, BlocksOK
<1>4. /\ need <= room
      /\ blocks' = [blocks EXCEPT ![n] = new]
      /\ given' = given \cup {[at |-> at, size |-> size, align |-> a]}
  BY <1>1 DEF Arena!InCurrent, Arena!Fits, Arena!Last, Arena!Give
<1>5. addr \in Nat /\ room \in Nat /\ addr + room < WordSize /\ cur.used + room < WordSize
  <2> HIDE DEF cur
  <2> QED BY <1>2, <1>3, RuntimeAssumption
<1>6. at \in Nat /\ need \in Nat /\ size <= need
  <2> HIDE DEF addr, room
  <2> QED BY <1>4, <1>5, NeedsMost
<1>7. Arena!W(cur.used + need) = cur.used + need
  <2> DEFINE u == cur.used
  <2>1. u \in Nat /\ need \in Nat /\ room \in Nat /\ need <= room /\ u + room < WordSize
    BY <1>2, <1>4, <1>5, <1>6
  <2> HIDE DEF need, u, room
  <2>2. u + need \in Nat /\ u + need < WordSize
    BY <2>1, RuntimeAssumption
  <2> QED BY <2>2, Unwrapped DEF u
<1>8. new \in Blks /\ new.used = cur.used + need
  <2> DEFINE u == Arena!W(cur.used + need)
  <2>1. u \in Nat /\ u = cur.used + need
    <3> HIDE DEF cur, need
    <3> QED BY <1>2, <1>6, <1>7
  <2> HIDE DEF u
  <2>2. [cur EXCEPT !.used = u] \in Blks /\ [cur EXCEPT !.used = u].used = u
    BY <1>1, <2>1 DEF Blks
  <2> QED BY <2>1, <2>2 DEF u
<1> HIDE DEF need, at, new, cur
<1>9. Len(blocks') = n /\ blocks'[n] = new /\ \A i \in 1 .. n : i # n => blocks'[i] = blocks[i]
  <2>1. blocks' = [blocks EXCEPT ![n] = new] /\ n \in 1 .. n /\ blocks \in Seq(Blks)
    BY <1>1, <1>4
  <2> QED BY <1>8, <2>1
<1> HIDE DEF n
<1>10. Sum(MarksOf(blocks')) = Sum(MarksOf(blocks)) + need
  <2>1. blocks'[n].used = blocks[n].used + need
    BY <1>8, <1>9 DEF cur
  <2> QED BY <1>1, <1>6, <1>9, <2>1, MarkRaised DEF n
<1> DEFINE g == [at |-> at, size |-> size, align |-> a]
<1>11. g \in Pieces /\ g.size = size /\ given' = given \cup {g}
  BY <1>4, <1>6 DEF Pieces
<1> HIDE DEF g
<1> QED BY <1>1, <1>6, <1>10, <1>11, CoversMore DEF ArenaInv, GivenOK

LEMMA InNewBlockCovers ==
  ASSUME ArenaInv, ArenaInv', UsedCovers, NEW size \in Nat \ {0}, NEW a \in Nat \ {0},
         size <= WordSize - 1 - a, Arena!InNewBlock(size, a)
  PROVE  UsedCovers'
<1> DEFINE cap == Arena!Max({Arena!W(size + a), default})
<1>1. PICK b \in Arena!Bases(cap) :
        LET need == Arena!Needs(b, size, a)
        IN /\ blocks' = Append(blocks, Arena!Block(b, cap, IF need <= cap THEN need ELSE 0))
           /\ IF need <= cap THEN Arena!Give(Arena!RoundUp(b, a), size, a) ELSE UNCHANGED given
  BY DEF Arena!InNewBlock
<1> HIDE DEF cap
<1> DEFINE need == Arena!Needs(b, size, a)  used == IF need <= cap THEN need ELSE 0
           at == Arena!RoundUp(b, a)  new == Arena!Block(b, cap, used)
<1>2. /\ blocks' = Append(blocks, new)
      /\ need <= cap => given' = given \cup {[at |-> at, size |-> size, align |-> a]}
      /\ ~(need <= cap) => given' = given
  BY <1>1 DEF Arena!Give
<1>3. new.used = used /\ new.capacity = cap /\ new.data = b
  BY DEF Arena!Block
<1> HIDE DEF new, used, need, at
<1>4. /\ blocks \in Seq(Blks) /\ blocks' \in Seq(Blks) /\ new \in Blks /\ b + cap < WordSize
  <2>1. blocks \in Seq(Blks) /\ blocks' \in Seq(Blks)
    BY DEF ArenaInv, BlocksOK
  <2>2. Len(blocks') \in 1 .. Len(blocks') /\ blocks'[Len(blocks')] = new
    BY <1>2, <2>1
  <2>3. new \in Blks
    BY <2>1, <2>2
  <2> QED BY <2>1, <2>3 DEF Arena!Bases
<1>5. b \in Nat /\ cap \in Nat
  BY <1>3, <1>4 DEF Blks
<1>6. Sum(MarksOf(blocks')) = Sum(MarksOf(blocks)) + used
  BY <1>2, <1>3, <1>4, MarkMore
<1>7. CASE need <= cap
  <2>1. at \in Nat /\ need \in Nat /\ size <= need
    BY <1>4, <1>5, <1>7, NeedsMost DEF need, at
  <2> DEFINE g == [at |-> at, size |-> size, align |-> a]
  <2>2. g \in Pieces /\ g.size = size /\ given' = given \cup {g}
    BY <1>2, <1>7, <2>1 DEF Pieces
  <2> HIDE DEF g
  <2>3. used = need
    BY <1>7 DEF used
  <2> QED BY <1>4, <1>6, <2>1, <2>2, <2>3, CoversMore DEF ArenaInv, GivenOK
<1>8. CASE ~(need <= cap)
  <2>1. used = 0 /\ given' = given
    BY <1>2, <1>8 DEF used
  <2>2. Sum(MarksOf(blocks)) \in Nat
    BY <1>4, MarksType
  <2>3. Sum(MarksOf(blocks')) = Sum(MarksOf(blocks))
    BY <1>6, <2>1, <2>2
  <2> QED BY <2>1, <2>3 DEF UsedCovers
<1> QED BY <1>7, <1>8

LEMMA NothingGivenCovers ==
  ASSUME NEW bs \in Seq(Blks)
  PROVE  IsFiniteSet({}) /\ Sum(SizesOf({})) <= Sum(MarksOf(bs))
<1>1. IsFiniteSet({}) /\ SizesOf({}) \in [{} -> Nat]
  BY FS_EmptySet DEF SizesOf
<1>2. Sum(SizesOf({})) = 0
  BY <1>1, SumOfNone
<1>3. Sum(MarksOf(bs)) \in Nat
  BY MarksType
<1> QED BY <1>1, <1>2, <1>3

LEMMA CoversNext == ArenaInv /\ ArenaInv' /\ UsedCovers /\ [Arena!Next]_arena => UsedCovers'
<1> SUFFICES ASSUME ArenaInv, ArenaInv', UsedCovers, [Arena!Next]_arena PROVE UsedCovers'
  OBVIOUS
<1>1. ASSUME given' = {} PROVE UsedCovers'
  BY <1>1, NothingGivenCovers DEF UsedCovers, ArenaInv, BlocksOK
<1>2. CASE Arena!CreateFails \/ UNCHANGED arena
  BY <1>2 DEF Arena!CreateFails, arena, UsedCovers
<1>3. CASE Arena!ArenaReset \/ Arena!Destroy
  BY <1>1, <1>3 DEF Arena!ArenaReset, Arena!Destroy
<1>4. ASSUME NEW n \in Capacities, Arena!Create(n) PROVE UsedCovers'
  <2>1. blocks = << >>
    BY <1>4 DEF Arena!Create, ArenaInv, BlocksOK
  <2>2. given = {}
    BY <2>1 DEF ArenaInv, GivenOK
  <2> QED BY <1>1, <1>4, <2>2 DEF Arena!Create
<1>5. ASSUME NEW n \in Sizes, NEW align \in Alignments, Arena!Alloc(n, align) PROVE UsedCovers'
  <2> DEFINE a == IF align = 0 THEN MallocAlign ELSE align
  <2>1. n \in Nat \ {0} /\ a \in Nat \ {0} /\ blocks # << >>
    BY <1>5, RuntimeAssumption DEF Arena!Alloc
  <2>2. (Arena!InCurrent(n, a) \/ Arena!InNewBlock(n, a)) /\ n <= WordSize - 1 - a
    BY <1>5 DEF Arena!Alloc
  <2> HIDE DEF a
  <2> QED BY <2>1, <2>2, InCurrentCovers, InNewBlockCovers
<1> QED BY <1>2, <1>3, <1>4, <1>5 DEF Arena!Next

(***************************************************************************)
(* What alloc has given out since the last reset is aligned, lies in the   *)
(* used part of a block of the arena, and does not overlap, although every *)
(* sum wraps around; the arena holds the blocks malloc has handed out, no  *)
(* more and no fewer (topo_arena.cpp, alloc, reset and the destructor).    *)
(***************************************************************************)
THEOREM PiecesDoNotOverlap == Arena!Spec => []ArenaSound
<1>1. Arena!Init => ArenaInv
  <2> SUFFICES ASSUME Arena!Init PROVE ArenaInv
    OBVIOUS
  <2>1. BlocksOK
    BY DEF Arena!Init, BlocksOK
  <2>2. GivenOK
    BY DEF Arena!Init, GivenOK
  <2> QED BY <2>1, <2>2 DEF ArenaInv
<1>2. ArenaInv /\ UsedCovers => ArenaSound
  <2> SUFFICES ASSUME ArenaInv, UsedCovers PROVE ArenaSound
    OBVIOUS
  <2>1. blocks \in Seq(Blks) /\ Len(blocks) \in Nat /\ DOMAIN blocks = 1 .. Len(blocks)
    BY DEF ArenaInv, BlocksOK
  <2>2. heap = {Arena!Chunk(blocks[i]) : i \in 1 .. Len(blocks)}
    BY DEF ArenaInv, BlocksOK
  <2>3. heap = {Arena!Chunk(b) : b \in Arena!ToSet(blocks)}
    BY <2>1, <2>2 DEF Arena!ToSet
  <2>4. Cardinality(heap) = Len(blocks)
    <3> DEFINE f == [i \in 1 .. Len(blocks) |-> Arena!Chunk(blocks[i])]
    <3>1. f \in Bijection(1 .. Len(blocks), heap)
      <4>1. f \in [1 .. Len(blocks) -> heap]
        BY <2>2
      <4>2. \A i, j \in 1 .. Len(blocks) : f[i] = f[j] => i = j
        BY ChunksDiffer DEF ArenaInv
      <4>3. \A h \in heap : \E i \in 1 .. Len(blocks) : f[i] = h
        BY <2>2
      <4> HIDE DEF f
      <4> QED BY <4>1, <4>2, <4>3, Fun_IsBij
    <3>2. IsFiniteSet(1 .. Len(blocks)) /\ Cardinality(1 .. Len(blocks)) = Len(blocks)
      <4>1. /\ IsFiniteSet(1 .. Len(blocks))
            /\ Cardinality(1 .. Len(blocks)) = IF 1 > Len(blocks) THEN 0 ELSE Len(blocks) - 1 + 1
        BY <2>1, FS_Interval
      <4> QED BY <2>1, <4>1
    <3> QED BY <3>1, <3>2, FS_Bijection DEF ExistsBijection
  <2>5. \A b \in Arena!ToSet(blocks) : b.used <= b.capacity
    BY <2>1 DEF ArenaInv, BlocksOK, Arena!ToSet
  <2>6. ASSUME NEW g \in given
        PROVE  g.at % g.align = 0 /\ \E b \in Arena!ToSet(blocks) :
                 Arena!Chunk(b) \in heap /\ b.data <= g.at /\ g.at + g.size <= b.data + b.used
    <3>1. PICK i \in 1 .. Len(blocks) : Within(g, blocks[i])
      BY DEF ArenaInv, GivenOK
    <3>2. blocks[i] \in Arena!ToSet(blocks) /\ Arena!Chunk(blocks[i]) \in heap
      BY <2>1, <2>2 DEF Arena!ToSet
    <3>3. g.at % g.align = 0
      BY DEF ArenaInv, GivenOK
    <3> QED BY <3>1, <3>2, <3>3 DEF Within
  <2>7. ASSUME NEW g \in given, NEW h \in given, g # h
        PROVE  Arena!Bytes(g.at, g.size) \cap Arena!Bytes(h.at, h.size) = {}
    <3>1. g \in Pieces /\ h \in Pieces /\ Beside(g, h)
      BY <2>7 DEF ArenaInv, GivenOK
    <3>2. g.at \in Nat /\ g.size \in Nat /\ h.at \in Nat /\ h.size \in Nat
      BY <3>1 DEF Pieces
    <3> QED BY <3>1, <3>2 DEF Beside, Arena!Bytes
  <2>8. Arena!BytesUsed >= Arena!SumFunction([g \in given |-> g.size])
    <3>1. Arena!BytesUsed = Sum(MarksOf(blocks))
      BY ArenaSum DEF Arena!BytesUsed, MarksOf
    <3>2. Arena!SumFunction([g \in given |-> g.size]) = Sum(SizesOf(given))
      BY ArenaSum DEF SizesOf
    <3>3. Sum(MarksOf(blocks)) \in Nat /\ Sum(SizesOf(given)) \in Nat
      BY <2>1, MarksType, SizesType DEF ArenaInv, GivenOK, UsedCovers
    <3> QED BY <3>1, <3>2, <3>3 DEF UsedCovers
  <2>9. Arena!Cardinality(heap) = Cardinality(heap)
    BY DEF Arena!Cardinality, Cardinality
  <2>10. Arena!GivenDisjoint
    BY <2>6, <2>7 DEF Arena!GivenDisjoint
  <2>11. Arena!BlocksAreHeap
    BY <2>3, <2>4, <2>5, <2>8, <2>9 DEF Arena!BlocksAreHeap
  <2> QED BY <2>10, <2>11 DEF ArenaSound
<1>3. Arena!Init => UsedCovers
  <2> SUFFICES ASSUME Arena!Init PROVE UsedCovers
    OBVIOUS
  <2>1. blocks = << >> /\ given = {} /\ << >> \in Seq(Blks)
    BY DEF Arena!Init
  <2> QED BY <2>1, NothingGivenCovers DEF UsedCovers
<1> QED BY <1>1, <1>2, <1>3, ArenaInvNext, CoversNext, PTL DEF Arena!Spec, arena, Arena!arenaVars

-----------------------------------------------------------------------------
(***************************************************************************)
(* Cost samples: what the operations on sequences return.                  *)
(***************************************************************************)
LEMMA FrontFacts ==
  ASSUME NEW B, NEW s \in Seq(B), s # << >>
  PROVE  LET n == Len(s) IN
         /\ n \in Nat \ {0} /\ n \in 1 .. n
         /\ Cost!Last(s) = s[n] /\ s[n] \in B
         /\ Cost!Front(s) \in Seq(B) /\ Len(Cost!Front(s)) = n - 1
         /\ \A i \in 1 .. (n - 1) : i \in 1 .. n /\ Cost!Front(s)[i] = s[i]
<1>1. Len(s) \in Nat \ {0} /\ Len(s) \in 1 .. Len(s) /\ s[Len(s)] \in B
  OBVIOUS
<1>2. Cost!Last(s) = s[Len(s)] /\ Cost!Front(s) = SubSeq(s, 1, Len(s) - 1)
  BY DEF Cost!Last, Cost!Front
<1>3. /\ SubSeq(s, 1, Len(s) - 1) \in Seq(B) /\ Len(SubSeq(s, 1, Len(s) - 1)) = Len(s) - 1
      /\ \A i \in 1 .. (Len(s) - 1) : i \in 1 .. Len(s) /\ SubSeq(s, 1, Len(s) - 1)[i] = s[i]
  <2>1. \A i \in 1 .. (Len(s) - 1) : i \in 1 .. Len(s) /\ s[i] \in B
    BY <1>1
  <2> DEFINE n == Len(s) - 1
  <2>2. n \in Nat /\ 1 \in Int
    BY <1>1
  <2> HIDE DEF n
  <2>3. /\ SubSeq(s, 1, n) \in Seq(B) /\ Len(SubSeq(s, 1, n)) = IF 1 <= n THEN n - 1 + 1 ELSE 0
        /\ \A i \in 1 .. (n - 1 + 1) : SubSeq(s, 1, n)[i] = s[1 + i - 1]
    BY <2>1, <2>2, SubSeqProperties DEF n
  <2>4. (IF 1 <= n THEN n - 1 + 1 ELSE 0) = n /\ n - 1 + 1 = n /\ \A i \in 1 .. n : 1 + i - 1 = i
    BY <2>2
  <2> QED BY <2>1, <2>3, <2>4 DEF n
<1> QED BY <1>1, <1>2, <1>3

LEMMA RemoveAtFacts ==
  ASSUME NEW B, NEW s \in Seq(B), NEW m \in 1 .. Len(s)
  PROVE  /\ Cost!RemoveAt(s, m) \in Seq(B) /\ Len(Cost!RemoveAt(s, m)) = Len(s) - 1
         /\ \A i \in 1 .. (Len(s) - 1) :
              Cost!RemoveAt(s, m)[i] = IF i < m THEN s[i] ELSE s[i + 1]
<1> DEFINE n == Len(s)  a == SubSeq(s, 1, m - 1)  b == SubSeq(s, m + 1, n)
<1>1. n \in Nat /\ m \in Nat /\ 1 <= m /\ m <= n
  OBVIOUS
<1>2. a \in Seq(B) /\ Len(a) = m - 1 /\ \A i \in 1 .. (m - 1) : a[i] = s[i]
  <2>1. /\ a \in Seq(B) /\ Len(a) = IF 1 <= m - 1 THEN m - 1 - 1 + 1 ELSE 0
        /\ \A i \in 1 .. (m - 1 - 1 + 1) : a[i] = s[1 + i - 1]
    BY <1>1, SubSeqProperties
  <2> HIDE DEF a
  <2> QED BY <1>1, <2>1
<1>3. b \in Seq(B) /\ Len(b) = n - m /\ \A i \in 1 .. (n - m) : b[i] = s[i + m]
  <2>1. /\ b \in Seq(B) /\ Len(b) = IF m + 1 <= n THEN n - (m + 1) + 1 ELSE 0
        /\ \A i \in 1 .. (n - (m + 1) + 1) : b[i] = s[m + 1 + i - 1]
    BY <1>1, SubSeqProperties
  <2> HIDE DEF b
  <2>2. (IF m + 1 <= n THEN n - (m + 1) + 1 ELSE 0) = n - m /\ n - (m + 1) + 1 = n - m
    BY <1>1
  <2>3. \A i \in 1 .. (n - m) : m + 1 + i - 1 = i + m
    BY <1>1
  <2> HIDE DEF n
  <2> QED BY <2>1, <2>2, <2>3
<1>4. Cost!RemoveAt(s, m) = a \o b
  BY DEF Cost!RemoveAt
<1> HIDE DEF a, b, n
<1>5. a \o b \in Seq(B) /\ Len(a \o b) = n - 1
  <2>1. a \o b \in Seq(B) /\ Len(a \o b) = Len(a) + Len(b)
    BY <1>2, <1>3, ConcatProperties
  <2> QED BY <1>1, <1>2, <1>3, <2>1
<1>6. ASSUME NEW i \in 1 .. (n - 1) PROVE (a \o b)[i] = IF i < m THEN s[i] ELSE s[i + 1]
  <2>1. CASE i < m
    <3>1. i \in 1 .. (m - 1) /\ (a \o b)[i] = a[i]
      BY <1>1, <1>2, <1>3, <2>1
    <3> QED BY <1>2, <2>1, <3>1
  <2>2. CASE ~(i < m)
    <3>1. i - (m - 1) \in 1 .. (n - m) /\ (a \o b)[i] = b[i - (m - 1)]
      BY <1>1, <1>2, <1>3, <2>2
    <3>2. i - (m - 1) + m = i + 1
      BY <1>1
    <3> QED BY <1>3, <2>2, <3>1, <3>2
  <2> QED BY <2>1, <2>2
<1> QED BY <1>4, <1>5, <1>6 DEF n

Begins == [name : Keys, tp : Nat]

\* The begin that an end closes is the last one of the name, if there is any.
LEMMA MatchingFacts ==
  ASSUME NEW t, NEW k, pending[t] \in Seq(Begins)
  PROVE  LET m == Cost!Matching(t, k)  P == pending[t] IN
         \/ m = 0 /\ \A i \in 1 .. Len(P) : P[i].name # k
         \/ /\ m \in 1 .. Len(P) /\ P[m].name = k
            /\ \A i \in 1 .. Len(P) : P[i].name = k => i <= m
<1> DEFINE P == pending[t]  I == {i \in 1 .. Len(P) : P[i].name = k}
<1>1. Cost!Matching(t, k) = IF I # {} THEN Cost!Max(I) ELSE 0
  BY DEF Cost!Matching, Cost!SelectLastInSeq
<1>2. CASE I = {}
  BY <1>1, <1>2
<1>3. CASE I # {}
  <2>1. Len(P) \in Nat
    OBVIOUS
  <2> DEFINE T == {Len(P) - i : i \in I}
  <2>2. T \in SUBSET Nat /\ T # {}
    <3>1. \A i \in I : Len(P) - i \in Nat
      BY <2>1
    <3> QED BY <1>3, <3>1
  <2>3. PICK n \in T : \A m \in T : n <= m
    <3> HIDE DEF T
    <3> QED BY <2>2, NatMin
  <2>4. PICK x \in I : n = Len(P) - x
    OBVIOUS
  <2>5. \A y \in I : x >= y
    <3> SUFFICES ASSUME NEW y \in I PROVE x >= y
      OBVIOUS
    <3>1. n <= Len(P) - y
      BY <2>3
    <3>2. x \in Nat /\ y \in Nat
      OBVIOUS
    <3> HIDE DEF I, T, P
    <3> QED BY <2>1, <2>4, <3>1, <3>2
  <2>6. Cost!Max(I) \in I /\ \A y \in I : Cost!Max(I) >= y
    <3> HIDE DEF I
    <3> QED BY <2>5 DEF Cost!Max
  <2>7. Cost!Matching(t, k) \in I /\ \A y \in I : Cost!Matching(t, k) >= y
    BY <1>1, <1>3, <2>6
  <2> HIDE DEF P
  <2> DEFINE m == Cost!Matching(t, k)
  <2> HIDE DEF m
  <2>8. m \in 1 .. Len(P) /\ P[m].name = k /\ \A i \in 1 .. Len(P) : P[i].name = k => i <= m
    BY <2>1, <2>7 DEF m
  <2> QED BY <2>8 DEF m, P
<1> QED BY <1>2, <1>3

\* Steps of the walk over a sequence that keeps what is not t.
Keeping(s, t, m, w) ==
  w = [i \in 0 .. m |-> IF i = 0 THEN << >>
                        ELSE IF s[i] = t THEN w[i - 1] ELSE Append(w[i - 1], s[i])]

LEMMA KeepingExists ==
  ASSUME NEW s, NEW t, NEW m \in Nat
  PROVE  \E w : Keeping(s, t, m, w)
<1> DEFINE T == {k \in Nat : \E w : Keeping(s, t, k, w)}
           Step(i, v) == IF s[i] = t THEN v ELSE Append(v, s[i])
<1>1. 0 \in T
  <2> DEFINE w == [i \in 0 .. 0 |-> << >>]
  <2>1. Keeping(s, t, 0, w)
    BY DEF Keeping
  <2> QED BY <2>1
<1>2. ASSUME NEW k \in T PROVE k + 1 \in T
  <2>1. PICK v : Keeping(s, t, k, v)
    OBVIOUS
  <2> DEFINE w == [i \in 0 .. (k + 1) |-> IF i <= k THEN v[i] ELSE Step(k + 1, v[k])]
  <2>2. \A i \in 0 .. k : w[i] = v[i]
    OBVIOUS
  <2>3. w[k + 1] = Step(k + 1, v[k])
    OBVIOUS
  <2>4. \A i \in 0 .. k : v[i] = IF i = 0 THEN << >> ELSE Step(i, v[i - 1])
    <3> HIDE DEF w, T
    <3> QED BY <2>1 DEF Keeping
  <2>5. ASSUME NEW i \in 0 .. (k + 1) PROVE w[i] = IF i = 0 THEN << >> ELSE Step(i, w[i - 1])
    <3> HIDE DEF w, Step
    <3>1. CASE i = k + 1
      <4>1. i - 1 = k /\ k \in 0 .. k /\ w[k] = v[k] /\ i # 0
        BY <2>2, <3>1
      <4> QED BY <2>3, <3>1, <4>1
    <3>2. CASE i # k + 1
      <4>1. i \in 0 .. k
        BY <3>2
      <4>2. i # 0 => i - 1 \in 0 .. k
        BY <4>1
      <4> QED BY <2>2, <2>4, <4>1, <4>2
    <3> QED BY <3>1, <3>2
  <2>6. w = [i \in 0 .. (k + 1) |-> w[i]]
    OBVIOUS
  <2> HIDE DEF w
  <2>7. w = [i \in 0 .. (k + 1) |-> IF i = 0 THEN << >> ELSE Step(i, w[i - 1])]
    BY <2>5, <2>6
  <2>8. Keeping(s, t, k + 1, w)
    BY <2>7 DEF Keeping
  <2> QED BY <2>8
<1> HIDE DEF T
<1>3. T = Nat
  <2>1. T \in SUBSET Nat
    BY DEF T
  <2> QED BY <1>1, <1>2, <2>1, AllNumbers
<1> QED BY <1>3 DEF T

Differ(s) == \A i, j \in 1 .. Len(s) : s[i] = s[j] => i = j
Elems(s)  == {s[i] : i \in 1 .. Len(s)}

\* std::remove keeps the others, each as often as it was there.
LEMMA WithoutFacts ==
  ASSUME NEW T, NEW s \in Seq(T), NEW t, Differ(s)
  PROVE  LET r == Cost!Without(s, t) IN
         /\ r \in Seq(T) /\ Differ(r)
         /\ Elems(r) = Elems(s) \ {t}
<1> DEFINE n == Len(s)  w == CHOOSE w : Keeping(s, t, n, w)
<1>1. n \in Nat
  OBVIOUS
<1>2. Keeping(s, t, n, w)
  <2>1. \E v : Keeping(s, t, n, v)
    BY <1>1, KeepingExists
  <2> QED BY <2>1
<1>3. Cost!Without(s, t) = w[n]
  BY DEF Cost!Without, Keeping
<1> HIDE DEF w
<1>4. w[0] = << >> /\ \A i \in 1 .. n : w[i] = IF s[i] = t THEN w[i - 1] ELSE Append(w[i - 1], s[i])
  <2>1. 0 \in 0 .. n /\ \A i \in 1 .. n : i \in 0 .. n /\ i # 0
    BY <1>1
  <2> QED BY <1>2, <2>1 DEF Keeping
<1> DEFINE Upto(i) == {s[j] : j \in 1 .. i} \ {t}
           Good(r, i) == r \in Seq(T) /\ Differ(r) /\ {r[j] : j \in 1 .. Len(r)} = Upto(i)
           K == {i \in Nat : i <= n => Good(w[i], i)}
<1>5. 0 \in K
  <2>1. << >> \in Seq(T) /\ Len(<< >>) = 0 /\ Upto(0) = {}
    OBVIOUS
  <2>2. Good(<< >>, 0)
    BY <2>1 DEF Differ
  <2> QED BY <1>4, <2>2
<1>6. ASSUME NEW i \in K PROVE i + 1 \in K
  <2> SUFFICES ASSUME i + 1 <= n PROVE Good(w[i + 1], i + 1)
    <3>1. i \in Nat /\ i + 1 \in Nat
      OBVIOUS
    <3> HIDE DEF Good
    <3> QED BY <3>1
  <2>1. i \in Nat /\ i + 1 \in 1 .. n /\ i \in 0 .. n /\ (i + 1) - 1 = i
    BY <1>1
  <2>2. Good(w[i], i)
    <3>1. i <= n
      BY <1>1, <2>1
    <3> HIDE DEF Good
    <3> QED BY <3>1
  <2>3. w[i + 1] = IF s[i + 1] = t THEN w[i] ELSE Append(w[i], s[i + 1])
    BY <1>4, <2>1
  <2>4. 1 .. (i + 1) = (1 .. i) \cup {i + 1}
    BY <2>1
  <2>5. CASE s[i + 1] = t
    <3>1. Upto(i + 1) = Upto(i)
      BY <2>4, <2>5
    <3> QED BY <2>2, <2>3, <2>5, <3>1
  <2>6. CASE s[i + 1] # t
    <3> DEFINE e == s[i + 1]  v == w[i]  r == Append(v, e)
    <3>1. e \in T /\ Upto(i + 1) = Upto(i) \cup {e}
      BY <2>1, <2>4, <2>6
    <3>2. e \notin Upto(i)
      <4>1. \A j \in 1 .. i : j \in 1 .. n /\ j # i + 1
        BY <1>1, <2>1
      <4> QED BY <2>1, <4>1 DEF Differ
    <3> HIDE DEF e, v, Upto
    <3>3. v \in Seq(T) /\ Differ(v) /\ {v[j] : j \in 1 .. Len(v)} = Upto(i)
      BY <2>2 DEF v
    <3>4. /\ r \in Seq(T) /\ Len(r) = Len(v) + 1 /\ r[Len(v) + 1] = e /\ Len(v) \in Nat
          /\ \A j \in 1 .. Len(v) : r[j] = v[j]
      BY <3>1, <3>3
    <3> HIDE DEF r
    <3>5. 1 .. Len(r) = (1 .. Len(v)) \cup {Len(v) + 1} /\ Len(v) + 1 \notin 1 .. Len(v)
      BY <3>4
    <3>6. \A j \in 1 .. Len(v) : v[j] # e
      BY <3>2, <3>3
    <3>7. Differ(r)
      BY <3>3, <3>4, <3>5, <3>6 DEF Differ
    <3>8. {r[j] : j \in 1 .. Len(r)} = Upto(i) \cup {e}
      <4>1. {r[j] : j \in 1 .. Len(r)} = {r[j] : j \in 1 .. Len(v)} \cup {r[Len(v) + 1]}
        BY <3>5
      <4>2. {r[j] : j \in 1 .. Len(v)} = {v[j] : j \in 1 .. Len(v)}
        BY <3>4
      <4> QED BY <3>3, <3>4, <4>1, <4>2
    <3>9. w[i + 1] = r
      BY <2>3, <2>6 DEF r, v, e
    <3> QED BY <3>1, <3>4, <3>7, <3>8, <3>9
  <2> QED BY <2>5, <2>6
<1>7. K = Nat
  <2>1. K \in SUBSET Nat
    OBVIOUS
  <2> HIDE DEF K
  <2> QED BY <1>5, <1>6, <2>1, AllNumbers
<1>8. Good(w[n], n)
  <2> HIDE DEF Good
  <2>1. n \in K /\ n <= n
    BY <1>1, <1>7
  <2> QED BY <2>1
<1> QED BY <1>3, <1>8 DEF Elems

\* What is not there is not removed.
LEMMA WithoutNone ==
  ASSUME NEW T, NEW s \in Seq(T), NEW t, \A i \in 1 .. Len(s) : s[i] # t
  PROVE  Cost!Without(s, t) = s
<1> DEFINE n == Len(s)  w == CHOOSE w : Keeping(s, t, n, w)
<1>1. n \in Nat
  OBVIOUS
<1>2. Keeping(s, t, n, w)
  <2>1. \E v : Keeping(s, t, n, v)
    BY <1>1, KeepingExists
  <2> QED BY <2>1
<1>3. Cost!Without(s, t) = w[n]
  BY DEF Cost!Without, Keeping
<1> HIDE DEF w
<1>4. w[0] = << >> /\ \A i \in 1 .. n : w[i] = Append(w[i - 1], s[i])
  <2>1. 0 \in 0 .. n /\ \A i \in 1 .. n : i \in 0 .. n /\ i # 0
    BY <1>1
  <2> QED BY <1>2, <2>1 DEF Keeping
<1> DEFINE Good(r, i) == r \in Seq(T) /\ Len(r) = i /\ \A j \in 1 .. i : r[j] = s[j]
           K == {i \in Nat : i <= n => Good(w[i], i)}
<1>5. 0 \in K
  <2>1. << >> \in Seq(T) /\ Len(<< >>) = 0 /\ 1 .. 0 = {}
    OBVIOUS
  <2>2. Good(<< >>, 0)
    BY <2>1
  <2> HIDE DEF Good
  <2> QED BY <1>4, <2>2
<1>6. ASSUME NEW i \in K PROVE i + 1 \in K
  <2> SUFFICES ASSUME i + 1 <= n PROVE Good(w[i + 1], i + 1)
    <3>1. i \in Nat /\ i + 1 \in Nat
      OBVIOUS
    <3> HIDE DEF Good
    <3> QED BY <3>1
  <2>1. i \in Nat /\ i + 1 \in 1 .. n /\ (i + 1) - 1 = i /\ i <= n
    BY <1>1
  <2>2. Good(w[i], i)
    <3> HIDE DEF Good
    <3> QED BY <2>1
  <2> DEFINE v == w[i]  e == s[i + 1]
  <2>3. w[i + 1] = Append(v, e) /\ e \in T
    BY <1>4, <2>1
  <2>4. v \in Seq(T) /\ Len(v) = i /\ \A j \in 1 .. i : v[j] = s[j]
    BY <2>2
  <2> HIDE DEF v
  <2>5. /\ Append(v, e) \in Seq(T) /\ Len(Append(v, e)) = i + 1 /\ Append(v, e)[i + 1] = e
        /\ \A j \in 1 .. i : Append(v, e)[j] = v[j]
    BY <2>1, <2>3, <2>4
  <2>6. \A j \in 1 .. (i + 1) : j = i + 1 \/ j \in 1 .. i
    BY <2>1
  <2>7. \A j \in 1 .. (i + 1) : Append(v, e)[j] = s[j]
    BY <2>4, <2>5, <2>6
  <2> QED BY <2>3, <2>5, <2>7
<1>7. K = Nat
  <2>1. K \in SUBSET Nat
    OBVIOUS
  <2> HIDE DEF K
  <2> QED BY <1>5, <1>6, <2>1, AllNumbers
<1>8. Good(w[n], n)
  <2> HIDE DEF Good
  <2>1. n \in K /\ n <= n
    BY <1>1, <1>7
  <2> QED BY <2>1
<1>9. w[n] = s
  <2> DEFINE r == w[n]
  <2>1. r \in Seq(T) /\ Len(r) = Len(s) /\ \A j \in 1 .. Len(s) : r[j] = s[j]
    BY <1>8
  <2> HIDE DEF r
  <2>2. r = s
    BY <2>1, SeqEqual
  <2> QED BY <2>2 DEF r
<1> QED BY <1>3, <1>9

-----------------------------------------------------------------------------
(***************************************************************************)
(* The begins of the calls that are open, among all that are pending.      *)
(***************************************************************************)
\* h places the open calls F among the pending begins P, in order.
Opens(F, P, h) ==
  /\ h \in [1 .. Len(F) -> 1 .. Len(P)]
  /\ \A i, j \in 1 .. Len(F) : i < j => h[i] < h[j]
  /\ \A i \in 1 .. Len(F) : P[h[i]] = F[i]

\* What is pending of the name of an open call after it belongs to a call inside it.
OnlyOpen(F, P, h) ==
  \A i \in 1 .. Len(F), j \in 1 .. Len(P) :
    j > h[i] /\ P[j].name = F[i].name => \E l \in 1 .. Len(F) : l > i /\ h[l] = j

\* No call is open.
LEMMA NoneOpen ==
  ASSUME NEW P
  PROVE  \E h : Opens(<< >>, P, h) /\ OnlyOpen(<< >>, P, h)
<1> DEFINE h == [i \in 1 .. 0 |-> 1]
<1>1. Opens(<< >>, P, h) /\ OnlyOpen(<< >>, P, h)
  BY DEF Opens, OnlyOpen
<1> QED BY <1>1

\* A call begins.
LEMMA OpensMore ==
  ASSUME NEW F \in Seq(Begins), NEW P \in Seq(Begins), NEW h, NEW e \in Begins, Opens(F, P, h)
  PROVE  \E g : /\ Opens(Append(F, e), Append(P, e), g)
                /\ OnlyOpen(F, P, h) => OnlyOpen(Append(F, e), Append(P, e), g)
<1> DEFINE n == Len(F)  m == Len(P)  G == Append(F, e)  Q == Append(P, e)
           g == [i \in 1 .. (n + 1) |-> IF i <= n THEN h[i] ELSE m + 1]
<1>1. n \in Nat /\ m \in Nat /\ Len(G) = n + 1 /\ Len(Q) = m + 1 /\ G[n + 1] = e /\ Q[m + 1] = e
  OBVIOUS
<1>2. /\ \A i \in 1 .. n : G[i] = F[i]
      /\ \A j \in 1 .. m : Q[j] = P[j]
  OBVIOUS
<1>3. /\ 1 .. (n + 1) = (1 .. n) \cup {n + 1} /\ 1 .. (m + 1) = (1 .. m) \cup {m + 1}
      /\ n + 1 \notin 1 .. n /\ m + 1 \notin 1 .. m
      /\ \A i \in 1 .. n : i \in Nat /\ i < n + 1 /\ i <= n
      /\ \A j \in 1 .. m : j \in Nat /\ j < m + 1
  BY <1>1
<1>4. h \in [1 .. n -> 1 .. m] /\ \A i, j \in 1 .. n : i < j => h[i] < h[j]
  BY DEF Opens
<1>5. \A i \in 1 .. n : P[h[i]] = F[i]
  BY DEF Opens
<1>6. g[n + 1] = m + 1 /\ \A i \in 1 .. n : g[i] = h[i]
  BY <1>1, <1>3
<1>7. g \in [1 .. (n + 1) -> 1 .. (m + 1)]
  <2>1. ASSUME NEW i \in 1 .. (n + 1) PROVE g[i] \in 1 .. (m + 1)
    BY <1>1, <1>3, <1>4, <1>6
  <2> QED BY <2>1
<1> HIDE DEF g, n, m, G, Q
<1>8. ASSUME NEW i \in 1 .. (n + 1), NEW j \in 1 .. (n + 1), i < j PROVE g[i] < g[j]
  <2>1. CASE j = n + 1
    <3>1. i \in 1 .. n /\ h[i] \in 1 .. m
      BY <1>1, <1>3, <1>4, <1>8, <2>1
    <3> QED BY <1>3, <1>6, <2>1, <3>1
  <2>2. CASE j # n + 1
    <3>1. i \in 1 .. n /\ j \in 1 .. n
      BY <1>1, <1>3, <1>8, <2>2
    <3> QED BY <1>4, <1>6, <1>8, <3>1
  <2> QED BY <2>1, <2>2
<1>9. ASSUME NEW i \in 1 .. (n + 1) PROVE Q[g[i]] = G[i]
  <2>1. CASE i = n + 1
    BY <1>1, <1>6, <2>1
  <2>2. CASE i # n + 1
    <3>1. i \in 1 .. n
      BY <1>3, <2>2
    <3>2. g[i] = h[i] /\ h[i] \in 1 .. m
      BY <1>4, <1>6, <3>1
    <3>3. Q[h[i]] = P[h[i]] /\ G[i] = F[i]
      BY <1>2, <3>1, <3>2
    <3> QED BY <1>5, <3>1, <3>2, <3>3
  <2> QED BY <2>1, <2>2
<1>10. Opens(G, Q, g)
  BY <1>1, <1>7, <1>8, <1>9 DEF Opens
<1>11. ASSUME OnlyOpen(F, P, h) PROVE OnlyOpen(G, Q, g)
  <2> SUFFICES ASSUME NEW i \in 1 .. (n + 1), NEW j \in 1 .. (m + 1), j > g[i], Q[j].name = G[i].name
               PROVE  \E l \in 1 .. (n + 1) : l > i /\ g[l] = j
    BY <1>1 DEF OnlyOpen
  <2>1. i # n + 1
    BY <1>1, <1>6
  <2>2. i \in 1 .. n
    BY <1>3, <2>1
  <2>3. CASE j = m + 1
    BY <1>1, <1>3, <1>6, <2>2, <2>3
  <2>4. CASE j # m + 1
    <3>1. j \in 1 .. m
      BY <1>3, <2>4
    <3>2. j > h[i] /\ P[j].name = F[i].name
      BY <1>2, <1>6, <2>2, <3>1
    <3>3. PICK l \in 1 .. n : l > i /\ h[l] = j
      BY <1>11, <2>2, <3>1, <3>2 DEF OnlyOpen, n, m
    <3> QED BY <1>3, <1>6, <3>3
  <2> QED BY <2>3, <2>4
<1> QED BY <1>10, <1>11 DEF G, Q

\* The innermost call is left without its end.
LEMMA OpensLess ==
  ASSUME NEW F \in Seq(Begins), F # << >>, NEW P \in Seq(Begins), NEW h, Opens(F, P, h)
  PROVE  \E g : /\ Opens(Cost!Front(F), P, g)
                /\ OnlyOpen(F, P, h) /\ (\A i \in 1 .. (Len(F) - 1) : F[i].name # Cost!Last(F).name)
                     => OnlyOpen(Cost!Front(F), P, g)
<1> DEFINE n == Len(F)  G == Cost!Front(F)  g == [i \in 1 .. (n - 1) |-> h[i]]
<1>1. /\ n \in Nat \ {0} /\ n \in 1 .. n /\ Cost!Last(F) = F[n] /\ Len(G) = n - 1
      /\ \A i \in 1 .. (n - 1) : i \in 1 .. n /\ G[i] = F[i]
  BY FrontFacts
<1>2. \A i \in 1 .. n : i # n => i \in 1 .. (n - 1)
  BY <1>1
<1> HIDE DEF n, G
<1>3. h \in [1 .. n -> 1 .. Len(P)] /\ \A i \in 1 .. n : P[h[i]] = F[i]
  BY DEF Opens, n
<1>4. \A i, j \in 1 .. n : i < j => h[i] < h[j]
  BY DEF Opens, n
<1>5. Opens(G, P, g)
  <2>1. g \in [1 .. (n - 1) -> 1 .. Len(P)]
    BY <1>1, <1>3
  <2>2. \A i \in 1 .. (n - 1) : g[i] = h[i]
    OBVIOUS
  <2> HIDE DEF g
  <2>3. \A i, j \in 1 .. (n - 1) : i < j => g[i] < g[j]
    BY <1>1, <1>4, <2>2
  <2>4. \A i \in 1 .. (n - 1) : P[g[i]] = G[i]
    BY <1>1, <1>3, <2>2
  <2> QED BY <1>1, <2>1, <2>3, <2>4 DEF Opens
<1>6. ASSUME OnlyOpen(F, P, h), \A i \in 1 .. (n - 1) : F[i].name # F[n].name
      PROVE  OnlyOpen(G, P, g)
  <2> SUFFICES ASSUME NEW i \in 1 .. (n - 1), NEW j \in 1 .. Len(P), j > g[i], P[j].name = G[i].name
               PROVE  \E l \in 1 .. (n - 1) : l > i /\ g[l] = j
    BY <1>1 DEF OnlyOpen
  <2>1. g[i] = h[i] /\ G[i] = F[i] /\ i \in 1 .. n
    BY <1>1
  <2>2. PICK l \in 1 .. n : l > i /\ h[l] = j
    <3>1. j > h[i] /\ P[j].name = F[i].name
      BY <2>1
    <3> QED BY <1>6, <2>1, <3>1 DEF OnlyOpen, n
  <2>3. l # n
    BY <1>3, <1>6, <2>1, <2>2
  <2> QED BY <1>2, <2>2, <2>3
<1> QED BY <1>1, <1>5, <1>6 DEF G, n

\* The innermost call ends, and closes the begin at m.
LEMMA OpensEnd ==
  ASSUME NEW F \in Seq(Begins), F # << >>, NEW P \in Seq(Begins), NEW h, Opens(F, P, h),
         NEW m \in 1 .. Len(P), P[m].name = Cost!Last(F).name,
         \A i \in 1 .. Len(P) : P[i].name = Cost!Last(F).name => i <= m
  PROVE  /\ h[Len(F)] \in 1 .. Len(P) /\ h[Len(F)] <= m /\ P[h[Len(F)]] = Cost!Last(F)
         /\ OnlyOpen(F, P, h) => m = h[Len(F)]
         /\ \E g : /\ Opens(Cost!Front(F), Cost!RemoveAt(P, m), g)
                   /\ OnlyOpen(F, P, h) => OnlyOpen(Cost!Front(F), Cost!RemoveAt(P, m), g)
<1> DEFINE n == Len(F)  q == Len(P)  G == Cost!Front(F)  Q == Cost!RemoveAt(P, m)
           g == [i \in 1 .. (n - 1) |-> h[i]]
<1>1. /\ n \in Nat \ {0} /\ n \in 1 .. n /\ Cost!Last(F) = F[n] /\ Len(G) = n - 1
      /\ \A i \in 1 .. (n - 1) : i \in 1 .. n /\ G[i] = F[i]
  BY FrontFacts
<1>2. /\ Len(Q) = q - 1 /\ \A j \in 1 .. (q - 1) : Q[j] = IF j < m THEN P[j] ELSE P[j + 1]
  BY RemoveAtFacts
<1>3. q \in Nat /\ m \in 1 .. q
  OBVIOUS
<1>4. \A i \in 1 .. n : i # n => i \in 1 .. (n - 1)
  BY <1>1
<1>5. P[m].name = F[n].name /\ \A i \in 1 .. q : P[i].name = F[n].name => i <= m
  BY <1>1
<1> HIDE DEF n, q, G, Q
<1>6. h \in [1 .. n -> 1 .. q] /\ \A i \in 1 .. n : P[h[i]] = F[i]
  BY DEF Opens, n, q
<1>7. \A i, j \in 1 .. n : i < j => h[i] < h[j]
  BY DEF Opens, n
<1>8. h[n] \in 1 .. q /\ P[h[n]] = F[n]
  BY <1>1, <1>6
<1>9. h[n] <= m
  BY <1>5, <1>8
<1>10. ASSUME OnlyOpen(F, P, h) PROVE m = h[n]
  <2> SUFFICES ASSUME m > h[n] PROVE FALSE
    BY <1>3, <1>8, <1>9
  <2>1. PICK l \in 1 .. n : l > n /\ h[l] = m
    BY <1>1, <1>3, <1>5, <1>10 DEF OnlyOpen, n, q
  <2> QED BY <1>1, <2>1
<1>11. ASSUME NEW i \in 1 .. (n - 1) PROVE i \in 1 .. n /\ h[i] \in 1 .. (q - 1) /\ h[i] < m /\ g[i] = h[i] /\ g[i] \in 1 .. q
  <2>1. i \in 1 .. n /\ i < n /\ g[i] = h[i]
    BY <1>1
  <2>2. h[i] < h[n] /\ h[i] \in 1 .. q
    BY <1>1, <1>6, <1>7, <2>1
  <2> QED BY <1>3, <1>8, <1>9, <2>1, <2>2
<1>12. Opens(G, Q, g)
  <2>1. g \in [1 .. (n - 1) -> 1 .. (q - 1)]
    BY <1>11
  <2> HIDE DEF g
  <2>2. \A i, j \in 1 .. (n - 1) : i < j => g[i] < g[j]
    BY <1>7, <1>11
  <2>3. ASSUME NEW i \in 1 .. (n - 1) PROVE Q[g[i]] = G[i]
    <3>1. Q[g[i]] = P[g[i]]
      BY <1>2, <1>11
    <3> QED BY <1>1, <1>6, <1>11, <3>1
  <2> QED BY <1>1, <1>2, <2>1, <2>2, <2>3 DEF Opens
<1>13. ASSUME OnlyOpen(F, P, h) PROVE OnlyOpen(G, Q, g)
  <2> SUFFICES ASSUME NEW i \in 1 .. (n - 1), NEW j \in 1 .. (q - 1), j > g[i], Q[j].name = G[i].name
               PROVE  \E l \in 1 .. (n - 1) : l > i /\ g[l] = j
    BY <1>1, <1>2 DEF OnlyOpen
  <2> HIDE DEF g
  <2>1. i \in 1 .. n /\ g[i] = h[i] /\ G[i] = F[i] /\ h[i] < m
    BY <1>1, <1>11
  <2> DEFINE k == IF j < m THEN j ELSE j + 1
  <2>2. k \in 1 .. q /\ Q[j] = P[k] /\ k > h[i] /\ k # m
    BY <1>2, <1>3, <2>1, <1>11
  <2>3. PICK l \in 1 .. n : l > i /\ h[l] = k
    <3>1. P[k].name = F[i].name
      BY <2>1, <2>2
    <3> HIDE DEF k
    <3> QED BY <1>13, <2>1, <2>2, <3>1 DEF OnlyOpen, n, q
  <2>4. l # n
    BY <1>10, <1>13, <2>2, <2>3
  <2>5. l \in 1 .. (n - 1)
    BY <1>4, <2>3, <2>4
  <2>6. k < m
    BY <1>11, <2>3, <2>5
  <2>7. k = j
    BY <1>3, <2>6
  <2> QED BY <1>11, <2>3, <2>5, <2>7
<1>14. m = h[n] \/ ~OnlyOpen(F, P, h)
  BY <1>10
<1> HIDE DEF g
<1> QED BY <1>1, <1>8, <1>9, <1>12, <1>13, <1>14 DEF n, q, G, Q

-----------------------------------------------------------------------------
(***************************************************************************)
(* The registry, the pending begins and the samples of each thread.        *)
(***************************************************************************)
Sample  == [total : Nat, count : Nat]
Lives   == {"alive", "leaving", "gone"}
Readers == [reading : BOOLEAN, todo : Seq(Threads), acc : [Keys -> Sample]]

CostTypes ==
  /\ now \in Nat /\ instrument \in BOOLEAN
  /\ life \in [Threads -> Lives] /\ enrolled \in [Threads -> BOOLEAN]
  /\ registry \in Seq(Threads) /\ reader \in Readers
  /\ pending \in [Threads -> Seq(Begins)] /\ frames \in [Threads -> Seq(Begins)]
  /\ samples \in [Threads -> [Keys -> Sample]] /\ truth \in [Threads -> [Keys -> Sample]]
  /\ disturbed \in [Threads -> BOOLEAN]

Registered == Elems(registry)

RegistryOK ==
  Differ(registry) /\ Registered = {t \in Threads : enrolled[t] /\ life[t] = "alive"}

\* What a thread has while it is not enrolled, and when it is not alive.
PlaceOK(t) ==
  /\ life[t] = "alive" /\ ~enrolled[t] => samples[t] = Cost!NoSamples /\ pending[t] = << >>
  /\ life[t] # "alive" => frames[t] = << >>
  /\ life[t] = "gone" => /\ ~enrolled[t] /\ ~disturbed[t] /\ pending[t] = << >>
                         /\ samples[t] = Cost!NoSamples /\ truth[t] = Cost!NoSamples

\* Begins are pending in the order of time.
TimesOK(t) ==
  /\ \A i, j \in 1 .. Len(pending[t]) : i <= j => pending[t][i].tp <= pending[t][j].tp
  /\ \A i \in 1 .. Len(pending[t]) : pending[t][i].tp <= now

\* The open calls are among them; without a call that unwound inside another of
\* its name, the last one of a name belongs to the innermost call of that name.
OpenOK(t) ==
  instrument => \E h : /\ Opens(frames[t], pending[t], h)
                       /\ ~disturbed[t] => OnlyOpen(frames[t], pending[t], h)

TrueOK(t) ==
  life[t] = "alive" => \A k \in Keys :
    /\ samples[t][k].count = truth[t][k].count
    /\ samples[t][k].total <= truth[t][k].total
    /\ ~disturbed[t] => samples[t][k] = truth[t][k]

ThreadOK(t) == PlaceOK(t) /\ TimesOK(t) /\ OpenOK(t) /\ TrueOK(t)

\* What the reader has added up are the maps at the first n places of the registry.
Read(n)       == {registry[i] : i \in 1 .. n}
TotalsIn(S, k) == [t \in S |-> samples[t][k].total]
CountsIn(S, k) == [t \in S |-> samples[t][k].count]
ReadUpto(n) ==
  /\ Len(reader.todo) = Len(registry) - n
  /\ \A i \in 1 .. Len(reader.todo) : reader.todo[i] = registry[n + i]
  /\ \A k \in Keys : /\ reader.acc[k].total = Sum(TotalsIn(Read(n), k))
                     /\ reader.acc[k].count = Sum(CountsIn(Read(n), k))

ReaderOK == reader.reading => \E n \in 0 .. Len(registry) : ReadUpto(n)

CostInv == CostTypes /\ RegistryOK /\ ReaderOK /\ \A t \in Threads : ThreadOK(t)

\* A thread that a step does not touch.
LEMMA SameThread ==
  ASSUME CostTypes, NEW u \in Threads, ThreadOK(u), now' \in Nat, now <= now', instrument' = instrument,
         life'[u] = life[u], enrolled'[u] = enrolled[u], pending'[u] = pending[u], frames'[u] = frames[u],
         samples'[u] = samples[u], truth'[u] = truth[u], disturbed'[u] = disturbed[u]
  PROVE  ThreadOK(u)'
<1>1. PlaceOK(u)'
  BY DEF ThreadOK, PlaceOK, Cost!NoSamples, Cost!Zero
<1>2. TimesOK(u)'
  <2>1. \A i \in 1 .. Len(pending[u]) : pending[u][i].tp \in Nat
    <3>1. pending[u] \in Seq(Begins)
      BY DEF CostTypes
    <3>2. \A i \in 1 .. Len(pending[u]) : pending[u][i] \in Begins
      BY <3>1
    <3> QED BY <3>2 DEF Begins
  <2>2. \A i \in 1 .. Len(pending[u]) : pending[u][i].tp <= now
    BY DEF ThreadOK, TimesOK
  <2>3. \A i \in 1 .. Len(pending[u]) : pending[u][i].tp <= now'
    BY <2>1, <2>2 DEF CostTypes
  <2> QED BY <2>3 DEF ThreadOK, TimesOK
<1>3. OpenOK(u)'
  BY DEF ThreadOK, OpenOK
<1>4. TrueOK(u)'
  BY DEF ThreadOK, TrueOK
<1> QED BY <1>1, <1>2, <1>3, <1>4 DEF ThreadOK

\* A reader that reads while a step touches no enrolled map.
LEMMA SameReader ==
  ASSUME CostTypes, ReaderOK, reader' = reader, ~reader.reading \/ registry' = registry,
         reader.reading => \A t \in Registered : samples'[t] = samples[t]
  PROVE  ReaderOK'
<1> SUFFICES ASSUME reader.reading PROVE \E n \in 0 .. Len(registry') : ReadUpto(n)'
  BY DEF ReaderOK
<1>1. PICK n \in 0 .. Len(registry) : ReadUpto(n)
  BY DEF ReaderOK
<1>2. registry' = registry /\ \A i \in 1 .. Len(registry) : registry[i] \in Registered
  BY DEF Registered, Elems
<1>3. Read(n)' = Read(n) /\ \A t \in Read(n) : t \in Registered
  <2>1. 1 .. n \subseteq 1 .. Len(registry)
    BY DEF CostTypes
  <2> QED BY <1>2, <2>1 DEF Read, Registered, Elems
<1>4. ASSUME NEW k \in Keys
      PROVE  TotalsIn(Read(n), k)' = TotalsIn(Read(n), k) /\ CountsIn(Read(n), k)' = CountsIn(Read(n), k)
  BY <1>3 DEF TotalsIn, CountsIn
<1>5. ReadUpto(n)'
  BY <1>1, <1>2, <1>4 DEF ReadUpto
<1> QED BY <1>2, <1>5

LEMMA EnrolKeeps ==
  ASSUME CostTypes, RegistryOK, NEW t \in Threads, Cost!Enrol(t),
         life' \in [Threads -> Lives], life'[t] = "alive", life[t] = "alive" \/ ~enrolled[t],
         \A u \in Threads \ {t} : life'[u] = life[u]
  PROVE  /\ RegistryOK' /\ registry' \in Seq(Threads) /\ enrolled' \in [Threads -> BOOLEAN]
         /\ enrolled'[t] /\ \A u \in Threads \ {t} : enrolled'[u] = enrolled[u]
         /\ reader.reading => registry' = registry
<1>1. /\ enrolled[t] \/ ~reader.reading
      /\ enrolled' = [enrolled EXCEPT ![t] = TRUE]
      /\ registry' = IF enrolled[t] THEN registry ELSE Append(registry, t)
  BY DEF Cost!Enrol, Cost!Unlocked
<1>2. /\ registry \in Seq(Threads) /\ enrolled \in [Threads -> BOOLEAN]
      /\ Differ(registry) /\ Registered = {u \in Threads : enrolled[u] /\ life[u] = "alive"}
  BY DEF CostTypes, RegistryOK
<1>3. /\ enrolled' \in [Threads -> BOOLEAN] /\ enrolled'[t]
      /\ \A u \in Threads \ {t} : enrolled'[u] = enrolled[u]
  BY <1>1, <1>2
<1>4. CASE enrolled[t]
  <2>1. registry' = registry /\ Registered' = Registered
    BY <1>1, <1>4 DEF Registered, Elems
  <2>2. \A u \in Threads : enrolled'[u] /\ life'[u] = "alive" <=> enrolled[u] /\ life[u] = "alive"
    BY <1>3, <1>4
  <2>3. RegistryOK'
    BY <1>2, <2>1, <2>2 DEF RegistryOK
  <2> QED BY <1>2, <1>3, <2>1, <2>3
<1>5. CASE ~enrolled[t]
  <2> DEFINE n == Len(registry)
  <2>1. /\ registry' \in Seq(Threads) /\ Len(registry') = n + 1 /\ registry'[n + 1] = t /\ n \in Nat
        /\ \A i \in 1 .. n : registry'[i] = registry[i]
    BY <1>1, <1>2, <1>5
  <2>2. t \notin Registered
    BY <1>2, <1>5
  <2>3. \A i \in 1 .. n : registry[i] # t
    BY <2>2 DEF Registered, Elems
  <2> HIDE DEF n
  <2>4. 1 .. (n + 1) = (1 .. n) \cup {n + 1} /\ n + 1 \notin 1 .. n
    BY <2>1
  <2>5. Differ(registry')
    BY <1>2, <2>1, <2>3, <2>4 DEF Differ, n
  <2>6. Registered' = Registered \cup {t}
    BY <2>1, <2>4 DEF Registered, Elems, n
  <2>7. \A u \in Threads : enrolled'[u] /\ life'[u] = "alive" <=> u = t \/ (enrolled[u] /\ life[u] = "alive")
    BY <1>3
  <2>8. Registered' = {u \in Threads : enrolled'[u] /\ life'[u] = "alive"}
    BY <1>2, <2>6, <2>7
  <2>9. RegistryOK'
    BY <2>5, <2>8 DEF RegistryOK
  <2> QED BY <1>1, <1>3, <1>5, <2>1, <2>9
<1> QED BY <1>4, <1>5

LEMMA CostInvInit == Cost!Init => CostInv
<1> SUFFICES ASSUME Cost!Init PROVE CostInv
  OBVIOUS
<1> USE DEF Cost!Init
<1>1. Cost!NoSamples \in [Keys -> Sample]
  BY DEF Cost!NoSamples, Cost!Zero, Sample
<1>2. << >> \in Seq(Threads) /\ << >> \in Seq(Begins)
  OBVIOUS
<1>3. CostTypes
  <2>1. reader \in Readers
    BY <1>1, <1>2 DEF Cost!NoReader, Readers
  <2>2. /\ now \in Nat /\ instrument \in BOOLEAN /\ registry \in Seq(Threads)
        /\ life \in [Threads -> Lives] /\ enrolled \in [Threads -> BOOLEAN] /\ disturbed \in [Threads -> BOOLEAN]
    BY <1>2 DEF Lives
  <2>3. /\ samples \in [Threads -> [Keys -> Sample]] /\ truth \in [Threads -> [Keys -> Sample]]
        /\ pending \in [Threads -> Seq(Begins)] /\ frames \in [Threads -> Seq(Begins)]
    BY <1>1, <1>2
  <2> QED BY <2>1, <2>2, <2>3 DEF CostTypes
<1>4. RegistryOK
  <2>1. Len(registry) = 0 /\ 1 .. 0 = {}
    OBVIOUS
  <2> QED BY <2>1 DEF RegistryOK, Registered, Elems, Differ
<1>5. ReaderOK
  BY DEF ReaderOK, Cost!NoReader
<1>6. ASSUME NEW t \in Threads PROVE ThreadOK(t)
  <2>1. frames[t] = << >> /\ pending[t] = << >> /\ Len(<< >>) = 0 /\ 1 .. 0 = {}
    OBVIOUS
  <2>2. PlaceOK(t) /\ TimesOK(t)
    BY <2>1 DEF PlaceOK, TimesOK
  <2>3. OpenOK(t)
    <3> DEFINE h == [i \in 1 .. 0 |-> i]
    <3>1. Opens(<< >>, << >>, h) /\ OnlyOpen(<< >>, << >>, h)
      BY DEF Opens, OnlyOpen
    <3> QED BY <2>1, <3>1 DEF OpenOK
  <2>4. TrueOK(t)
    BY DEF TrueOK, Cost!NoSamples, Cost!Zero
  <2> QED BY <2>2, <2>3, <2>4 DEF ThreadOK
<1> QED BY <1>3, <1>4, <1>5, <1>6 DEF CostInv

LEMMA CostBeginKeeps ==
  ASSUME CostInv, NEW t \in Threads, NEW k \in Keys, Cost!CostBegin(t, k)
  PROVE  CostInv'
<1> DEFINE e == [name |-> k, tp |-> now]
<1>1. /\ life[t] = "alive" /\ frames' = [frames EXCEPT ![t] = Append(@, e)]
      /\ UNCHANGED <<now, instrument, life, samples, reader, truth, disturbed>>
  BY DEF Cost!CostBegin
<1>2. CostTypes /\ RegistryOK /\ ReaderOK /\ \A u \in Threads : ThreadOK(u)
  BY DEF CostInv
<1>3. e \in Begins /\ e.tp = now /\ e.name = k /\ now \in Nat
  BY <1>2 DEF Begins, CostTypes
<1> HIDE DEF e
<1>4. /\ frames[t] \in Seq(Begins) /\ pending[t] \in Seq(Begins)
      /\ frames' \in [Threads -> Seq(Begins)] /\ frames'[t] = Append(frames[t], e)
      /\ \A u \in Threads \ {t} : frames'[u] = frames[u]
  BY <1>1, <1>2, <1>3 DEF CostTypes
<1>5. CASE instrument
  <2>1. Cost!Enrol(t) /\ pending' = [pending EXCEPT ![t] = Append(@, e)]
    BY <1>5 DEF Cost!CostBegin, e
  <2>2. /\ RegistryOK' /\ registry' \in Seq(Threads) /\ enrolled' \in [Threads -> BOOLEAN]
        /\ enrolled'[t] /\ \A u \in Threads \ {t} : enrolled'[u] = enrolled[u]
        /\ reader.reading => registry' = registry
    <3>1. life' \in [Threads -> Lives] /\ life'[t] = "alive" /\ \A u \in Threads \ {t} : life'[u] = life[u]
      BY <1>1, <1>2 DEF CostTypes
    <3> QED BY <1>1, <1>2, <2>1, <3>1, EnrolKeeps
  <2>3. /\ pending' \in [Threads -> Seq(Begins)] /\ pending'[t] = Append(pending[t], e)
        /\ \A u \in Threads \ {t} : pending'[u] = pending[u]
    BY <1>2, <1>3, <1>4, <2>1 DEF CostTypes
  <2>4. CostTypes'
    BY <1>1, <1>2, <1>4, <2>2, <2>3 DEF CostTypes
  <2>5. ReaderOK'
    BY <1>1, <1>2, <2>2, SameReader
  <2>6. ASSUME NEW u \in Threads \ {t} PROVE ThreadOK(u)'
    BY <1>1, <1>2, <1>3, <1>4, <2>2, <2>3, SameThread
  <2>7. PlaceOK(t)'
    BY <1>1, <2>2 DEF PlaceOK
  <2>8. TimesOK(t)'
    <3> DEFINE n == Len(pending[t])
    <3>1. /\ n \in Nat /\ Len(pending'[t]) = n + 1 /\ pending'[t][n + 1] = e
          /\ \A i \in 1 .. n : pending'[t][i] = pending[t][i]
      BY <1>3, <1>4, <2>3
    <3>2. \A i \in 1 .. n : pending[t][i].tp <= now
      BY <1>2 DEF ThreadOK, TimesOK
    <3>3. \A i, j \in 1 .. n : i <= j => pending[t][i].tp <= pending[t][j].tp
      BY <1>2 DEF ThreadOK, TimesOK
    <3> HIDE DEF n
    <3>4. /\ 1 .. (n + 1) = (1 .. n) \cup {n + 1} /\ \A i \in 1 .. n : ~(n + 1 <= i)
      BY <3>1
    <3>5. \A i \in 1 .. (n + 1) : pending'[t][i].tp <= now
      BY <1>3, <3>1, <3>2, <3>4
    <3>6. ASSUME NEW i \in 1 .. (n + 1), NEW j \in 1 .. (n + 1), i <= j
          PROVE  pending'[t][i].tp <= pending'[t][j].tp
      <4>1. CASE j = n + 1
        BY <1>3, <3>1, <3>5, <4>1
      <4>2. CASE j # n + 1
        <5>1. j \in 1 .. n /\ i \in 1 .. n
          BY <3>4, <3>6, <4>2
        <5> QED BY <3>1, <3>3, <3>6, <5>1
      <4> QED BY <4>1, <4>2
    <3> QED BY <1>1, <3>1, <3>5, <3>6 DEF TimesOK
  <2>9. OpenOK(t)'
    <3>1. PICK h : /\ Opens(frames[t], pending[t], h)
                   /\ ~disturbed[t] => OnlyOpen(frames[t], pending[t], h)
      BY <1>2, <1>5 DEF ThreadOK, OpenOK
    <3>2. PICK g : /\ Opens(frames'[t], pending'[t], g)
                   /\ OnlyOpen(frames[t], pending[t], h) => OnlyOpen(frames'[t], pending'[t], g)
      BY <1>3, <1>4, <2>3, <3>1, OpensMore
    <3> QED BY <1>1, <3>1, <3>2 DEF OpenOK
  <2>10. TrueOK(t)'
    BY <1>1, <1>2 DEF ThreadOK, TrueOK
  <2> QED BY <2>2, <2>4, <2>5, <2>6, <2>7, <2>8, <2>9, <2>10 DEF CostInv, ThreadOK
<1>6. CASE ~instrument
  <2>1. UNCHANGED <<enrolled, registry, pending>>
    BY <1>6 DEF Cost!CostBegin
  <2>2. CostTypes'
    BY <1>1, <1>2, <1>4, <2>1 DEF CostTypes
  <2>3. RegistryOK'
    BY <1>1, <1>2, <2>1 DEF RegistryOK, Registered
  <2>4. ReaderOK'
    BY <1>1, <1>2, <2>1, SameReader
  <2>5. ASSUME NEW u \in Threads \ {t} PROVE ThreadOK(u)'
    BY <1>1, <1>2, <1>3, <1>4, <2>1, SameThread
  <2>6. ThreadOK(t)'
    <3>1. PlaceOK(t)'
      BY <1>1, <1>2, <2>1 DEF ThreadOK, PlaceOK, Cost!NoSamples, Cost!Zero
    <3>2. TimesOK(t)'
      BY <1>1, <1>2, <2>1 DEF ThreadOK, TimesOK
    <3>3. OpenOK(t)'
      BY <1>1, <1>6 DEF OpenOK
    <3>4. TrueOK(t)'
      BY <1>1, <1>2 DEF ThreadOK, TrueOK
    <3> QED BY <3>1, <3>2, <3>3, <3>4 DEF ThreadOK
  <2> QED BY <2>2, <2>3, <2>4, <2>5, <2>6 DEF CostInv
<1> QED BY <1>5, <1>6

\* The call returns.
LEMMA CostEndKeeps ==
  ASSUME CostInv, NEW t \in Threads, Cost!CostEnd(t)
  PROVE  CostInv'
<1> DEFINE F == frames[t]  P == pending[t]  f == Cost!Last(F)  k == f.name
           m == Cost!Matching(t, k)
<1>1. /\ F # << >> /\ frames' = [frames EXCEPT ![t] = Cost!Front(@)]
      /\ UNCHANGED <<now, instrument, life, enrolled, registry, reader, disturbed>>
  BY DEF Cost!CostEnd
<1>2. CostTypes /\ RegistryOK /\ ReaderOK /\ \A u \in Threads : ThreadOK(u)
  BY DEF CostInv
<1>3. life[t] = "alive"
  BY <1>1, <1>2 DEF ThreadOK, PlaceOK
<1>4. F \in Seq(Begins) /\ P \in Seq(Begins) /\ now \in Nat
  BY <1>2 DEF CostTypes
<1>5. f \in Begins /\ Cost!Front(F) \in Seq(Begins)
  BY <1>1, <1>4, FrontFacts
<1>6. k \in Keys /\ f.tp \in Nat
  BY <1>5 DEF Begins
<1>7. /\ frames' \in [Threads -> Seq(Begins)] /\ frames'[t] = Cost!Front(F)
      /\ \A u \in Threads \ {t} : frames'[u] = frames[u]
  BY <1>1, <1>2, <1>5 DEF CostTypes
<1>8. RegistryOK'
  BY <1>1, <1>2 DEF RegistryOK, Registered
<1>9. CASE ~instrument
  <2>1. UNCHANGED <<truth, samples, pending>>
    BY <1>9 DEF Cost!CostEnd
  <2>2. CostTypes'
    BY <1>1, <1>2, <1>7, <2>1 DEF CostTypes
  <2>3. ReaderOK'
    BY <1>1, <1>2, <2>1, SameReader
  <2>4. ASSUME NEW u \in Threads \ {t} PROVE ThreadOK(u)'
    BY <1>1, <1>2, <1>4, <1>7, <2>1, SameThread
  <2>5. ThreadOK(t)'
    <3>1. PlaceOK(t)'
      BY <1>1, <1>2, <1>3, <2>1 DEF ThreadOK, PlaceOK, Cost!NoSamples, Cost!Zero
    <3>2. TimesOK(t)'
      BY <1>1, <1>2, <2>1 DEF ThreadOK, TimesOK
    <3>3. OpenOK(t)'
      BY <1>1, <1>9 DEF OpenOK
    <3>4. TrueOK(t)'
      BY <1>1, <1>2, <2>1 DEF ThreadOK, TrueOK
    <3> QED BY <3>1, <3>2, <3>3, <3>4 DEF ThreadOK
  <2> QED BY <1>8, <2>2, <2>3, <2>4, <2>5 DEF CostInv
<1>10. CASE instrument
  <2>1. PICK h : /\ Opens(F, P, h)
                 /\ ~disturbed[t] => OnlyOpen(F, P, h)
    BY <1>2, <1>10 DEF ThreadOK, OpenOK
  <2>2. \/ m = 0 /\ \A i \in 1 .. Len(P) : P[i].name # k
        \/ /\ m \in 1 .. Len(P) /\ P[m].name = k
           /\ \A i \in 1 .. Len(P) : P[i].name = k => i <= m
    <3> HIDE DEF f, k
    <3> QED BY <1>4, MatchingFacts
  <2>3. Len(F) \in 1 .. Len(F) /\ F[Len(F)] = f
    BY <1>1, <1>4, FrontFacts
  <2>4. h[Len(F)] \in 1 .. Len(P) /\ P[h[Len(F)]] = f
    <3> HIDE DEF f, F, P
    <3> QED BY <2>1, <2>3 DEF Opens
  <2>5. /\ m \in 1 .. Len(P) /\ P[m].name = k
        /\ \A i \in 1 .. Len(P) : P[i].name = k => i <= m
    BY <2>2, <2>4
  <2>6. m # 0
    BY <2>5
  <2> HIDE DEF m
  <2>7. /\ h[Len(F)] <= m
        /\ OnlyOpen(F, P, h) => m = h[Len(F)]
        /\ \E g : /\ Opens(Cost!Front(F), Cost!RemoveAt(P, m), g)
                  /\ OnlyOpen(F, P, h) => OnlyOpen(Cost!Front(F), Cost!RemoveAt(P, m), g)
    <3> HIDE DEF F, P
    <3> QED BY <1>1, <1>4, <2>1, <2>5, OpensEnd
  <2> DEFINE b == P[m]
  <2>8. /\ truth' = [truth EXCEPT ![t][k] = Cost!Add(@, now - f.tp)]
        /\ ~reader.reading
        /\ samples' = [samples EXCEPT ![t][k] = Cost!Add(@, now - b.tp)]
        /\ pending' = [pending EXCEPT ![t] = Cost!RemoveAt(@, m)]
    BY <1>10, <2>6 DEF Cost!CostEnd, Cost!Unlocked, m
  <2>9. b \in Begins /\ b.tp \in Nat /\ b.tp <= now /\ f.tp <= b.tp /\ (OnlyOpen(F, P, h) => b = f)
    <3>1. b \in Begins
      BY <1>4, <2>5
    <3>2. b.tp <= now /\ P[h[Len(F)]].tp <= b.tp
      BY <1>2, <2>4, <2>5, <2>7 DEF ThreadOK, TimesOK
    <3>3. OnlyOpen(F, P, h) => b = f
      BY <2>4, <2>7
    <3> QED BY <2>4, <3>1, <3>2, <3>3 DEF Begins
  <2>10. now - f.tp \in Nat /\ now - b.tp \in Nat /\ now - b.tp <= now - f.tp
    <3> HIDE DEF f, b
    <3> QED BY <1>4, <1>6, <2>9
  <2> HIDE DEF b, f, k
  <2>11. /\ samples[t] \in [Keys -> Sample] /\ truth[t] \in [Keys -> Sample]
         /\ samples[t][k] \in Sample /\ truth[t][k] \in Sample
    BY <1>2, <1>6 DEF CostTypes
  <2>12. Cost!Add(samples[t][k], now - b.tp) \in Sample /\ Cost!Add(truth[t][k], now - f.tp) \in Sample
    BY <2>10, <2>11 DEF Cost!Add, Sample
  <2>13. /\ samples' \in [Threads -> [Keys -> Sample]]
         /\ samples'[t][k] = Cost!Add(samples[t][k], now - b.tp)
         /\ \A j \in Keys \ {k} : samples'[t][j] = samples[t][j]
         /\ \A u \in Threads \ {t} : samples'[u] = samples[u]
    BY <1>2, <1>6, <2>8, <2>12 DEF CostTypes
  <2>14. /\ truth' \in [Threads -> [Keys -> Sample]]
         /\ truth'[t][k] = Cost!Add(truth[t][k], now - f.tp)
         /\ \A j \in Keys \ {k} : truth'[t][j] = truth[t][j]
         /\ \A u \in Threads \ {t} : truth'[u] = truth[u]
    BY <1>2, <1>6, <2>8, <2>12 DEF CostTypes
  <2> DEFINE Q == Cost!RemoveAt(P, m)
  <2>15. /\ Q \in Seq(Begins) /\ Len(Q) = Len(P) - 1
         /\ \A i \in 1 .. (Len(P) - 1) : Q[i] = IF i < m THEN P[i] ELSE P[i + 1]
    BY <1>4, <2>5, RemoveAtFacts
  <2> HIDE DEF Q
  <2>16. /\ pending' \in [Threads -> Seq(Begins)] /\ pending'[t] = Q
         /\ \A u \in Threads \ {t} : pending'[u] = pending[u]
    BY <1>2, <2>8, <2>15 DEF CostTypes, Q
  <2>17. CostTypes'
    BY <1>1, <1>2, <1>7, <2>13, <2>14, <2>16 DEF CostTypes
  <2>18. ReaderOK'
    BY <1>1, <1>2, <2>8, SameReader
  <2>19. ASSUME NEW u \in Threads \ {t} PROVE ThreadOK(u)'
    BY <1>1, <1>2, <1>4, <1>7, <2>13, <2>14, <2>16, SameThread
  <2>20. PlaceOK(t)'
    <3>1. enrolled[t]
      <4>1. P # << >>
        BY <1>4, <2>5
      <4> QED BY <1>2, <1>3, <4>1 DEF ThreadOK, PlaceOK
    <3> QED BY <1>1, <1>3, <3>1 DEF PlaceOK
  <2>21. TimesOK(t)'
    <3>1. /\ \A i, j \in 1 .. Len(P) : i <= j => P[i].tp <= P[j].tp
          /\ \A i \in 1 .. Len(P) : P[i].tp <= now
      BY <1>2 DEF ThreadOK, TimesOK
    <3>2. Len(P) \in Nat /\ m \in Nat
      BY <1>4, <2>5
    <3> DEFINE n == Len(P)  from(i) == IF i < m THEN i ELSE i + 1
    <3> HIDE DEF n, P
    <3>3. /\ \A i \in 1 .. (n - 1) : from(i) \in 1 .. n
          /\ \A i, j \in 1 .. (n - 1) : i <= j => from(i) <= from(j)
      BY <3>2 DEF n
    <3>4. \A i \in 1 .. (n - 1) : Q[i] = P[from(i)]
      BY <2>15 DEF n
    <3> HIDE DEF from
    <3>5. /\ \A i, j \in 1 .. (n - 1) : i <= j => Q[i].tp <= Q[j].tp
          /\ \A i \in 1 .. (n - 1) : Q[i].tp <= now
      BY <3>1, <3>3, <3>4 DEF n
    <3>6. Len(Q) = n - 1 /\ pending'[t] = Q /\ now' = now
      BY <1>1, <2>15, <2>16 DEF n
    <3> QED BY <3>5, <3>6 DEF TimesOK
  <2>22. OpenOK(t)'
    <3>1. PICK g : /\ Opens(Cost!Front(F), Q, g)
                   /\ OnlyOpen(F, P, h) => OnlyOpen(Cost!Front(F), Q, g)
      BY <2>7 DEF Q
    <3>2. frames'[t] = Cost!Front(F) /\ pending'[t] = Q /\ disturbed'[t] = disturbed[t]
      BY <1>1, <1>7, <2>16
    <3> QED BY <2>1, <3>1, <3>2 DEF OpenOK
  <2>23. TrueOK(t)'
    <3> SUFFICES ASSUME NEW j \in Keys
                 PROVE  /\ samples'[t][j].count = truth'[t][j].count
                        /\ samples'[t][j].total <= truth'[t][j].total
                        /\ ~disturbed[t] => samples'[t][j] = truth'[t][j]
      BY <1>1 DEF TrueOK
    <3>1. /\ samples[t][j].count = truth[t][j].count
          /\ samples[t][j].total <= truth[t][j].total
          /\ ~disturbed[t] => samples[t][j] = truth[t][j]
      BY <1>2, <1>3 DEF ThreadOK, TrueOK
    <3>2. CASE j # k
      BY <2>13, <2>14, <3>1, <3>2
    <3>3. CASE j = k
      <4> DEFINE s == samples[t][k]  r == truth[t][k]  ds == now - b.tp  dr == now - f.tp
      <4>1. s.total \in Nat /\ r.total \in Nat /\ s.count \in Nat /\ r.count \in Nat
        BY <2>11 DEF Sample
      <4>2. s.count = r.count /\ s.total <= r.total /\ (~disturbed[t] => s = r)
        BY <3>1, <3>3
      <4>3. ~disturbed[t] => ds = dr
        BY <2>1, <2>9
      <4>4. ds \in Nat /\ dr \in Nat /\ ds <= dr
        BY <2>10
      <4> HIDE DEF s, r, ds, dr
      <4>5. s.count + 1 = r.count + 1 /\ s.total + ds <= r.total + dr
        BY <4>1, <4>2, <4>4
      <4>6. /\ Cost!Add(s, ds).count = Cost!Add(r, dr).count
            /\ Cost!Add(s, ds).total <= Cost!Add(r, dr).total
        BY <4>5 DEF Cost!Add
      <4>7. ~disturbed[t] => Cost!Add(s, ds) = Cost!Add(r, dr)
        BY <4>2, <4>3
      <4> QED BY <2>13, <2>14, <3>3, <4>6, <4>7 DEF s, r, ds, dr
    <3> QED BY <3>2, <3>3
  <2> QED BY <1>8, <2>17, <2>18, <2>19, <2>20, <2>21, <2>22, <2>23 DEF CostInv, ThreadOK
<1> QED BY <1>9, <1>10

\* It unwinds past its end.
LEMMA UnwindKeeps ==
  ASSUME CostInv, NEW t \in Threads, Cost!Unwind(t)
  PROVE  CostInv'
<1> DEFINE F == frames[t]  k == Cost!Last(F).name
<1>1. /\ F # << >> /\ frames' = [frames EXCEPT ![t] = Cost!Front(@)]
      /\ disturbed' = [disturbed EXCEPT ![t] = @ \/ \E i \in 1 .. (Len(F) - 1) : F[i].name = k]
      /\ UNCHANGED <<now, instrument, life, enrolled, registry, pending, samples, reader, truth>>
  BY DEF Cost!Unwind, Cost!tls
<1>2. CostTypes /\ RegistryOK /\ ReaderOK /\ \A u \in Threads : ThreadOK(u)
  BY DEF CostInv
<1>3. F \in Seq(Begins) /\ pending[t] \in Seq(Begins) /\ now \in Nat
  BY <1>2 DEF CostTypes
<1>4. Cost!Front(F) \in Seq(Begins)
  BY <1>1, <1>3, FrontFacts
<1>5. /\ frames' \in [Threads -> Seq(Begins)] /\ frames'[t] = Cost!Front(F)
      /\ \A u \in Threads \ {t} : frames'[u] = frames[u]
  BY <1>1, <1>2, <1>4 DEF CostTypes
<1>6. /\ disturbed' \in [Threads -> BOOLEAN]
      /\ ~disturbed'[t] => ~disturbed[t] /\ \A i \in 1 .. (Len(F) - 1) : F[i].name # k
      /\ \A u \in Threads \ {t} : disturbed'[u] = disturbed[u]
  <2> DEFINE again == \E i \in 1 .. (Len(F) - 1) : F[i].name = k
  <2>1. disturbed' = [disturbed EXCEPT ![t] = @ \/ again]
    BY <1>1
  <2>2. ~again => \A i \in 1 .. (Len(F) - 1) : F[i].name # k
    OBVIOUS
  <2>3. disturbed \in [Threads -> BOOLEAN] /\ again \in BOOLEAN
    BY <1>2 DEF CostTypes
  <2> HIDE DEF again
  <2>4. /\ disturbed' \in [Threads -> BOOLEAN] /\ (~disturbed'[t] => ~disturbed[t] /\ ~again)
        /\ \A u \in Threads \ {t} : disturbed'[u] = disturbed[u]
    BY <2>1, <2>3
  <2> QED BY <2>2, <2>4
<1> HIDE DEF k
<1>7. CostTypes'
  BY <1>1, <1>2, <1>5, <1>6 DEF CostTypes
<1>8. RegistryOK'
  BY <1>1, <1>2 DEF RegistryOK, Registered
<1>9. ReaderOK'
  BY <1>1, <1>2, SameReader
<1>10. ASSUME NEW u \in Threads \ {t} PROVE ThreadOK(u)'
  BY <1>1, <1>2, <1>3, <1>5, <1>6, SameThread
<1>11. life[t] = "alive"
  BY <1>1, <1>2 DEF ThreadOK, PlaceOK
<1>12. PlaceOK(t)'
  BY <1>1, <1>2, <1>11 DEF ThreadOK, PlaceOK, Cost!NoSamples, Cost!Zero
<1>13. TimesOK(t)'
  BY <1>1, <1>2 DEF ThreadOK, TimesOK
<1>14. OpenOK(t)'
  <2> SUFFICES ASSUME instrument
               PROVE  \E g : /\ Opens(frames'[t], pending[t], g)
                             /\ ~disturbed'[t] => OnlyOpen(frames'[t], pending[t], g)
    BY <1>1 DEF OpenOK
  <2>1. PICK h : /\ Opens(F, pending[t], h)
                 /\ ~disturbed[t] => OnlyOpen(F, pending[t], h)
    BY <1>2 DEF ThreadOK, OpenOK
  <2>2. PICK g : /\ Opens(Cost!Front(F), pending[t], g)
                 /\ OnlyOpen(F, pending[t], h) /\ (\A i \in 1 .. (Len(F) - 1) : F[i].name # k)
                      => OnlyOpen(Cost!Front(F), pending[t], g)
    <3> HIDE DEF F
    <3> QED BY <1>1, <1>3, <2>1, OpensLess DEF k
  <2> QED BY <1>5, <1>6, <2>1, <2>2
<1>15. TrueOK(t)'
  BY <1>1, <1>2, <1>6 DEF ThreadOK, TrueOK
<1> QED BY <1>7, <1>8, <1>9, <1>10, <1>12, <1>13, <1>14, <1>15 DEF CostInv, ThreadOK

LEMMA UnregisterKeeps ==
  ASSUME CostInv, NEW t \in Threads, Cost!Unregister(t)
  PROVE  CostInv'
<1>1. /\ life[t] = "alive" /\ frames[t] = << >> /\ (enrolled[t] => ~reader.reading)
      /\ life' = [life EXCEPT ![t] = "leaving"] /\ registry' = Cost!Without(registry, t)
      /\ UNCHANGED <<now, instrument, enrolled, pending, samples, reader, frames, truth, disturbed>>
  BY DEF Cost!Unregister, Cost!Unlocked, Cost!history
<1>2. CostTypes /\ RegistryOK /\ ReaderOK /\ \A u \in Threads : ThreadOK(u)
  BY DEF CostInv
<1>3. /\ life' \in [Threads -> Lives] /\ life'[t] = "leaving" /\ now \in Nat
      /\ \A u \in Threads \ {t} : life'[u] = life[u]
  BY <1>1, <1>2 DEF CostTypes, Lives
<1>4. /\ registry' \in Seq(Threads) /\ Differ(registry') /\ Registered' = Registered \ {t}
  <2> DEFINE r == Cost!Without(registry, t)
  <2>1. registry \in Seq(Threads) /\ Differ(registry)
    BY <1>2 DEF CostTypes, RegistryOK
  <2>2. /\ r \in Seq(Threads) /\ Differ(r)
        /\ Elems(r) = Elems(registry) \ {t}
    BY <2>1, WithoutFacts
  <2>3. registry' = r
    BY <1>1
  <2> HIDE DEF r
  <2> QED BY <2>2, <2>3 DEF Registered
<1>5. CostTypes'
  BY <1>1, <1>2, <1>3, <1>4 DEF CostTypes
<1>6. RegistryOK'
  <2>1. Registered = {u \in Threads : enrolled[u] /\ life[u] = "alive"}
    BY <1>2 DEF RegistryOK
  <2>2. \A u \in Threads : enrolled'[u] /\ life'[u] = "alive" <=> u # t /\ enrolled[u] /\ life[u] = "alive"
    BY <1>1, <1>3
  <2>3. Registered' = {u \in Threads : enrolled'[u] /\ life'[u] = "alive"}
    BY <1>4, <2>1, <2>2
  <2> QED BY <1>4, <2>3 DEF RegistryOK
<1>7. ReaderOK'
  <2> SUFFICES ASSUME reader.reading PROVE \E n \in 0 .. Len(registry') : ReadUpto(n)'
    BY <1>1 DEF ReaderOK
  <2>1. t \notin Registered
    BY <1>1, <1>2 DEF RegistryOK
  <2>2. registry' = registry
    BY <1>1, <1>2, <2>1, WithoutNone DEF CostTypes, Registered, Elems
  <2>3. ReaderOK'
    BY <1>1, <1>2, <2>2, SameReader
  <2> QED BY <1>1, <2>3 DEF ReaderOK
<1>8. ASSUME NEW u \in Threads \ {t} PROVE ThreadOK(u)'
  BY <1>1, <1>2, <1>3, SameThread
<1>9. PlaceOK(t)'
  BY <1>1, <1>3 DEF PlaceOK
<1>10. TimesOK(t)' /\ OpenOK(t)'
  BY <1>1, <1>2 DEF ThreadOK, TimesOK, OpenOK
<1>11. TrueOK(t)'
  BY <1>3 DEF TrueOK
<1> QED BY <1>5, <1>6, <1>7, <1>8, <1>9, <1>10, <1>11 DEF CostInv, ThreadOK

LEMMA DestroyMapKeeps ==
  ASSUME CostInv, NEW t \in Threads, Cost!DestroyMap(t)
  PROVE  CostInv'
<1>1. /\ life[t] = "leaving" /\ life' = [life EXCEPT ![t] = "gone"]
      /\ enrolled' = [enrolled EXCEPT ![t] = FALSE] /\ pending' = [pending EXCEPT ![t] = << >>]
      /\ samples' = [samples EXCEPT ![t] = Cost!NoSamples] /\ truth' = [truth EXCEPT ![t] = Cost!NoSamples]
      /\ disturbed' = [disturbed EXCEPT ![t] = FALSE]
      /\ UNCHANGED <<now, instrument, registry, reader, frames>>
  BY DEF Cost!DestroyMap
<1>2. CostTypes /\ RegistryOK /\ ReaderOK /\ \A u \in Threads : ThreadOK(u)
  BY DEF CostInv
<1>3. Cost!NoSamples \in [Keys -> Sample] /\ << >> \in Seq(Begins)
  BY DEF Cost!NoSamples, Cost!Zero, Sample
<1>4. /\ life' \in [Threads -> Lives] /\ life'[t] = "gone" /\ \A u \in Threads \ {t} : life'[u] = life[u]
      /\ enrolled' \in [Threads -> BOOLEAN] /\ ~enrolled'[t] /\ \A u \in Threads \ {t} : enrolled'[u] = enrolled[u]
      /\ disturbed' \in [Threads -> BOOLEAN] /\ ~disturbed'[t]
      /\ \A u \in Threads \ {t} : disturbed'[u] = disturbed[u]
  BY <1>1, <1>2 DEF CostTypes, Lives
<1>5. /\ pending' \in [Threads -> Seq(Begins)] /\ pending'[t] = << >>
      /\ \A u \in Threads \ {t} : pending'[u] = pending[u]
      /\ samples' \in [Threads -> [Keys -> Sample]] /\ samples'[t] = Cost!NoSamples
      /\ \A u \in Threads \ {t} : samples'[u] = samples[u]
      /\ truth' \in [Threads -> [Keys -> Sample]] /\ truth'[t] = Cost!NoSamples
      /\ \A u \in Threads \ {t} : truth'[u] = truth[u]
  BY <1>1, <1>2, <1>3 DEF CostTypes
<1>6. CostTypes'
  BY <1>1, <1>2, <1>4, <1>5 DEF CostTypes
<1>7. Registered = {u \in Threads : enrolled[u] /\ life[u] = "alive"} /\ t \notin Registered
  BY <1>1, <1>2 DEF RegistryOK
<1>8. RegistryOK'
  <2>1. \A u \in Threads : enrolled'[u] /\ life'[u] = "alive" <=> enrolled[u] /\ life[u] = "alive"
    BY <1>1, <1>4
  <2>2. Registered' = Registered /\ Differ(registry)'
    BY <1>1, <1>2 DEF RegistryOK, Registered
  <2> QED BY <1>1, <1>7, <2>1, <2>2 DEF RegistryOK
<1>9. ReaderOK'
  <2>1. \A u \in Registered : samples'[u] = samples[u]
    BY <1>5, <1>7
  <2> QED BY <1>1, <1>2, <2>1, SameReader
<1>10. now' \in Nat /\ now <= now'
  BY <1>1, <1>2 DEF CostTypes
<1>11. ASSUME NEW u \in Threads \ {t} PROVE ThreadOK(u)'
  BY <1>1, <1>2, <1>4, <1>5, <1>10, SameThread
<1>12. frames'[t] = << >>
  BY <1>1, <1>2 DEF ThreadOK, PlaceOK
<1>13. PlaceOK(t)'
  BY <1>4, <1>5, <1>12 DEF PlaceOK, Cost!NoSamples, Cost!Zero
<1>14. TimesOK(t)'
  BY <1>5 DEF TimesOK
<1>15. OpenOK(t)'
  BY <1>5, <1>12, NoneOpen DEF OpenOK
<1>16. TrueOK(t)'
  BY <1>4 DEF TrueOK
<1> QED BY <1>6, <1>8, <1>9, <1>11, <1>13, <1>14, <1>15, <1>16 DEF CostInv, ThreadOK

LEMMA ThreadStartKeeps ==
  ASSUME CostInv, NEW t \in Threads, Cost!ThreadStart(t)
  PROVE  CostInv'
<1>1. /\ life[t] = "gone" /\ life' = [life EXCEPT ![t] = "alive"]
      /\ Cost!Enrol(t) \/ UNCHANGED <<enrolled, registry>>
      /\ UNCHANGED <<now, instrument, pending, samples, reader, frames, truth, disturbed>>
  BY DEF Cost!ThreadStart, Cost!history
<1>2. CostTypes /\ RegistryOK /\ ReaderOK /\ \A u \in Threads : ThreadOK(u)
  BY DEF CostInv
<1>3. /\ life' \in [Threads -> Lives] /\ life'[t] = "alive" /\ now \in Nat
      /\ \A u \in Threads \ {t} : life'[u] = life[u]
  BY <1>1, <1>2 DEF CostTypes, Lives
<1>4. /\ ~enrolled[t] /\ ~disturbed[t] /\ pending[t] = << >> /\ frames[t] = << >>
      /\ samples[t] = Cost!NoSamples /\ truth[t] = Cost!NoSamples
  BY <1>1, <1>2 DEF ThreadOK, PlaceOK
<1>5. /\ RegistryOK' /\ registry' \in Seq(Threads) /\ enrolled' \in [Threads -> BOOLEAN]
      /\ \A u \in Threads \ {t} : enrolled'[u] = enrolled[u]
      /\ reader.reading => registry' = registry
  <2>1. CASE Cost!Enrol(t)
    BY <1>2, <1>3, <1>4, <2>1, EnrolKeeps
  <2>2. CASE UNCHANGED <<enrolled, registry>>
    <3>1. \A u \in Threads : enrolled'[u] /\ life'[u] = "alive" <=> enrolled[u] /\ life[u] = "alive"
      BY <1>1, <1>3, <1>4, <2>2
    <3>2. RegistryOK'
      BY <1>2, <2>2, <3>1 DEF RegistryOK, Registered
    <3> QED BY <1>2, <2>2, <3>2 DEF CostTypes
  <2> QED BY <1>1, <2>1, <2>2
<1>6. CostTypes'
  BY <1>1, <1>2, <1>3, <1>5 DEF CostTypes
<1>7. ReaderOK'
  BY <1>1, <1>2, <1>5, SameReader
<1>8. ASSUME NEW u \in Threads \ {t} PROVE ThreadOK(u)'
  BY <1>1, <1>2, <1>3, <1>5, SameThread
<1>9. PlaceOK(t)'
  BY <1>1, <1>3, <1>4 DEF PlaceOK, Cost!NoSamples, Cost!Zero
<1>10. TimesOK(t)' /\ OpenOK(t)'
  BY <1>1, <1>2 DEF ThreadOK, TimesOK, OpenOK
<1>11. TrueOK(t)'
  BY <1>1, <1>2, <1>4 DEF CostTypes, TrueOK, Cost!NoSamples, Cost!Zero
<1> QED BY <1>5, <1>6, <1>7, <1>8, <1>9, <1>10, <1>11 DEF CostInv, ThreadOK

\* A reset of the keys in E, of the maps of the enrolled threads.
LEMMA EraseKeeps ==
  ASSUME CostInv, NEW E \in SUBSET Keys, Cost!Reset(E),
         truth' = [t \in Threads |-> [k \in Keys |-> IF k \in E THEN Cost!Zero ELSE truth[t][k]]]
  PROVE  CostInv'
<1>1. /\ ~reader.reading
      /\ samples' = [t \in Threads |-> [k \in Keys |->
                       IF t \in Registered /\ k \in E THEN Cost!Zero ELSE samples[t][k]]]
      /\ UNCHANGED <<now, instrument, life, enrolled, registry, pending, reader, frames, disturbed>>
  <2>1. Cost!ToSet(registry) = Registered
    <3>1. DOMAIN registry = 1 .. Len(registry)
      BY DEF CostInv, CostTypes
    <3> QED BY <3>1 DEF Cost!ToSet, Registered, Elems
  <2> QED BY <2>1 DEF Cost!Reset, Cost!Unlocked
<1>2. CostTypes /\ RegistryOK /\ ReaderOK /\ \A u \in Threads : ThreadOK(u)
  BY DEF CostInv
<1>3. Cost!Zero \in Sample
  BY DEF Cost!Zero, Sample
<1>4. samples' \in [Threads -> [Keys -> Sample]] /\ truth' \in [Threads -> [Keys -> Sample]]
  <2>1. ASSUME NEW t \in Threads, NEW k \in Keys
        PROVE  samples[t][k] \in Sample /\ truth[t][k] \in Sample
    BY <1>2 DEF CostTypes
  <2> QED BY <1>1, <1>3, <2>1
<1>5. CostTypes'
  BY <1>1, <1>2, <1>4 DEF CostTypes
<1>6. RegistryOK'
  BY <1>1, <1>2 DEF RegistryOK, Registered, Elems
<1>7. ReaderOK'
  BY <1>1 DEF ReaderOK
<1>8. ASSUME NEW t \in Threads PROVE ThreadOK(t)'
  <2>1. ThreadOK(t) /\ (t \in Registered <=> enrolled[t] /\ life[t] = "alive")
    BY <1>2 DEF RegistryOK
  <2>2. \A k \in Keys : /\ samples'[t][k] = IF t \in Registered /\ k \in E THEN Cost!Zero ELSE samples[t][k]
                        /\ truth'[t][k] = IF k \in E THEN Cost!Zero ELSE truth[t][k]
    BY <1>1
  <2>3. t \notin Registered => samples'[t] = samples[t]
    <3>1. samples[t] = [k \in Keys |-> samples[t][k]]
      BY <1>2 DEF CostTypes
    <3> QED BY <1>1, <3>1
  <2>4. truth[t] = Cost!NoSamples => truth'[t] = Cost!NoSamples
    BY DEF Cost!NoSamples
  <2>5. Cost!NoSamples' = Cost!NoSamples
    BY DEF Cost!NoSamples, Cost!Zero
  <2>6. PlaceOK(t)'
    BY <1>1, <2>1, <2>3, <2>4, <2>5 DEF ThreadOK, PlaceOK
  <2>7. TimesOK(t)' /\ OpenOK(t)'
    BY <1>1, <2>1 DEF ThreadOK, TimesOK, OpenOK
  <2>8. TrueOK(t)'
    <3> SUFFICES ASSUME life[t] = "alive", NEW k \in Keys
                 PROVE  /\ samples'[t][k].count = truth'[t][k].count
                        /\ samples'[t][k].total <= truth'[t][k].total
                        /\ ~disturbed[t] => samples'[t][k] = truth'[t][k]
      BY <1>1 DEF TrueOK
    <3>1. /\ samples[t][k].count = truth[t][k].count
          /\ samples[t][k].total <= truth[t][k].total
          /\ ~disturbed[t] => samples[t][k] = truth[t][k]
      BY <2>1 DEF ThreadOK, TrueOK
    <3>2. t \notin Registered => samples[t][k] = Cost!Zero
      BY <2>1 DEF ThreadOK, PlaceOK, Cost!NoSamples
    <3>3. Cost!Zero.count = 0 /\ Cost!Zero.total = 0
      BY DEF Cost!Zero
    <3>4. CASE k \in E
      <4>1. samples'[t][k] = Cost!Zero /\ truth'[t][k] = Cost!Zero
        BY <2>2, <3>2, <3>4
      <4> QED BY <3>3, <4>1
    <3>5. CASE k \notin E
      BY <2>2, <3>1, <3>5
    <3> QED BY <3>4, <3>5
  <2> QED BY <2>6, <2>7, <2>8 DEF ThreadOK
<1> QED BY <1>5, <1>6, <1>7, <1>8 DEF CostInv

LEMMA ResetAllKeeps ==
  ASSUME CostInv, Cost!ResetAll
  PROVE  CostInv'
<1>1. Cost!Reset(Keys) /\ truth' = [t \in Threads |-> Cost!NoSamples]
  BY DEF Cost!ResetAll
<1>2. truth' = [t \in Threads |-> [k \in Keys |-> IF k \in Keys THEN Cost!Zero ELSE truth[t][k]]]
  BY <1>1 DEF Cost!NoSamples
<1> QED BY <1>1, <1>2, EraseKeeps

\* A scoped reset: a pipeline's name is the first component of its keys.
LEMMA ScopedResetKeeps ==
  ASSUME CostInv, NEW p \in Cost!Pipelines, Cost!ScopedReset(p)
  PROVE  CostInv'
<1> DEFINE E == {k \in Keys : Cost!IsPrefix(p, k)}
<1>1. PICK a : p = <<a>>
  BY DEF Cost!Pipelines
<1>2. ASSUME NEW k \in Keys PROVE k[1] = p[1] <=> k \in E
  <2>1. k \in Seq(STRING) /\ k # << >>
    BY RuntimeAssumption
  <2>2. 1 <= Len(k) /\ 1 \in 1 .. Len(k)
    BY <2>1
  <2>3. Len(p) = 1 /\ p[1] = a
    BY <1>1
  <2>4. SubSeq(k, 1, 1) = <<k[1]>>
    <3>1. \A i \in 1 .. 1 : k[i] \in STRING
      BY <2>1, <2>2
    <3>2. /\ SubSeq(k, 1, 1) \in Seq(STRING) /\ Len(SubSeq(k, 1, 1)) = IF 1 <= 1 THEN 1 - 1 + 1 ELSE 0
          /\ \A i \in 1 .. (1 - 1 + 1) : SubSeq(k, 1, 1)[i] = k[1 + i - 1]
      BY <3>1, SubSeqProperties
    <3> DEFINE q == SubSeq(k, 1, 1)
    <3>3. q \in Seq(STRING) /\ Len(q) = 1 /\ q[1] = k[1]
      BY <3>2
    <3>4. <<k[1]>> \in Seq(STRING) /\ Len(<<k[1]>>) = 1 /\ <<k[1]>>[1] = k[1]
      BY <3>1
    <3> HIDE DEF q
    <3>5. \A i \in 1 .. Len(q) : q[i] = <<k[1]>>[i]
      BY <3>3, <3>4
    <3>6. q = <<k[1]>>
      BY <3>3, <3>4, <3>5, SeqEqual
    <3> QED BY <3>6 DEF q
  <2>5. SubSeq(p, 1, 1) = <<a>>
    <3>1. SubSeq(<<a>>, 1, 1) = <<a>>
      <4>1. <<a>> \in Seq({a}) /\ Len(<<a>>) = 1
        OBVIOUS
      <4> QED BY <4>1, SubSeqFull
    <3> QED BY <1>1, <3>1
  <2>6. Cost!IsPrefix(p, k) <=> SubSeq(p, 1, 1) = SubSeq(k, 1, 1)
    BY <2>2, <2>3 DEF Cost!IsPrefix
  <2> QED BY <2>3, <2>4, <2>5, <2>6
<1>3. Cost!Reset(E)
      /\ truth' = [t \in Threads |-> [k \in Keys |-> IF k[1] = p[1] THEN Cost!Zero ELSE truth[t][k]]]
  BY DEF Cost!ScopedReset
<1> HIDE DEF E
<1>4. truth' = [t \in Threads |-> [k \in Keys |-> IF k \in E THEN Cost!Zero ELSE truth[t][k]]]
  BY <1>2, <1>3
<1>5. E \in SUBSET Keys
  BY DEF E
<1> QED BY <1>3, <1>4, <1>5, EraseKeeps

\* The clock, the flag, and steps that change nothing of this.
LEMMA QuietKeeps ==
  ASSUME CostInv, now' \in Nat, now <= now', instrument' \in BOOLEAN,
         instrument' = instrument \/ (\A t \in Threads : frames[t] = << >>),
         UNCHANGED <<life, enrolled, registry, pending, samples, reader, frames, truth, disturbed>>
  PROVE  CostInv'
<1>1. CostTypes /\ RegistryOK /\ ReaderOK /\ \A u \in Threads : ThreadOK(u)
  BY DEF CostInv
<1>2. CostTypes'
  BY <1>1 DEF CostTypes
<1>3. RegistryOK'
  BY <1>1 DEF RegistryOK, Registered, Elems
<1>4. ReaderOK'
  BY <1>1, SameReader
<1>5. CASE instrument' = instrument
  BY <1>1, <1>2, <1>3, <1>4, <1>5, SameThread DEF CostInv
<1>6. CASE \A t \in Threads : frames[t] = << >>
  <2>1. ASSUME NEW t \in Threads PROVE ThreadOK(t)'
    <3>1. PlaceOK(t)'
      BY <1>1 DEF ThreadOK, PlaceOK, Cost!NoSamples, Cost!Zero
    <3>2. TimesOK(t)'
      <4>1. \A i \in 1 .. Len(pending[t]) : pending[t][i].tp \in Nat
        <5>1. pending[t] \in Seq(Begins)
          BY <1>1 DEF CostTypes
        <5>2. \A i \in 1 .. Len(pending[t]) : pending[t][i] \in Begins
          BY <5>1
        <5> QED BY <5>2 DEF Begins
      <4>2. \A i \in 1 .. Len(pending[t]) : pending[t][i].tp <= now
        BY <1>1 DEF ThreadOK, TimesOK
      <4>3. \A i \in 1 .. Len(pending[t]) : pending[t][i].tp <= now'
        BY <1>1, <4>1, <4>2 DEF CostTypes
      <4> QED BY <1>1, <4>3 DEF ThreadOK, TimesOK
    <3>3. OpenOK(t)'
      <4>1. frames'[t] = << >>
        BY <1>6
      <4> QED BY <4>1, NoneOpen DEF OpenOK
    <3>4. TrueOK(t)'
      BY <1>1 DEF ThreadOK, TrueOK
    <3> QED BY <3>1, <3>2, <3>3, <3>4 DEF ThreadOK
  <2> QED BY <1>2, <1>3, <1>4, <2>1 DEF CostInv
<1> QED BY <1>5, <1>6

\* What the sums of a reader are made of.
LEMMA ReadFacts ==
  ASSUME CostTypes, RegistryOK, NEW n \in 0 .. Len(registry), NEW k \in Keys
  PROVE  /\ Read(n) \in SUBSET Threads /\ IsFiniteSet(Read(n))
         /\ TotalsIn(Read(n), k) \in [Read(n) -> Nat] /\ CountsIn(Read(n), k) \in [Read(n) -> Nat]
<1>1. registry \in Seq(Threads) /\ samples \in [Threads -> [Keys -> Sample]] /\ 1 .. n \subseteq 1 .. Len(registry)
  BY DEF CostTypes
<1>2. Read(n) \in SUBSET Threads
  BY <1>1 DEF Read
<1>3. IsFiniteSet(Read(n))
  BY <1>2, RuntimeAssumption, FS_Subset
<1>4. ASSUME NEW t \in Threads PROVE samples[t][k].total \in Nat /\ samples[t][k].count \in Nat
  <2>1. samples[t][k] \in Sample
    BY <1>1
  <2> QED BY <2>1 DEF Sample
<1> QED BY <1>2, <1>3, <1>4 DEF TotalsIn, CountsIn

LEMMA GetKeeps ==
  ASSUME CostInv, Cost!GetBegin \/ Cost!GetMap \/ Cost!GetEnd
  PROVE  CostInv'
<1>1. CostTypes /\ RegistryOK /\ ReaderOK /\ \A u \in Threads : ThreadOK(u)
  BY DEF CostInv
<1>2. UNCHANGED <<now, instrument, life, enrolled, registry, pending, samples, frames, truth, disturbed>>
  BY DEF Cost!GetBegin, Cost!GetMap, Cost!GetEnd, Cost!tls, Cost!history
<1>3. ASSUME reader' \in Readers, ReaderOK' PROVE CostInv'
  <2>1. CostTypes'
    BY <1>1, <1>2, <1>3 DEF CostTypes
  <2>2. RegistryOK'
    BY <1>1, <1>2 DEF RegistryOK, Registered, Elems
  <2>3. now' \in Nat /\ now <= now'
    BY <1>1, <1>2 DEF CostTypes
  <2>4. ASSUME NEW u \in Threads PROVE ThreadOK(u)'
    BY <1>1, <1>2, <2>3, SameThread
  <2> QED BY <1>3, <2>1, <2>2, <2>4 DEF CostInv
<1>4. Cost!NoSamples \in [Keys -> Sample] /\ registry \in Seq(Threads) /\ << >> \in Seq(Threads)
  BY <1>1 DEF Cost!NoSamples, Cost!Zero, Sample, CostTypes
<1>5. CASE Cost!GetBegin
  <2>1. reader' = [reading |-> TRUE, todo |-> registry, acc |-> Cost!NoSamples]
    BY <1>5 DEF Cost!GetBegin
  <2>2. reader' \in Readers
    BY <1>4, <2>1 DEF Readers
  <2>3. ReadUpto(0)'
    <3>1. /\ reader'.todo = registry /\ Len(registry) - 0 = Len(registry)
          /\ \A i \in 1 .. Len(registry) : 0 + i = i
      BY <1>4, <2>1
    <3>2. ASSUME NEW k \in Keys
          PROVE  /\ reader'.acc[k].total = Sum(TotalsIn(Read(0), k)')
                 /\ reader'.acc[k].count = Sum(CountsIn(Read(0), k)')
      <4>1. reader'.acc[k].total = 0 /\ reader'.acc[k].count = 0
        BY <2>1 DEF Cost!NoSamples, Cost!Zero
      <4>2. Read(0)' = {}
        BY DEF Read
      <4>3. TotalsIn({}, k)' \in [{} -> Nat] /\ CountsIn({}, k)' \in [{} -> Nat]
        BY DEF TotalsIn, CountsIn
      <4>4. TotalsIn(Read(0), k)' \in [{} -> Nat] /\ CountsIn(Read(0), k)' \in [{} -> Nat]
        BY <4>2, <4>3 DEF TotalsIn, CountsIn
      <4> QED BY <4>1, <4>4, SumOfNone
    <3> QED BY <1>2, <3>1, <3>2 DEF ReadUpto
  <2>4. ReaderOK'
    BY <1>2, <1>4, <2>3 DEF ReaderOK
  <2> QED BY <1>3, <2>2, <2>4
<1>6. CASE Cost!GetEnd
  <2>1. reader' = [reading |-> FALSE, todo |-> << >>, acc |-> Cost!NoSamples]
    BY <1>6 DEF Cost!GetEnd, Cost!NoReader
  <2>2. reader' \in Readers
    BY <1>4, <2>1 DEF Readers
  <2>3. ReaderOK'
    BY <2>1 DEF ReaderOK
  <2> QED BY <1>3, <2>2, <2>3
<1>7. CASE Cost!GetMap
  <2> DEFINE t == Head(reader.todo)
  <2>1. /\ reader.reading /\ reader.todo # << >>
        /\ reader' = [reader EXCEPT !.todo = Tail(@), !.acc = Cost!Merge(@, samples[t])]
    BY <1>7 DEF Cost!GetMap
  <2>2. /\ reader.todo \in Seq(Threads) /\ reader.acc \in [Keys -> Sample]
        /\ samples \in [Threads -> [Keys -> Sample]]
    BY <1>1 DEF CostTypes, Readers
  <2>3. /\ t \in Threads /\ Len(reader.todo) \in Nat \ {0} /\ t = reader.todo[1]
        /\ Tail(reader.todo) \in Seq(Threads) /\ Len(Tail(reader.todo)) = Len(reader.todo) - 1
        /\ \A i \in 1 .. (Len(reader.todo) - 1) : Tail(reader.todo)[i] = reader.todo[i + 1]
    BY <2>1, <2>2
  <2> HIDE DEF t
  <2> DEFINE acc == Cost!Merge(reader.acc, samples[t])
  <2>4. ASSUME NEW k \in Keys
        PROVE  /\ reader.acc[k].total \in Nat /\ reader.acc[k].count \in Nat
               /\ samples[t][k].total \in Nat /\ samples[t][k].count \in Nat
               /\ acc[k] \in Sample
               /\ acc[k].total = reader.acc[k].total + samples[t][k].total
               /\ acc[k].count = reader.acc[k].count + samples[t][k].count
    <3>1. reader.acc[k] \in Sample /\ samples[t][k] \in Sample
      BY <2>2, <2>3
    <3> QED BY <3>1 DEF Sample, Cost!Merge
  <2>5. acc \in [Keys -> Sample]
    <3>1. acc = [k \in Keys |-> acc[k]]
      BY DEF Cost!Merge
    <3> HIDE DEF acc
    <3> QED BY <2>4, <3>1
  <2> HIDE DEF acc
  <2>6. /\ reader' \in Readers /\ reader'.reading /\ reader'.todo = Tail(reader.todo) /\ reader'.acc = acc
    <3>1. reader \in Readers
      BY <1>1 DEF CostTypes
    <3> QED BY <2>1, <2>3, <2>5, <3>1 DEF Readers, acc
  <2>7. PICK n \in 0 .. Len(registry) : ReadUpto(n)
    BY <1>1, <2>1 DEF ReaderOK
  <2>8. /\ n \in Nat /\ Len(reader.todo) = Len(registry) - n /\ Len(registry) \in Nat
        /\ \A i \in 1 .. Len(reader.todo) : reader.todo[i] = registry[n + i]
        /\ \A k \in Keys : /\ reader.acc[k].total = Sum(TotalsIn(Read(n), k))
                           /\ reader.acc[k].count = Sum(CountsIn(Read(n), k))
    BY <1>4, <2>7 DEF ReadUpto
  <2>9. n + 1 \in 0 .. Len(registry) /\ n + 1 \in 1 .. Len(registry) /\ t = registry[n + 1]
    BY <2>3, <2>8
  <2>10. Read(n + 1) = Read(n) \cup {t} /\ t \notin Read(n)
    <3>1. 1 .. (n + 1) = (1 .. n) \cup {n + 1} /\ \A i \in 1 .. n : i \in 1 .. Len(registry) /\ i # n + 1
      BY <2>8, <2>9
    <3>2. Differ(registry)
      BY <1>1 DEF RegistryOK
    <3> QED BY <2>9, <3>1, <3>2 DEF Read, Differ
  <2>11. ASSUME NEW k \in Keys
         PROVE  /\ acc[k].total = Sum(TotalsIn(Read(n + 1), k))
                /\ acc[k].count = Sum(CountsIn(Read(n + 1), k))
    <3> DEFINE S == Read(n)
    <3>1. /\ IsFiniteSet(S)
          /\ TotalsIn(S, k) \in [S -> Nat] /\ CountsIn(S, k) \in [S -> Nat]
      BY <1>1, ReadFacts
    <3>2. /\ TotalsIn(Read(n + 1), k) \in [S \cup {t} -> Nat]
          /\ CountsIn(Read(n + 1), k) \in [S \cup {t} -> Nat]
      BY <1>1, <2>9, <2>10, ReadFacts
    <3>3. /\ TotalsIn(Read(n + 1), k)[t] = samples[t][k].total
          /\ CountsIn(Read(n + 1), k)[t] = samples[t][k].count
          /\ \A u \in S : /\ TotalsIn(Read(n + 1), k)[u] = TotalsIn(S, k)[u]
                          /\ CountsIn(Read(n + 1), k)[u] = CountsIn(S, k)[u]
      BY <2>10 DEF TotalsIn, CountsIn
    <3> DEFINE a == TotalsIn(Read(n + 1), k)  b == TotalsIn(S, k)
               c == CountsIn(Read(n + 1), k)  d == CountsIn(S, k)
    <3>4. t \notin S
      BY <2>10
    <3> HIDE DEF S, a, b, c, d
    <3>5. /\ a \in [S \cup {t} -> Nat] /\ b \in [S -> Nat] /\ \A u \in S : a[u] = b[u]
          /\ a[t] = samples[t][k].total
      BY <3>1, <3>2, <3>3 DEF a, b
    <3>6. /\ c \in [S \cup {t} -> Nat] /\ d \in [S -> Nat] /\ \A u \in S : c[u] = d[u]
          /\ c[t] = samples[t][k].count
      BY <3>1, <3>2, <3>3 DEF c, d
    <3>7. IsFiniteSet(S)
      BY <3>1
    <3>8. Sum(a) = a[t] + Sum(b)
      <4>1. a \in [S \cup {t} -> Nat] /\ b \in [S -> Nat] /\ \A y \in S : a[y] = b[y]
        BY <3>5
      <4> QED BY <3>4, <3>7, <4>1, SumOfMore
    <3>9. Sum(c) = c[t] + Sum(d)
      <4>1. c \in [S \cup {t} -> Nat] /\ d \in [S -> Nat] /\ \A y \in S : c[y] = d[y]
        BY <3>6
      <4> QED BY <3>4, <3>7, <4>1, SumOfMore
    <3>10. reader.acc[k].total = Sum(b) /\ reader.acc[k].count = Sum(d)
      BY <2>8 DEF b, d, S
    <3>11. acc[k].total = Sum(a)
      BY <2>4, <3>5, <3>10, <3>8
    <3>12. acc[k].count = Sum(c)
      BY <2>4, <3>6, <3>10, <3>9
    <3> QED BY <3>11, <3>12 DEF a, c
  <2>12. ReadUpto(n + 1)'
    <3>1. Read(n + 1)' = Read(n + 1)
      BY <1>2 DEF Read
    <3>2. \A k \in Keys : /\ TotalsIn(Read(n + 1), k)' = TotalsIn(Read(n + 1), k)
                          /\ CountsIn(Read(n + 1), k)' = CountsIn(Read(n + 1), k)
      BY <1>2, <3>1 DEF TotalsIn, CountsIn
    <3>3. Len(reader'.todo) = Len(registry) - (n + 1)
      BY <2>3, <2>6, <2>8
    <3>4. ASSUME NEW i \in 1 .. Len(reader'.todo) PROVE reader'.todo[i] = registry[n + 1 + i]
      <4>1. i \in 1 .. (Len(reader.todo) - 1) /\ i + 1 \in 1 .. Len(reader.todo) /\ n + (i + 1) = n + 1 + i
        BY <2>3, <2>6, <2>8
      <4> QED BY <2>3, <2>6, <2>8, <4>1
    <3>5. \A k \in Keys : /\ reader'.acc[k].total = Sum(TotalsIn(Read(n + 1), k)')
                          /\ reader'.acc[k].count = Sum(CountsIn(Read(n + 1), k)')
      BY <2>6, <2>11, <3>2
    <3> QED BY <1>2, <3>3, <3>4, <3>5 DEF ReadUpto
  <2>13. ReaderOK'
    BY <1>2, <2>9, <2>12 DEF ReaderOK
  <2> QED BY <1>3, <2>6, <2>13
<1> QED BY <1>5, <1>6, <1>7

LEMMA CostInvNext == CostInv /\ [Cost!Next]_(Cost!costVars) => CostInv'
<1> SUFFICES ASSUME CostInv, [Cost!Next]_(Cost!costVars) PROVE CostInv'
  OBVIOUS
<1>1. now \in Nat /\ instrument \in BOOLEAN
  BY DEF CostInv, CostTypes
<1>2. CASE Cost!Tick
  <2>1. now' = now + 1 /\ UNCHANGED <<instrument, life, enrolled, registry, pending, samples, reader,
                                      frames, truth, disturbed>>
    BY <1>2 DEF Cost!Tick, Cost!tls, Cost!history
  <2>2. now' \in Nat /\ now <= now'
    BY <1>1, <2>1
  <2> QED BY <1>1, <2>1, <2>2, QuietKeeps
<1>3. ASSUME NEW b \in BOOLEAN, Cost!Configure(b) PROVE CostInv'
  <2>1. /\ \A t \in Threads : frames[t] = << >>
        /\ instrument' \in BOOLEAN /\ now' = now
        /\ UNCHANGED <<life, enrolled, registry, pending, samples, reader, frames, truth, disturbed>>
    BY <1>3 DEF Cost!Configure, Cost!tls, Cost!history
  <2>2. now' \in Nat /\ now <= now'
    BY <1>1, <2>1
  <2> QED BY <2>1, <2>2, QuietKeeps
<1>4. CASE UNCHANGED Cost!costVars
  <2>1. UNCHANGED <<now, instrument, life, enrolled, registry, pending, samples, reader, frames, truth, disturbed>>
    BY <1>4 DEF Cost!costVars, Cost!tls, Cost!history
  <2>2. now' \in Nat /\ now <= now'
    BY <1>1, <2>1
  <2> QED BY <1>1, <2>1, <2>2, QuietKeeps
<1>5. CASE \E t \in Threads : \/ Cost!CostEnd(t) \/ Cost!Unwind(t) \/ Cost!Unregister(t)
                              \/ Cost!DestroyMap(t) \/ Cost!ThreadStart(t)
  BY <1>5, CostEndKeeps, UnwindKeeps, UnregisterKeeps, DestroyMapKeeps, ThreadStartKeeps
<1> QED BY <1>2, <1>3, <1>4, <1>5, GetKeeps, ResetAllKeeps, ScopedResetKeeps, CostBeginKeeps DEF Cost!Next

(***************************************************************************)
(* The registry holds the maps of the enrolled threads that are alive,     *)
(* once each: get_cost_samples never walks a map that is destroyed, and    *)
(* misses none that holds samples (topo_parallel.cpp, enrol and            *)
(* ~TlsSampleRegistration).                                                *)
(***************************************************************************)
THEOREM RegistryHoldsLiveMaps == Cost!Spec => []RegistryLive
<1>1. CostInv => RegistryLive
  <2> SUFFICES ASSUME CostInv PROVE RegistryLive
    OBVIOUS
  <2>1. DOMAIN registry = 1 .. Len(registry)
    BY DEF CostInv, CostTypes
  <2>2. Cost!IsInjective(registry)
    BY <2>1 DEF CostInv, RegistryOK, Differ, Cost!IsInjective
  <2>3. Cost!ToSet(registry) = {t \in Threads : enrolled[t] /\ life[t] = "alive"}
    <3>1. Cost!ToSet(registry) = Registered
      BY <2>1 DEF Cost!ToSet, Registered, Elems
    <3> QED BY <3>1 DEF CostInv, RegistryOK
  <2>4. \A t \in Threads : life[t] = "alive" /\ samples[t] # Cost!NoSamples => enrolled[t]
    BY DEF CostInv, ThreadOK, PlaceOK
  <2> QED BY <2>2, <2>3, <2>4 DEF RegistryLive, Cost!RegistryLive
<1> QED BY <1>1, CostInvInit, CostInvNext, PTL DEF Cost!Spec

\* A reader at the end of its walk has the sums over the live threads.
LEMMA AllRead ==
  ASSUME CostInv, reader.reading, reader.todo = << >>, NEW k \in Keys
  PROVE  LET live == {t \in Threads : life[t] = "alive"} IN
         /\ reader.acc[k].total = Sum(TotalsIn(live, k))
         /\ reader.acc[k].count = Sum(CountsIn(live, k))
<1> DEFINE live == {t \in Threads : life[t] = "alive"}
<1>1. CostTypes /\ RegistryOK /\ ReaderOK /\ \A u \in Threads : ThreadOK(u)
  BY DEF CostInv
<1>2. PICK n \in 0 .. Len(registry) : ReadUpto(n)
  BY <1>1 DEF ReaderOK
<1>3. n = Len(registry)
  <2>1. Len(registry) - n = 0 /\ Len(registry) \in Nat
    BY <1>1, <1>2 DEF ReadUpto, CostTypes
  <2> QED BY <2>1
<1> DEFINE S == Read(n)
<1>4. /\ IsFiniteSet(S) /\ S \in SUBSET Threads
      /\ TotalsIn(S, k) \in [S -> Nat] /\ CountsIn(S, k) \in [S -> Nat]
  BY <1>1, ReadFacts
<1>5. S = {t \in Threads : enrolled[t] /\ life[t] = "alive"}
  BY <1>1, <1>3 DEF RegistryOK, Registered, Elems, Read
<1>6. S \in SUBSET live /\ live \in SUBSET Threads /\ IsFiniteSet(live)
  BY <1>5, RuntimeAssumption, FS_Subset
<1>7. ASSUME NEW t \in live
      PROVE  /\ samples[t][k].total \in Nat /\ samples[t][k].count \in Nat
             /\ t \notin S => samples[t][k].total = 0 /\ samples[t][k].count = 0
  <2>1. samples[t][k] \in Sample
    BY <1>1 DEF CostTypes
  <2>2. t \notin S => samples[t] = Cost!NoSamples
    BY <1>1, <1>5 DEF ThreadOK, PlaceOK
  <2> QED BY <2>1, <2>2 DEF Sample, Cost!NoSamples, Cost!Zero
<1> DEFINE a == TotalsIn(live, k)  b == TotalsIn(S, k)  c == CountsIn(live, k)  d == CountsIn(S, k)
<1> HIDE DEF live, S
<1>8. /\ a \in [live -> Nat] /\ c \in [live -> Nat]
      /\ \A t \in live \ S : a[t] = 0 /\ c[t] = 0
      /\ \A t \in S : a[t] = b[t] /\ c[t] = d[t]
  BY <1>6, <1>7 DEF TotalsIn, CountsIn
<1> HIDE DEF a, b, c, d
<1>9. b \in [S -> Nat] /\ d \in [S -> Nat]
  BY <1>4 DEF b, d
<1>10. Sum(a) = Sum(b) /\ Sum(c) = Sum(d)
  <2>1. Sum(a) = Sum(b)
    <3>1. /\ a \in [live -> Nat] /\ b \in [S -> Nat]
          /\ \A y \in S : a[y] = b[y]
          /\ \A y \in live \ S : a[y] = 0
      BY <1>8, <1>9
    <3>2. IsFiniteSet(live) /\ S \in SUBSET live
      BY <1>6
    <3>3. Padded(live, a, S, b)
      BY <3>1, <3>2 DEF Padded
    <3> QED BY <3>3, SumOfSome
  <2>2. Sum(c) = Sum(d)
    <3>1. /\ c \in [live -> Nat] /\ d \in [S -> Nat]
          /\ \A y \in S : c[y] = d[y]
          /\ \A y \in live \ S : c[y] = 0
      BY <1>8, <1>9
    <3>2. IsFiniteSet(live) /\ S \in SUBSET live
      BY <1>6
    <3>3. Padded(live, c, S, d)
      BY <3>1, <3>2 DEF Padded
    <3> QED BY <3>3, SumOfSome
  <2> QED BY <2>1, <2>2
<1>11. reader.acc[k].total = Sum(b) /\ reader.acc[k].count = Sum(d)
  BY <1>2 DEF ReadUpto, b, d, S
<1> QED BY <1>10, <1>11 DEF a, c, live

(***************************************************************************)
(* Every call that returned is counted once, with its own duration unless  *)
(* one of its name unwound inside another, and get_cost_samples returns    *)
(* the averages over the live threads (topo_parallel.cpp, cost_begin,      *)
(* cost_end, get_cost_samples and the resets).                             *)
(***************************************************************************)
THEOREM SamplesAndAveragesTrue == Cost!Spec => []CostsTrue
<1>1. CostInv => CostsTrue
  <2> SUFFICES ASSUME CostInv PROVE CostsTrue
    OBVIOUS
  <2>1. Cost!SamplesTrue
    BY DEF CostInv, ThreadOK, TrueOK, Cost!SamplesTrue
  <2>2. Cost!AverageOfAll
    <3> DEFINE live == {t \in Threads : life[t] = "alive"}
               sums == [k \in Keys |->
                          [total |-> Cost!SumFunction([t \in live |-> samples[t][k].total]),
                           count |-> Cost!SumFunction([t \in live |-> samples[t][k].count])]]
    <3> SUFFICES ASSUME reader.reading, reader.todo = << >> PROVE reader.acc = sums
      BY DEF Cost!AverageOfAll
    <3>1. reader.acc \in [Keys -> Sample]
      BY DEF CostInv, CostTypes, Readers
    <3>2. ASSUME NEW k \in Keys PROVE reader.acc[k] = sums[k]
      <4>1. /\ reader.acc[k].total = Sum(TotalsIn(live, k))
            /\ reader.acc[k].count = Sum(CountsIn(live, k))
        BY AllRead
      <4>2. /\ Cost!SumFunction([t \in live |-> samples[t][k].total]) = Sum(TotalsIn(live, k))
            /\ Cost!SumFunction([t \in live |-> samples[t][k].count]) = Sum(CountsIn(live, k))
        BY CostSum DEF TotalsIn, CountsIn
      <4>3. sums[k] = [total |-> Sum(TotalsIn(live, k)), count |-> Sum(CountsIn(live, k))]
        BY <4>2
      <4>4. reader.acc[k] \in Sample
        BY <3>1
      <4> HIDE DEF sums, live
      <4> QED BY <4>1, <4>3, <4>4 DEF Sample
    <3>3. sums = [k \in Keys |-> sums[k]]
      OBVIOUS
    <3> HIDE DEF sums
    <3> QED BY <3>1, <3>2, <3>3
  <2> QED BY <2>1, <2>2 DEF CostsTrue
<1> QED BY <1>1, CostInvInit, CostInvNext, PTL DEF Cost!Spec
=============================================================================
