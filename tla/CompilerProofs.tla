---------------------------- MODULE CompilerProofs ----------------------------
(***************************************************************************)
(* Proofs about JitEngine: whatever the requests ask for side by side, a   *)
(* pipeline that is handed out is a function of its own, the one asked     *)
(* for, in which nothing runs but on what ran before it over edges that    *)
(* were left; and one without constraints is what the compiler made.       *)
(* And about FnBlocks: a body that passes the checks computes the same     *)
(* stage by stage, in any order within one.                                *)
(* And about Signatures: a function that is compiled as it is declared is  *)
(* never reported, and one with other parameters is.                       *)
(* And about DataLayout: a function whose array was moved to columns reads *)
(* and leaves the values it did, for the code the pass relies on.          *)
(* And about Indirection: a pipeline leaves the counts it did without      *)
(* atomic operations, and direct calls reach what virtual ones did, where  *)
(* the declarations can be relied on.                                      *)
(***************************************************************************)
EXTENDS JitEngine, FnBlocks, Signatures, DataLayout, Indirection, FoldLemmas

-----------------------------------------------------------------------------
(* What the sources still lead to.                                         *)

Next1(p, kept, S) == {p.edges[i][2] : i \in {j \in kept : p.edges[j][1] \in S}}

Layers(p, kept, m, w) ==
  w = [k \in 0 .. m |-> IF k = 0 THEN p.sources ELSE w[k - 1] \cup Next1(p, kept, w[k - 1])]

LEMMA LayersAre ==
  ASSUME NEW p, NEW kept, NEW m \in Nat, NEW w, Layers(p, kept, m, w)
  PROVE  w[0] = p.sources /\ \A k \in 1 .. m : w[k] = w[k - 1] \cup Next1(p, kept, w[k - 1])
<1>1. 0 \in 0 .. m /\ \A k \in 1 .. m : k \in 0 .. m /\ k # 0
  OBVIOUS
<1>2. w[0] = p.sources
  BY <1>1 DEF Layers
<1>3. ASSUME NEW k \in 1 .. m PROVE w[k] = w[k - 1] \cup Next1(p, kept, w[k - 1])
  BY <1>1 DEF Layers
<1> QED BY <1>2, <1>3

LEMMA LayersExist ==
  ASSUME NEW p, NEW kept, NEW m \in Nat
  PROVE  \E w : Layers(p, kept, m, w)
<1> DEFINE T == {k \in Nat : \E w : Layers(p, kept, k, w)}
<1>1. 0 \in T
  <2> DEFINE w == [k \in 0 .. 0 |-> p.sources]
  <2>1. Layers(p, kept, 0, w)
    BY DEF Layers
  <2> QED BY <2>1
<1>2. ASSUME NEW k \in T PROVE k + 1 \in T
  <2>1. PICK v : Layers(p, kept, k, v)
    OBVIOUS
  <2> DEFINE w == [n \in 0 .. (k + 1) |-> IF n <= k THEN v[n] ELSE v[k] \cup Next1(p, kept, v[k])]
  <2>2. (\A n \in 0 .. k : w[n] = v[n]) /\ w[k + 1] = v[k] \cup Next1(p, kept, v[k])
    OBVIOUS
  <2>3. v[0] = p.sources /\ \A n \in 1 .. k : v[n] = v[n - 1] \cup Next1(p, kept, v[n - 1])
    <3>1. 0 \in 0 .. k /\ \A n \in 1 .. k : n \in 0 .. k /\ n # 0
      OBVIOUS
    <3> HIDE DEF w, T
    <3>2. v[0] = p.sources
      BY <2>1, <3>1 DEF Layers
    <3>3. ASSUME NEW n \in 1 .. k PROVE v[n] = v[n - 1] \cup Next1(p, kept, v[n - 1])
      BY <2>1, <3>1 DEF Layers
    <3> QED BY <3>2, <3>3
  <2>4. w = [n \in 0 .. (k + 1) |-> w[n]]
    OBVIOUS
  <2> HIDE DEF w
  <2>5. ASSUME NEW n \in 0 .. (k + 1)
        PROVE  w[n] = IF n = 0 THEN p.sources ELSE w[n - 1] \cup Next1(p, kept, w[n - 1])
    <3>1. CASE n = 0
      BY <2>2, <2>3, <3>1
    <3>2. CASE n \in 1 .. k
      <4>1. n \in 0 .. k /\ n - 1 \in 0 .. k /\ n # 0
        BY <3>2
      <4> QED BY <2>2, <2>3, <3>2, <4>1
    <3>3. CASE n = k + 1
      <4>1. n - 1 = k /\ n - 1 \in 0 .. k /\ n # 0
        BY <3>3
      <4> QED BY <2>2, <3>3, <4>1
    <3>4. n = 0 \/ n \in 1 .. k \/ n = k + 1
      OBVIOUS
    <3> QED BY <3>1, <3>2, <3>3, <3>4
  <2>6. w = [n \in 0 .. (k + 1) |-> IF n = 0 THEN p.sources ELSE w[n - 1] \cup Next1(p, kept, w[n - 1])]
    BY <2>4, <2>5
  <2>7. Layers(p, kept, k + 1, w)
    BY <2>6 DEF Layers
  <2> QED BY <2>7
<1> HIDE DEF T
<1>3. T = Nat
  <2>1. T \in SUBSET Nat
    BY DEF T
  <2> QED BY <1>1, <1>2, <2>1, AllNumbers
<1> QED BY <1>3 DEF T

\* What is reached and no source is reached over an edge that is left, from a node
\* that is reached.
LEMMA ReachedFrom ==
  ASSUME NEW p, NEW kept, Len(p.nodes) \in Nat, NEW n \in Reachable(p, kept) \ p.sources
  PROVE  \E i \in kept : p.edges[i][2] = n /\ p.edges[i][1] \in Reachable(p, kept)
<1> DEFINE m == Len(p.nodes)
           w == CHOOSE w : Layers(p, kept, m, w)
<1>1. Layers(p, kept, m, w)
  BY LayersExist
<1>2. Reachable(p, kept) = w[m]
  BY DEF Reachable, Layers, Next1
<1> HIDE DEF w, m
<1>3. m \in Nat
  BY DEF m
<1>4. w[0] = p.sources /\ \A k \in 1 .. m : w[k] = w[k - 1] \cup Next1(p, kept, w[k - 1])
  BY <1>1, <1>3, LayersAre
<1> DEFINE Good(k) == \A x \in w[k] \ p.sources : \E i \in kept : p.edges[i][2] = x /\ p.edges[i][1] \in w[k]
           T == {k \in Nat : k <= m => Good(k)}
<1>5. 0 \in T
  BY <1>4
<1>6. ASSUME NEW k \in T PROVE k + 1 \in T
  <2>1. k \in Nat /\ (k + 1) - 1 = k
    OBVIOUS
  <2>2. ASSUME k + 1 <= m PROVE Good(k + 1)
    <3>1. k + 1 \in 1 .. m /\ Good(k)
      BY <1>3, <2>1, <2>2
    <3>2. w[k + 1] = w[k] \cup Next1(p, kept, w[k])
      BY <1>4, <2>1, <3>1
    <3> QED BY <3>1, <3>2 DEF Next1
  <2> QED BY <2>1, <2>2
<1>7. T = Nat
  <2>1. T \in SUBSET Nat
    OBVIOUS
  <2> HIDE DEF T
  <2> QED BY <1>5, <1>6, <2>1, AllNumbers
<1>8. Good(m)
  BY <1>3, <1>7
<1> QED BY <1>2, <1>8

-----------------------------------------------------------------------------
(* The arguments of a call.                                                *)

Params == {"param"} \X Nat

\* What Match finds are values it was given, or parameters.
Found(V) == [ok : BOOLEAN, args : Seq(V)]

\* One parameter of Match.
OneMore(types, values, fallback, m, i) ==
  LET free == {v \in DOMAIN values : values[v].type = types[i] /\ values[v].value \notin ToSet(m.args)}
  IN IF ~ m.ok THEN m
     ELSE IF free # {} THEN [m EXCEPT !.args = Append(@, values[Min(free)].value)]
     ELSE IF fallback[i] # {} THEN [m EXCEPT !.args = Append(@, <<"param", Min(fallback[i])>>)]
     ELSE [m EXCEPT !.ok = FALSE]

\* The places of values and parameters are numbers, what they hold is of V.
Givers(n, types, values, fallback, V) ==
  /\ DOMAIN values \subseteq Nat /\ Params \subseteq V
  /\ \A v \in DOMAIN values : values[v].value \in V
  /\ \A i \in 1 .. n : fallback[i] \subseteq Nat

LEMMA OneMoreStays ==
  ASSUME NEW n \in Nat, NEW types, NEW values, NEW fallback, NEW V, Givers(n, types, values, fallback, V),
         NEW m \in Found(V), NEW i \in 1 .. n
  PROVE  OneMore(types, values, fallback, m, i) \in Found(V)
<1> DEFINE free == {v \in DOMAIN values : values[v].type = types[i] /\ values[v].value \notin ToSet(m.args)}
<1>1. ASSUME free # {} PROVE values[Min(free)].value \in V
  <2>1. free \in SUBSET Nat
    BY DEF Givers
  <2>2. Min(free) \in free
    BY <1>1, <2>1, LeastIn
  <2> QED BY <2>2 DEF Givers
<1>2. ASSUME fallback[i] # {} PROVE <<"param", Min(fallback[i])>> \in V
  <2>1. fallback[i] \in SUBSET Nat
    BY DEF Givers
  <2>2. Min(fallback[i]) \in Nat
    BY <1>2, <2>1, LeastIn
  <2>3. <<"param", Min(fallback[i])>> \in Params
    BY <2>2 DEF Params
  <2> QED BY <2>3 DEF Givers
<1>3. \A x \in V : [m EXCEPT !.args = Append(@, x)] \in Found(V)
  BY DEF Found
<1>4. [m EXCEPT !.ok = FALSE] \in Found(V)
  BY DEF Found
<1>5. OneMore(types, values, fallback, m, i) =
        IF ~ m.ok THEN m
        ELSE IF free # {} THEN [m EXCEPT !.args = Append(@, values[Min(free)].value)]
        ELSE IF fallback[i] # {} THEN [m EXCEPT !.args = Append(@, <<"param", Min(fallback[i])>>)]
        ELSE [m EXCEPT !.ok = FALSE]
  BY DEF OneMore
<1> HIDE DEF free
<1> QED BY <1>1, <1>2, <1>3, <1>4, <1>5

LEMMA MatchFinds ==
  ASSUME NEW types \in Seq(STRING), NEW values, NEW fallback, NEW V,
         Givers(Len(types), types, values, fallback, V)
  PROVE  Match(types, values, fallback) \in Found(V)
<1> DEFINE n == Len(types)
           s == [i \in DOMAIN types |-> i]
           none == [ok |-> TRUE, args |-> << >>]
           Make(m, i) == OneMore(types, values, fallback, m, i)
           F == [x \in Found(V) \X (1 .. n) |-> Make(x[1], x[2])]
           Runs(G) == G = [t \in SUBSET (DOMAIN s) |-> IF t = {} THEN none ELSE Make(G[t \ {Max(t)}], s[Max(t)])]
           I == CHOOSE G : Runs(G)
<1>1. n \in Nat /\ DOMAIN s = 1 .. n /\ none \in Found(V) /\ \A i \in 1 .. n : s[i] = i
  BY DEF Found
<1>2. Match(types, values, fallback) = I[DOMAIN s]
  BY DEF Match, FoldLeft, MapThenFoldSet, OneMore
<1>3. \A a \in Found(V), j \in 1 .. n : Make(a, j) \in Found(V)
  BY OneMoreStays, <1>1
<1> HIDE DEF Make
<1>4. \A a \in Found(V), j \in 1 .. n : F[<<a, j>>] = Make(a, j)
  <2> HIDE DEF n
  <2> QED OBVIOUS
<1>5. F \in [Found(V) \X (1 .. n) -> Found(V)]
  <2>1. \A x \in Found(V) \X (1 .. n) : Make(x[1], x[2]) \in Found(V)
    BY <1>3
  <2> HIDE DEF n
  <2> QED BY <2>1
<1> HIDE DEF F, n, s, none
<1>6. PICK H \in [SUBSET (1 .. n) -> Found(V)] : Folding(n, none, F, H)
  BY <1>1, <1>5, FoldingExists
<1>7. Runs(H)
  <2>1. ASSUME NEW t \in SUBSET (1 .. n) PROVE H[t] = IF t = {} THEN none ELSE Make(H[t \ {Max(t)}], s[Max(t)])
    <3>1. CASE t # {}
      <4>1. Max(t) \in 1 .. n /\ t \ {Max(t)} \in SUBSET (1 .. n)
        BY <1>1, <3>1, GreatestIn
      <4>2. H[t \ {Max(t)}] \in Found(V)
        BY <4>1
      <4>3. H[t] = F[<<H[t \ {Max(t)}], Max(t)>>]
        BY <1>6, <3>1 DEF Folding
      <4> QED BY <1>1, <1>4, <3>1, <4>1, <4>2, <4>3
    <3>2. CASE t = {}
      BY <1>6, <3>2 DEF Folding
    <3> QED BY <3>1, <3>2
  <2>2. H = [t \in SUBSET (1 .. n) |-> H[t]]
    OBVIOUS
  <2>3. H = [t \in SUBSET (1 .. n) |-> IF t = {} THEN none ELSE Make(H[t \ {Max(t)}], s[Max(t)])]
    BY <2>1, <2>2
  <2> QED BY <1>1, <2>3
<1>8. Runs(I)
  <2> HIDE DEF Runs
  <2> QED BY <1>7
<1> HIDE DEF I, Runs
<1>9. Stepping(n, Found(V), none, F, I)
  <2>1. {} \in SUBSET (1 .. n) /\ \A j \in 1 .. n : 1 .. j \in SUBSET (1 .. n)
    BY <1>1
  <2>2. \A j \in 1 .. n : 1 .. j # {} /\ Max(1 .. j) = j /\ (1 .. j) \ {Max(1 .. j)} = 1 .. (j - 1)
    BY <1>1, Shortened
  <2>3. I[{}] = none /\ \A j \in 1 .. n : I[1 .. j] = Make(I[1 .. (j - 1)], s[j])
    BY <1>1, <1>8, <2>1, <2>2 DEF Runs
  <2>4. \A j \in 1 .. n : I[1 .. j] = Make(I[1 .. (j - 1)], j)
    BY <1>1, <2>3
  <2> QED BY <1>4, <2>3, <2>4 DEF Stepping
<1>10. \E w : Walks(n, Found(V), none, F, w, I[1 .. n])
  BY <1>1, <1>5, <1>9, FoldIs
<1>11. I[1 .. n] \in Found(V)
  BY <1>1, <1>10 DEF Walks
<1> QED BY <1>1, <1>2, <1>11

\* The nodes among outs that an edge leads from to n.
Feeders(p, kept, outs, n) == {u \in outs : \E i \in kept : p.edges[i] = <<u, n>>}

\* A call takes parameters, and what the nodes upstream of it give.
LEMMA ArgsFound ==
  ASSUME NEW p, BlockOk(p), NEW kept \in SUBSET (DOMAIN p.edges), NEW outs, NEW n \in ToSet(p.nodes)
  PROVE  Args(p, kept, outs, n) \in Found(Params \cup ({"out"} \X Feeders(p, kept, outs, n)))
<1> DEFINE V == Params \cup ({"out"} \X Feeders(p, kept, outs, n))
           types == p.sig[n].params
           own == [i \in DOMAIN types |-> {i} \cap DOMAIN p.params]
           fits == [i \in DOMAIN types |-> {k \in DOMAIN p.params : p.params[k] = types[i]}]
<1>1. types \in Seq(STRING) /\ DOMAIN types = 1 .. Len(types) /\ DOMAIN p.params \subseteq Nat
  <2>1. types \in Seq(STRING) /\ p.params \in Seq(STRING)
    BY DEF BlockOk
  <2> QED BY <2>1
<1>2. /\ \A i \in 1 .. Len(types) : own[i] \subseteq Nat /\ fits[i] \subseteq Nat
  BY <1>1
<1>3. Params \subseteq V
  OBVIOUS
<1>4. Givers(Len(types), types, ParamValues(p), own, V)
  <2>1. DOMAIN ParamValues(p) = DOMAIN p.params
    BY DEF ParamValues
  <2>2. \A k \in DOMAIN p.params : ParamValues(p)[k].value = <<"param", k>>
    BY DEF ParamValues
  <2>3. \A k \in Nat : <<"param", k>> \in V
    BY DEF Params
  <2> HIDE DEF V, own, fits, types
  <2>4. \A k \in DOMAIN ParamValues(p) : ParamValues(p)[k].value \in V
    BY <1>1, <2>1, <2>2, <2>3
  <2> QED BY <1>1, <1>2, <1>3, <2>1, <2>4 DEF Givers
<1>5. Givers(Len(types), types, Upstream(p, kept, outs, n), fits, V)
  <2> DEFINE in == {j \in kept : p.edges[j][2] = n /\ p.edges[j][1] \in outs}
  <2>1. DOMAIN Upstream(p, kept, outs, n) = in /\ \A j \in in : Upstream(p, kept, outs, n)[j].value = <<"out", p.edges[j][1]>>
    BY DEF Upstream
  <2>2. in \subseteq Nat /\ \A j \in in : p.edges[j] \in ToSet(p.nodes) \X ToSet(p.nodes)
    <3>1. p.edges \in Seq(ToSet(p.nodes) \X ToSet(p.nodes))
      BY DEF BlockOk
    <3> QED BY <3>1
  <2>3. ASSUME NEW j \in in PROVE <<"out", p.edges[j][1]>> \in V
    <3>1. p.edges[j] = <<p.edges[j][1], n>> /\ p.edges[j][1] \in outs /\ j \in kept
      BY <2>2
    <3>2. p.edges[j][1] \in Feeders(p, kept, outs, n)
      BY <3>1 DEF Feeders
    <3> QED BY <3>2
  <2> HIDE DEF V, own, fits, types, in
  <2>4. \A j \in DOMAIN Upstream(p, kept, outs, n) : Upstream(p, kept, outs, n)[j].value \in V
    BY <2>1, <2>3
  <2> QED BY <1>2, <1>3, <2>1, <2>2, <2>4 DEF Givers
<1>6. Args(p, kept, outs, n) = IF n \in p.sources THEN Match(types, ParamValues(p), own)
                               ELSE Match(types, Upstream(p, kept, outs, n), fits)
  BY DEF Args
<1> HIDE DEF V, own, fits, types
<1>7. Match(types, ParamValues(p), own) \in Found(V) /\ Match(types, Upstream(p, kept, outs, n), fits) \in Found(V)
  BY <1>1, <1>4, <1>5, MatchFinds
<1> QED BY <1>6, <1>7 DEF V

-----------------------------------------------------------------------------
(* The body that is put together.                                          *)

Call(p) == [node : ToSet(p.nodes), args : Seq(Params \cup ({"out"} \X ToSet(p.nodes)))]

\* A call is of a node that is reached, and what it takes of a node comes from a
\* call before it, over an edge that is left.
Fed(p, kept, calls) ==
  \A i \in 1 .. Len(calls) :
    /\ calls[i].node \in Reachable(p, kept)
    /\ \A v \in ToSet(calls[i].args) :
         v[1] = "out" => /\ \E j \in 1 .. i - 1 : calls[j].node = v[2]
                         /\ \E e \in kept : p.edges[e] = <<v[2], calls[i].node>>

Bodies(p, kept) == {g \in [ok : BOOLEAN, calls : Seq(Call(p))] : Fed(p, kept, g.calls)}

LEMMA SeqGrows ==
  ASSUME NEW S, NEW T, S \subseteq T, NEW s \in Seq(S)
  PROVE  s \in Seq(T)
<1>1. s \in [1 .. Len(s) -> S] /\ Len(s) \in Nat
  OBVIOUS
<1>2. s \in [1 .. Len(s) -> T]
  BY <1>1
<1> QED BY <1>1, <1>2

LEMMA CalledIs ==
  ASSUME NEW X, NEW calls \in Seq(X), NEW g, g.calls = calls
  PROVE  Called(g) = {calls[i].node : i \in 1 .. Len(calls)}
<1>1. DOMAIN calls = 1 .. Len(calls)
  OBVIOUS
<1> QED BY <1>1 DEF Called, ToSet

LEMMA EmitStays ==
  ASSUME NEW p, BlockOk(p), NEW kept \in SUBSET (DOMAIN p.edges),
         NEW g \in Bodies(p, kept), NEW n \in ToSet(p.nodes)
  PROVE  LET h == Emit(p, kept, g, n) IN
           /\ h \in Bodies(p, kept)
           /\ h.ok => g.ok /\ Called(g) \subseteq Called(h) /\ (n \in Reachable(p, kept) => n \in Called(h))
<1> DEFINE h == Emit(p, kept, g, n)
           outs == Called(g)
           m == Args(p, kept, outs, n)
           call == [node |-> n, args |-> m.args]
<1>1. CASE ~ g.ok \/ n \notin Reachable(p, kept)
  <2>1. h = g
    BY <1>1 DEF Emit
  <2> HIDE DEF h
  <2> QED BY <1>1, <2>1 DEF h
<1>2. CASE g.ok /\ n \in Reachable(p, kept)
  <2>1. g \in [ok : BOOLEAN, calls : Seq(Call(p))] /\ g.calls \in Seq(Call(p)) /\ Fed(p, kept, g.calls)
    BY DEF Bodies
  <2>2. h = [g EXCEPT !.ok = m.ok, !.calls = IF m.ok THEN Append(@, call) ELSE @]
    BY <1>2 DEF Emit
  <2>3. m \in Found(Params \cup ({"out"} \X Feeders(p, kept, outs, n)))
    BY ArgsFound
  <2> HIDE DEF h, m, outs
  <2>4. h.ok = m.ok /\ m.ok \in BOOLEAN /\ h.calls = IF m.ok THEN Append(g.calls, call) ELSE g.calls
    BY <2>1, <2>2, <2>3 DEF Found
  <2>5. Feeders(p, kept, outs, n) \subseteq outs /\ outs = {g.calls[i].node : i \in 1 .. Len(g.calls)}
    BY <2>1, CalledIs DEF Feeders, outs
  <2>6. outs \subseteq ToSet(p.nodes)
    <3>1. \A i \in 1 .. Len(g.calls) : g.calls[i] \in Call(p)
      BY <2>1
    <3>2. \A c \in Call(p) : c.node \in ToSet(p.nodes)
      BY DEF Call
    <3> QED BY <2>5, <3>1, <3>2
  <2>7. m.args \in Seq(Params \cup ({"out"} \X Feeders(p, kept, outs, n)))
    BY <2>3 DEF Found
  <2>8. DOMAIN m.args = 1 .. Len(m.args) /\ \A i \in 1 .. Len(m.args) : m.args[i] \in Params \cup ({"out"} \X Feeders(p, kept, outs, n))
    BY <2>7
  <2>9. call \in Call(p)
    <3>1. m.args \in Seq(Params \cup ({"out"} \X ToSet(p.nodes)))
      <4>1. Params \cup ({"out"} \X Feeders(p, kept, outs, n)) \subseteq Params \cup ({"out"} \X ToSet(p.nodes))
        BY <2>5, <2>6
      <4> QED BY <2>7, <4>1, SeqGrows
    <3> QED BY <3>1 DEF Call
  <2>10. CASE m.ok
    <3> DEFINE c == h.calls
               k == Len(g.calls)
    <3>1. c = Append(g.calls, call) /\ c \in Seq(Call(p)) /\ k \in Nat
      BY <2>1, <2>4, <2>9, <2>10
    <3>2. Len(c) = k + 1 /\ c[k + 1] = call /\ \A i \in 1 .. k : c[i] = g.calls[i]
      BY <2>1, <2>9, <3>1
    <3>3. call.node = n /\ call.args = m.args
      OBVIOUS
    <3>4. ASSUME NEW v \in ToSet(m.args), v[1] = "out"
          PROVE  (\E j \in 1 .. k : c[j].node = v[2]) /\ \E e \in kept : p.edges[e] = <<v[2], n>>
      <4>1. v \in Params \cup ({"out"} \X Feeders(p, kept, outs, n))
        BY <2>8 DEF ToSet
      <4>2. v[2] \in Feeders(p, kept, outs, n)
        BY <3>4, <4>1 DEF Params
      <4>3. \E j \in 1 .. k : g.calls[j].node = v[2]
        BY <2>5, <4>2
      <4> HIDE DEF c
      <4> QED BY <3>2, <4>2, <4>3 DEF Feeders
    <3> HIDE DEF c, call
    <3>5. ASSUME NEW i \in 1 .. k + 1
          PROVE  /\ c[i].node \in Reachable(p, kept)
                 /\ \A v \in ToSet(c[i].args) :
                      v[1] = "out" => /\ \E j \in 1 .. i - 1 : c[j].node = v[2]
                                      /\ \E e \in kept : p.edges[e] = <<v[2], c[i].node>>
      <4>1. CASE i = k + 1
        <5>1. c[i].node = n /\ c[i].args = m.args /\ i - 1 = k
          BY <3>1, <3>2, <3>3, <4>1
        <5> QED BY <1>2, <3>4, <5>1
      <4>2. CASE i \in 1 .. k
        <5>1. c[i] = g.calls[i] /\ \A j \in 1 .. i - 1 : c[j] = g.calls[j]
          BY <3>1, <3>2, <4>2
        <5>2. /\ g.calls[i].node \in Reachable(p, kept)
              /\ \A v \in ToSet(g.calls[i].args) :
                   v[1] = "out" => /\ \E j \in 1 .. i - 1 : g.calls[j].node = v[2]
                                   /\ \E e \in kept : p.edges[e] = <<v[2], g.calls[i].node>>
          BY <2>1, <4>2 DEF Fed
        <5> QED BY <5>1, <5>2
      <4>3. i = k + 1 \/ i \in 1 .. k
        BY <3>1
      <4> QED BY <4>1, <4>2, <4>3
    <3>6. Fed(p, kept, c)
      BY <3>2, <3>5 DEF Fed
    <3>7. h \in [ok : BOOLEAN, calls : Seq(Call(p))]
      BY <2>1, <2>2, <2>4, <3>1 DEF c
    <3>8. h \in Bodies(p, kept)
      BY <3>6, <3>7 DEF Bodies, c
    <3>9. Called(h) = {c[i].node : i \in 1 .. k + 1}
      BY <3>1, <3>2, CalledIs DEF c
    <3>10. outs \subseteq Called(h) /\ n \in Called(h)
      <4>1. k + 1 \in 1 .. k + 1 /\ \A i \in 1 .. k : i \in 1 .. k + 1
        BY <3>1
      <4> QED BY <2>5, <3>2, <3>3, <3>9, <4>1
    <3> QED BY <1>2, <3>8, <3>10 DEF h, outs
  <2>11. CASE ~ m.ok
    <3>1. h \in [ok : BOOLEAN, calls : Seq(Call(p))] /\ h.calls = g.calls /\ ~ h.ok
      BY <2>1, <2>2, <2>4, <2>11
    <3> QED BY <2>1, <3>1 DEF Bodies, h
  <2> QED BY <2>10, <2>11
<1> QED BY <1>1, <1>2

\* The body is put together node by node.
LEMMA RemadeGo ==
  ASSUME NEW p, BlockOk(p), NEW kept \in SUBSET (DOMAIN p.edges)
  PROVE  \E g \in Bodies(p, kept) :
           /\ Remade(p, kept).calls = g.calls /\ (Remade(p, kept).ok => g.ok)
           /\ g.ok => \A n \in ToSet(p.nodes) \cap Reachable(p, kept) : n \in Called(g)
<1> DEFINE s == p.nodes
           n == Len(s)
           T == Bodies(p, kept)
           none == [ok |-> TRUE, calls |-> << >>]
           Make(g, x) == Emit(p, kept, g, x)
           F == [x \in T \X (1 .. n) |-> Make(x[1], s[x[2]])]
           Runs(G) == G = [t \in SUBSET (DOMAIN s) |-> IF t = {} THEN none ELSE Make(G[t \ {Max(t)}], s[Max(t)])]
           I == CHOOSE G : Runs(G)
<1>1. n \in Nat /\ DOMAIN s = 1 .. n /\ ToSet(p.nodes) = {s[j] : j \in 1 .. n}
  <2>1. s \in Seq(STRING)
    BY DEF BlockOk
  <2> QED BY <2>1 DEF ToSet
<1>2. none \in T
  <2>1. none \in [ok : BOOLEAN, calls : Seq(Call(p))] /\ Len(none.calls) = 0
    OBVIOUS
  <2> HIDE DEF none
  <2> QED BY <2>1 DEF Bodies, Fed
<1>3. Remade(p, kept).calls = I[DOMAIN s].calls /\ (Remade(p, kept).ok => I[DOMAIN s].ok)
  BY DEF Remade, FoldLeft, MapThenFoldSet
<1>4. \A a \in T, j \in 1 .. n :
        /\ Make(a, s[j]) \in T
        /\ Make(a, s[j]).ok => /\ a.ok /\ Called(a) \subseteq Called(Make(a, s[j]))
                               /\ s[j] \in Reachable(p, kept) => s[j] \in Called(Make(a, s[j]))
  <2>1. ASSUME NEW a \in T, NEW j \in 1 .. n PROVE s[j] \in ToSet(p.nodes)
    BY <1>1
  <2> QED BY <2>1, EmitStays
<1> HIDE DEF Make, T
<1>5. \A a \in T, j \in 1 .. n : F[<<a, j>>] = Make(a, s[j])
  <2> HIDE DEF n, s
  <2> QED OBVIOUS
<1>6. F \in [T \X (1 .. n) -> T]
  <2>1. \A x \in T \X (1 .. n) : Make(x[1], s[x[2]]) \in T
    BY <1>4
  <2> HIDE DEF n, s
  <2> QED BY <2>1
<1> HIDE DEF F, n, s, none
<1>7. PICK H \in [SUBSET (1 .. n) -> T] : Folding(n, none, F, H)
  BY <1>1, <1>2, <1>6, FoldingExists
<1>8. Runs(H)
  <2>1. ASSUME NEW t \in SUBSET (1 .. n) PROVE H[t] = IF t = {} THEN none ELSE Make(H[t \ {Max(t)}], s[Max(t)])
    <3>1. CASE t # {}
      <4>1. Max(t) \in 1 .. n /\ t \ {Max(t)} \in SUBSET (1 .. n)
        BY <1>1, <3>1, GreatestIn
      <4>2. H[t \ {Max(t)}] \in T
        BY <4>1
      <4>3. H[t] = F[<<H[t \ {Max(t)}], Max(t)>>]
        BY <1>7, <3>1 DEF Folding
      <4> QED BY <1>5, <3>1, <4>1, <4>2, <4>3
    <3>2. CASE t = {}
      BY <1>7, <3>2 DEF Folding
    <3> QED BY <3>1, <3>2
  <2>2. H = [t \in SUBSET (1 .. n) |-> H[t]]
    OBVIOUS
  <2>3. H = [t \in SUBSET (1 .. n) |-> IF t = {} THEN none ELSE Make(H[t \ {Max(t)}], s[Max(t)])]
    BY <2>1, <2>2
  <2> QED BY <1>1, <2>3
<1>9. Runs(I)
  <2> HIDE DEF Runs
  <2> QED BY <1>8
<1> HIDE DEF I, Runs
<1>10. Stepping(n, T, none, F, I)
  <2>1. {} \in SUBSET (1 .. n) /\ \A j \in 1 .. n : 1 .. j \in SUBSET (1 .. n)
    BY <1>1
  <2>2. \A j \in 1 .. n : 1 .. j # {} /\ Max(1 .. j) = j /\ (1 .. j) \ {Max(1 .. j)} = 1 .. (j - 1)
    BY <1>1, Shortened
  <2>3. I[{}] = none /\ \A j \in 1 .. n : I[1 .. j] = Make(I[1 .. (j - 1)], s[j])
    BY <1>1, <1>9, <2>1, <2>2 DEF Runs
  <2> QED BY <1>5, <2>3 DEF Stepping
<1>11. PICK w : w \in [0 .. n -> T] /\ Walk(n, none, F, w) /\ w[n] = I[1 .. n]
  <2>1. \E w : Walks(n, T, none, F, w, I[1 .. n])
    BY <1>1, <1>2, <1>6, <1>10, FoldIs
  <2> QED BY <2>1 DEF Walks
<1>12. ASSUME NEW j \in 1 .. n
       PROVE  w[j] = Make(w[j - 1], s[j]) /\ w[j - 1] \in T
  <2>1. j - 1 \in 0 .. n
    BY <1>1
  <2> QED BY <1>5, <1>11, <2>1 DEF Walk
<1> DEFINE Has(k) == w[k].ok => \A j \in 1 .. k : s[j] \in Reachable(p, kept) => s[j] \in Called(w[k])
           K == {k \in Nat : k <= n => Has(k)}
<1>13. 0 \in K
  OBVIOUS
<1>14. ASSUME NEW k \in K PROVE k + 1 \in K
  <2>1. k \in Nat /\ (k + 1) - 1 = k
    OBVIOUS
  <2>2. ASSUME k + 1 <= n PROVE Has(k + 1)
    <3>1. k + 1 \in 1 .. n /\ Has(k)
      BY <1>1, <2>1, <2>2
    <3>2. w[k + 1] = Make(w[k], s[k + 1]) /\ w[k] \in T
      BY <1>12, <2>1, <3>1
    <3>3. w[k + 1].ok => /\ w[k].ok /\ Called(w[k]) \subseteq Called(w[k + 1])
                         /\ s[k + 1] \in Reachable(p, kept) => s[k + 1] \in Called(w[k + 1])
      <4> DEFINE a == w[k]
                 j == k + 1
                 d == Make(a, s[j])
      <4>1. a \in T /\ j \in 1 .. n /\ w[j] = d
        BY <3>1, <3>2
      <4> HIDE DEF a, Has, j, K
      <4>2. d.ok => /\ a.ok /\ Called(a) \subseteq Called(d)
                    /\ s[j] \in Reachable(p, kept) => s[j] \in Called(d)
        BY <1>4, <4>1, Zenon
      <4> HIDE DEF d
      <4> QED BY <4>1, <4>2 DEF a, j
    <3>4. \A j \in 1 .. k + 1 : j \in 1 .. k \/ j = k + 1
      BY <2>1
    <3> QED BY <3>1, <3>3, <3>4
  <2> QED BY <2>1, <2>2
<1>15. K = Nat
  <2>1. K \in SUBSET Nat
    OBVIOUS
  <2> HIDE DEF K
  <2> QED BY <1>13, <1>14, <2>1, AllNumbers
<1>16. Has(n)
  BY <1>1, <1>15
<1>17. w[n] \in T /\ w[n] = I[DOMAIN s]
  BY <1>1, <1>11
<1>18. w[n].ok => \A x \in ToSet(p.nodes) \cap Reachable(p, kept) : x \in Called(w[n])
  BY <1>1, <1>16
<1> QED BY <1>3, <1>17, <1>18 DEF T

\* What runs in a body that is not malformed, and on what.
FedBy(p, kept, b, i, v) ==
  /\ \E j \in 1 .. i - 1 : b.calls[j].node = v[2]
  /\ \E e \in kept : p.edges[e] = <<v[2], b.calls[i].node>>

WellFed(p, kept, b) ==
  \A i \in DOMAIN b.calls : \A v \in ToSet(b.calls[i].args) : v[1] = "out" => FedBy(p, kept, b, i, v)

RunsAfter(p, kept, b) ==
  \A n \in Called(b) \ p.sources : \E e \in kept : p.edges[e][2] = n /\ p.edges[e][1] \in Called(b)

LEMMA RemadeRuns ==
  ASSUME NEW p, BlockOk(p), NEW kept \in SUBSET (DOMAIN p.edges), NEW b, b = Remade(p, kept), b.ok
  PROVE  WellFed(p, kept, b) /\ RunsAfter(p, kept, b)
<1>1. PICK g \in Bodies(p, kept) : /\ b.calls = g.calls /\ g.ok
                                  /\ \A n \in ToSet(p.nodes) \cap Reachable(p, kept) : n \in Called(g)
  BY RemadeGo
<1>2. g.calls \in Seq(Call(p)) /\ Fed(p, kept, g.calls)
  BY DEF Bodies
<1>3. DOMAIN b.calls = 1 .. Len(g.calls) /\ Called(b) = Called(g) /\ Called(g) = {g.calls[i].node : i \in 1 .. Len(g.calls)}
  <2>1. DOMAIN g.calls = 1 .. Len(g.calls)
    BY <1>2
  <2>2. Called(b) = {g.calls[i].node : i \in 1 .. Len(g.calls)}
    BY <1>1, <1>2, CalledIs
  <2>3. Called(g) = {g.calls[i].node : i \in 1 .. Len(g.calls)}
    BY <1>2, CalledIs
  <2> QED BY <1>1, <2>1, <2>2, <2>3
<1>4. WellFed(p, kept, b)
  <2>1. \A i \in 1 .. Len(g.calls) : \A v \in ToSet(g.calls[i].args) :
          v[1] = "out" => /\ \E j \in 1 .. i - 1 : g.calls[j].node = v[2]
                          /\ \E e \in kept : p.edges[e] = <<v[2], g.calls[i].node>>
    BY <1>2 DEF Fed
  <2>2. b.calls = g.calls /\ DOMAIN b.calls = 1 .. Len(g.calls)
    BY <1>1, <1>3
  <2> DEFINE c == b.calls
  <2>3. c = g.calls /\ DOMAIN c = 1 .. Len(g.calls)
    BY <2>2
  <2> HIDE DEF c
  <2>4. \A i \in DOMAIN c : \A v \in ToSet(c[i].args) :
          v[1] = "out" => /\ \E j \in 1 .. i - 1 : c[j].node = v[2]
                          /\ \E e \in kept : p.edges[e] = <<v[2], c[i].node>>
    <3> DEFINE F(u) == \A i \in 1 .. Len(g.calls) : \A v \in ToSet(u[i].args) :
                          v[1] = "out" => /\ \E j \in 1 .. i - 1 : u[j].node = v[2]
                                          /\ \E e \in kept : p.edges[e] = <<v[2], u[i].node>>
    <3>1. F(g.calls)
      BY <2>1
    <3> HIDE DEF F
    <3>2. F(c)
      BY <2>3, <3>1
    <3> QED BY <2>3, <3>2 DEF F
  <2> QED BY <2>4 DEF c, WellFed, FedBy
<1>5. ASSUME NEW n \in Called(b) \ p.sources
      PROVE  \E e \in kept : p.edges[e][2] = n /\ p.edges[e][1] \in Called(b)
  <2>1. n \in Reachable(p, kept)
    BY <1>2, <1>3 DEF Fed
  <2>2. Len(p.nodes) \in Nat
    <3>1. p.nodes \in Seq(STRING)
      BY DEF BlockOk
    <3> QED BY <3>1
  <2>3. PICK e \in kept : p.edges[e][2] = n /\ p.edges[e][1] \in Reachable(p, kept)
    BY <2>1, <2>2, ReachedFrom
  <2>4. p.edges[e] \in ToSet(p.nodes) \X ToSet(p.nodes)
    <3>1. p.edges \in Seq(ToSet(p.nodes) \X ToSet(p.nodes))
      BY DEF BlockOk
    <3> QED BY <3>1
  <2> QED BY <1>1, <1>3, <2>3, <2>4
<1> QED BY <1>4, <1>5 DEF RunsAfter

-----------------------------------------------------------------------------
(* The bodies that a request may ask for.                                  *)

LEMMA StubDoesNotLink ==
  ASSUME NEW b \in Binaries
  PROVE  ~ Links(b, Stub)
<1> DEFINE calls == <<[node |-> Placeholder, args |-> << >>]>>
<1>1. Stub.calls = calls /\ 1 \in DOMAIN calls /\ calls[1].node = Placeholder
  BY DEF Stub
<1>2. Placeholder \in Called(Stub)
  <2> HIDE DEF calls
  <2> QED BY <1>1 DEF Called, ToSet
<1>3. Placeholder \notin b.host
  BY JitAssumption
<1> QED BY <1>2, <1>3 DEF Links

\* A pipeline that is asked for is a block of the table.
LEMMA PipeIs ==
  ASSUME NEW b \in Binaries, NEW i \in 1 .. Len(b.pipes)
  PROVE  b.pipes[i] \in ToSet(b.pipes) /\ BlockOk(b.pipes[i])
<1>1. b.pipes \in Seq(ToSet(b.pipes)) /\ \A p \in ToSet(b.pipes) : BlockOk(p)
  BY JitAssumption
<1>2. b.pipes[i] \in ToSet(b.pipes)
  BY <1>1
<1> QED BY <1>1, <1>2

\* What links and is not malformed is the body of what was asked for.
LEMMA LinkedIsGenerated ==
  ASSUME NEW b \in Binaries, NEW i \in 1 .. Len(b.pipes), NEW ctx, Links(b, Body(b, i, ctx))
  PROVE  Body(b, i, ctx) = Generated(b.pipes[i], ctx)
BY StubDoesNotLink DEF Body

\* A context that takes no edge leaves the bodies that were made ahead of time.
LEMMA UnprunedIsAhead ==
  ASSUME NEW b \in Binaries, MadeAhead(b), NEW i \in 1 .. Len(b.pipes), NEW ctx,
         \A p \in ToSet(b.pipes) : \A e \in ToSet(p.edges) : ~ Pruned(e, ctx)
  PROVE  Body(b, i, ctx) = Generated(b.pipes[i], {}) /\ Generated(b.pipes[i], {}).ok
<1>1. ASSUME NEW j \in 1 .. Len(b.pipes)
      PROVE  Generated(b.pipes[j], ctx) = Generated(b.pipes[j], {}) /\ Generated(b.pipes[j], {}).ok
  <2>1. b.pipes[j] \in ToSet(b.pipes) /\ BlockOk(b.pipes[j])
    BY PipeIs
  <2>2. \A e : ~ Pruned(e, {})
    BY DEF Pruned
  <2>3. \A k \in DOMAIN b.pipes[j].edges : b.pipes[j].edges[k] \in ToSet(b.pipes[j].edges)
    BY DEF ToSet
  <2>4. Kept(b.pipes[j], ctx) = Kept(b.pipes[j], {})
    BY <2>1, <2>2, <2>3 DEF Kept
  <2> QED BY <2>1, <2>4 DEF Generated, MadeAhead
<1>2. Len(b.pipes) \in Nat
  <2>1. b.pipes \in Seq(ToSet(b.pipes))
    BY JitAssumption
  <2> QED BY <2>1
<1>3. \A j \in 1 .. i - 1 : j \in 1 .. Len(b.pipes)
  BY <1>2
<1>4. Body(b, i, ctx) = Generated(b.pipes[i], ctx)
  <2>1. \A j \in 1 .. i - 1 : Generated(b.pipes[j], ctx).ok
    BY <1>1, <1>3
  <2> QED BY <2>1 DEF Body
<1> QED BY <1>1, <1>4

-----------------------------------------------------------------------------
(* A request by itself.                                                    *)

Places  == {"idle", "ensure", "build", "number", "lock", "add", "lookup", "done"}
Ctxs    == {{}} \cup Contexts \cup {FromCosts(c) : c \in Samples}
Colds   == {{}} \cup {Cold(c) : c \in Samples}
Indices == 0 .. Len(binary.pipes)
Answers == {Nothing} \cup ({p.name : p \in ToSet(binary.pipes)} \X Nat)
Records ==
  [pc : Places, asks : Indices, ctx : Ctxs, cold : Colds,
   body : {Stub} \cup {Body(binary, a[1], a[2]) : a \in Indices \X Ctxs}, id : Nat, result : Answers]

\* The name under which a request adds its body, and whether it did.
NameOf(x) == <<binary.pipes[x.asks].name, x.id>>
Added(x)  == x.pc = "lookup" \/ (x.pc = "done" /\ x.id > 0)
Built(x)  == x.pc \in {"number", "lock", "add"} \/ Added(x)

RequestOK(x) ==
  /\ x.pc \in {"idle", "ensure", "build", "number"} => x.id = 0
  /\ x.pc \in {"lock", "add", "lookup"} => x.id > 0
  /\ x.id <= counter
  /\ x.pc # "done" => x.result = Nothing
  /\ x.pc \notin {"idle", "ensure"} => engine # "none"
  /\ x.pc = "build" => engine = "up"
  /\ Built(x) => engine = "up" /\ binary.bitcode /\ x.asks > 0 /\ x.body = Body(binary, x.asks, x.ctx)
  /\ Added(x) => NameOf(x) \in DOMAIN dylibs /\ dylibs[NameOf(x)] = x.body
  /\ x.pc = "done" /\ x.id = 0 => x.result = Nothing /\ (engine = "failed" \/ ~ binary.bitcode \/ x.asks = 0)
  /\ x.pc = "done" /\ x.id > 0 => \/ x.result = Nothing /\ (~ Links(binary, x.body) \/ ~ x.body.ok)
                                  \/ x.result = NameOf(x) /\ Links(binary, x.body)

EngineTypes ==
  /\ binary \in Binaries /\ MadeAhead(binary) /\ engine \in {"none", "up", "failed"} /\ counter \in Nat
  /\ req \in [Requests -> Records]

\* No two requests have the same number, and every library is a request's.
Unique    == \A r, q \in Requests : r # q /\ req[r].id > 0 => req[r].id # req[q].id
Libraries == \A n \in DOMAIN dylibs : \E r \in Requests : Added(req[r]) /\ n = NameOf(req[r])

JitIInv == EngineTypes /\ (\A r \in Requests : RequestOK(req[r])) /\ Unique /\ Libraries

\* The state that requests share grows.
Grows ==
  /\ binary' = binary /\ engine' \in {"none", "up", "failed"} /\ (engine # "none" => engine' = engine)
  /\ counter' \in Nat /\ counter <= counter'
  /\ \A n \in DOMAIN dylibs : n \in DOMAIN dylibs' /\ dylibs'[n] = dylibs[n]

LEMMA GrowsKeeps ==
  ASSUME EngineTypes, Grows, NEW x \in Records, RequestOK(x)
  PROVE  RequestOK(x)'
<1>1. x.id \in Nat /\ counter \in Nat
  BY DEF Records, EngineTypes
<1>2. NameOf(x)' = NameOf(x) /\ Added(x)' = Added(x) /\ Built(x)' = Built(x)
  BY DEF Grows, NameOf, Added, Built
<1> QED BY <1>1, <1>2 DEF RequestOK, Grows

\* A step of request r, after which it is x.
LEMMA RequestSteps ==
  ASSUME JitIInv, Grows, NEW r \in Requests, NEW x \in Records, req' = [req EXCEPT ![r] = x], RequestOK(x)',
         x.id = req[r].id \/ x.id > counter,
         Added(req[r]) => Added(x) /\ NameOf(x) = NameOf(req[r]),
         \A n \in DOMAIN dylibs' : n \in DOMAIN dylibs \/ (Added(x) /\ n = NameOf(x))
  PROVE  JitIInv'
<1>1. EngineTypes /\ Unique /\ Libraries /\ \A q \in Requests : RequestOK(req[q]) /\ req[q] \in Records
  BY DEF JitIInv, EngineTypes
<1>2. req'[r] = x /\ (\A q \in Requests \ {r} : req'[q] = req[q]) /\ req' \in [Requests -> Records]
  BY <1>1 DEF EngineTypes
<1>3. Records' = Records
  BY DEF Grows, Records, Indices, Answers
<1>4. EngineTypes'
  BY <1>1, <1>2, <1>3 DEF EngineTypes, Grows, MadeAhead
<1>5. ASSUME NEW q \in Requests PROVE RequestOK(req[q])'
  <2>1. CASE q = r
    BY <1>2, <2>1
  <2>2. CASE q # r
    <3>1. \A y \in Records : RequestOK(y) => RequestOK(y)'
      BY <1>1, GrowsKeeps
    <3>2. RequestOK(req[q]) /\ req[q] \in Records /\ req'[q] = req[q]
      BY <1>1, <1>2, <2>2
    <3> QED BY <3>1, <3>2
  <2> QED BY <2>1, <2>2
<1>6. \A q \in Requests : req[q].id \in Nat /\ req[q].id <= counter
  BY <1>1 DEF Records, RequestOK
<1>7. Unique'
  <2> SUFFICES ASSUME NEW q \in Requests, NEW u \in Requests, q # u, req'[q].id > 0
               PROVE  req'[q].id # req'[u].id
    BY DEF Unique
  <2>1. counter \in Nat /\ x.id \in Nat
    BY <1>1 DEF EngineTypes, Records
  <2>2. CASE q # r /\ u # r
    BY <1>1, <1>2, <2>2 DEF Unique
  <2>3. CASE q = r
    <3>1. req'[q].id = x.id /\ req'[u].id = req[u].id
      BY <1>2, <2>3
    <3> QED BY <1>1, <1>6, <2>1, <2>3, <3>1 DEF Unique
  <2>4. CASE u = r
    <3>1. req'[u].id = x.id /\ req'[q].id = req[q].id
      BY <1>2, <2>4
    <3> QED BY <1>1, <1>6, <2>1, <2>4, <3>1 DEF Unique
  <2> QED BY <2>2, <2>3, <2>4
<1>8. Libraries'
  <2> DEFINE Name(y) == <<binary.pipes[y.asks].name, y.id>>
  <2>1. ASSUME NEW n \in DOMAIN dylibs' PROVE \E q \in Requests : Added(req'[q]) /\ n = Name(req'[q])
    <3>1. CASE n \in DOMAIN dylibs
      <4>1. PICK q \in Requests : Added(req[q]) /\ n = NameOf(req[q])
        BY <1>1, <3>1 DEF Libraries
      <4>2. CASE q = r
        <5>1. Added(x) /\ n = NameOf(x)
          BY <4>1, <4>2
        <5> QED BY <1>2, <5>1 DEF NameOf
      <4>3. CASE q # r
        <5>1. req'[q] = req[q]
          BY <1>2, <4>3
        <5> QED BY <4>1, <5>1 DEF NameOf
      <4> QED BY <4>2, <4>3
    <3>2. CASE n \notin DOMAIN dylibs
      <4>1. Added(x) /\ n = NameOf(x)
        BY <3>2
      <4> QED BY <1>2, <4>1 DEF NameOf
    <3> QED BY <3>1, <3>2
  <2>2. binary' = binary
    BY DEF Grows
  <2> QED BY <2>1, <2>2 DEF Libraries, Added, NameOf
<1> QED BY <1>4, <1>5, <1>7, <1>8 DEF JitIInv

-----------------------------------------------------------------------------
(* Every step.                                                             *)

LEMMA RecordIs ==
  ASSUME JitIInv, NEW r \in Requests
  PROVE  /\ req[r] \in Records /\ RequestOK(req[r]) /\ req[r].id \in Nat /\ counter \in Nat
         /\ req \in [Requests -> Records] /\ engine \in {"none", "up", "failed"}
BY DEF JitIInv, EngineTypes, Records

LEMMA AskStep ==
  ASSUME JitIInv, NEW r \in Requests, Ask(r)
  PROVE  JitIInv'
<1>1. /\ req[r].pc = "idle" /\ UNCHANGED <<binary, engine, mutex, counter, dylibs>>
      /\ req[r].id = 0
  BY RecordIs DEF Ask, RequestOK
<1>2. PICK i \in Indices, ctx \in Ctxs, cold \in Colds : req' = [req EXCEPT ![r] = Request("ensure", i, ctx, cold)]
  <2>1. {} \in Colds /\ {} \in Ctxs /\ \A c \in Samples : FromCosts(c) \in Ctxs /\ Cold(c) \in Colds
    BY DEF Ctxs, Colds
  <2>2. \A c \in Contexts : c \in Ctxs
    BY DEF Ctxs
  <2>3. 0 \in Indices /\ DOMAIN binary.pipes \subseteq Indices
    <3>1. binary.pipes \in Seq(ToSet(binary.pipes))
      BY JitAssumption DEF JitIInv, EngineTypes
    <3>2. Len(binary.pipes) \in Nat /\ DOMAIN binary.pipes = 1 .. Len(binary.pipes)
      BY <3>1
    <3> QED BY <3>2 DEF Indices
  <2>4. \/ req' = [req EXCEPT ![r] = Request("ensure", 0, {}, {})]
        \/ \E i \in DOMAIN binary.pipes :
             \/ \E ctx \in Contexts : req' = [req EXCEPT ![r] = Request("ensure", i, ctx, {})]
             \/ \E costs \in Samples : req' = [req EXCEPT ![r] = Request("ensure", i, FromCosts(costs), Cold(costs))]
    BY DEF Ask
  <2> QED BY <2>1, <2>2, <2>3, <2>4
<1> DEFINE x == Request("ensure", i, ctx, cold)
<1>3. x = [pc |-> "ensure", asks |-> i, ctx |-> ctx, cold |-> cold, body |-> Stub, id |-> 0, result |-> Nothing]
  BY DEF Request
<1>4. Grows
  BY <1>1, RecordIs DEF Grows
<1> HIDE DEF x
<1>5. x \in Records
  BY <1>3 DEF Records, Places, Answers
<1>6. RequestOK(x)'
  BY <1>1, <1>3, <1>5, RecordIs DEF RequestOK, Built, Added
<1>7. ~ Added(req[r]) /\ x.id = req[r].id
  BY <1>1, <1>3 DEF Added
<1>8. req' = [req EXCEPT ![r] = x]
  BY <1>2 DEF x
<1> QED BY <1>1, <1>4, <1>5, <1>6, <1>7, <1>8, RequestSteps

\* A step that only moves the request to another place.
Moves(r, x, to, result) ==
  /\ req' = [req EXCEPT ![r] = x] /\ x.pc = to /\ x.result = result
  /\ x.asks = req[r].asks /\ x.ctx = req[r].ctx /\ x.body = req[r].body /\ x.id = req[r].id

LEMMA GoesIs ==
  ASSUME JitIInv, NEW r \in Requests, NEW from, NEW to \in Places, Goes(r, from, to)
  PROVE  \E x \in Records : Moves(r, x, to, req[r].result)
<1> DEFINE x == [req[r] EXCEPT !.pc = to]
<1>1. req[r] \in Records /\ req \in [Requests -> Records]
  BY RecordIs
<1>2. /\ x \in Records /\ x.pc = to /\ x.result = req[r].result
      /\ x.asks = req[r].asks /\ x.ctx = req[r].ctx /\ x.body = req[r].body /\ x.id = req[r].id
  BY <1>1 DEF Records
<1>3. req' = [req EXCEPT ![r] = x]
  BY <1>1 DEF Goes
<1> QED BY <1>2, <1>3 DEF Moves

LEMMA FailsIs ==
  ASSUME JitIInv, NEW r \in Requests, NEW from, Fails(r, from)
  PROVE  \E x \in Records : Moves(r, x, "done", Nothing)
<1> DEFINE x == [req[r] EXCEPT !.pc = "done", !.result = Nothing]
<1>1. req[r] \in Records /\ req \in [Requests -> Records]
  BY RecordIs
<1>2. /\ x \in Records /\ x.pc = "done" /\ x.result = Nothing
      /\ x.asks = req[r].asks /\ x.ctx = req[r].ctx /\ x.body = req[r].body /\ x.id = req[r].id
  BY <1>1 DEF Records, Places, Answers
<1>3. req' = [req EXCEPT ![r] = x]
  BY <1>1 DEF Fails
<1> QED BY <1>2, <1>3 DEF Moves

LEMMA EnsureStep ==
  ASSUME JitIInv, NEW r \in Requests, EnsureJIT(r)
  PROVE  JitIInv'
<1>1. /\ req[r].pc = "ensure" /\ UNCHANGED <<binary, mutex, counter, dylibs>>
      /\ req[r].id = 0 /\ req[r].result = Nothing /\ Nothing \in Answers
  BY RecordIs DEF EnsureJIT, RequestOK, Goes, Fails, Answers
<1>2. /\ engine' \in {"up", "failed"} /\ (engine # "none" => engine' = engine)
      /\ IF engine' = "up" THEN Goes(r, "ensure", "build") ELSE Fails(r, "ensure")
  BY RecordIs DEF EnsureJIT
<1>3. Grows /\ (engine' = "up" \/ engine' = "failed")
  BY <1>1, <1>2, RecordIs DEF Grows
<1>4. PICK x \in Records : Moves(r, x, IF engine' = "up" THEN "build" ELSE "done", Nothing)
  <2>1. "build" \in Places
    BY DEF Places
  <2> QED BY <1>1, <1>2, <2>1, GoesIs, FailsIs
<1>5. /\ req' = [req EXCEPT ![r] = x] /\ x.pc = (IF engine' = "up" THEN "build" ELSE "done")
      /\ x.result = Nothing /\ x.asks = req[r].asks /\ x.id = 0
  BY <1>1, <1>4 DEF Moves
<1>6. RequestOK(x)'
  BY <1>1, <1>2, <1>3, <1>5, RecordIs DEF RequestOK, Built, Added, Grows
<1>7. ~ Added(req[r]) /\ x.id = req[r].id
  BY <1>1, <1>5 DEF Added
<1>8. dylibs' = dylibs
  BY <1>1
<1> QED BY <1>3, <1>5, <1>6, <1>7, <1>8, RequestSteps

LEMMA BuildStep ==
  ASSUME JitIInv, NEW r \in Requests, BuildModule(r)
  PROVE  JitIInv'
<1>1. /\ req[r].pc = "build" /\ UNCHANGED <<binary, engine, mutex, counter, dylibs>>
      /\ req[r].id = 0 /\ req[r].result = Nothing /\ engine = "up"
  BY RecordIs DEF BuildModule, RequestOK, Fails
<1>2. Grows
  BY <1>1, RecordIs DEF Grows
<1>3. CASE binary.bitcode /\ req[r].asks > 0
  <2> DEFINE b == Body(binary, req[r].asks, req[r].ctx)
             y == [req[r] EXCEPT !.pc = "number", !.body = b]
  <2>1. req[r] \in Records /\ req \in [Requests -> Records] /\ "number" \in Places
    BY RecordIs DEF Places
  <2>2. b \in {Stub} \cup {Body(binary, a[1], a[2]) : a \in Indices \X Ctxs}
    <3>1. <<req[r].asks, req[r].ctx>> \in Indices \X Ctxs
      BY <2>1 DEF Records
    <3> QED BY <3>1
  <2>3. req' = [req EXCEPT ![r].pc = "number", ![r].body = b]
    BY <1>3 DEF BuildModule
  <2> HIDE DEF b
  <2>4. /\ y \in Records /\ y.pc = "number" /\ y.body = b
        /\ y.asks = req[r].asks /\ y.ctx = req[r].ctx /\ y.id = req[r].id /\ y.result = req[r].result
    BY <2>1, <2>2 DEF Records
  <2>5. req' = [req EXCEPT ![r] = y]
    BY <2>1, <2>3
  <2> HIDE DEF y
  <2>6. PICK x \in Records : x = y
    BY <2>4
  <2>7. RequestOK(x)'
    BY <1>1, <1>2, <1>3, <2>4, <2>6, RecordIs DEF RequestOK, Built, Added, Grows, b
  <2>8. ~ Added(req[r]) /\ x.id = req[r].id /\ req' = [req EXCEPT ![r] = x] /\ dylibs' = dylibs
    BY <1>1, <2>4, <2>5, <2>6 DEF Added
  <2> QED BY <1>2, <2>7, <2>8, RequestSteps
<1>4. CASE ~ (binary.bitcode /\ req[r].asks > 0)
  <2>1. PICK x \in Records : Moves(r, x, "done", Nothing)
    BY <1>4, FailsIs DEF BuildModule
  <2>2. /\ req' = [req EXCEPT ![r] = x] /\ x.pc = "done" /\ x.result = Nothing /\ x.asks = req[r].asks /\ x.id = 0
    BY <1>1, <2>1 DEF Moves
  <2>3. req[r].asks \in Nat
    BY RecordIs DEF Records, Indices
  <2>4. RequestOK(x)'
    BY <1>1, <1>2, <1>4, <2>2, <2>3, RecordIs DEF RequestOK, Built, Added, Grows
  <2>5. ~ Added(req[r]) /\ x.id = req[r].id /\ dylibs' = dylibs
    BY <1>1, <2>2 DEF Added
  <2> QED BY <1>2, <2>2, <2>4, <2>5, RequestSteps
<1> QED BY <1>3, <1>4

LEMMA NumberStep ==
  ASSUME JitIInv, NEW r \in Requests, Number(r)
  PROVE  JitIInv'
<1>1. /\ req[r].pc = "number" /\ UNCHANGED <<binary, engine, mutex, dylibs>>
      /\ req[r].result = Nothing /\ counter' = counter + 1 /\ counter \in Nat
      /\ engine = "up" /\ binary.bitcode /\ req[r].asks > 0 /\ req[r].body = Body(binary, req[r].asks, req[r].ctx)
  BY RecordIs DEF Number, RequestOK, Built
<1>2. Grows
  BY <1>1, RecordIs DEF Grows
<1> DEFINE y == [req[r] EXCEPT !.id = counter + 1, !.pc = "lock"]
<1>3. req[r] \in Records /\ req \in [Requests -> Records] /\ "lock" \in Places /\ counter + 1 \in Nat
  BY <1>1, RecordIs DEF Places
<1>4. /\ y \in Records /\ y.pc = "lock" /\ y.id = counter + 1
      /\ y.asks = req[r].asks /\ y.ctx = req[r].ctx /\ y.body = req[r].body /\ y.result = req[r].result
  BY <1>3 DEF Records
<1>5. req' = [req EXCEPT ![r] = y]
  BY <1>3 DEF Number
<1> HIDE DEF y
<1>6. PICK x \in Records : x = y
  BY <1>4
<1>7. RequestOK(x)'
  BY <1>1, <1>2, <1>4, <1>6, RecordIs DEF RequestOK, Built, Added, Grows
<1>8. ~ Added(req[r]) /\ x.id > counter /\ req' = [req EXCEPT ![r] = x] /\ dylibs' = dylibs
  BY <1>1, <1>4, <1>5, <1>6 DEF Added
<1> QED BY <1>2, <1>7, <1>8, RequestSteps

LEMMA LockStep ==
  ASSUME JitIInv, NEW r \in Requests, Lock(r)
  PROVE  JitIInv'
<1>1. /\ req[r].pc = "lock" /\ UNCHANGED <<binary, engine, counter, dylibs>> /\ req[r].result = Nothing
      /\ Goes(r, "lock", "add") /\ "add" \in Places
  BY RecordIs DEF Lock, RequestOK, Goes, Places
<1>2. Grows
  BY <1>1, RecordIs DEF Grows
<1>3. PICK x \in Records : Moves(r, x, "add", Nothing)
  BY <1>1, GoesIs
<1>4. RequestOK(x)'
  BY <1>1, <1>2, <1>3, RecordIs DEF RequestOK, Built, Added, Grows, Moves
<1>5. ~ Added(req[r]) /\ x.id = req[r].id /\ dylibs' = dylibs /\ req' = [req EXCEPT ![r] = x]
  BY <1>1, <1>3 DEF Added, Moves
<1> QED BY <1>2, <1>4, <1>5, RequestSteps

\* The number is in the name: nobody added a library of that name.
LEMMA NameIsNew ==
  ASSUME JitIInv, NEW r \in Requests, req[r].pc = "add"
  PROVE  JitName(r) \notin DOMAIN dylibs
<1> SUFFICES ASSUME JitName(r) \in DOMAIN dylibs PROVE FALSE
  OBVIOUS
<1>1. PICK q \in Requests : Added(req[q]) /\ JitName(r) = NameOf(req[q])
  BY DEF JitIInv, Libraries
<1>2. req[q].id = req[r].id
  BY <1>1 DEF JitName, NameOf
<1>3. q # r
  BY <1>1 DEF Added
<1>4. req[r].id > 0
  BY RecordIs DEF RequestOK
<1> QED BY <1>2, <1>3, <1>4 DEF JitIInv, Unique

LEMMA AddStep ==
  ASSUME JitIInv, NEW r \in Requests, req[r].pc = "add", AddModule(r)
  PROVE  JitIInv'
<1>1. /\ UNCHANGED <<binary, engine, counter>> /\ req[r].result = Nothing
      /\ Goes(r, "add", "lookup") /\ "lookup" \in Places /\ JitName(r) \notin DOMAIN dylibs
      /\ dylibs' = [n \in DOMAIN dylibs \cup {JitName(r)} |-> IF n = JitName(r) THEN req[r].body ELSE dylibs[n]]
  BY RecordIs, NameIsNew DEF AddModule, RequestOK, Places
<1>2. Grows
  BY <1>1, RecordIs DEF Grows
<1>3. PICK x \in Records : Moves(r, x, "lookup", Nothing)
  BY <1>1, GoesIs
<1>4. NameOf(x) = JitName(r) /\ NameOf(x)' = NameOf(x)
  BY <1>1, <1>3 DEF NameOf, JitName, Moves
<1>5. dylibs'[NameOf(x)] = x.body /\ DOMAIN dylibs' = DOMAIN dylibs \cup {NameOf(x)}
  BY <1>1, <1>3, <1>4 DEF Moves
<1>6. RequestOK(x)'
  BY <1>1, <1>2, <1>3, <1>4, <1>5, RecordIs DEF RequestOK, Built, Added, Grows, Moves
<1>7. ~ Added(req[r]) /\ Added(x) /\ x.id = req[r].id /\ req' = [req EXCEPT ![r] = x]
  BY <1>3 DEF Added, Moves
<1> QED BY <1>2, <1>5, <1>6, <1>7, RequestSteps

LEMMA LookupStep ==
  ASSUME JitIInv, NEW r \in Requests, req[r].pc = "lookup", Lookup(r)
  PROVE  JitIInv'
<1>1. /\ UNCHANGED <<binary, engine, counter, dylibs>> /\ req[r].result = Nothing
      /\ dylibs[JitName(r)] = req[r].body /\ req[r].id > 0
  BY RecordIs DEF Lookup, RequestOK, Added, JitName, NameOf
<1>2. Grows
  BY <1>1, RecordIs DEF Grows
<1>3. PICK x \in Records :
        \/ Moves(r, x, "done", JitName(r)) /\ Links(binary, req[r].body)
        \/ Moves(r, x, "done", Nothing) /\ (~ Links(binary, req[r].body) \/ ~ req[r].body.ok)
  <2>1. CASE Links(binary, req[r].body) /\ req' = [req EXCEPT ![r].pc = "done", ![r].result = JitName(r)]
    <3> DEFINE name == JitName(r)
               y == [req[r] EXCEPT !.pc = "done", !.result = name]
    <3>1. req[r] \in Records /\ req \in [Requests -> Records] /\ "done" \in Places
      BY RecordIs DEF Places
    <3>2. name \in Answers
      <4>1. binary \in Binaries /\ req[r].asks \in 1 .. Len(binary.pipes) /\ req[r].id \in Nat
        <5>1. req[r].asks \in Indices /\ req[r].asks > 0 /\ req[r].id \in Nat
          BY RecordIs DEF Records, RequestOK, Built, Added
        <5>2. binary \in Binaries /\ Len(binary.pipes) \in Nat
          <6>1. binary \in Binaries
            BY DEF JitIInv, EngineTypes
          <6>2. binary.pipes \in Seq(ToSet(binary.pipes))
            BY <6>1, JitAssumption
          <6> QED BY <6>1, <6>2
        <5> QED BY <5>1, <5>2 DEF Indices
      <4>2. binary.pipes[req[r].asks] \in ToSet(binary.pipes)
        BY <4>1, PipeIs
      <4> QED BY <4>1, <4>2 DEF JitName, Answers
    <3> HIDE DEF name
    <3>3. /\ y \in Records /\ y.pc = "done" /\ y.result = name
          /\ y.asks = req[r].asks /\ y.ctx = req[r].ctx /\ y.body = req[r].body /\ y.id = req[r].id
      BY <3>1, <3>2 DEF Records
    <3>4. req' = [req EXCEPT ![r] = y]
      BY <2>1, <3>1 DEF name
    <3> QED BY <2>1, <3>3, <3>4 DEF Moves, name
  <2>2. CASE (~ Links(binary, req[r].body) \/ ~ req[r].body.ok) /\ Fails(r, "lookup")
    BY <2>2, FailsIs
  <2> QED BY <1>1, <2>1, <2>2 DEF Lookup
<1>4. NameOf(x) = JitName(r) /\ NameOf(x)' = NameOf(x)
  BY <1>1, <1>3 DEF NameOf, JitName, Moves
<1>5. RequestOK(x)'
  <2>1. x.pc = "done" /\ x.id = req[r].id /\ x.body = req[r].body /\ x.asks = req[r].asks /\ x.ctx = req[r].ctx
    BY <1>3 DEF Moves
  <2>2. /\ req[r].id > 0 /\ req[r].id <= counter /\ req[r].id \in Nat /\ counter \in Nat
        /\ engine = "up" /\ binary.bitcode /\ req[r].asks > 0
        /\ req[r].body = Body(binary, req[r].asks, req[r].ctx)
        /\ NameOf(req[r]) \in DOMAIN dylibs /\ dylibs[NameOf(req[r])] = req[r].body
    BY <1>1, RecordIs DEF RequestOK, Built, Added
  <2>3. (x.result = JitName(r) /\ Links(binary, req[r].body)) \/ x.result = Nothing
    BY <1>3 DEF Moves
  <2>4. x.id > 0 /\ ~ (x.pc = "done" /\ x.id = 0)
    BY <2>1, <2>2
  <2>5. binary' = binary /\ engine' = engine /\ counter' = counter /\ dylibs' = dylibs
    BY <1>1
  <2>6. NameOf(x) = NameOf(req[r])
    BY <2>1 DEF NameOf
  <2> QED BY <1>1, <1>2, <1>3, <1>4, <2>1, <2>2, <2>3, <2>4, <2>5, <2>6
          DEF RequestOK, Built, Added, Moves, JitName
<1>6. Added(x) /\ x.id = req[r].id /\ NameOf(x) = NameOf(req[r]) /\ req' = [req EXCEPT ![r] = x] /\ dylibs' = dylibs
  BY <1>1, <1>3 DEF Added, Moves, NameOf
<1> QED BY <1>2, <1>5, <1>6, RequestSteps

-----------------------------------------------------------------------------
(* The promises.                                                           *)

LEMMA JitStarts ==
  ASSUME JitInit
  PROVE  JitIInv
<1>1. /\ binary \in Binaries /\ MadeAhead(binary) /\ engine = "none" /\ counter = 0
      /\ DOMAIN dylibs = {} /\ req = [r \in Requests |-> Fresh]
  BY DEF JitInit, JitInitFrom
<1> DEFINE x == Fresh
<1>2. x = [pc |-> "idle", asks |-> 0, ctx |-> {}, cold |-> {}, body |-> Stub, id |-> 0, result |-> Nothing]
  BY DEF Fresh, Request
<1>3. 0 \in Indices
  <2>1. binary.pipes \in Seq(ToSet(binary.pipes))
    BY <1>1, JitAssumption
  <2>2. Len(binary.pipes) \in Nat
    BY <2>1
  <2> QED BY <2>2 DEF Indices
<1> HIDE DEF x
<1>4. x \in Records /\ RequestOK(x) /\ x.id = 0
  BY <1>1, <1>2, <1>3 DEF Records, RequestOK, Places, Ctxs, Colds, Answers, Built, Added
<1>5. req = [r \in Requests |-> x]
  BY <1>1 DEF x
<1> QED BY <1>1, <1>4, <1>5 DEF JitIInv, EngineTypes, Unique, Libraries

LEMMA JitSteps ==
  ASSUME JitIInv, [JitNext]_jitVars
  PROVE  JitIInv'
<1>1. CASE UNCHANGED jitVars
  BY <1>1 DEF jitVars, JitIInv, EngineTypes, Unique, Libraries, RequestOK, Records, Indices, Answers,
              Built, Added, NameOf
<1>2. CASE JitNext /\ ~ UNCHANGED jitVars
  <2>1. PICK r \in Requests :
          \/ Ask(r) \/ EnsureJIT(r) \/ BuildModule(r) \/ Number(r) \/ Lock(r)
          \/ req[r].pc = "add" /\ AddModule(r)
          \/ req[r].pc = "lookup" /\ Lookup(r)
    BY <1>2 DEF JitNext, JitDone
  <2> QED BY <2>1, AskStep, EnsureStep, BuildStep, NumberStep, LockStep, AddStep, LookupStep
<1> QED BY <1>1, <1>2

\* What a request that was answered got.
LEMMA AnsweredIs ==
  ASSUME JitIInv, NEW r \in Requests, Answered(r)
  PROVE  /\ req[r].result = <<binary.pipes[req[r].asks].name, req[r].id>> /\ req[r].id > 0
         /\ req[r].asks \in 1 .. Len(binary.pipes) /\ Links(binary, req[r].body)
         /\ Result(r) = req[r].body /\ req[r].body = Body(binary, req[r].asks, req[r].ctx)
         /\ Result(r) = Generated(Asked(r), req[r].ctx)
<1>1. req[r].pc = "done" /\ req[r].result # Nothing /\ req[r].id \in Nat /\ req[r].asks \in Indices
      /\ binary \in Binaries
  BY RecordIs DEF Answered, Records, JitIInv, EngineTypes
<1>2. req[r].id > 0
  BY <1>1, RecordIs DEF RequestOK
<1>3. /\ req[r].result = NameOf(req[r]) /\ Links(binary, req[r].body) /\ dylibs[NameOf(req[r])] = req[r].body
      /\ req[r].asks > 0 /\ req[r].body = Body(binary, req[r].asks, req[r].ctx)
  BY <1>1, <1>2, RecordIs DEF RequestOK, Built, Added
<1>4. req[r].asks \in 1 .. Len(binary.pipes)
  <2>1. binary.pipes \in Seq(ToSet(binary.pipes))
    BY <1>1, JitAssumption
  <2>2. Len(binary.pipes) \in Nat
    BY <2>1
  <2> QED BY <1>1, <1>3, <2>2 DEF Indices
<1>5. Result(r) = Generated(Asked(r), req[r].ctx)
  <2>1. Body(binary, req[r].asks, req[r].ctx) = Generated(binary.pipes[req[r].asks], req[r].ctx)
    BY <1>1, <1>3, <1>4, LinkedIsGenerated
  <2> QED BY <1>3, <2>1 DEF Result, Asked
<1> QED BY <1>2, <1>3, <1>4, <1>5 DEF NameOf, Result

LEMMA Specialized ==
  ASSUME JitIInv
  PROVE  SpecializedAsAsked
<1>1. ASSUME NEW r \in Requests, NEW q \in Requests, Answered(r), Answered(q), r # q
      PROVE  req[r].result # req[q].result
  <2>1. /\ req[r].result = <<binary.pipes[req[r].asks].name, req[r].id>> /\ req[r].id > 0
        /\ req[q].result = <<binary.pipes[req[q].asks].name, req[q].id>>
    BY <1>1, AnsweredIs
  <2>2. req[r].id # req[q].id
    BY <1>1, <2>1 DEF JitIInv, Unique
  <2> QED BY <2>1, <2>2
<1>2. ASSUME NEW r \in Requests, Answered(r), Result(r).ok
      PROVE  /\ FedRightly(r)
             /\ \A n \in Called(Result(r)) \ Asked(r).sources :
                  \E e \in ToSet(Asked(r).edges) : e[2] = n /\ e[1] \in Called(Result(r)) /\ ~ Pruned(e, req[r].ctx)
  <2> DEFINE p == Asked(r)
             b == Result(r)
             ctx == req[r].ctx
             kept == Kept(p, ctx)
  <2>1. b = Remade(p, kept) /\ b.ok
    BY <1>2, AnsweredIs DEF Generated
  <2>2. BlockOk(p)
    <3>1. binary \in Binaries /\ req[r].asks \in 1 .. Len(binary.pipes)
      BY <1>2, AnsweredIs DEF JitIInv, EngineTypes
    <3> QED BY <3>1, PipeIs DEF Asked
  <2>3. kept \in SUBSET (DOMAIN p.edges)
    BY DEF Kept
  <2>4. \A e \in kept : p.edges[e] \in ToSet(p.edges) /\ ~ Pruned(p.edges[e], ctx)
    BY DEF Kept, ToSet
  <2> HIDE DEF p, b, ctx, kept
  <2>5. WellFed(p, kept, b) /\ RunsAfter(p, kept, b)
    BY <2>1, <2>2, <2>3, RemadeRuns
  <2>6. ASSUME NEW i \in DOMAIN b.calls, NEW v \in ToSet(b.calls[i].args), v[1] = "out"
        PROVE  /\ \E j \in 1 .. i - 1 : b.calls[j].node = v[2]
               /\ \E e \in ToSet(p.edges) : e = <<v[2], b.calls[i].node>> /\ ~ Pruned(e, ctx)
    <3>1. FedBy(p, kept, b, i, v)
      BY <2>5, <2>6 DEF WellFed
    <3>2. PICK e \in kept : p.edges[e] = <<v[2], b.calls[i].node>>
      BY <3>1 DEF FedBy
    <3>3. \E j \in 1 .. i - 1 : b.calls[j].node = v[2]
      BY <3>1 DEF FedBy
    <3> QED BY <2>4, <3>2, <3>3
  <2>7. \A n \in Called(b) \ p.sources :
          \E e \in ToSet(p.edges) : e[2] = n /\ e[1] \in Called(b) /\ ~ Pruned(e, ctx)
    BY <2>4, <2>5 DEF RunsAfter
  <2> QED BY <2>6, <2>7 DEF FedRightly, p, b, ctx
<1>3. ASSUME NEW r \in Requests,
             req[r].pc = "done", req[r].asks > 0, Unconstrained(r), engine = "up", binary.bitcode
      PROVE  LET ahead == Generated(Asked(r), {}) IN
               IF Links(binary, ahead) THEN Answered(r) /\ Result(r) = ahead ELSE ~ Answered(r)
  <2> DEFINE ahead == Generated(Asked(r), {})
  <2>1. binary \in Binaries /\ MadeAhead(binary) /\ req[r].asks \in 1 .. Len(binary.pipes)
    <3>1. binary \in Binaries /\ MadeAhead(binary) /\ req[r].asks \in Indices
      BY RecordIs DEF JitIInv, EngineTypes, Records
    <3>2. binary.pipes \in Seq(ToSet(binary.pipes))
      BY <3>1, JitAssumption
    <3>3. Len(binary.pipes) \in Nat
      BY <3>2
    <3> QED BY <1>3, <3>1, <3>3 DEF Indices
  <2>2. Body(binary, req[r].asks, req[r].ctx) = ahead /\ ahead.ok
    BY <1>3, <2>1, UnprunedIsAhead DEF Unconstrained, Asked
  <2>3. req[r].id > 0 /\ req[r].body = ahead
    <3>1. req[r].id > 0
      BY <1>3, RecordIs DEF RequestOK
    <3> QED BY <1>3, <2>2, <3>1, RecordIs DEF RequestOK, Built, Added
  <2> HIDE DEF ahead
  <2>4. \/ req[r].result = Nothing /\ (~ Links(binary, ahead) \/ ~ ahead.ok)
        \/ req[r].result = NameOf(req[r]) /\ Links(binary, ahead)
    BY <1>3, <2>3, RecordIs DEF RequestOK
  <2>5. NameOf(req[r]) # Nothing
    BY DEF NameOf, Nothing
  <2>6. Answered(r) => Result(r) = ahead
    BY <2>3, AnsweredIs
  <2>7. IF Links(binary, ahead) THEN Answered(r) /\ Result(r) = ahead ELSE ~ Answered(r)
    BY <1>3, <2>2, <2>4, <2>5, <2>6 DEF Answered
  <2> QED BY <2>7 DEF ahead
<1> QED BY <1>1, <1>2, <1>3 DEF SpecializedAsAsked

\* Requests run side by side, on one engine that is made once, with one counter and
\* one set of libraries: whatever they ask for and however they interleave, each
\* gets a function of its own; nothing runs in it but what the sources still lead
\* to, fed over edges that its context left; and without constraints it is the body
\* that the compiler made ahead of time, found whenever the process has its stages.
THEOREM JitSpecializesAsAsked == JitSpec => []SpecializedAsAsked
<1>1. JitInit => JitIInv
  BY JitStarts
<1>2. JitIInv /\ [JitNext]_jitVars => JitIInv'
  BY JitSteps
<1>3. JitIInv => SpecializedAsAsked
  BY Specialized
<1> QED BY <1>1, <1>2, <1>3, PTL DEF JitSpec

-----------------------------------------------------------------------------
(* The body as written is a walk from call to call.                        *)

\* The states behind the sets of calls, the last one last.
Behind(b, n, G) ==
  G = [t \in SUBSET (1 .. n) |-> IF t = {} THEN Idle(b) ELSE Does(b, G[t \ {Max(t)}], Max(t))]

LEMMA BehindMore == ASSUME NEW b, NEW n \in Nat, NEW G, Behind(b, n, G) PROVE \E H : Behind(b, n + 1, H)
<1> DEFINE m == n + 1
           H == [t \in SUBSET (1 .. m) |-> IF m \in t THEN Does(b, G[t \ {m}], m) ELSE G[t]]
<1>1. /\ m \in Nat /\ \A t \in SUBSET (1 .. m) : m \notin t => t \in SUBSET (1 .. n)
      /\ \A t \in SUBSET (1 .. m) : t \ {m} \in SUBSET (1 .. n) /\ t \ {m} \in SUBSET (1 .. m)
      /\ \A t \in SUBSET (1 .. n) : m \notin t /\ t \in SUBSET (1 .. m)
  OBVIOUS
<1>2. \A t \in SUBSET (1 .. m) : H[t] = IF m \in t THEN Does(b, G[t \ {m}], m) ELSE G[t]
  OBVIOUS
<1>3. \A t \in SUBSET (1 .. n) : G[t] = IF t = {} THEN Idle(b) ELSE Does(b, G[t \ {Max(t)}], Max(t))
  BY DEF Behind
<1>4. \A t \in SUBSET (1 .. m) : m \in t => Max(t) = m
  BY GreatestIs
<1>5. DOMAIN H = SUBSET (1 .. m) /\ H = [t \in SUBSET (1 .. m) |-> H[t]]
  OBVIOUS
<1> HIDE DEF H, m
<1>6. ASSUME NEW t \in SUBSET (1 .. m) PROVE H[t] = IF t = {} THEN Idle(b) ELSE Does(b, H[t \ {Max(t)}], Max(t))
  <2>1. CASE t = {}
    BY <1>1, <1>2, <1>3, <2>1
  <2>2. CASE m \in t
    <3>1. Max(t) = m
      BY <1>4, <2>2
    <3>2. H[t \ {m}] = G[t \ {m}]
      BY <1>1, <1>2
    <3> QED BY <1>2, <2>2, <3>1, <3>2
  <2>3. CASE m \notin t /\ t # {}
    <3>1. t \in SUBSET (1 .. n) /\ H[t] = G[t]
      BY <1>1, <1>2, <2>3
    <3>2. t \ {Max(t)} \in SUBSET (1 .. n)
      BY <3>1
    <3>3. H[t \ {Max(t)}] = G[t \ {Max(t)}]
      BY <1>1, <1>2, <3>2
    <3> QED BY <1>3, <2>3, <3>1, <3>3
  <2> QED BY <2>1, <2>2, <2>3
<1>7. H = [t \in SUBSET (1 .. m) |-> IF t = {} THEN Idle(b) ELSE Does(b, H[t \ {Max(t)}], Max(t))]
  BY <1>5, <1>6
<1>8. Behind(b, m, H)
  BY <1>7 DEF Behind
<1> QED BY <1>8 DEF m

LEMMA BehindExists == ASSUME NEW b, NEW n \in Nat PROVE \E G : Behind(b, n, G)
<1> DEFINE K == {m \in Nat : \E G : Behind(b, m, G)}
<1>1. 0 \in K
  <2> DEFINE G == [t \in SUBSET (1 .. 0) |-> Idle(b)]
  <2>1. SUBSET (1 .. 0) = {{}}
    OBVIOUS
  <2>2. G = [t \in SUBSET (1 .. 0) |-> IF t = {} THEN Idle(b) ELSE Does(b, G[t \ {Max(t)}], Max(t))]
    BY <2>1
  <2>3. Behind(b, 0, G)
    <3> HIDE DEF G
    <3> QED BY <2>2 DEF Behind
  <2> QED BY <2>3
<1>2. ASSUME NEW m \in K PROVE m + 1 \in K
  BY BehindMore
<1>3. K \subseteq Nat
  OBVIOUS
<1> HIDE DEF K
<1>4. K = Nat
  BY <1>1, <1>2, <1>3, AllNumbers
<1> QED BY <1>4 DEF K

Runs(b, w) == w[0] = Idle(b) /\ \A j \in DOMAIN b.body : w[j] = Does(b, w[j - 1], j)

LEMMA WrittenRuns ==
  ASSUME NEW b, Formed(b)
  PROVE  \E w : Runs(b, w) /\ AsWritten(b) = w[Len(b.body)]
<1> DEFINE n == Len(b.body)
           s == [i \in DOMAIN b.body |-> i]
           Folds(G) == G = [t \in SUBSET (DOMAIN s) |-> IF t = {} THEN Idle(b) ELSE Does(b, G[t \ {Max(t)}], s[Max(t)])]
           I == CHOOSE G : Folds(G)
<1>1. n \in Nat /\ DOMAIN b.body = 1 .. n /\ DOMAIN s = 1 .. n
  BY DEF Formed
<1>2. AsWritten(b) = I[DOMAIN s]
  BY DEF AsWritten, FoldLeft, MapThenFoldSet
<1>3. \A t \in SUBSET (1 .. n) : t # {} => Max(t) \in t
  BY <1>1, GreatestIn
<1>4. \A t \in SUBSET (1 .. n) : t # {} => s[Max(t)] = Max(t)
  BY <1>1, <1>3
<1>5. PICK H : Behind(b, n, H)
  BY <1>1, BehindExists
<1> HIDE DEF s
<1>6. Folds(H)
  <2>1. \A t \in SUBSET (1 .. n) : H[t] = IF t = {} THEN Idle(b) ELSE Does(b, H[t \ {Max(t)}], s[Max(t)])
    BY <1>4, <1>5 DEF Behind
  <2>2. H = [t \in SUBSET (1 .. n) |-> H[t]]
    BY <1>5 DEF Behind
  <2> QED BY <1>1, <2>1, <2>2
<1>7. Folds(I)
  <2> HIDE DEF Folds
  <2> QED BY <1>6
<1> HIDE DEF I
<1>8. \A t \in SUBSET (1 .. n) : I[t] = IF t = {} THEN Idle(b) ELSE Does(b, I[t \ {Max(t)}], Max(t))
  BY <1>1, <1>4, <1>7
<1> HIDE DEF Folds, n
<1> DEFINE w == [j \in 0 .. n |-> I[1 .. j]]
<1>9. 1 .. 0 = {} /\ 0 \in 0 .. n /\ n \in 0 .. n
  BY <1>1
<1>10. w[0] = Idle(b)
  BY <1>8, <1>9
<1>11. ASSUME NEW j \in 1 .. n PROVE w[j] = Does(b, w[j - 1], j)
  <2>0. n \in Nat
    BY <1>1
  <2>1. j \in 0 .. n /\ j - 1 \in 0 .. n /\ 1 .. j \in SUBSET (1 .. n) /\ 1 .. j # {}
    <3> HIDE DEF w
    <3> QED BY <2>0
  <2>2. Max(1 .. j) = j /\ (1 .. j) \ {Max(1 .. j)} = 1 .. (j - 1)
    BY <1>1, Shortened
  <2>3. I[1 .. j] = Does(b, I[1 .. (j - 1)], j)
    BY <1>8, <2>1, <2>2
  <2> QED BY <2>1, <2>3
<1>12. w[n] = I[DOMAIN s]
  BY <1>1, <1>9
<1> HIDE DEF w
<1> QED BY <1>1, <1>2, <1>10, <1>11, <1>12 DEF Runs, n

-----------------------------------------------------------------------------
(* What the calls of a set leave, whatever order they ran in: the values   *)
(* they have as written, and in a global that of the last that writes it.  *)

Effect(b, i)   == b.effects[b.body[i].fn]
Writers(b, g)  == {i \in DOMAIN b.body : g \in Effect(b, i).writes}
Newest(u)        == CHOOSE m \in u : \A k \in u : k <= m
InGlobal(b, w, D, g) ==
  LET u == Writers(b, g) \cap D IN IF u = {} THEN <<g>> ELSE <<g, w[Newest(u)].value[Newest(u)]>>
Leaves(b, w, D) ==
  [global |-> [g \in DOMAIN Idle(b).global |-> InGlobal(b, w, D, g)],
   local  |-> Idle(b).local,
   value  |-> [i \in DOMAIN b.body |-> IF i \in D THEN w[i].value[i] ELSE <<"undef">>]]

\* Nothing is kept in a local or hidden in another function.
Open(b) == \A i \in DOMAIN b.body : b.body[i].keep = NoName /\ Effect(b, i).hidden = {}

\* Of what call j depends on, what comes before it as written is in D, and nothing
\* else is.
Ready(b, D, j) ==
  /\ j \in DOMAIN b.body /\ j \notin D
  /\ \A i \in DOMAIN b.body : <<"call", i>> \in ToSet(b.body[j].args) => (i \in D <=> i < j)
  /\ \A g \in Globals(b, j) : \A i \in Writers(b, g) : i # j => (i \in D <=> i < j)

\* The value of call j.
Term(b, st, j) ==
  <<b.body[j].fn, [k \in DOMAIN b.body[j].args |-> Argument(st, b.body[j].args[k])],
    [g \in Effect(b, j).reads \cup Effect(b, j).hidden |-> st.global[g]]>>

LEMMA DoesIs ==
  ASSUME NEW b, NEW st, NEW j
  PROVE  Does(b, st, j) =
           [global |-> [g \in DOMAIN st.global |->
                          IF g \in Effect(b, j).writes \cup Effect(b, j).hidden THEN <<g, Term(b, st, j)>> ELSE st.global[g]],
            local  |-> [x \in DOMAIN st.local |-> IF x = b.body[j].keep THEN Term(b, st, j) ELSE st.local[x]],
            value  |-> [st.value EXCEPT ![j] = Term(b, st, j)]]
BY DEF Does, Term, Effect

LEMMA IdleIs ==
  ASSUME NEW b, Formed(b)
  PROVE  /\ Idle(b).local = [x \in {"x", "y"} |-> <<"undef">>]
         /\ Idle(b).value = [i \in DOMAIN b.body |-> <<"undef">>]
         /\ Idle(b).global = [g \in DOMAIN Idle(b).global |-> <<g>>]
         /\ Idle(b) = [global |-> Idle(b).global, local |-> Idle(b).local, value |-> Idle(b).value]
         /\ \A j \in DOMAIN b.body : Globals(b, j) \subseteq DOMAIN Idle(b).global
<1> DEFINE touched == UNION {b.effects[f].reads \cup b.effects[f].writes \cup b.effects[f].hidden : f \in DOMAIN b.effects}
<1>1. Idle(b) = [global |-> [g \in touched |-> <<g>>], local |-> [x \in {"x", "y"} |-> <<"undef">>],
                 value  |-> [i \in DOMAIN b.body |-> <<"undef">>]]
  BY DEF Idle
<1>2. ASSUME NEW j \in DOMAIN b.body PROVE Globals(b, j) \subseteq touched
  <2>1. b.body[j] \in ToSet(b.body)
    BY DEF ToSet
  <2>2. b.body[j].fn \in DOMAIN b.effects
    BY <2>1 DEF Formed
  <2> QED BY <2>2 DEF Globals
<1> HIDE DEF touched
<1> QED BY <1>1, <1>2

\* The same is known to call j behind any two sets that are ready for it.
LEMMA SameTerm ==
  ASSUME NEW b, Formed(b), Open(b), NEW w, NEW D, NEW E, NEW j, Ready(b, D, j), Ready(b, E, j)
  PROVE  Term(b, Leaves(b, w, D), j) = Term(b, Leaves(b, w, E), j)
<1> DEFINE s == Leaves(b, w, D)  t == Leaves(b, w, E)
<1>1. j \in DOMAIN b.body /\ Effect(b, j).hidden = {} /\ b.body[j] \in ToSet(b.body)
  BY DEF Open, Ready, ToSet
<1>2. s.local = t.local
  BY DEF Leaves
<1>3. ASSUME NEW k \in DOMAIN b.body[j].args
      PROVE  Argument(s, b.body[j].args[k]) = Argument(t, b.body[j].args[k])
  <2> DEFINE a == b.body[j].args[k]
  <2>1. a \in ToSet(b.body[j].args)
    BY DEF ToSet
  <2>2. CASE a[1] = "call"
    <3>1. PICK i \in DOMAIN b.body : a = <<"call", i>>
      BY <1>1, <2>1, <2>2 DEF Formed
    <3>2. i \in D <=> i \in E
      BY <2>1, <3>1 DEF Ready
    <3>3. s.value[i] = t.value[i]
      BY <3>2 DEF Leaves
    <3> QED BY <3>1, <3>3 DEF Argument
  <2>3. CASE a[1] # "call"
    BY <1>2, <2>3 DEF Argument
  <2> QED BY <2>2, <2>3
<1>4. ASSUME NEW g \in Effect(b, j).reads PROVE s.global[g] = t.global[g]
  <2>1. g \in Globals(b, j) /\ g \in DOMAIN Idle(b).global
    BY <1>1, IdleIs DEF Globals, Effect
  <2>2. Writers(b, g) \cap D = Writers(b, g) \cap E
    BY <2>1 DEF Ready
  <2>3. InGlobal(b, w, D, g) = InGlobal(b, w, E, g)
    BY <2>2 DEF InGlobal
  <2> QED BY <2>1, <2>3 DEF Leaves
<1> HIDE DEF s, t
<1>5. Term(b, s, j) = Term(b, t, j)
  <2>1. [k \in DOMAIN b.body[j].args |-> Argument(s, b.body[j].args[k])] = [k \in DOMAIN b.body[j].args |-> Argument(t, b.body[j].args[k])]
    BY <1>3
  <2>2. [g \in Effect(b, j).reads \cup Effect(b, j).hidden |-> s.global[g]] = [g \in Effect(b, j).reads \cup Effect(b, j).hidden |-> t.global[g]]
    BY <1>1, <1>4
  <2> QED BY <2>1, <2>2 DEF Term
<1> QED BY <1>5 DEF s, t

\* Call j runs behind D, with the value it has as written.
LEMMA OneMoreCall ==
  ASSUME NEW b, Formed(b), Open(b), NEW w, NEW D, D \subseteq DOMAIN b.body, NEW j, Ready(b, D, j),
         Term(b, Leaves(b, w, D), j) = w[j].value[j]
  PROVE  Does(b, Leaves(b, w, D), j) = Leaves(b, w, D \cup {j})
<1> DEFINE s == Leaves(b, w, D)  t == Leaves(b, w, D \cup {j})  v == Term(b, s, j)
<1>1. j \in DOMAIN b.body /\ Effect(b, j).hidden = {} /\ b.body[j].keep = NoName /\ DOMAIN b.body \subseteq Nat
  BY DEF Open, Ready, Formed
<1>2. /\ DOMAIN s.global = DOMAIN Idle(b).global /\ s.local = Idle(b).local /\ t.local = Idle(b).local
      /\ DOMAIN t.global = DOMAIN Idle(b).global
      /\ s.value = [i \in DOMAIN b.body |-> IF i \in D THEN w[i].value[i] ELSE <<"undef">>]
      /\ t.value = [i \in DOMAIN b.body |-> IF i \in D \cup {j} THEN w[i].value[i] ELSE <<"undef">>]
      /\ t = [global |-> t.global, local |-> t.local, value |-> t.value]
      /\ s.global = [g \in DOMAIN Idle(b).global |-> InGlobal(b, w, D, g)]
      /\ t.global = [g \in DOMAIN Idle(b).global |-> InGlobal(b, w, D \cup {j}, g)]
  BY DEF Leaves
<1>3. v = w[j].value[j]
  OBVIOUS
<1>4. ASSUME NEW g \in DOMAIN Idle(b).global
      PROVE  InGlobal(b, w, D \cup {j}, g) = IF g \in Effect(b, j).writes THEN <<g, v>> ELSE InGlobal(b, w, D, g)
  <2> DEFINE u == Writers(b, g) \cap (D \cup {j})
  <2>1. CASE g \notin Effect(b, j).writes
    <3>1. u = Writers(b, g) \cap D
      BY <2>1 DEF Writers
    <3> QED BY <2>1, <3>1 DEF InGlobal
  <2>2. CASE g \in Effect(b, j).writes
    <3>1. j \in u /\ g \in Globals(b, j)
      BY <1>1, <2>2 DEF Writers, Globals, Effect
    <3>2. \A i \in u : i \in Nat /\ i <= j
      BY <1>1, <3>1 DEF Ready, Writers
    <3>3. j \in Nat
      BY <1>1
    <3>4. \A m \in u : (\A k \in u : k <= m) => m = j
      BY <3>1, <3>2, <3>3
    <3> HIDE DEF u
    <3>5. Newest(u) = j
      BY <3>1, <3>2, <3>4 DEF Newest
    <3> QED BY <1>3, <2>2, <3>1, <3>5 DEF InGlobal, u
  <2> QED BY <2>1, <2>2
<1> HIDE DEF s, t, v
<1>5. [g \in DOMAIN s.global |-> IF g \in Effect(b, j).writes \cup Effect(b, j).hidden THEN <<g, v>> ELSE s.global[g]] = t.global
  <2>1. \A g \in DOMAIN Idle(b).global :
          (IF g \in Effect(b, j).writes \cup Effect(b, j).hidden THEN <<g, v>> ELSE s.global[g]) = InGlobal(b, w, D \cup {j}, g)
    <3>1. \A g \in DOMAIN Idle(b).global : s.global[g] = InGlobal(b, w, D, g)
      BY <1>2
    <3>2. \A g : g \in Effect(b, j).writes \cup Effect(b, j).hidden <=> g \in Effect(b, j).writes
      BY <1>1
    <3> QED BY <1>4, <3>1, <3>2
  <2> QED BY <1>2, <2>1
<1>6. [x \in DOMAIN s.local |-> IF x = b.body[j].keep THEN v ELSE s.local[x]] = t.local
  <2>1. Idle(b).local = [x \in {"x", "y"} |-> <<"undef">>]
    BY IdleIs
  <2>2. \A x \in {"x", "y"} : x # NoName
    BY DEF NoName
  <2> QED BY <1>1, <1>2, <2>1, <2>2
<1>7. [s.value EXCEPT ![j] = v] = t.value
  BY <1>1, <1>2, <1>3
<1>8. Does(b, s, j) =
        [global |-> [g \in DOMAIN s.global |->
                       IF g \in Effect(b, j).writes \cup Effect(b, j).hidden THEN <<g, v>> ELSE s.global[g]],
         local  |-> [x \in DOMAIN s.local |-> IF x = b.body[j].keep THEN v ELSE s.local[x]],
         value  |-> [s.value EXCEPT ![j] = v]]
  BY DoesIs DEF v
<1>9. Does(b, s, j) = t
  BY <1>2, <1>5, <1>6, <1>7, <1>8
<1> QED BY <1>9 DEF s, t

\* Behind the first calls as written is what these calls leave.
LEMMA WrittenLeaves ==
  ASSUME NEW b, Formed(b), Open(b), NEW w, Runs(b, w)
  PROVE  \A k \in 0 .. Len(b.body) : w[k] = Leaves(b, w, 1 .. k)
<1> DEFINE n == Len(b.body)
           K == {k \in Nat : k <= n => w[k] = Leaves(b, w, 1 .. k)}
<1>1. n \in Nat /\ DOMAIN b.body = 1 .. n
  BY DEF Formed
<1>2. 0 \in K
  <2>1. 1 .. 0 = {}
    OBVIOUS
  <2>2. \A g : InGlobal(b, w, {}, g) = <<g>>
    BY DEF InGlobal
  <2>3. Leaves(b, w, {}) = Idle(b)
    <3>1. [g \in DOMAIN Idle(b).global |-> InGlobal(b, w, {}, g)] = Idle(b).global
      <4>1. Idle(b).global = [g \in DOMAIN Idle(b).global |-> <<g>>]
        BY IdleIs
      <4> QED BY <2>2, <4>1
    <3>2. [i \in DOMAIN b.body |-> IF i \in {} THEN w[i].value[i] ELSE <<"undef">>] = Idle(b).value
      <4>1. Idle(b).value = [i \in DOMAIN b.body |-> <<"undef">>]
        BY IdleIs
      <4> QED BY <4>1
    <3>3. Leaves(b, w, {}) = [global |-> Idle(b).global, local |-> Idle(b).local, value |-> Idle(b).value]
      BY <3>1, <3>2 DEF Leaves
    <3> QED BY <3>3, IdleIs
  <2> QED BY <2>1, <2>3 DEF Runs
<1>3. ASSUME NEW k \in K PROVE k + 1 \in K
  <2> SUFFICES ASSUME k + 1 <= n PROVE w[k + 1] = Leaves(b, w, 1 .. k + 1)
    OBVIOUS
  <2> DEFINE j == k + 1
  <2>1. k \in Nat /\ j \in DOMAIN b.body /\ j - 1 = k /\ 1 .. k \subseteq DOMAIN b.body /\ (1 .. k) \cup {j} = 1 .. j
    BY <1>1
  <2>2. w[k] = Leaves(b, w, 1 .. k)
    BY <1>1, <2>1
  <2>3. w[j] = Does(b, Leaves(b, w, 1 .. k), j)
    BY <2>1, <2>2 DEF Runs
  <2>4. Ready(b, 1 .. k, j)
    <3>1. \A i \in DOMAIN b.body : i \in 1 .. k <=> i < j
      BY <1>1, <2>1
    <3>2. j \notin 1 .. k
      BY <2>1
    <3>3. \A g : Writers(b, g) \subseteq DOMAIN b.body
      BY DEF Writers
    <3> QED BY <2>1, <3>1, <3>2, <3>3 DEF Ready
  <2> HIDE DEF j
  <2>5. Term(b, Leaves(b, w, 1 .. k), j) = w[j].value[j]
    <3>1. DOMAIN Leaves(b, w, 1 .. k).value = DOMAIN b.body
      BY DEF Leaves
    <3>2. w[j].value = [Leaves(b, w, 1 .. k).value EXCEPT ![j] = Term(b, Leaves(b, w, 1 .. k), j)]
      BY <2>3, DoesIs
    <3> QED BY <2>1, <3>1, <3>2
  <2>6. w[j] = Leaves(b, w, (1 .. k) \cup {j})
    <3> DEFINE D == 1 .. k
    <3>1. D \subseteq DOMAIN b.body /\ Ready(b, D, j) /\ Term(b, Leaves(b, w, D), j) = w[j].value[j]
      BY <2>1, <2>4, <2>5
    <3> HIDE DEF D
    <3>2. Does(b, Leaves(b, w, D), j) = Leaves(b, w, D \cup {j})
      BY <3>1, OneMoreCall
    <3> QED BY <2>3, <3>2 DEF D
  <2> QED BY <2>1, <2>6 DEF j
<1>4. K \subseteq Nat
  OBVIOUS
<1> HIDE DEF K
<1>5. K = Nat
  BY <1>2, <1>3, <1>4, AllNumbers
<1> QED BY <1>1, <1>5 DEF K

\* A call that is ready has the value it has as written.
LEMMA ReadyCall ==
  ASSUME NEW b, Formed(b), Open(b), NEW w, Runs(b, w), NEW D, D \subseteq DOMAIN b.body, NEW j, Ready(b, D, j)
  PROVE  Does(b, Leaves(b, w, D), j) = Leaves(b, w, D \cup {j})
<1> DEFINE E == 1 .. (j - 1)
<1>1. /\ DOMAIN b.body = 1 .. Len(b.body) /\ Len(b.body) \in Nat /\ j \in DOMAIN b.body
      /\ \A g : Writers(b, g) \subseteq DOMAIN b.body
  BY DEF Formed, Ready, Writers
<1>2. j - 1 \in 0 .. Len(b.body) /\ j \notin E /\ \A i \in DOMAIN b.body : i \in E <=> i < j
  BY <1>1
<1>3. Ready(b, E, j)
  BY <1>1, <1>2 DEF Ready
<1>4. w[j - 1] = Leaves(b, w, E)
  BY <1>2, WrittenLeaves
<1>5. w[j] = Does(b, Leaves(b, w, E), j)
  BY <1>1, <1>4 DEF Runs
<1>6. w[j].value[j] = Term(b, Leaves(b, w, E), j)
  <2>1. DOMAIN Leaves(b, w, E).value = DOMAIN b.body
    BY DEF Leaves
  <2>2. w[j].value = [Leaves(b, w, E).value EXCEPT ![j] = Term(b, Leaves(b, w, E), j)]
    BY <1>5, DoesIs
  <2> QED BY <1>1, <2>1, <2>2
<1>7. Term(b, Leaves(b, w, D), j) = Term(b, Leaves(b, w, E), j)
  BY <1>3, SameTerm
<1>8. Term(b, Leaves(b, w, D), j) = w[j].value[j]
  BY <1>6, <1>7
<1> HIDE DEF E
<1> QED BY <1>8, OneMoreCall

-----------------------------------------------------------------------------
(* What the checks let pass is ready, stage by stage.                      *)

\* A block that was found right, as far as the checks see.
Passed(b) == Formed(b) /\ Visible(b) /\ ~ b.pipeline /\ Diagnostics(b) = {}

\* Every call is of one operation, and belongs to a stage.
LEMMA CallsAreOperations ==
  ASSUME NEW b, Passed(b)
  PROVE  /\ Staged(b) = DOMAIN b.body
         /\ \A i \in DOMAIN b.body : \E k \in DOMAIN b.ops :
              b.ops[k].fn = b.body[i].fn /\ b.ops[k].stage = StageAt(b, i) /\ StageAt(b, i) \in Nat
<1>1. Topo(b) = DOMAIN b.body /\ \A k, l \in DOMAIN b.ops : b.ops[k].fn = b.ops[l].fn => k = l
  BY DEF Passed, Visible
<1>2. \A f \in CalledOps(b) : f \in DeclaredOps(b)
  <2>1. Inconsistent(b) = {}
    BY DEF Passed, Diagnostics
  <2>2. {<<"not declared", f>> : f \in CalledOps(b) \ DeclaredOps(b)} = {}
    BY <2>1 DEF Inconsistent, Passed
  <2> QED BY <2>2
<1>3. ASSUME NEW i \in DOMAIN b.body PROVE b.body[i].fn \in DeclaredOps(b)
  BY <1>1, <1>2 DEF CalledOps
<1>4. ASSUME NEW i \in DOMAIN b.body
      PROVE  \E k \in DOMAIN b.ops : b.ops[k].fn = b.body[i].fn /\ b.ops[k].stage = StageAt(b, i) /\ StageAt(b, i) \in Nat
  <2>1. PICK k \in DOMAIN b.ops : b.ops[k].fn = b.body[i].fn
    BY <1>3 DEF DeclaredOps, ToSet
  <2> DEFINE at == {l \in DOMAIN b.ops : b.ops[l].fn = b.body[i].fn}
  <2>2. at = {k} /\ k \in Nat
    <3>1. DOMAIN b.ops \subseteq Nat
      BY DEF Passed, Formed
    <3> QED BY <1>1, <2>1, <3>1
  <2>3. (CHOOSE l \in at : \A m \in at : m <= l) = k
    <3> HIDE DEF at
    <3> QED BY <2>2
  <2>4. b.ops[k].stage = StageAt(b, i)
    BY <2>3 DEF StageAt, StageOf
  <2>5. b.ops[k] \in ToSet(b.ops)
    BY DEF ToSet
  <2> QED BY <2>1, <2>4, <2>5 DEF Passed, Formed
<1> QED BY <1>1, <1>3, <1>4 DEF Staged

\* The text calls the stages in order.
LEMMA StagesInOrder ==
  ASSUME NEW b, Passed(b), NEW i \in DOMAIN b.body, NEW j \in DOMAIN b.body, i < j
  PROVE  StageAt(b, i) <= StageAt(b, j)
<1>1. i \in Staged(b) /\ j \in Staged(b) /\ StageAt(b, i) \in Nat /\ StageAt(b, j) \in Nat
  BY CallsAreOperations
<1>2. Earlier(b, i, j)
  BY DEF Passed, Visible
<1>3. \A k \in Staged(b) : ~ (Earlier(b, i, k) /\ StageAt(b, k) < StageAt(b, i))
  <2>1. Disordered(b) = {}
    BY DEF Passed, Diagnostics
  <2> QED BY <1>1, <2>1 DEF Disordered
<1> QED BY <1>1, <1>2, <1>3

\* Two calls of one stage are a pair the checks look at.
LEMMA SideBySide ==
  ASSUME NEW b, Passed(b), NEW i \in DOMAIN b.body, NEW j \in DOMAIN b.body, i < j, StageAt(b, i) = StageAt(b, j)
  PROVE  <<i, j>> \in Pairs(b)
<1>1. PICK k \in DOMAIN b.ops : b.ops[k].fn = b.body[i].fn /\ b.ops[k].stage = StageAt(b, i)
  BY CallsAreOperations
<1>2. PICK l \in DOMAIN b.ops : b.ops[l].fn = b.body[j].fn /\ b.ops[l].stage = StageAt(b, i)
  BY CallsAreOperations
<1> DEFINE s == StageAt(b, i)
           wide == {m \in DOMAIN b.ops : b.ops[m].stage = s}
<1>3. /\ Topo(b) = DOMAIN b.body /\ ~ b.pipeline /\ DOMAIN b.body \subseteq Nat
      /\ b.ops[k] \in ToSet(b.ops) /\ b.ops[l] \in ToSet(b.ops)
  <2>1. b.ops[k] \in ToSet(b.ops) /\ b.ops[l] \in ToSet(b.ops)
    BY DEF ToSet
  <2>2. DOMAIN b.body \subseteq Nat
    BY DEF Passed, Formed
  <2> QED BY <2>1, <2>2 DEF Passed, Visible
<1>4. k # l
  BY <1>1, <1>2, <1>3 DEF Passed, Visible
<1>5. Cardinality(wide) >= 2
  <2>1. IsFiniteSet(wide)
    <3>1. Len(b.ops) \in Nat /\ DOMAIN b.ops = 1 .. Len(b.ops)
      BY DEF Passed, Formed
    <3>2. IsFiniteSet(DOMAIN b.ops)
      BY <3>1, FS_Interval
    <3> QED BY <3>2, FS_Subset
  <2>2. IsFiniteSet({k}) /\ Cardinality({k}) = 1
    BY FS_Singleton
  <2>3. Cardinality({k} \cup {l}) = 2
    <3>1. l \notin {k}
      BY <1>4
    <3>2. Cardinality({k} \cup {l}) = Cardinality({k}) + 1
      <4>1. \A S, x : IsFiniteSet(S) /\ x \notin S => Cardinality(S \cup {x}) = Cardinality(S) + 1
        BY FS_AddElement
      <4> QED BY <2>2, <3>1, <4>1
    <3> QED BY <2>2, <3>2
  <2>4. {k} \cup {l} \in SUBSET wide
    BY <1>1, <1>2
  <2>5. Cardinality({k} \cup {l}) <= Cardinality(wide) /\ Cardinality(wide) \in Nat
    <3> HIDE DEF wide
    <3> QED BY <2>1, <2>4, FS_Subset, FS_CardinalityType
  <2> QED BY <2>3, <2>5
<1>6. s \in WideStages(b)
  BY <1>1, <1>3, <1>5 DEF WideStages
<1>7. \A m \in {i, j} : \E o \in ToSet(b.ops) : o.fn = b.body[m].fn /\ o.stage = s
  BY <1>1, <1>2, <1>3
<1> QED BY <1>3, <1>6, <1>7 DEF Pairs

\* Two calls of one stage do not use each other's value or write what the other uses.
LEMMA Independent ==
  ASSUME NEW b, Passed(b), NEW i \in DOMAIN b.body, NEW j \in DOMAIN b.body, i # j, StageAt(b, i) = StageAt(b, j)
  PROVE  /\ <<"call", i>> \notin ToSet(b.body[j].args)
         /\ \A g \in Globals(b, j) : i \notin Writers(b, g)
<1>1. Dependent(b) = {} /\ Racing(b) = {}
  BY DEF Passed, Diagnostics
<1>2. PICK p \in Pairs(b) : p = <<i, j>> \/ p = <<j, i>>
  <2>1. i \in Nat /\ j \in Nat
    BY DEF Passed, Formed
  <2>2. i < j \/ j < i
    BY <2>1
  <2> QED BY <2>2, SideBySide
<1>3. <<"call", i>> \notin ToSet(b.body[j].args)
  <2>1. ASSUME <<"call", i>> \in ToSet(b.body[j].args) PROVE <<"dependency", p>> \in Dependent(b)
    <3>1. \/ <<"call", p[1]>> \in ToSet(b.body[p[2]].args)
          \/ <<"call", p[2]>> \in ToSet(b.body[p[1]].args)
      BY <1>2, <2>1
    <3> QED BY <3>1 DEF Dependent
  <2> QED BY <1>1, <2>1
<1>4. ASSUME NEW g \in Globals(b, j), i \in Writers(b, g) PROVE FALSE
  <2>1. g \in Globals(b, i) /\ Effect(b, i).writes # {}
    BY <1>4 DEF Writers, Globals, Effect
  <2>2. b.body[i] \in ToSet(b.body)
    BY DEF ToSet
  <2>3. ~ Effect(b, i).readonly
    BY <2>1, <2>2 DEF Passed, Formed, Effect
  <2>4. Effect(b, i).defined /\ Effect(b, j).defined
    BY DEF Passed, Visible, Effect
  <2>5. Globals(b, p[1]) \cap Globals(b, p[2]) # {} /\ {p[1], p[2]} = {i, j}
    BY <1>2, <1>4, <2>1
  <2>6. <<"race", p>> \in Racing(b)
    BY <1>2, <2>3, <2>4, <2>5 DEF Racing, Effect
  <2> QED BY <1>1, <2>6
<1> QED BY <1>3, <1>4

\* What has run is not of a later stage than what has not.
Foremost(b, D) == D \subseteq DOMAIN b.body /\ \A i \in D, k \in DOMAIN b.body \ D : StageAt(b, i) <= StageAt(b, k)

LEMMA NextIsReady ==
  ASSUME NEW b, Passed(b), NEW D, Foremost(b, D), NEW j \in DOMAIN b.body \ D,
         \A k \in DOMAIN b.body \ D : StageAt(b, j) <= StageAt(b, k)
  PROVE  Ready(b, D, j) /\ Foremost(b, D \cup {j})
<1>1. /\ \A i \in DOMAIN b.body : StageAt(b, i) \in Nat
      /\ DOMAIN b.body \subseteq Nat
  BY CallsAreOperations DEF Passed, Formed
<1>2. ASSUME NEW i \in DOMAIN b.body, StageAt(b, i) # StageAt(b, j) PROVE i \in D <=> i < j
  <2>1. CASE i < j
    <3>1. StageAt(b, i) <= StageAt(b, j)
      BY <2>1, StagesInOrder
    <3> QED BY <1>1, <1>2, <2>1, <3>1
  <2>2. CASE j < i
    <3>1. StageAt(b, j) <= StageAt(b, i)
      BY <2>2, StagesInOrder
    <3>2. ~ (i < j)
      BY <1>1, <2>2
    <3> QED BY <1>1, <1>2, <3>1, <3>2 DEF Foremost
  <2> QED BY <1>1, <1>2, <2>1, <2>2
<1>3. ASSUME NEW i \in DOMAIN b.body, <<"call", i>> \in ToSet(b.body[j].args) PROVE i \in D <=> i < j
  <2>1. CASE i = j
    BY <1>1, <2>1
  <2>2. CASE i # j
    BY <1>2, <1>3, <2>2, Independent
  <2> QED BY <2>1, <2>2
<1>4. ASSUME NEW g \in Globals(b, j), NEW i \in Writers(b, g), i # j PROVE i \in D <=> i < j
  <2>1. i \in DOMAIN b.body
    BY DEF Writers
  <2> QED BY <1>2, <1>4, <2>1, Independent
<1>5. Foremost(b, D \cup {j})
  BY <1>1 DEF Foremost
<1> QED BY <1>3, <1>4, <1>5 DEF Ready

-----------------------------------------------------------------------------
(* The run of a block.                                                     *)

\* What has run has left what it leaves as written.
RunOk ==
  Foremost(block, done) /\ \A w : Runs(block, w) => world = Leaves(block, w, done)

BlockInv ==
  /\ block \in LogicBlocks /\ blockPc \in {"verify", "run"}
  /\ blockPc = "verify" => done = {} /\ world = Idle(block)
  /\ blockPc = "run" => verdict = Diagnostics(block) /\ (Passed(block) => RunOk)

LEMMA NothingRan ==
  ASSUME NEW b, Formed(b), Open(b)
  PROVE  Foremost(b, {}) /\ \A w : Runs(b, w) => Idle(b) = Leaves(b, w, {})
<1>1. ASSUME NEW w, Runs(b, w) PROVE Idle(b) = Leaves(b, w, {})
  <2>1. 0 \in 0 .. Len(b.body) /\ 1 .. 0 = {}
    BY DEF Formed
  <2>2. w[0] = Leaves(b, w, 1 .. 0)
    BY <1>1, <2>1, WrittenLeaves
  <2> QED BY <1>1, <2>1, <2>2 DEF Runs
<1> QED BY <1>1 DEF Foremost

LEMMA PassedIsOpen == ASSUME NEW b, Passed(b) PROVE Formed(b) /\ Open(b)
BY DEF Passed, Visible, Open, Effect

LEMMA BlockSteps == ASSUME BlockInv, [BlockNext]_blockVars PROVE BlockInv'
<1>1. CASE VerifyBlock
  <2>1. /\ blockPc = "verify" /\ blockPc' = "run" /\ verdict' = Diagnostics(block)
        /\ block' = block /\ done' = {} /\ world' = Idle(block)
    BY <1>1 DEF VerifyBlock, BlockInv
  <2>2. ASSUME Passed(block) PROVE RunOk'
    <3>1. Foremost(block, {}) /\ \A w : Runs(block, w) => Idle(block) = Leaves(block, w, {})
      BY <2>2, NothingRan, PassedIsOpen
    <3> QED BY <2>1, <3>1 DEF RunOk
  <2> QED BY <2>1, <2>2 DEF BlockInv
<1>2. CASE RunCall
  <2>1. PICK i \in Staged(block) \ done :
          /\ \A j \in Staged(block) \ done : StageAt(block, i) <= StageAt(block, j)
          /\ world' = Does(block, world, i) /\ done' = done \cup {i}
    BY <1>2 DEF RunCall
  <2>2. blockPc = "run" /\ blockPc' = "run" /\ block' = block /\ verdict' = verdict
    BY <1>2 DEF RunCall
  <2>3. ASSUME Passed(block) PROVE RunOk'
    <3>1. RunOk /\ Staged(block) = DOMAIN block.body /\ Formed(block) /\ Open(block)
      BY <2>2, <2>3, CallsAreOperations, PassedIsOpen DEF BlockInv
    <3>2. Ready(block, done, i) /\ Foremost(block, done \cup {i})
      BY <2>1, <2>3, <3>1, NextIsReady DEF RunOk
    <3>3. ASSUME NEW w, Runs(block, w) PROVE world' = Leaves(block, w, done \cup {i})
      <4>1. world = Leaves(block, w, done) /\ done \subseteq DOMAIN block.body
        BY <3>1, <3>3 DEF RunOk, Foremost
      <4>2. Does(block, Leaves(block, w, done), i) = Leaves(block, w, done \cup {i})
        BY <3>1, <3>2, <3>3, <4>1, ReadyCall
      <4> QED BY <2>1, <4>1, <4>2
    <3> QED BY <2>1, <2>2, <3>2, <3>3 DEF RunOk
  <2> QED BY <2>2, <2>3 DEF BlockInv
<1>3. CASE UNCHANGED blockVars
  BY <1>3 DEF blockVars, BlockInv, RunOk
<1> QED BY <1>1, <1>2, <1>3 DEF BlockNext, BlockOver

LEMMA RanAsWritten == ASSUME BlockInv PROVE StagesCommute
<1> SUFFICES ASSUME blockPc = "run", verdict = {}, Visible(block), ~ block.pipeline, done = Staged(block)
             PROVE  Staged(block) = DOMAIN block.body /\ world = AsWritten(block)
  BY DEF StagesCommute
<1>1. Passed(block) /\ RunOk
  BY BlockAssumption DEF BlockInv, Passed
<1>2. Staged(block) = DOMAIN block.body /\ Formed(block) /\ Open(block)
  BY <1>1, CallsAreOperations, PassedIsOpen
<1>3. PICK w : Runs(block, w) /\ AsWritten(block) = w[Len(block.body)]
  BY <1>2, WrittenRuns
<1>4. Len(block.body) \in 0 .. Len(block.body) /\ DOMAIN block.body = 1 .. Len(block.body)
  BY <1>2 DEF Formed
<1>5. w[Len(block.body)] = Leaves(block, w, DOMAIN block.body)
  BY <1>2, <1>3, <1>4, WrittenLeaves
<1>6. world = Leaves(block, w, DOMAIN block.body)
  BY <1>1, <1>2, <1>3 DEF RunOk
<1> QED BY <1>2, <1>3, <1>5, <1>6

\* A body that the checks find nothing in computes, stage by stage and in any order within a stage, what it computes
\* as written: for all blocks, however many operations, stages and globals.
THEOREM StagesAreIndependent == BlockSpec => []StagesCommute
<1>1. BlockInit => BlockInv
  BY DEF BlockInit, BlockInitFrom, BlockInv
<1>2. BlockInv /\ [BlockNext]_blockVars => BlockInv'
  BY BlockSteps
<1>3. BlockInv => StagesCommute
  BY RanAsWritten
<1> QED BY <1>1, <1>2, <1>3, PTL DEF BlockSpec

-----------------------------------------------------------------------------
(* Signatures: parameters of one register each.                            *)

\* One sequence behind another.
LEMMA Joined ==
  ASSUME NEW V, NEW a \in Seq(V), NEW b \in Seq(V)
  PROVE  /\ a \o b \in Seq(V) /\ Len(a \o b) = Len(a) + Len(b)
         /\ \A k \in 1 .. Len(a) : (a \o b)[k] = a[k]
         /\ \A k \in 1 .. Len(b) : (a \o b)[Len(a) + k] = b[k]
OBVIOUS

\* Sequences are put one behind the other.
LEMMA FlattenWalks ==
  ASSUME NEW V, NEW n \in Nat, NEW q \in [1 .. n -> Seq(V)]
  PROVE  \E w \in [0 .. n -> Seq(V)] :
           w[0] = << >> /\ (\A i \in 1 .. n : w[i] = w[i - 1] \o q[i]) /\ FlattenSeq(q) = w[n]
<1>1. q \in Seq(Seq(V)) /\ Len(q) = n /\ << >> \in Seq(V)
  OBVIOUS
<1> DEFINE F == [p \in Seq(V) \X (1 .. n) |-> p[1] \o q[p[2]]]
<1>2. F \in [Seq(V) \X (1 .. n) -> Seq(V)]
  <2>1. ASSUME NEW p \in Seq(V) \X (1 .. n) PROVE p[1] \o q[p[2]] \in Seq(V)
    <3>1. p[1] \in Seq(V) /\ q[p[2]] \in Seq(V)
      OBVIOUS
    <3> QED BY <3>1
  <2> QED BY <2>1
<1>3. \A a \in Seq(V), j \in 1 .. n : F[<<a, j>>] = a \o q[j]
  OBVIOUS
<1> HIDE DEF F
<1>4. PICK G \in [SUBSET (1 .. n) -> Seq(V)] : Folding(n, << >>, F, G)
  BY <1>1, <1>2, FoldingExists
<1> DEFINE w == [i \in 0 .. n |-> G[1 .. i]]
<1>5. w \in [0 .. n -> Seq(V)]
  BY <1>4
<1>6. Walk(n, << >>, F, w)
  BY <1>4, FoldWalks
<1> HIDE DEF w
<1>7. w[0] = << >> /\ \A i \in 1 .. n : w[i] = F[<<w[i - 1], i>>]
  BY <1>6 DEF Walk
<1>8. ASSUME NEW i \in 1 .. n PROVE w[i] = w[i - 1] \o q[i]
  <2>1. i - 1 \in 0 .. n
    OBVIOUS
  <2>2. w[i - 1] \in Seq(V)
    BY <1>5, <2>1
  <2> QED BY <1>3, <1>7, <2>2
<1>9. FlattenSeq(q) = w[n]
  <2>1. CASE n = 0
    <3>1. FlattenSeq(q) = q
      BY <1>1, <2>1 DEF FlattenSeq
    <3>2. q = << >>
      BY <1>1, <2>1
    <3> QED BY <1>7, <2>1, <3>1, <3>2
  <2>2. CASE n # 0
    <3> DEFINE Joins(J) == J = [i \in 1 .. n |-> IF i = 1 THEN q[i] ELSE J[i - 1] \o q[i]]
               f == CHOOSE J : Joins(J)
               H == [i \in 1 .. n |-> w[i]]
    <3>1. FlattenSeq(q) = f[n]
      BY <1>1, <2>2 DEF FlattenSeq
    <3>2. ASSUME NEW i \in 1 .. n PROVE w[i] = IF i = 1 THEN q[i] ELSE H[i - 1] \o q[i]
      <4>1. CASE i = 1
        <5>1. i - 1 = 0 /\ q[i] \in Seq(V)
          BY <4>1
        <5>2. w[i] = << >> \o q[i]
          BY <1>7, <1>8, <5>1
        <5>3. << >> \o q[i] = q[i]
          BY <5>1
        <5> QED BY <4>1, <5>2, <5>3
      <4>2. CASE i # 1
        <5>1. i - 1 \in 1 .. n
          BY <4>2
        <5> QED BY <1>8, <4>2, <5>1
      <4> QED BY <4>1, <4>2
    <3>3. Joins(H)
      BY <3>2
    <3> HIDE DEF Joins
    <3>4. Joins(f)
      BY <3>3
    <3> HIDE DEF f
    <3>5. \A i \in 1 .. n : f[i] = IF i = 1 THEN q[i] ELSE f[i - 1] \o q[i]
      BY <3>4 DEF Joins
    <3> DEFINE K == {i \in Nat : i \in 1 .. n => f[i] = w[i]}
    <3>6. 0 \in K
      OBVIOUS
    <3>7. ASSUME NEW i \in K PROVE i + 1 \in K
      <4>1. CASE i + 1 \in 1 .. n /\ i # 0
        <5>1. i \in 1 .. n /\ (i + 1) - 1 = i /\ i + 1 # 1 /\ i + 1 \in Nat
          BY <4>1
        <5>2. f[i + 1] = f[i] \o q[i + 1] /\ w[i + 1] = w[i] \o q[i + 1]
          <6>1. \A j \in 1 .. n : j # 1 => f[j] = f[j - 1] \o q[j] /\ w[j] = w[j - 1] \o q[j]
            BY <1>8, <3>5
          <6> QED BY <4>1, <5>1, <6>1
        <5> QED BY <5>1, <5>2
      <4>2. CASE i + 1 \in 1 .. n /\ i = 0
        <5>1. 1 \in 1 .. n /\ i + 1 = 1
          BY <4>2
        <5> HIDE DEF H
        <5>2. f[1] = q[1] /\ w[1] = q[1]
          BY <3>2, <3>5, <5>1
        <5> QED BY <5>1, <5>2
      <4> QED BY <4>1, <4>2
    <3>8. K = Nat
      <4>1. K \in SUBSET Nat
        OBVIOUS
      <4> HIDE DEF K
      <4> QED BY <3>6, <3>7, <4>1, AllNumbers
    <3>9. f[n] = w[n]
      <4>1. n \in K
        <5> HIDE DEF K
        <5> QED BY <3>8
      <4>2. n \in 1 .. n
        BY <2>2
      <4> QED BY <4>1, <4>2
    <3> QED BY <3>1, <3>9
  <2> QED BY <2>1, <2>2
<1> QED BY <1>5, <1>7, <1>8, <1>9

\* They make a sequence.
LEMMA FlattenIsSeq ==
  ASSUME NEW V, NEW n \in Nat, NEW q \in [1 .. n -> Seq(V)]
  PROVE  FlattenSeq(q) \in Seq(V)
<1>1. PICK w \in [0 .. n -> Seq(V)] :
        w[0] = << >> /\ (\A i \in 1 .. n : w[i] = w[i - 1] \o q[i]) /\ FlattenSeq(q) = w[n]
  BY FlattenWalks
<1>2. n \in 0 .. n
  OBVIOUS
<1> QED BY <1>1, <1>2

\* If they have one element each, the sequence of those.
LEMMA FlattenOnes ==
  ASSUME NEW n \in Nat, NEW V, NEW q \in [1 .. n -> Seq(V)], \A i \in 1 .. n : Len(q[i]) = 1
  PROVE  FlattenSeq(q) \in Seq(V) /\ Len(FlattenSeq(q)) = n /\ \A i \in 1 .. n : FlattenSeq(q)[i] = q[i][1]
<1>1. PICK w \in [0 .. n -> Seq(V)] :
        w[0] = << >> /\ (\A i \in 1 .. n : w[i] = w[i - 1] \o q[i]) /\ FlattenSeq(q) = w[n]
  BY FlattenWalks
<1> DEFINE K == {i \in Nat : i <= n => Len(w[i]) = i /\ \A k \in 1 .. i : w[i][k] = q[k][1]}
<1>2. 0 \in K
  BY <1>1
<1>3. ASSUME NEW i \in K PROVE i + 1 \in K
  <2> SUFFICES ASSUME i + 1 <= n PROVE Len(w[i + 1]) = i + 1 /\ \A k \in 1 .. i + 1 : w[i + 1][k] = q[k][1]
    OBVIOUS
  <2> DEFINE a == w[i]
             b == q[i + 1]
  <2>1. i \in Nat /\ i + 1 \in 1 .. n /\ i \in 0 .. n /\ (i + 1) - 1 = i
    OBVIOUS
  <2>2. a \in Seq(V) /\ Len(a) = i /\ \A k \in 1 .. i : a[k] = q[k][1]
    BY <2>1
  <2>3. b \in Seq(V) /\ Len(b) = 1 /\ b[1] = q[i + 1][1]
    BY <2>1
  <2>4. w[i + 1] = a \o b
    BY <1>1, <2>1
  <2> HIDE DEF a, b
  <2>5. /\ Len(a \o b) = i + 1
        /\ \A k \in 1 .. i : (a \o b)[k] = a[k]
        /\ (a \o b)[i + 1] = b[1]
    <3>1. \A x, y \in Seq(V) : /\ Len(x \o y) = Len(x) + Len(y)
                               /\ \A k \in 1 .. Len(x) : (x \o y)[k] = x[k]
                               /\ \A k \in 1 .. Len(y) : (x \o y)[Len(x) + k] = y[k]
      <4> SUFFICES ASSUME NEW x \in Seq(V), NEW y \in Seq(V)
                   PROVE  /\ Len(x \o y) = Len(x) + Len(y)
                          /\ \A k \in 1 .. Len(x) : (x \o y)[k] = x[k]
                          /\ \A k \in 1 .. Len(y) : (x \o y)[Len(x) + k] = y[k]
        OBVIOUS
      <4>1. Len(x \o y) = Len(x) + Len(y)
        OBVIOUS
      <4>2. \A k \in 1 .. Len(x) : (x \o y)[k] = x[k]
        OBVIOUS
      <4>3. \A k \in 1 .. Len(y) : (x \o y)[Len(x) + k] = y[k]
        OBVIOUS
      <4> QED BY <4>1, <4>2, <4>3
    <3>2. 1 \in 1 .. Len(b)
      BY <2>3
    <3>3. /\ Len(a \o b) = Len(a) + Len(b)
          /\ \A k \in 1 .. Len(a) : (a \o b)[k] = a[k]
          /\ \A k \in 1 .. Len(b) : (a \o b)[Len(a) + k] = b[k]
      BY <2>2, <2>3, <3>1
    <3>4. (a \o b)[Len(a) + 1] = b[1]
      BY <3>2, <3>3
    <3> QED BY <2>2, <2>3, <3>3, <3>4
  <2>6. \A k \in 1 .. i + 1 : k = i + 1 \/ k \in 1 .. i
    BY <2>1
  <2> QED BY <2>2, <2>3, <2>4, <2>5, <2>6
<1>4. K = Nat
  <2>1. K \in SUBSET Nat
    OBVIOUS
  <2> HIDE DEF K
  <2> QED BY <1>2, <1>3, <2>1, AllNumbers
<1>5. w[n] \in Seq(V) /\ Len(w[n]) = n /\ \A k \in 1 .. n : w[n][k] = q[k][1]
  <2>1. n \in K
    <3> HIDE DEF K
    <3> QED BY <1>4
  <2>2. n <= n /\ n \in 0 .. n
    OBVIOUS
  <2> QED BY <2>1, <2>2
<1> QED BY <1>1, <1>5

\* The parameters of a function that was compiled: those no declaration lists, and
\* then one for each that it does, if none was split.
LEMMA CompiledIs ==
  ASSUME NEW w, w.params \in Seq(ToSet(w.params)), w.object \in BOOLEAN, NEW c \in Lowered(w), ~ c.split
  PROVE  /\ c.sret \in BOOLEAN /\ Len(w.params) \in Nat /\ DOMAIN w.params = 1 .. Len(w.params)
         /\ Len(c.args) = HiddenResult(c) + (IF w.object THEN 1 ELSE 0) + Len(w.params)
         /\ w.object => c.args[1 + HiddenResult(c)] = "ptr"
         /\ \A i \in 1 .. Len(w.params) :
              <<c.args[HiddenResult(c) + (IF w.object THEN 1 ELSE 0) + i]>> \in AsParams(w.params[i])
         /\ [ret |-> c.ret, sret |-> c.sret] \in Results(w)
<1> DEFINE n == Len(w.params)
<1>1. n \in Nat /\ DOMAIN w.params = 1 .. n
  OBVIOUS
<1>2. PICK r \in Results(w), p \in Chosen(w) : c = Function(w, r, p)
  BY DEF Lowered
<1> DEFINE F == FlattenSeq([i \in DOMAIN w.params |-> p[i]])
<1>3. c.args = Pointer(r.sret) \o Pointer(w.object) \o F /\ c.sret = r.sret /\ c.ret = r.ret /\ \A i \in 1 .. n : Len(p[i]) = 1
  BY <1>1, <1>2 DEF Function
<1> HIDE DEF F
<1> HIDE DEF n
<1>4. \A t : \A s \in AsParams(t) : s \in Seq({"ptr", "i64", "double"} \cup Scalars(t))
  <2>1. ASSUME NEW t, NEW s \in AsParams(t), Scalars(t) # {} PROVE s \in Seq({"ptr", "i64", "double"} \cup Scalars(t))
    <3>1. PICK x \in Scalars(t) : s = <<x>>
      BY <2>1 DEF AsParams
    <3> QED BY <3>1
  <2>2. ASSUME NEW t, NEW s \in AsParams(t), Scalars(t) = {} PROVE s \in Seq({"ptr", "i64", "double"} \cup Scalars(t))
    <3>1. s \in {<<"ptr">>, <<"i64">>, <<"double", "double">>}
      BY <2>2 DEF AsParams
    <3>2. \A S : <<"ptr">> \in Seq({"ptr", "i64", "double"} \cup S) /\ <<"i64">> \in Seq({"ptr", "i64", "double"} \cup S)
                 /\ <<"double", "double">> \in Seq({"ptr", "i64", "double"} \cup S)
      OBVIOUS
    <3> QED BY <3>1, <3>2
  <2> QED BY <2>1, <2>2
<1> DEFINE V == {"ptr", "i64", "double"} \cup UNION {Scalars(w.params[i]) : i \in 1 .. n}
           q == [i \in 1 .. n |-> p[i]]
<1>5. \A i \in 1 .. n : p[i] \in AsParams(w.params[i])
  BY <1>1 DEF Chosen
<1>6. \A i \in 1 .. n : p[i] \in Seq(V)
  <2>1. \A i \in 1 .. n : {"ptr", "i64", "double"} \cup Scalars(w.params[i]) \subseteq V
    OBVIOUS
  <2> HIDE DEF V
  <2>2. \A S \in SUBSET V : \A s \in Seq(S) : s \in Seq(V)
    OBVIOUS
  <2> QED BY <1>4, <1>5, <2>1, <2>2
<1>7. "ptr" \in V
  OBVIOUS
<1> HIDE DEF V
<1>8. q \in [1 .. n -> Seq(V)] /\ \A i \in 1 .. n : q[i] = p[i] /\ Len(q[i]) = 1
  BY <1>3, <1>6
<1> HIDE DEF q
<1>9. F \in Seq(V) /\ Len(F) = n /\ \A i \in 1 .. n : F[i] = p[i][1]
  <2>1. F = FlattenSeq(q)
    BY <1>1 DEF F, q
  <2>2. n \in Nat /\ q \in [1 .. n -> Seq(V)] /\ \A i \in 1 .. n : Len(q[i]) = 1
    BY <1>1, <1>8
  <2>3. FlattenSeq(q) \in Seq(V) /\ Len(FlattenSeq(q)) = n /\ \A i \in 1 .. n : FlattenSeq(q)[i] = q[i][1]
    BY <2>2, FlattenOnes
  <2> QED BY <1>8, <2>1, <2>3
<1>10. r.sret \in BOOLEAN /\ [ret |-> r.ret, sret |-> r.sret] = r
  <2> DEFINE IsMade(x) == x.sret \in BOOLEAN /\ [ret |-> x.ret, sret |-> x.sret] = x
  <2>1. \A s : \A b \in BOOLEAN : IsMade([ret |-> s, sret |-> b])
    OBVIOUS
  <2> HIDE DEF IsMade
  <2>2. \A x \in ByABI : IsMade(x)
    BY <2>1 DEF ByABI
  <2>3. \A t : \A x \in AsResult(t) : IsMade(x)
    BY <2>1, <2>2 DEF AsResult
  <2>4. IsMade(r)
    BY <2>2, <2>3 DEF Results
  <2> QED BY <2>4 DEF IsMade
<1>11. \A b \in BOOLEAN : Pointer(b) \in Seq(V) /\ Len(Pointer(b)) = (IF b THEN 1 ELSE 0) /\ (b => Pointer(b)[1] = "ptr")
  BY <1>7 DEF Pointer
<1> DEFINE h == Pointer(r.sret) \o Pointer(w.object)
           k == HiddenResult(c) + (IF w.object THEN 1 ELSE 0)
<1>12. h \in Seq(V) /\ Len(h) = k /\ k \in Nat /\ (w.object => h[1 + HiddenResult(c)] = "ptr")
  <2>1. Len(Pointer(r.sret)) = HiddenResult(c) /\ HiddenResult(c) \in {0, 1}
    BY <1>3, <1>10, <1>11 DEF HiddenResult
  <2>2. k = HiddenResult(c) + (IF w.object THEN 1 ELSE 0)
    OBVIOUS
  <2> DEFINE a == Pointer(r.sret)
             b == Pointer(w.object)
  <2>3. a \in Seq(V) /\ b \in Seq(V) /\ Len(b) = (IF w.object THEN 1 ELSE 0) /\ (w.object => b[1] = "ptr")
    BY <1>10, <1>11
  <2>4. h = a \o b /\ Len(a) = HiddenResult(c)
    BY <2>1
  <2> HIDE DEF a, b, h, k
  <2>5. h \in Seq(V) /\ Len(h) = Len(a) + Len(b) /\ \A j \in 1 .. Len(b) : h[Len(a) + j] = b[j]
    <3>1. \A x, y \in Seq(V) : x \o y \in Seq(V) /\ Len(x \o y) = Len(x) + Len(y)
                               /\ \A j \in 1 .. Len(y) : (x \o y)[Len(x) + j] = y[j]
      BY Joined
    <3> QED BY <2>3, <2>4, <3>1
  <2>6. w.object => h[Len(a) + 1] = b[1]
    BY <2>3, <2>5
  <2> QED BY <2>1, <2>2, <2>3, <2>4, <2>5, <2>6
<1>13. c.args = h \o F
  BY <1>3
<1> HIDE DEF h, k
<1>14. /\ Len(c.args) = k + n
       /\ \A i \in 1 .. k : c.args[i] = h[i]
       /\ \A i \in 1 .. n : c.args[k + i] = p[i][1]
  <2>1. /\ Len(h \o F) = Len(h) + Len(F)
        /\ \A i \in 1 .. Len(h) : (h \o F)[i] = h[i]
        /\ \A i \in 1 .. Len(F) : (h \o F)[Len(h) + i] = F[i]
    <3>1. \A x, y \in Seq(V) : /\ Len(x \o y) = Len(x) + Len(y)
                               /\ \A i \in 1 .. Len(x) : (x \o y)[i] = x[i]
                               /\ \A i \in 1 .. Len(y) : (x \o y)[Len(x) + i] = y[i]
      BY Joined
    <3> QED BY <1>9, <1>12, <3>1
  <2> QED BY <1>9, <1>12, <1>13, <2>1
<1>15. \A i \in 1 .. n : <<p[i][1]>> = p[i]
  BY <1>3, <1>6
<1>16. k = HiddenResult(c) + (IF w.object THEN 1 ELSE 0) /\ HiddenResult(c) \in {0, 1}
  BY DEF k, HiddenResult
<1>17. w.object => c.args[1 + HiddenResult(c)] = "ptr"
  BY <1>12, <1>14, <1>16
<1>18. \A i \in 1 .. n : <<c.args[k + i]>> \in AsParams(w.params[i])
  BY <1>5, <1>14, <1>15
<1>19. [ret |-> c.ret, sret |-> c.sret] \in Results(w)
  BY <1>3, <1>10
<1> QED BY <1>1, <1>3, <1>10, <1>14, <1>16, <1>17, <1>18, <1>19 DEF n

\* What a type becomes is accepted for it.
LEMMA KindsHold == \A x \in DOMAIN Abstract : x \in DOMAIN Kinds /\ Abstract[x] \subseteq Kinds[x]
<1>1. DOMAIN Abstract = {"integer", "unsigned", "floating", "boolean", "text"} /\ DOMAIN Kinds = DOMAIN Abstract
  BY DEF Abstract, Kinds
<1>2. /\ Abstract["integer"] \subseteq Kinds["integer"] /\ Abstract["unsigned"] \subseteq Kinds["unsigned"]
      /\ Abstract["floating"] \subseteq Kinds["floating"] /\ Abstract["boolean"] \subseteq Kinds["boolean"]
      /\ Abstract["text"] \subseteq Kinds["text"]
  BY DEF Abstract, Kinds, Integers
<1> QED BY <1>1, <1>2

LEMMA NoOtherKind == DOMAIN Kinds = DOMAIN Abstract
BY DEF Kinds, Abstract

LEMMA ScalarMatches == ASSUME NEW t, ~ Unknown(t), NEW s \in Scalars(t) PROVE TypesMatch(s, t)
<1> DEFINE u == Resolved(t)
<1>1. ~ (u.name = "void" /\ u.mod \in {"ref", "ptr"})
  BY DEF Unknown
<1>2. CASE u.mod \in {"ref", "ptr"}
  BY <1>1, <1>2 DEF Scalars, TypesMatch
<1>3. CASE u.mod \notin {"ref", "ptr"} /\ u.name = "void"
  BY <1>3 DEF Scalars, TypesMatch
<1>4. CASE u.mod \notin {"ref", "ptr"} /\ u.name # "void" /\ u.name \in DOMAIN Abstract
  <2>1. s \in Abstract[u.name]
    BY <1>4 DEF Scalars
  <2>2. u.name \in DOMAIN Kinds /\ s \in Kinds[u.name]
    BY <1>4, <2>1, KindsHold
  <2> QED BY <1>4, <2>2 DEF TypesMatch
<1>5. CASE u.mod \notin {"ref", "ptr"} /\ u.name # "void" /\ u.name \notin DOMAIN Abstract
  <2>1. u.name \in DOMAIN Names /\ s = Names[u.name]
    BY <1>5 DEF Scalars
  <2>2. u.name \notin DOMAIN Kinds
    BY <1>5, NoOtherKind
  <2> QED BY <1>5, <2>1, <2>2 DEF TypesMatch
<1> QED BY <1>2, <1>3, <1>4, <1>5

\* A declared class is accepted as anything.
LEMMA ClassMatches == ASSUME NEW t, ~ Unknown(t), Scalars(t) = {}, NEW s PROVE TypesMatch(s, t)
<1> DEFINE u == Resolved(t)
<1>1. u.name \in Classes
  BY DEF Unknown
<1>2. u.mod \notin {"ref", "ptr"} /\ u.name # "void"
  BY DEF Scalars
<1>3. u.name \notin DOMAIN Abstract
  <2>1. \A x \in DOMAIN Abstract : Abstract[x] # {}
    <3>1. DOMAIN Abstract = {"integer", "unsigned", "floating", "boolean", "text"}
      BY DEF Abstract
    <3>2. /\ "i8" \in Abstract["integer"] /\ "i8" \in Abstract["unsigned"] /\ "float" \in Abstract["floating"]
          /\ "i1" \in Abstract["boolean"] /\ "ptr" \in Abstract["text"]
      BY DEF Abstract
    <3> QED BY <3>1, <3>2
  <2> QED BY <1>2, <2>1 DEF Scalars
<1>4. u.name \notin DOMAIN Names
  BY <1>2, <1>3 DEF Scalars
<1> QED BY <1>1, <1>2, <1>3, <1>4, NoOtherKind DEF TypesMatch

LEMMA ParameterMatches == ASSUME NEW t, ~ Unknown(t), NEW s, <<s>> \in AsParams(t) PROVE TypesMatch(s, t)
<1>1. CASE Scalars(t) = {}
  BY <1>1, ClassMatches
<1>2. CASE Scalars(t) # {}
  <2>1. PICK x \in Scalars(t) : <<s>> = <<x>>
    BY <1>2 DEF AsParams
  <2>2. s = x
    BY <2>1
  <2> QED BY <2>2, ScalarMatches
<1> QED BY <1>1, <1>2

LEMMA ResultMatches ==
  ASSUME NEW t, ~ Unknown(t), NEW r \in AsResult(t), ~ (r.sret /\ r.ret = "void")
  PROVE  TypesMatch(r.ret, t)
<1>1. CASE Scalars(t) = {}
  BY <1>1, ClassMatches
<1>2. CASE Scalars(t) # {}
  <2>1. PICK x \in Scalars(t) : r = [ret |-> x, sret |-> FALSE]
    BY <1>2 DEF AsResult
  <2> QED BY <2>1, ScalarMatches
<1> QED BY <1>1, <1>2

-----------------------------------------------------------------------------
SigInv ==
  /\ declared \in Declared /\ written \in Written /\ signaturePc \in {"source", "compiled", "checked"}
  /\ signaturePc # "source" => compiled \in Lowered(written)
  /\ signaturePc = "checked" => reported = Mismatches(declared, compiled)

LEMMA Judged == ASSUME SigInv PROVE SignaturesJudged
<1> SUFFICES ASSUME signaturePc = "checked", Compared
             PROVE  /\ Same => reported = {}
                    /\ Len(declared.params) # Len(written.params) => "count" \in reported
                    /\ \A i \in DOMAIN declared.params :
                         Len(declared.params) = Len(written.params) /\ Differ(declared.params[i], written.params[i])
                           => "parameter" \in reported
  BY DEF SignaturesJudged
<1> DEFINE d == declared
           w == written
           c == compiled
           n == Len(w.params)
           k == HiddenResult(c) + (IF w.object THEN 1 ELSE 0)
           at == 1 + HiddenResult(c)
<1>1. /\ c \in Lowered(w) /\ ~ c.split /\ reported = Mismatches(d, c)
      /\ w.params \in Seq(ToSet(w.params)) /\ d.params \in Seq(ToSet(d.params)) /\ w.object \in BOOLEAN
  BY SignatureAssumption DEF SigInv, Compared
<1>2. /\ c.sret \in BOOLEAN /\ n \in Nat /\ DOMAIN w.params = 1 .. n /\ Len(c.args) = k + n
      /\ w.object => c.args[at] = "ptr"
      /\ \A i \in 1 .. n : <<c.args[k + i]>> \in AsParams(w.params[i])
      /\ [ret |-> c.ret, sret |-> c.sret] \in Results(w)
  BY <1>1, CompiledIs
<1>3. HiddenResult(c) \in {0, 1} /\ at = IF c.sret THEN 2 ELSE 1
  BY <1>2 DEF HiddenResult
<1>4. k \in Nat /\ (w.object => k = at)
  BY <1>1, <1>3
<1>5. HiddenObject(d, c) = IF w.object THEN 1 ELSE 0
  <2>1. CASE w.object
    <3>1. d.of \in Classes
      BY <2>1 DEF Compared, TakenForFunction
    <3>2. Len(c.args) >= at /\ c.args[at] = "ptr"
      BY <1>2, <1>3, <1>4, <2>1
    <3> QED BY <2>1, <3>1, <3>2 DEF HiddenObject
  <2>2. CASE ~ w.object
    <3>1. ~ (d.of \in Classes /\ Len(c.args) >= at /\ c.args[at] = "ptr")
      BY <1>3, <2>2 DEF Compared, TakenForObject
    <3> QED BY <2>2, <3>1 DEF HiddenObject
  <2> QED BY <2>1, <2>2
<1>6. Skipped(d, c) = k
  BY <1>5 DEF Skipped
<1> HIDE DEF k
<1>7. Len(c.args) - Skipped(d, c) = n /\ \A i \in 1 .. n : i + Skipped(d, c) = k + i
  BY <1>2, <1>4, <1>6
<1> DEFINE Bad == IF d.multi THEN {y \in {c} : ~ y.sret /\ y.ret = "void"}
                  ELSE {y \in {c} : ~ (y.sret /\ y.ret = "void") /\ ~ TypesMatch(y.ret, d.ret)}
           Wrong == {j \in DOMAIN d.params : ~ TypesMatch(c.args[j + Skipped(d, c)], d.params[j])}
<1>8. Len(d.params) = n => reported = {"return" : x \in Bad} \cup {"parameter" : i \in Wrong}
  BY <1>1, <1>7 DEF Mismatches
<1>9. ASSUME Same PROVE reported = {}
  <2>1. /\ d.params = w.params /\ d.ret = w.ret /\ d.multi = w.multi
        /\ (\A i \in 1 .. n : ~ Unknown(d.params[i])) /\ (d.multi \/ ~ Unknown(d.ret))
    BY <1>2, <1>9 DEF Same
  <2>2. Wrong = {}
    <3>1. \A j \in 1 .. n : TypesMatch(c.args[k + j], d.params[j])
      BY <1>2, <2>1, ParameterMatches
    <3> QED BY <1>2, <1>7, <2>1, <3>1
  <2>3. Bad = {}
    <3> DEFINE r == [ret |-> c.ret, sret |-> c.sret]
    <3>1. CASE d.multi
      <4>1. r \in ByABI
        BY <1>2, <2>1, <3>1 DEF Results
      <4>2. r.sret \/ r.ret # "void"
        BY <4>1 DEF ByABI
      <4> QED BY <3>1, <4>2
    <3>2. CASE ~ d.multi
      <4>1. r \in AsResult(d.ret) /\ ~ Unknown(d.ret)
        BY <1>2, <2>1, <3>2 DEF Results
      <4>2. (r.sret /\ r.ret = "void") \/ TypesMatch(r.ret, d.ret)
        <5> HIDE DEF r
        <5> QED BY <4>1, ResultMatches
      <4>3. (c.sret /\ c.ret = "void") \/ TypesMatch(c.ret, d.ret)
        BY <4>2
      <4> QED BY <3>2, <4>3
    <3> QED BY <3>1, <3>2
  <2> HIDE DEF Bad, Wrong
  <2> QED BY <1>8, <2>1, <2>2, <2>3
<1>10. ASSUME Len(d.params) # n PROVE "count" \in reported
  BY <1>1, <1>7, <1>10 DEF Mismatches
<1>11. ASSUME Len(d.params) = n, NEW i \in DOMAIN d.params, Differ(d.params[i], w.params[i])
       PROVE  "parameter" \in reported
  <2>1. i \in 1 .. n
    BY <1>1, <1>11
  <2>2. PICK s \in Scalars(w.params[i]) : <<c.args[k + i]>> = <<s>>
    <3>1. <<c.args[k + i]>> \in AsParams(w.params[i]) /\ Scalars(w.params[i]) # {}
      BY <1>2, <1>11, <2>1 DEF Differ
    <3> QED BY <3>1 DEF AsParams
  <2>3. c.args[k + i] = s
    BY <2>2
  <2>4. ~ TypesMatch(c.args[i + Skipped(d, c)], d.params[i])
    BY <1>7, <1>11, <2>1, <2>2, <2>3 DEF Differ
  <2>5. i \in Wrong
    BY <1>11, <2>4
  <2> HIDE DEF Bad, Wrong
  <2> QED BY <1>8, <1>11, <2>5
<1> QED BY <1>9, <1>10, <1>11

LEMMA SignatureSteps == ASSUME SigInv, [SignatureNext]_signatureVars PROVE SigInv'
<1>1. CASE Compile
  BY <1>1 DEF Compile, SigInv
<1>2. CASE CheckSignature
  BY <1>2 DEF CheckSignature, SigInv
<1>3. CASE UNCHANGED signatureVars
  BY <1>3 DEF signatureVars, SigInv
<1> QED BY <1>1, <1>2, <1>3 DEF SignatureNext, SignatureOver

\* For every set of functions, declared and written, with any number of parameters,
\* any aliases and classes.
THEOREM SignaturesAreJudged == SignatureSpec => []SignaturesJudged
<1>1. SignatureInit => SigInv
  BY DEF SignatureInit, SignatureInitFrom, SigInv
<1>2. SigInv /\ [SignatureNext]_signatureVars => SigInv'
  BY SignatureSteps
<1>3. SigInv => SignaturesJudged
  BY Judged
<1> QED BY <1>1, <1>2, <1>3, PTL DEF SignatureSpec

-----------------------------------------------------------------------------
(* DataLayout: what is rewritten where.                                    *)

LayoutOk(l) ==
  /\ l.length \in Nat /\ l.member \in Nat /\ l.variant \in {"auto", "force"}
  /\ l.types \in Seq([of : {"P", "Q"}, length : Nat]) /\ l.named \in Seq([of : {"P", "Q"}, length : Nat])
  /\ l.ops \in Seq(ToSet(l.ops))
  /\ \A op \in ToSet(l.ops) : op.write \in BOOLEAN /\ op.i \in 0 .. l.length - 1 /\ op.f \in Fields
  /\ NamesWrapper(l) => Own(l) \in ToSet(l.types)
  /\ l.exit \in {"return", "throw", "never"}

LEMMA LayoutsAreOk == \A l \in Layouts : LayoutOk(l)
BY LayoutAssumption DEF LayoutOk

LEMMA FirstIsIn ==
  ASSUME NEW V, NEW ts \in Seq(V), NEW S, \E t \in ToSet(ts) : t \in S
  PROVE  FirstIn(ts, S) \in ToSet(ts) /\ FirstIn(ts, S) \in S
<1> DEFINE K == {k \in DOMAIN ts : ts[k] \in S}
<1>1. K \in SUBSET Nat /\ K # {}
  <2>1. DOMAIN ts = 1 .. Len(ts) /\ Len(ts) \in Nat /\ ToSet(ts) = {ts[k] : k \in DOMAIN ts}
    BY DEF ToSet
  <2> QED BY <2>1
<1>2. Min(K) \in K
  BY <1>1, LeastIn
<1> QED BY <1>2 DEF FirstIn, ToSet

\* All arrays of the struct that the pass finds are the one at hand.
LEMMA OneArray ==
  ASSUME NEW l, LayoutOk(l), Relied(l), NEW t \in ToSet(l.types) \cup ToSet(l.named), t.of = "P", Qualifies(t)
  PROVE  t = Own(l)
<1>1. t \in [of : {"P", "Q"}, length : Nat]
  <2> DEFINE V == [of : {"P", "Q"}, length : Nat]
  <2>1. l.types \in Seq(V) /\ l.named \in Seq(V)
    BY DEF LayoutOk
  <2> HIDE DEF V
  <2>2. \A ts \in Seq(V) : ToSet(ts) \subseteq V
    BY DEF ToSet
  <2>3. t \in V
    BY <2>1, <2>2
  <2> QED BY <2>3 DEF V
<1>2. t.length \in {0, l.length}
  <2>1. \A u \in ToSet(l.types) \cup ToSet(l.named) : u.of = "P" => u.length \in {0, l.length}
    BY DEF Relied
  <2> QED BY <2>1
<1>3. t.length = l.length
  BY <1>1, <1>2 DEF Qualifies
<1> QED BY <1>1, <1>3 DEF Own

LEMMA OwnQualifies ==
  ASSUME NEW l, LayoutOk(l), NEW op \in ToSet(l.ops)
  PROVE  Qualifies(Own(l)) /\ Own(l).length = l.length /\ Own(l).of = "P" /\ l.length >= 1
<1>1. l.length \in Nat /\ op.i \in 0 .. l.length - 1
  BY DEF LayoutOk
<1>2. l.length >= 1
  BY <1>1
<1> QED BY <1>1, <1>2 DEF Qualifies, Own

\* In place: an array of the struct is found or none is, and with it every access.
LEMMA ForcedIs ==
  ASSUME NEW l, LayoutOk(l), Relied(l), l.variant = "force", NEW op \in ToSet(l.ops)
  PROVE  Target(l, op) = KeptAt(l, op.i, op.f)
<1>0. Listed(l) \in {l.types, l.named} /\ ArrayTypes(l) = {t \in ToSet(Listed(l)) : Qualifies(t)}
  BY DEF Listed, ArrayTypes
<1>1. ASSUME NEW t \in ArrayTypes(l), t.of = "P" PROVE t = Own(l)
  BY <1>0, <1>1, OneArray
<1>2. op.how \in {"wrapper", "member", "array", "first", "operator", "callee"} /\ l.member = 0 /\ (op.how = "first" => l.scalar)
  BY DEF Relied, Forms
<1>3. op.i \in Nat /\ op.f \in Nat /\ l.length \in Nat
  BY DEF LayoutOk, Fields
<1>4. CASE \E t \in ArrayTypes(l) : t.of = "P"
  <2>1. Own(l) \in ArrayTypes(l) /\ Own(l).of = "P" /\ Own(l).length = l.length
    BY <1>1, <1>4, OwnQualifies
  <2>2. Recognized(l, Own(l), op)
    BY <1>2, <2>1 DEF Recognized
  <2>3. \A t \in Matches(l, op) : t = Own(l)
    BY <1>1 DEF Matches, Recognized
  <2>4. Own(l) \in Matches(l, op)
    BY <2>1, <2>2 DEF Matches
  <2>5. FirstIn(Listed(l), Matches(l, op)) = Own(l)
    <3>1. Listed(l) \in Seq([of : {"P", "Q"}, length : Nat])
      BY <1>0 DEF LayoutOk
    <3>2. Own(l) \in ToSet(Listed(l))
      BY <1>0, <2>1
    <3> QED BY <2>3, <2>4, <3>1, <3>2, FirstIsIn
  <2>6. Base(l, op) = 0
    BY <1>2 DEF Base
  <2>7. op.f * l.length \in Int
    BY <1>3
  <2>8. Forced(l, op) = <<0, 0 + op.f * l.length + op.i>>
    BY <2>1, <2>4, <2>5, <2>6 DEF Forced
  <2> QED BY <1>3, <1>4, <2>7, <2>8 DEF Target, KeptAt
<1>5. CASE ~ \E t \in ArrayTypes(l) : t.of = "P"
  <2>1. Matches(l, op) = {}
    BY <1>5 DEF Matches, Recognized
  <2> QED BY <1>5, <2>1 DEF Target, Forced, KeptAt
<1> QED BY <1>4, <1>5

\* By copy: the parameter is the array at hand, and all accesses to a field are
\* rewritten or none is.
LEMMA CopiedIs ==
  ASSUME NEW l, LayoutOk(l), Relied(l), l.variant = "auto", Transforms(l)
  PROVE  /\ Param(l) = Own(l) /\ l.length >= 1
         /\ \A op \in ToSet(l.ops) :
              Target(l, op) = IF op.f \in Live(l, Own(l)) THEN Column(op.f, op.i) ELSE Cell(l, op.i, op.f)
         /\ Live(l, Own(l)) \subseteq Fields
<1>1. PICK k \in DOMAIN l.ops : Recognized(l, Param(l), l.ops[k])
  BY DEF Transforms, Rewritten
<1>2. l.ops[k] \in ToSet(l.ops)
  BY <1>1 DEF ToSet
<1>3. Candidates(l) \subseteq {t \in ToSet(l.types) : Qualifies(t)}
  <2>1. Qualifies(Own(l))
    BY <1>2, OwnQualifies
  <2>2. NamesWrapper(l) => Own(l) \in ToSet(l.types)
    BY DEF LayoutOk
  <2> QED BY <2>1, <2>2 DEF Candidates, Wrappers
<1>4. Param(l) \in Candidates(l)
  <2>1. l.types \in Seq([of : {"P", "Q"}, length : Nat])
    BY DEF LayoutOk
  <2>2. \E t \in ToSet(l.types) : t \in Candidates(l)
    BY <1>3 DEF Transforms
  <2> QED BY <2>1, <2>2, FirstIsIn DEF Param
<1>5. Param(l) = Own(l) /\ Own(l).of = "P"
  <2>1. Param(l).of = "P" /\ Param(l) \in ToSet(l.types) /\ Qualifies(Param(l))
    BY <1>1, <1>3, <1>4 DEF Recognized
  <2> QED BY <2>1, OneArray DEF Own
<1> DEFINE Taken == {"wrapper", "member", "array", "first"}
<1>6. ASSUME NEW op \in ToSet(l.ops) PROVE Recognized(l, Own(l), op) <=> op.how \in Taken
  <2>1. op.how # "wide" /\ (op.how = "first" => l.scalar)
    BY DEF Relied
  <2> QED BY <1>5, <2>1 DEF Recognized
<1>7. \A f \in Live(l, Own(l)) : \E op \in ToSet(l.ops) : op.f = f /\ op.how \in Taken
  <2>1. \A j \in Rewritten(l, Own(l)) : l.ops[j] \in ToSet(l.ops) /\ l.ops[j].how \in Taken
    BY <1>6 DEF Rewritten, ToSet
  <2> QED BY <2>1 DEF Live
<1>8. \A op \in ToSet(l.ops) : op.how \in Taken => op.f \in Live(l, Own(l))
  <2>1. \A op \in ToSet(l.ops) : \E j \in DOMAIN l.ops : op = l.ops[j]
    BY DEF ToSet
  <2> QED BY <1>6, <2>1 DEF Rewritten, Live
<1>9. ASSUME NEW op \in ToSet(l.ops), op.f \in Live(l, Own(l)) PROVE op.how \in Taken
  <2> DEFINE hows == {o.how : o \in {x \in ToSet(l.ops) : x.f = op.f}}
  <2>1. hows \subseteq Taken \/ hows \cap Taken = {}
    BY DEF Relied, Forms, LayoutOk
  <2>2. op.how \in hows
    OBVIOUS
  <2>3. PICK o \in ToSet(l.ops) : o.f = op.f /\ o.how \in Taken
    BY <1>7, <1>9
  <2>4. o.how \in hows
    BY <2>3
  <2> QED BY <2>1, <2>2, <2>3, <2>4
<1>10. \A op \in ToSet(l.ops) : Recognized(l, Own(l), op) <=> op.f \in Live(l, Own(l))
  BY <1>6, <1>8, <1>9
<1>11. Live(l, Own(l)) \subseteq Fields
  BY <1>7 DEF LayoutOk
<1>12. l.length >= 1
  BY <1>2, OwnQualifies
<1> QED BY <1>5, <1>10, <1>11, <1>12 DEF Target

-----------------------------------------------------------------------------
(* Sites: where the fields of the array are kept.                         *)

Elements(l) == (0 .. l.length - 1) \X Fields
Homes(l) == [e \in Elements(l) |-> Cell(l, e[1], e[2])]
\* During a call of the rewritten function.
Sites(l) ==
  [e \in Elements(l) |->
     IF l.variant = "force" THEN KeptAt(l, e[1], e[2])
     ELSE IF e[2] \in Live(l, Own(l)) THEN Column(e[2], e[1])
     ELSE Cell(l, e[1], e[2])]
Around(l) == {c \in Storage(l) : c[2] < l.member \/ c[2] >= l.member + 2 * l.length}
Held(l) == IF l.variant = "auto" THEN Storage(l) \cup Columns(l, Own(l)) ELSE Storage(l)

\* No two fields are kept in one place, and none is kept around the array.
Apart(l, at) == \A x, y \in Elements(l) : at[x] = at[y] => x = y
Inside(l, at, D) == \A x \in Elements(l) : at[x] \in D /\ at[x] \notin Around(l)

\* A memory holds at these places what another holds in the array, and the same around it.
Alike(l, m, n, p) ==
  /\ \A y \in Elements(l) : m[Homes(l)[y]] = n[p[y]]
  /\ \A c \in Around(l) : m[c] = n[c]

LEMMA HomesApart ==
  ASSUME NEW l, LayoutOk(l)
  PROVE  Apart(l, Homes(l)) /\ Inside(l, Homes(l), Storage(l))
<1>1. ASSUME NEW x \in Elements(l)
      PROVE  /\ x[1] \in 0 .. l.length - 1 /\ x[2] \in {0, 1} /\ x = <<x[1], x[2]>>
             /\ Homes(l)[x] = <<0, l.member + x[1] * 2 + x[2]>>
  BY DEF Elements, Homes, Cell, Fields
<1>2. l.length \in Nat /\ l.member \in Nat
  BY DEF LayoutOk
<1>3. ASSUME NEW x \in Elements(l), NEW y \in Elements(l), Homes(l)[x] = Homes(l)[y] PROVE x = y
  <2>1. l.member + x[1] * 2 + x[2] = l.member + y[1] * 2 + y[2]
    BY <1>1, <1>3
  <2>2. x[1] = y[1] /\ x[2] = y[2]
    <3>1. x[1] \in Nat /\ y[1] \in Nat /\ x[2] \in {0, 1} /\ y[2] \in {0, 1}
      BY <1>1, <1>2
    <3>2. \A m, a, b \in Nat, f, g \in {0, 1} : m + a * 2 + f = m + b * 2 + g => a = b /\ f = g
      OBVIOUS
    <3> QED BY <1>2, <2>1, <3>1, <3>2
  <2> QED BY <1>1, <2>2
<1>4. ASSUME NEW x \in Elements(l) PROVE Homes(l)[x] \in Storage(l) /\ Homes(l)[x] \notin Around(l)
  <2> DEFINE w == l.member + x[1] * 2 + x[2]
  <2>1. w \in l.member .. l.member + 2 * l.length - 1 /\ w \in Nat
    <3>1. x[1] \in 0 .. l.length - 1 /\ x[2] \in {0, 1}
      BY <1>1
    <3> QED BY <1>2, <3>1
  <2>2. Homes(l)[x] = <<0, w>>
    BY <1>1
  <2> HIDE DEF w
  <2> QED BY <1>2, <2>1, <2>2 DEF Storage, Around
<1> QED BY <1>3, <1>4 DEF Apart, Inside

LEMMA KeptApart ==
  ASSUME NEW l, LayoutOk(l), l.member = 0, l.variant = "force"
  PROVE  Apart(l, Sites(l)) /\ Inside(l, Sites(l), Storage(l))
<1>1. CASE \E t \in ArrayTypes(l) : t.of = "P"
  <2>1. l.length \in Nat
    BY DEF LayoutOk
  <2>2. ASSUME NEW x \in Elements(l)
        PROVE  /\ x[1] \in 0 .. l.length - 1 /\ x[2] \in {0, 1} /\ x = <<x[1], x[2]>>
               /\ Sites(l)[x] = <<0, (IF x[2] = 0 THEN 0 ELSE l.length) + x[1]>>
    <3>1. x[1] \in 0 .. l.length - 1 /\ x[2] \in {0, 1} /\ x = <<x[1], x[2]>>
      BY DEF Elements, Fields
    <3>2. x[2] * l.length = IF x[2] = 0 THEN 0 ELSE l.length
      <4>1. 0 * l.length = 0 /\ 1 * l.length = l.length
        BY <2>1
      <4> QED BY <3>1, <4>1
    <3>3. Sites(l)[x] = <<0, x[2] * l.length + x[1]>>
      BY <1>1 DEF Sites, KeptAt
    <3> QED BY <3>1, <3>2, <3>3
  <2>3. ASSUME NEW x \in Elements(l), NEW y \in Elements(l), Sites(l)[x] = Sites(l)[y] PROVE x = y
    <3>1. (IF x[2] = 0 THEN 0 ELSE l.length) + x[1] = (IF y[2] = 0 THEN 0 ELSE l.length) + y[1]
      BY <2>2, <2>3
    <3>2. x[1] \in 0 .. l.length - 1 /\ y[1] \in 0 .. l.length - 1 /\ x[2] \in {0, 1} /\ y[2] \in {0, 1}
      BY <2>2
    <3>3. x[1] = y[1] /\ x[2] = y[2]
      BY <2>1, <3>1, <3>2
    <3> QED BY <2>2, <3>3
  <2>4. ASSUME NEW x \in Elements(l) PROVE Sites(l)[x] \in Storage(l) /\ Sites(l)[x] \notin Around(l)
    <3> DEFINE w == (IF x[2] = 0 THEN 0 ELSE l.length) + x[1]
    <3>1. w \in 0 .. 2 * l.length - 1
      <4>1. x[1] \in 0 .. l.length - 1 /\ x[2] \in {0, 1}
        BY <2>2
      <4> QED BY <2>1, <4>1
    <3>2. Sites(l)[x] = <<0, w>>
      BY <2>2
    <3> HIDE DEF w
    <3> QED BY <2>1, <3>1, <3>2 DEF Storage, Around
  <2> QED BY <2>3, <2>4 DEF Apart, Inside
<1>2. CASE ~ \E t \in ArrayTypes(l) : t.of = "P"
  <2>1. Sites(l) = Homes(l)
    BY <1>2 DEF Sites, Homes, KeptAt
  <2> QED BY <2>1, HomesApart
<1> QED BY <1>1, <1>2

LEMMA ColumnsAre ==
  ASSUME NEW l, LayoutOk(l), l.length >= 1
  PROVE  Columns(l, Own(l)) = {Column(f, i) : f \in Live(l, Own(l)), i \in 0 .. l.length - 1}
BY DEF LayoutOk, Columns, Rows, Own

LEMMA ColumnsApart ==
  ASSUME NEW l, LayoutOk(l), l.variant = "auto", l.length >= 1, Live(l, Own(l)) \subseteq Fields
  PROVE  Apart(l, Sites(l)) /\ Inside(l, Sites(l), Held(l))
<1> DEFINE live == Live(l, Own(l))
<1>0. l.length \in Nat
  BY DEF LayoutOk
<1>1. ASSUME NEW x \in Elements(l)
      PROVE  /\ x[1] \in 0 .. l.length - 1 /\ x[1] \in Nat /\ x[2] \in {0, 1} /\ x = <<x[1], x[2]>>
             /\ x[2] \in live => Sites(l)[x] = <<1 + x[2], x[1]>>
             /\ x[2] \notin live => Sites(l)[x] = Homes(l)[x]
  BY <1>0 DEF Elements, Sites, Homes, Fields, Column
<1> HIDE DEF live
<1>2. \A x \in Elements(l) : Homes(l)[x][1] = 0
  BY DEF Homes, Cell
<1>3. ASSUME NEW x \in Elements(l), NEW y \in Elements(l), Sites(l)[x] = Sites(l)[y] PROVE x = y
  <2>1. CASE x[2] \in live /\ y[2] \in live
    <3>1. <<1 + x[2], x[1]>> = <<1 + y[2], y[1]>>
      BY <1>1, <1>3, <2>1
    <3>2. x[2] \in {0, 1} /\ y[2] \in {0, 1} /\ x = <<x[1], x[2]>> /\ y = <<y[1], y[2]>>
      BY <1>1
    <3>3. 1 + x[2] = 1 + y[2] /\ x[1] = y[1]
      BY <3>1
    <3>4. x[2] = y[2]
      BY <3>2, <3>3
    <3> QED BY <3>2, <3>3, <3>4
  <2>2. CASE x[2] \notin live /\ y[2] \notin live
    BY <1>1, <1>3, <2>2, HomesApart DEF Apart
  <2>3. CASE x[2] \in live /\ y[2] \notin live
    <3>1. <<1 + x[2], x[1]>> = Homes(l)[y] /\ Homes(l)[y][1] = 0 /\ x[2] \in {0, 1}
      BY <1>1, <1>2, <1>3, <2>3
    <3>2. 1 + x[2] = 0
      BY <3>1
    <3> QED BY <3>1, <3>2
  <2>4. CASE x[2] \notin live /\ y[2] \in live
    <3>1. <<1 + y[2], y[1]>> = Homes(l)[x] /\ Homes(l)[x][1] = 0 /\ y[2] \in {0, 1}
      BY <1>1, <1>2, <1>3, <2>4
    <3>2. 1 + y[2] = 0
      BY <3>1
    <3> QED BY <3>1, <3>2
  <2> QED BY <2>1, <2>2, <2>3, <2>4
<1>4. ASSUME NEW x \in Elements(l) PROVE Sites(l)[x] \in Held(l) /\ Sites(l)[x] \notin Around(l)
  <2>1. CASE x[2] \in live
    <3>1. Sites(l)[x] \in Columns(l, Own(l))
      <4>1. Sites(l)[x] = Column(x[2], x[1]) /\ x[2] \in Live(l, Own(l)) /\ x[1] \in 0 .. l.length - 1
        BY <1>1, <2>1 DEF Column, live
      <4> QED BY <4>1, ColumnsAre
    <3>2. Sites(l)[x][1] # 0
      <4>1. Sites(l)[x] = <<1 + x[2], x[1]>> /\ x[2] \in {0, 1}
        BY <1>1, <2>1
      <4>2. Sites(l)[x][1] = 1 + x[2]
        BY <4>1
      <4> QED BY <4>1, <4>2
    <3>3. \A c \in Around(l) : c[1] = 0
      BY DEF Around, Storage
    <3> QED BY <3>1, <3>2, <3>3 DEF Held
  <2>2. CASE x[2] \notin live
    <3>1. Homes(l)[x] \in Storage(l) /\ Homes(l)[x] \notin Around(l)
      BY HomesApart DEF Inside
    <3> QED BY <1>1, <2>2, <3>1 DEF Held
  <2> QED BY <2>1, <2>2
<1> QED BY <1>3, <1>4 DEF Apart, Inside

-----------------------------------------------------------------------------
(* One access, and the copies.                                             *)

LEMMA AccessedIs ==
  ASSUME NEW m, NEW op, op.how # "wide", NEW k, NEW c
  PROVE  Accessed(m, op, k, c) = IF op.write THEN [d \in DOMAIN m |-> IF d = c THEN Put(k, 1) ELSE m[d]] ELSE m
<1> DEFINE cs == Cells(op, c)
           at(d) == {w \in DOMAIN cs : cs[w] = d}
<1>1. cs = <<c>> /\ DOMAIN cs = {1} /\ cs[1] = c
  BY DEF Cells
<1>2. ASSUME NEW d PROVE (IF at(d) # {} THEN Put(k, CHOOSE w \in at(d) : TRUE) ELSE m[d]) = IF d = c THEN Put(k, 1) ELSE m[d]
  <2>1. CASE d = c
    <3>1. at(d) = {1}
      BY <1>1, <2>1
    <3>2. (CHOOSE w \in at(d) : TRUE) = 1
      BY <3>1
    <3> HIDE DEF at
    <3> QED BY <2>1, <3>1, <3>2
  <2>2. CASE d # c
    <3>1. at(d) = {}
      BY <1>1, <2>2
    <3> HIDE DEF at
    <3> QED BY <2>2, <3>1
  <2> QED BY <2>1, <2>2
<1>3. Accessed(m, op, k, c) = IF op.write THEN [d \in DOMAIN m |-> IF at(d) # {} THEN Put(k, CHOOSE w \in at(d) : TRUE) ELSE m[d]] ELSE m
  BY DEF Accessed
<1>4. [d \in DOMAIN m |-> IF at(d) # {} THEN Put(k, CHOOSE w \in at(d) : TRUE) ELSE m[d]]
        = [d \in DOMAIN m |-> IF d = c THEN Put(k, 1) ELSE m[d]]
  <2> HIDE DEF at
  <2> QED BY <1>2
<1> HIDE DEF at, cs
<1> QED BY <1>3, <1>4

LEMMA SeenIs ==
  ASSUME NEW m, NEW op, op.how # "wide", NEW c
  PROVE  Seen(m, op, c) = IF op.write THEN << >> ELSE [w \in {1} |-> Value(m, c)]
<1>1. Cells(op, c) = <<c>> /\ DOMAIN <<c>> = {1} /\ <<c>>[1] = c
  BY DEF Cells
<1> QED BY <1>1 DEF Seen

\* An access of element x in memories m and n, in which the array is at home and at p.
MayAccess(l, op, x, m, n, p) ==
  /\ LayoutOk(l) /\ op.how # "wide" /\ x \in Elements(l)
  /\ DOMAIN m = Storage(l) /\ Apart(l, p) /\ Inside(l, p, DOMAIN n)
  /\ Alike(l, m, n, p) /\ Around(l) \subseteq DOMAIN n
Agrees(l, op, x, m, n, p, m1, n1) ==
  /\ DOMAIN m1 = DOMAIN m /\ DOMAIN n1 = DOMAIN n
  /\ Alike(l, m1, n1, p)
  /\ ~ op.write => m1 = m /\ n1 = n
  /\ Seen(m, op, Homes(l)[x]) = Seen(n, op, p[x])

\* It finds the same in both, and leaves them as alike as they were.
LEMMA AccessKeeps ==
  ASSUME NEW l, NEW op, NEW k, NEW x, NEW m, NEW n, NEW p, MayAccess(l, op, x, m, n, p),
         NEW m1, m1 = Accessed(m, op, k, Homes(l)[x]), NEW n1, n1 = Accessed(n, op, k, p[x])
  PROVE  Agrees(l, op, x, m, n, p, m1, n1)
<1> SUFFICES /\ DOMAIN m1 = DOMAIN m /\ DOMAIN n1 = DOMAIN n
             /\ Alike(l, m1, n1, p)
             /\ ~ op.write => m1 = m /\ n1 = n
             /\ Seen(m, op, Homes(l)[x]) = Seen(n, op, p[x])
  BY DEF Agrees
<1> /\ LayoutOk(l) /\ op.how # "wide" /\ x \in Elements(l)
    /\ DOMAIN m = Storage(l) /\ Apart(l, p) /\ Inside(l, p, DOMAIN n)
    /\ Alike(l, m, n, p) /\ Around(l) \subseteq DOMAIN n
  BY DEF MayAccess
<1> DEFINE h == Homes(l)
<1>0. Apart(l, h) /\ Inside(l, h, Storage(l))
  BY HomesApart
<1>1. Seen(m, op, h[x]) = Seen(n, op, p[x])
  <2>1. Value(m, h[x]) = Value(n, p[x])
    BY <1>0 DEF Value, Inside, Alike
  <2>2. /\ Seen(m, op, h[x]) = IF op.write THEN << >> ELSE [w \in {1} |-> Value(m, h[x])]
        /\ Seen(n, op, p[x]) = IF op.write THEN << >> ELSE [w \in {1} |-> Value(n, p[x])]
    BY SeenIs
  <2> QED BY <2>1, <2>2
<1>2. /\ m1 = IF op.write THEN [d \in DOMAIN m |-> IF d = h[x] THEN Put(k, 1) ELSE m[d]] ELSE m
      /\ n1 = IF op.write THEN [d \in DOMAIN n |-> IF d = p[x] THEN Put(k, 1) ELSE n[d]] ELSE n
  BY AccessedIs
<1>3. CASE ~ op.write
  <2>1. m1 = m /\ n1 = n
    BY <1>2, <1>3
  <2>2. /\ DOMAIN m1 = DOMAIN m /\ DOMAIN n1 = DOMAIN n
        /\ Alike(l, m1, n1, p)
    BY <2>1
  <2> QED BY <1>1, <2>1, <2>2
<1>4. CASE op.write
  <2>1. /\ m1 = [d \in DOMAIN m |-> IF d = h[x] THEN Put(k, 1) ELSE m[d]]
        /\ n1 = [d \in DOMAIN n |-> IF d = p[x] THEN Put(k, 1) ELSE n[d]]
    BY <1>2, <1>4
  <2>2. DOMAIN m1 = DOMAIN m /\ DOMAIN n1 = DOMAIN n
    BY <2>1
  <2>3. ASSUME NEW y \in Elements(l) PROVE m1[h[y]] = n1[p[y]]
    <3>1. h[y] \in DOMAIN m /\ p[y] \in DOMAIN n /\ m[h[y]] = n[p[y]]
      BY <1>0 DEF Inside, Alike
    <3>2. (h[y] = h[x] <=> y = x) /\ (p[y] = p[x] <=> y = x)
      BY <1>0 DEF Apart
    <3> HIDE DEF h
    <3> QED BY <2>1, <3>1, <3>2
  <2>4. ASSUME NEW c \in Around(l) PROVE m1[c] = n1[c]
    <3>1. c # h[x] /\ c # p[x] /\ c \in DOMAIN m /\ c \in DOMAIN n /\ m[c] = n[c]
      BY <1>0 DEF Inside, Around, Alike
    <3> HIDE DEF h
    <3> QED BY <2>1, <3>1
  <2>5. ~ op.write => m1 = m /\ n1 = n
    BY <1>4
  <2> QED BY <1>1, <2>2, <2>3, <2>4, <2>5 DEF Alike
<1> QED BY <1>3, <1>4

\* Reading alone leaves everything as it is.
LEMMA ReadKeeps ==
  ASSUME NEW m, NEW op, op.how # "wide", NEW k, NEW c, ~ op.write
  PROVE  Accessed(m, op, k, c) = m
BY AccessedIs

\* The columns are filled from the array, and the array from the columns.
LEMMA ScatterIs ==
  ASSUME NEW l, LayoutOk(l), l.variant = "auto", l.length >= 1, Live(l, Own(l)) \subseteq Fields,
         NEW m, DOMAIN m = Storage(l)
  PROVE  LET n == Scatter(l, Own(l), m) IN
           /\ DOMAIN n = Held(l)
           /\ \A y \in Elements(l) : m[Homes(l)[y]] = n[Sites(l)[y]]
           /\ \A c \in Storage(l) : m[c] = n[c]
<1> DEFINE n == Scatter(l, Own(l), m)
           live == Live(l, Own(l))
<1>0. l.length \in Nat
  BY DEF LayoutOk
<1>1. n = [c \in Held(l) |-> IF c[1] = 0 THEN m[c] ELSE Value(m, Cell(l, c[2], c[1] - 1))]
  BY DEF Scatter, Held
<1> HIDE DEF n
<1>2. ASSUME NEW c \in Storage(l) PROVE n[c] = m[c] /\ c \in Held(l)
  <2>1. c[1] = 0 /\ c \in Held(l)
    BY DEF Storage, Held
  <2> QED BY <1>1, <2>1
<1>3. ASSUME NEW y \in Elements(l) PROVE m[Homes(l)[y]] = n[Sites(l)[y]]
  <2>1. Homes(l)[y] \in Storage(l) /\ Homes(l)[y] = Cell(l, y[1], y[2]) /\ y[2] \in {0, 1}
    <3>1. Homes(l)[y] \in Storage(l)
      BY HomesApart DEF Inside
    <3>2. Homes(l)[y] = Cell(l, y[1], y[2]) /\ y[2] \in {0, 1}
      BY DEF Homes, Elements, Fields
    <3> QED BY <3>1, <3>2
  <2>2. CASE y[2] \in live
    <3>1. Sites(l)[y] = <<1 + y[2], y[1]>> /\ Sites(l)[y] \in Held(l)
      <4>1. Sites(l)[y] \in Held(l)
        BY ColumnsApart DEF Inside
      <4> QED BY <2>2, <4>1 DEF Sites, Column
    <3> DEFINE c == <<1 + y[2], y[1]>>
    <3>2. c[1] # 0 /\ c[1] - 1 = y[2] /\ c[2] = y[1]
      BY <2>1
    <3>3. n[c] = Value(m, Cell(l, y[1], y[2]))
      BY <1>1, <3>1, <3>2
    <3> QED BY <2>1, <3>1, <3>3 DEF Value
  <2>3. CASE y[2] \notin live
    <3>1. Sites(l)[y] = Homes(l)[y]
      BY <2>3 DEF Sites, Homes
    <3> QED BY <1>2, <2>1, <3>1
  <2> QED BY <2>2, <2>3
<1>4. DOMAIN n = Held(l)
  BY <1>1
<1> QED BY <1>2, <1>3, <1>4 DEF n

LEMMA GatherIs ==
  ASSUME NEW l, LayoutOk(l), l.variant = "auto", l.length >= 1, Live(l, Own(l)) \subseteq Fields,
         NEW m, DOMAIN m = Storage(l), NEW n, DOMAIN n = Held(l),
         Alike(l, m, n, Sites(l)), NEW r, r = Gather(l, Own(l), n)
  PROVE  DOMAIN r = Storage(l) /\ Alike(l, m, r, Homes(l))
<1> DEFINE live == Live(l, Own(l))
           From(c) == {p \in Columns(l, Own(l)) : Cell(l, p[2], p[1] - 1) = c}
<1>0. l.length \in Nat
  BY DEF LayoutOk
<1>1. \A p \in Columns(l, Own(l)) : \E e \in Elements(l) :
         e[2] \in live /\ p = Sites(l)[e] /\ Cell(l, p[2], p[1] - 1) = Homes(l)[e] /\ p[1] # 0
  <2> TAKE p \in Columns(l, Own(l))
  <2>1. PICK f \in live, i \in 0 .. l.length - 1 : p = Column(f, i)
    BY ColumnsAre
  <2> DEFINE e == <<i, f>>
  <2>2. e \in Elements(l) /\ e[1] = i /\ e[2] = f /\ f \in {0, 1} /\ i \in Nat
    BY <1>0 DEF Elements, Fields
  <2>3. p = <<1 + f, i>> /\ p[1] = 1 + f /\ p[2] = i
    BY <2>1 DEF Column
  <2>4. p[1] - 1 = f /\ p[1] # 0
    BY <2>2, <2>3
  <2>5. Sites(l)[e] = p
    BY <2>1, <2>2 DEF Sites
  <2>6. Homes(l)[e] = Cell(l, p[2], p[1] - 1)
    BY <2>2, <2>3, <2>4 DEF Homes
  <2> HIDE DEF e
  <2> QED BY <2>2, <2>4, <2>5, <2>6
<1>2. {d \in DOMAIN n : d[1] = 0} = Storage(l)
  <2>1. \A c \in Storage(l) : c[1] = 0
    BY DEF Storage
  <2> QED BY <1>1, <2>1 DEF Held
<1>3. r = [c \in Storage(l) |-> IF From(c) = {} THEN n[c] ELSE n[CHOOSE p \in From(c) : TRUE]]
  BY <1>2 DEF Gather
<1>4. ASSUME NEW y \in Elements(l) PROVE m[Homes(l)[y]] = r[Homes(l)[y]]
  <2>0. Homes(l)[y] \in Storage(l)
    BY HomesApart DEF Inside
  <2>1. \A p \in From(Homes(l)[y]) : p = Sites(l)[y] /\ y[2] \in live
    <3> TAKE p \in From(Homes(l)[y])
    <3>1. PICK e \in Elements(l) : e[2] \in live /\ p = Sites(l)[e] /\ Cell(l, p[2], p[1] - 1) = Homes(l)[e]
      BY <1>1
    <3>2. Homes(l)[e] = Homes(l)[y]
      BY <3>1
    <3>3. e = y
      BY <3>2, HomesApart DEF Apart
    <3> QED BY <3>1, <3>3
  <2>2. CASE From(Homes(l)[y]) = {}
    <3>1. y[2] \notin live
      <4> SUFFICES ASSUME y[2] \in live PROVE FALSE
        OBVIOUS
      <4>1. y[1] \in 0 .. l.length - 1 /\ y[1] \in Nat /\ y[2] \in {0, 1}
        BY <1>0 DEF Elements, Fields
      <4> DEFINE p == Column(y[2], y[1])
      <4>2. p \in Columns(l, Own(l))
        BY <4>1, ColumnsAre
      <4>3. p[2] = y[1] /\ p[1] = 1 + y[2]
        BY DEF Column
      <4>4. p[1] - 1 = y[2]
        BY <4>1, <4>3
      <4>5. Cell(l, p[2], p[1] - 1) = Homes(l)[y]
        BY <4>3, <4>4 DEF Homes
      <4> HIDE DEF p
      <4> QED BY <2>2, <4>2, <4>5
    <3>2. Sites(l)[y] = Homes(l)[y] /\ m[Homes(l)[y]] = n[Sites(l)[y]]
      BY <3>1 DEF Sites, Homes, Alike
    <3>3. r[Homes(l)[y]] = n[Homes(l)[y]]
      BY <1>3, <2>0, <2>2
    <3> QED BY <3>2, <3>3
  <2>3. CASE From(Homes(l)[y]) # {}
    <3>1. (CHOOSE p \in From(Homes(l)[y]) : TRUE) = Sites(l)[y]
      <4> DEFINE S == From(Homes(l)[y])
      <4> HIDE DEF From
      <4> QED BY <2>1, <2>3
    <3>2. r[Homes(l)[y]] = n[Sites(l)[y]]
      <4> HIDE DEF From
      <4> QED BY <1>3, <2>0, <2>3, <3>1
    <3> QED BY <3>2 DEF Alike
  <2> QED BY <2>2, <2>3
<1>5. ASSUME NEW c \in Around(l) PROVE m[c] = r[c]
  <2>1. From(c) = {}
    <3>1. \A e \in Elements(l) : Homes(l)[e] # c
      BY HomesApart DEF Inside
    <3> QED BY <1>1, <3>1
  <2>2. c \in Storage(l) /\ m[c] = n[c]
    BY DEF Around, Alike
  <2> QED BY <1>3, <2>1, <2>2
<1>6. DOMAIN r = Storage(l)
  BY <1>3
<1> QED BY <1>4, <1>5, <1>6 DEF Alike

-----------------------------------------------------------------------------
(* DataLayout: the invariant.                                              *)

\* Where the function finds the fields that runs: the one as written, or its rewriting.
Now(l, c) == IF c THEN Sites(l) ELSE Homes(l)
Room(l, c) == IF c THEN Held(l) ELSE Storage(l)

Untouched(l, m, n) == l.variant = "auto" /\ Unwritten(l) => \A c \in Storage(l) : m[c] = n[c]

LayoutTypes ==
  /\ layout \in Layouts /\ access \in Nat \ {0} /\ chosen \in BOOLEAN
  /\ layoutPc \in {"rewrite", "enter", "run", "over"} /\ DOMAIN mem = Storage(layout)
Rewriting ==
  /\ layoutPc = "rewrite" => ~ chosen
  /\ layoutPc \in {"rewrite", "enter"} => moved = mem /\ mem = Initially(layout)
  /\ layoutPc # "rewrite" /\ layout.variant = "force" => chosen
  /\ chosen /\ layout.variant = "auto" => Transforms(layout)
LayoutInv ==
  /\ LayoutTypes /\ Rewriting
  /\ Relied(layout) =>
       /\ same
       /\ layoutPc = "run" =>
            /\ DOMAIN moved = Room(layout, chosen)
            /\ Alike(layout, mem, moved, Now(layout, chosen))
            /\ Untouched(layout, mem, moved)
       /\ layoutPc = "over" =>
            /\ DOMAIN moved = IF layout.variant = "auto" /\ layout.exit # "return" THEN Room(layout, chosen) ELSE Storage(layout)
            /\ Alike(layout, mem, moved, Now(layout, layout.variant = "force"))

LEMMA NowApart ==
  ASSUME NEW l, LayoutOk(l), Relied(l), NEW c \in BOOLEAN, c /\ l.variant = "auto" => Transforms(l)
  PROVE  /\ Apart(l, Now(l, c)) /\ Inside(l, Now(l, c), Room(l, c)) /\ Around(l) \subseteq Room(l, c)
         /\ Storage(l) \subseteq Room(l, c)
<1>1. Storage(l) \subseteq Held(l) /\ Around(l) \subseteq Storage(l)
  BY DEF Held, Around
<1>2. CASE ~ c
  BY <1>1, <1>2, HomesApart DEF Now, Room
<1>3. CASE c /\ l.variant = "force"
  <2>1. Held(l) = Storage(l) /\ l.member = 0
    BY <1>3 DEF Held, Relied
  <2> QED BY <1>1, <1>3, <2>1, KeptApart DEF Now, Room
<1>4. CASE c /\ l.variant = "auto"
  <2>1. l.length >= 1 /\ Live(l, Own(l)) \subseteq Fields
    BY <1>4, CopiedIs
  <2> QED BY <1>1, <1>4, <2>1, ColumnsApart DEF Now, Room
<1> QED BY <1>2, <1>3, <1>4 DEF LayoutOk

LEMMA NowIs ==
  ASSUME NEW l, LayoutOk(l), Relied(l), NEW c \in BOOLEAN, c /\ l.variant = "auto" => Transforms(l),
         NEW op \in ToSet(l.ops)
  PROVE  /\ <<op.i, op.f>> \in Elements(l)
         /\ Homes(l)[<<op.i, op.f>>] = Cell(l, op.i, op.f)
         /\ Now(l, c)[<<op.i, op.f>>] = IF c THEN Target(l, op) ELSE Cell(l, op.i, op.f)
<1> DEFINE x == <<op.i, op.f>>
<1>1. x \in Elements(l) /\ x[1] = op.i /\ x[2] = op.f
  BY DEF LayoutOk, Elements
<1>2. Homes(l)[x] = Cell(l, op.i, op.f)
  BY <1>1 DEF Homes
<1>3. CASE ~ c
  BY <1>1, <1>2, <1>3 DEF Now
<1>4. CASE c /\ l.variant = "force"
  <2>1. Target(l, op) = KeptAt(l, op.i, op.f)
    BY <1>4, ForcedIs
  <2>2. Sites(l)[x] = KeptAt(l, op.i, op.f)
    BY <1>1, <1>4 DEF Sites
  <2> QED BY <1>1, <1>2, <1>4, <2>1, <2>2 DEF Now
<1>5. CASE c /\ l.variant = "auto"
  <2>1. Target(l, op) = IF op.f \in Live(l, Own(l)) THEN Column(op.f, op.i) ELSE Cell(l, op.i, op.f)
    BY <1>5, CopiedIs
  <2>2. Sites(l)[x] = IF op.f \in Live(l, Own(l)) THEN Column(op.f, op.i) ELSE Cell(l, op.i, op.f)
    BY <1>1, <1>5 DEF Sites
  <2> QED BY <1>1, <1>2, <1>5, <2>1, <2>2 DEF Now
<1> QED BY <1>3, <1>4, <1>5 DEF LayoutOk

LEMMA RewriteKeeps == ASSUME LayoutInv, RewriteLayout PROVE LayoutInv'
<1>1. layoutPc' = "enter" /\ UNCHANGED <<layout, mem, moved, access, same>> /\ chosen' \in BOOLEAN
  BY DEF RewriteLayout
<1>2. chosen' /\ layout.variant = "auto" => Transforms(layout)
  BY DEF RewriteLayout
<1>3. layout.variant = "force" => chosen'
  BY DEF RewriteLayout
<1>4. LayoutTypes'
  BY <1>1 DEF LayoutInv, LayoutTypes
<1>5. Rewriting'
  BY <1>1, <1>2, <1>3 DEF LayoutInv, Rewriting, RewriteLayout
<1>6. Relied(layout)' => same'
  BY <1>1 DEF LayoutInv
<1> QED BY <1>1, <1>4, <1>5, <1>6 DEF LayoutInv

LEMMA EnterKeeps == ASSUME LayoutInv, EnterFunction PROVE LayoutInv'
<1>1. layoutPc = "enter" /\ layoutPc' = "run" /\ UNCHANGED <<layout, mem, chosen, access, same>>
  BY DEF EnterFunction
<1>2. LayoutTypes' /\ Rewriting'
  BY <1>1 DEF LayoutInv, LayoutTypes, Rewriting
<1> DEFINE l == layout
<1>3. ASSUME Relied(l)
      PROVE  DOMAIN moved' = Room(l, chosen) /\ Alike(l, mem, moved', Now(l, chosen)) /\ Untouched(l, mem, moved')
  <2>0. LayoutOk(l) /\ DOMAIN mem = Storage(l) /\ moved = mem /\ chosen \in BOOLEAN
    BY <1>1, LayoutsAreOk DEF LayoutInv, LayoutTypes, Rewriting
  <2>1. CASE chosen /\ l.variant = "auto"
    <3>1. Transforms(l)
      BY <2>1 DEF LayoutInv, Rewriting
    <3>2. Param(l) = Own(l) /\ l.length >= 1 /\ Live(l, Own(l)) \subseteq Fields
      BY <1>3, <2>0, <2>1, <3>1, CopiedIs
    <3>3. moved' = Scatter(l, Own(l), mem)
      BY <2>0, <2>1, <3>2 DEF EnterFunction, Copies
    <3>4. /\ DOMAIN moved' = Held(l)
          /\ \A y \in Elements(l) : mem[Homes(l)[y]] = moved'[Sites(l)[y]]
          /\ \A c \in Storage(l) : mem[c] = moved'[c]
      BY <2>0, <2>1, <3>2, <3>3, ScatterIs
    <3> QED BY <2>1, <3>4 DEF Room, Now, Alike, Untouched, Around
  <2>2. CASE ~ chosen
    <3>1. moved' = mem
      BY <2>0, <2>2 DEF EnterFunction, Copies
    <3> QED BY <2>0, <2>2, <3>1 DEF Room, Now, Alike, Untouched
  <2>3. CASE chosen /\ l.variant = "force"
    <3>1. moved' = mem /\ mem = Initially(l)
      BY <1>1, <2>0, <2>3 DEF EnterFunction, Copies, LayoutInv, Rewriting
    <3>2. l.initial = "zero" /\ l.member = 0
      BY <1>3, <2>3 DEF Relied
    <3>3. \A c \in Storage(l) : mem[c] = 0
      BY <3>1, <3>2 DEF Initially
    <3>4. \A y \in Elements(l) : Homes(l)[y] \in Storage(l) /\ Sites(l)[y] \in Storage(l)
      BY <2>0, <2>3, <3>2, HomesApart, KeptApart DEF Inside
    <3>5. Room(l, chosen) = Storage(l) /\ Now(l, chosen) = Sites(l)
      BY <2>3 DEF Room, Held, Now
    <3> QED BY <2>0, <2>3, <3>1, <3>3, <3>4, <3>5 DEF Alike, Untouched
  <2> QED BY <2>0, <2>1, <2>2, <2>3 DEF LayoutOk
<1>4. Relied(l) => same
  BY DEF LayoutInv
<1> QED BY <1>1, <1>2, <1>3, <1>4 DEF LayoutInv

LEMMA AccessStep == ASSUME LayoutInv, AccessArray PROVE LayoutInv'
<1> DEFINE l == layout
           op == l.ops[access]
           x == <<op.i, op.f>>
           p == Now(l, chosen)
<1>1. layoutPc = "run" /\ access' = access + 1 /\ UNCHANGED <<layout, chosen, layoutPc>>
  BY DEF AccessArray
<1>2. op \in ToSet(l.ops) /\ LayoutOk(l)
  <2>1. LayoutOk(l) /\ access \in 1 .. Len(l.ops)
    BY LayoutsAreOk DEF AccessArray, LayoutInv, LayoutTypes
  <2>2. DOMAIN l.ops = 1 .. Len(l.ops)
    BY <2>1 DEF LayoutOk
  <2> QED BY <2>1, <2>2 DEF ToSet
<1> DEFINE home == Cell(l, op.i, op.f)
           new == IF chosen THEN Target(l, op) ELSE home
<1>3. /\ mem' = Accessed(mem, op, access, home) /\ moved' = Accessed(moved, op, access, new)
      /\ same' = (same /\ Seen(mem, op, home) = Seen(moved, op, new))
  BY DEF AccessArray
<1>4. DOMAIN mem' = DOMAIN mem
  <2>1. Accessed(mem, op, access, home) = mem \/ DOMAIN Accessed(mem, op, access, home) = DOMAIN mem
    BY DEF Accessed
  <2> QED BY <1>3, <2>1
<1>5. LayoutTypes' /\ Rewriting'
  BY <1>1, <1>4 DEF LayoutInv, LayoutTypes, Rewriting
<1>6. ASSUME Relied(l)
      PROVE  /\ same' /\ DOMAIN moved' = Room(l, chosen) /\ Alike(l, mem', moved', p) /\ Untouched(l, mem', moved')
  <2>1. /\ DOMAIN mem = Storage(l) /\ DOMAIN moved = Room(l, chosen) /\ Alike(l, mem, moved, p) /\ Untouched(l, mem, moved)
        /\ same /\ chosen \in BOOLEAN /\ (chosen /\ l.variant = "auto" => Transforms(l))
    BY <1>1, <1>6 DEF LayoutInv, LayoutTypes, Rewriting
  <2>2. op.how # "wide"
    BY <1>2, <1>6 DEF Relied
  <2>3. x \in Elements(l) /\ Homes(l)[x] = home /\ p[x] = new
    BY <1>2, <1>6, <2>1, NowIs
  <2>4. Apart(l, p) /\ Inside(l, p, DOMAIN moved) /\ Around(l) \subseteq DOMAIN moved
    BY <1>2, <1>6, <2>1, NowApart
  <2>6. /\ mem' = Accessed(mem, op, access, Homes(l)[x]) /\ moved' = Accessed(moved, op, access, p[x])
        /\ same' = (same /\ Seen(mem, op, Homes(l)[x]) = Seen(moved, op, p[x]))
    BY <1>3, <2>3
  <2> HIDE DEF p, op, x, l
  <2>8. /\ DOMAIN mem' = DOMAIN mem /\ DOMAIN moved' = DOMAIN moved
        /\ Alike(l, mem', moved', p)
        /\ ~ op.write => mem' = mem /\ moved' = moved
        /\ Seen(mem, op, Homes(l)[x]) = Seen(moved, op, p[x])
    <3>1. x \in Elements(l) /\ DOMAIN mem = Storage(l) /\ Alike(l, mem, moved, p)
      BY <2>1, <2>3
    <3>2. MayAccess(l, op, x, mem, moved, p)
      BY <1>2, <2>2, <2>4, <3>1 DEF MayAccess
    <3>3. mem' = Accessed(mem, op, access, Homes(l)[x]) /\ moved' = Accessed(moved, op, access, p[x])
      BY <2>6
    <3>4. Agrees(l, op, x, mem, moved, p, mem', moved')
      BY <3>2, <3>3, AccessKeeps
    <3> QED BY <3>4 DEF Agrees
  <2>9. Unwritten(l) => ~ op.write
    BY <1>2 DEF Unwritten
  <2> QED BY <2>1, <2>6, <2>8, <2>9 DEF Untouched
<1> QED BY <1>1, <1>5, <1>6 DEF LayoutInv

LEMMA LeaveKeeps == ASSUME LayoutInv, LeaveFunction PROVE LayoutInv'
<1> DEFINE l == layout
           p == Now(l, l.variant = "force")
<1>1. layoutPc = "run" /\ layoutPc' = "over" /\ UNCHANGED <<layout, mem, chosen, access, same>>
  BY DEF LeaveFunction
<1>2. LayoutTypes' /\ Rewriting'
  BY <1>1 DEF LayoutInv, LayoutTypes, Rewriting
<1>3. ASSUME Relied(l)
      PROVE  /\ DOMAIN moved' = IF l.variant = "auto" /\ l.exit # "return" THEN Room(l, chosen) ELSE Storage(l)
             /\ Alike(l, mem, moved', p)
  <2>0. /\ LayoutOk(l) /\ DOMAIN mem = Storage(l) /\ chosen \in BOOLEAN /\ DOMAIN moved = Room(l, chosen)
        /\ Alike(l, mem, moved, Now(l, chosen)) /\ Untouched(l, mem, moved)
        /\ (chosen /\ l.variant = "auto" => Transforms(l)) /\ (l.variant = "force" => chosen)
    BY <1>1, <1>3, LayoutsAreOk DEF LayoutInv, LayoutTypes, Rewriting
  <2>1. CASE chosen /\ l.variant = "auto" /\ l.exit = "return"
    <3>1. Param(l) = Own(l) /\ l.length >= 1 /\ Live(l, Own(l)) \subseteq Fields
      BY <1>3, <2>0, <2>1, CopiedIs
    <3>2. moved' = Gather(l, Own(l), moved)
      BY <2>1, <3>1 DEF LeaveFunction, Copies
    <3>3. DOMAIN moved = Held(l) /\ Alike(l, mem, moved, Sites(l))
      BY <2>0, <2>1 DEF Room, Now
    <3>4. DOMAIN moved' = Storage(l) /\ Alike(l, mem, moved', Homes(l))
      BY <2>0, <2>1, <3>1, <3>2, <3>3, GatherIs
    <3>5. p = Homes(l)
      BY <2>1 DEF Now
    <3> QED BY <2>1, <3>4, <3>5
  <2>2. CASE chosen /\ l.variant = "auto" /\ l.exit # "return"
    <3>1. moved' = moved
      BY <2>2 DEF LeaveFunction, Copies
    <3>2. l.exit = "throw"
      BY <2>0, <2>2 DEF LeaveFunction, LayoutOk
    <3>3. \A c \in Storage(l) : mem[c] = moved[c]
      BY <1>3, <2>0, <2>2, <3>2 DEF Relied, Untouched
    <3>4. p = Homes(l) /\ \A y \in Elements(l) : Homes(l)[y] \in Storage(l)
      BY <2>0, <2>2, HomesApart DEF Now, Inside
    <3> QED BY <2>0, <2>2, <3>1, <3>3, <3>4 DEF Alike
  <2>3. CASE ~ chosen
    <3>1. moved' = moved /\ l.variant # "force"
      BY <2>0, <2>3 DEF LeaveFunction, Copies
    <3>2. p = Now(l, chosen) /\ Room(l, chosen) = Storage(l)
      BY <2>3, <3>1 DEF Now, Room
    <3> QED BY <2>0, <3>1, <3>2
  <2>4. CASE chosen /\ l.variant = "force"
    <3>1. moved' = moved
      BY <2>4 DEF LeaveFunction, Copies
    <3>2. p = Now(l, chosen) /\ Room(l, chosen) = Storage(l)
      BY <2>4 DEF Now, Room, Held
    <3> QED BY <2>0, <2>4, <3>1, <3>2
  <2> QED BY <2>0, <2>1, <2>2, <2>3, <2>4 DEF LayoutOk
<1>4. Relied(l) => same
  BY DEF LayoutInv
<1> QED BY <1>1, <1>2, <1>3, <1>4 DEF LayoutInv

LEMMA LayoutKept == ASSUME LayoutInv PROVE LayoutKeepsValues
<1> DEFINE l == layout
<1> SUFFICES ASSUME Relied(l)
             PROVE  /\ same
                    /\ layoutPc = "over" =>
                         /\ \A i \in 0 .. l.length - 1, f \in Fields : mem[Cell(l, i, f)] = moved[KeptAt(l, i, f)]
                         /\ \A c \in DOMAIN mem : c[2] < l.member \/ c[2] >= l.member + 2 * l.length => mem[c] = moved[c]
  BY DEF LayoutKeepsValues
<1>1. same
  BY DEF LayoutInv
<1> SUFFICES ASSUME layoutPc = "over"
             PROVE  /\ \A i \in 0 .. l.length - 1, f \in Fields : mem[Cell(l, i, f)] = moved[KeptAt(l, i, f)]
                    /\ \A c \in DOMAIN mem : c[2] < l.member \/ c[2] >= l.member + 2 * l.length => mem[c] = moved[c]
  BY <1>1
<1>2. Alike(l, mem, moved, Now(l, l.variant = "force")) /\ DOMAIN mem = Storage(l)
  BY DEF LayoutInv, LayoutTypes
<1>3. ASSUME NEW i \in 0 .. l.length - 1, NEW f \in Fields PROVE mem[Cell(l, i, f)] = moved[KeptAt(l, i, f)]
  <2> DEFINE e == <<i, f>>
  <2>1. e \in Elements(l) /\ e[1] = i /\ e[2] = f
    BY DEF Elements
  <2>2. Homes(l)[e] = Cell(l, i, f)
    BY <2>1 DEF Homes
  <2>3. Now(l, l.variant = "force")[e] = KeptAt(l, i, f)
    BY <2>1, <2>2 DEF Now, Sites, KeptAt
  <2> HIDE DEF e
  <2> QED BY <1>2, <2>1, <2>2, <2>3 DEF Alike
<1>4. ASSUME NEW c \in DOMAIN mem, c[2] < l.member \/ c[2] >= l.member + 2 * l.length PROVE mem[c] = moved[c]
  BY <1>2, <1>4 DEF Alike, Around
<1> QED BY <1>3, <1>4

\* For every set of functions and arrays, of any length and anywhere in their
\* allocation, with any accesses in any forms: one that keeps to what the pass relies
\* on reads what it read and leaves what it left, by copy and in place.
THEOREM LayoutKeepsMeaning == LayoutSpec => []LayoutKeepsValues
<1>1. LayoutInit => LayoutInv
  <2> SUFFICES ASSUME LayoutInit PROVE LayoutInv
    OBVIOUS
  <2>1. DOMAIN mem = Storage(layout)
    BY DEF LayoutInit, LayoutInitFrom, Initially
  <2>2. /\ layout \in Layouts /\ access = 1 /\ chosen = FALSE /\ layoutPc = "rewrite" /\ same = TRUE
        /\ moved = mem /\ mem = Initially(layout)
    BY DEF LayoutInit, LayoutInitFrom
  <2>3. LayoutTypes
    <3>1. access \in Nat \ {0}
      BY <2>2
    <3>2. chosen \in BOOLEAN
      BY <2>2
    <3> QED BY <2>1, <2>2, <3>1, <3>2 DEF LayoutTypes
  <2>4. Rewriting
    BY <2>2 DEF Rewriting
  <2> QED BY <2>2, <2>3, <2>4 DEF LayoutInv
<1>2. LayoutInv /\ [LayoutNext]_layoutVars => LayoutInv'
  <2> SUFFICES ASSUME LayoutInv, [LayoutNext]_layoutVars PROVE LayoutInv'
    OBVIOUS
  <2>1. CASE UNCHANGED layoutVars
    BY <2>1 DEF layoutVars, LayoutInv, LayoutTypes, Rewriting
  <2> QED BY <2>1, RewriteKeeps, EnterKeeps, AccessStep, LeaveKeeps DEF LayoutNext, LayoutOver
<1>3. LayoutInv => LayoutKeepsValues
  BY LayoutKept
<1> QED BY <1>1, <1>2, <1>3, PTL DEF LayoutSpec

-----------------------------------------------------------------------------
(* Indirection: operations, and what the pass makes of them.               *)

SourceOk(s) ==
  /\ IsFiniteSet(DOMAIN s.functions)
  /\ \A p \in s.pipelines : DOMAIN p \subseteq DOMAIN s.functions /\ \A f \in DOMAIN p : p[f] \in Nat
  /\ \A c \in DOMAIN s.classes : s.classes[c].members \in Seq(ToSet(s.classes[c].members))
  /\ \A f \in DOMAIN s.functions :
       LET fn == s.functions[f]
       IN /\ fn.body \in Seq(ToSet(fn.body))
          /\ \A op \in ToSet(fn.body) :
               /\ op.do \in {"sub", "add", "arith", "memory", "dispatch"}
               /\ op.do = "dispatch" =>
                    /\ op.slot \in Nat /\ op.param \in {0} \cup DOMAIN fn.params
                    /\ op.param # 0 => fn.params[op.param] \in DOMAIN s.classes

LEMMA SourcesAreOk == \A s \in Sources : SourceOk(s)
BY IndirectionAssumption DEF SourceOk

\* The operations of a function, as a function of their places.
LEMMA OperationsAre ==
  ASSUME SourceOk(source), NEW f \in Functions
  PROVE  /\ Len(Operations(f)) \in Nat /\ DOMAIN Operations(f) = 1 .. Len(Operations(f))
         /\ \A i \in DOMAIN Operations(f) :
              LET op == Operations(f)[i]
              IN /\ op \in ToSet(Operations(f)) /\ op.do \in {"sub", "add", "arith", "memory", "dispatch"}
                 /\ op.do \in {"sub", "add"} => op.at \in Counts
<1> DEFINE b == Operations(f)
<1>1. b \in Seq(ToSet(b)) /\ \A op \in ToSet(b) : op.do \in {"sub", "add", "arith", "memory", "dispatch"}
  BY DEF SourceOk, Operations, Functions
<1>2. Len(b) \in Nat /\ DOMAIN b = 1 .. Len(b) /\ \A i \in DOMAIN b : b[i] \in ToSet(b)
  BY <1>1
<1>3. \A op \in ToSet(b) : op.do \in {"sub", "add"} => op.at \in Counts
  BY DEF Counts
<1> HIDE DEF b
<1>4. \A i \in DOMAIN b : /\ b[i] \in ToSet(b) /\ b[i].do \in {"sub", "add", "arith", "memory", "dispatch"}
                          /\ b[i].do \in {"sub", "add"} => b[i].at \in Counts
  BY <1>1, <1>2, <1>3
<1> QED BY <1>2, <1>4 DEF b

\* What the pass makes of an operation.
LEMMA EmittedIs ==
  ASSUME NEW f \in Functions, emitted = [g \in Functions |-> EmittedFor(g)], NEW i \in DOMAIN Operations(f)
  PROVE  LET op == Operations(f)[i]
         IN \/ emitted[f][i] = op
            \/ emitted[f][i] = NotAtomic(op) /\ op.do \in {"sub", "add"} /\ RunsAlone(f)
            \/ emitted[f][i] = Direct(f, op) /\ Devirtualized(f, op)
<1> DEFINE b == Operations(f)
           pairs == IF switches.shared /\ InPipeline(f) /\ RunsAlone(f) THEN Paired(b) ELSE {}
           plain == UNION {{p[1], p[2]} : p \in pairs}
<1>1. emitted[f] = EmittedFor(f)
  OBVIOUS
<1>2. EmittedFor(f)[i] = IF i \in plain THEN NotAtomic(b[i])
                         ELSE IF switches.devirtualize /\ InPipeline(f) /\ Devirtualized(f, b[i]) THEN Direct(f, b[i])
                         ELSE b[i]
  BY DEF EmittedFor
<1>3. ASSUME i \in plain PROVE b[i].do \in {"sub", "add"} /\ RunsAlone(f)
  <2>1. PICK p \in pairs : i \in {p[1], p[2]}
    BY <1>3
  <2>2. RunsAlone(f) /\ p \in Paired(b)
    BY <2>1
  <2>3. b[p[1]].do = "sub" /\ b[p[2]].do = "add"
    BY <2>2 DEF Paired
  <2> QED BY <2>1, <2>2, <2>3
<1> HIDE DEF plain, b
<1> QED BY <1>1, <1>2, <1>3 DEF b

-----------------------------------------------------------------------------
(* The counts, and the operations on them that have run.                   *)
Did(do, c) == {fi \in Counted(do, c) : fi[2] < step[fi[1]]}
AllAgree   == \A f \in DOMAIN flow : Agreed(f)

Stepped == DOMAIN step = Functions /\ \A f \in Functions : step[f] \in 1 .. Len(Operations(f)) + 1
HeldIs(f) ==
  held[f] # Absent =>
    /\ Running(f) /\ emitted[f][step[f]].do = "plain"
    /\ held[f] = <<counts[emitted[f][step[f]].at]>>
Exact ==
  /\ DOMAIN held = Functions /\ \A f \in Functions : HeldIs(f)
  /\ DOMAIN counts = Counts /\ \A c \in Counts : counts[c] = Cardinality(Did("add", c)) - Cardinality(Did("sub", c))

PointerInv ==
  /\ source \in Sources
  /\ emitted # Absent => emitted = [f \in Functions |-> EmittedFor(f)]
  /\ flow = Absent => step = [f \in Functions |-> 1] /\ held = [f \in Functions |-> Absent] /\ counts = [c \in Counts |-> 0]
  /\ flow # Absent => emitted # Absent /\ flow \in source.pipelines /\ \A f \in Functions : given[f] \in Objects(f)
  /\ Stepped
  /\ AllAgree => Exact
  /\ \A fi \in misled :
       /\ fi[1] \in Functions /\ fi[2] \in DOMAIN Operations(fi[1])
       /\ LET op == Operations(fi[1])[fi[2]] IN ~ Flat(op, Static(fi[1], op))

LEMMA CountedFinite ==
  ASSUME SourceOk(source), flow \in source.pipelines, NEW do, NEW c
  PROVE  IsFiniteSet(Counted(do, c))
<1> DEFINE D == DOMAIN flow
           Of == {{f} \X DOMAIN Operations(f) : f \in D}
<1>1. D \subseteq Functions /\ IsFiniteSet(D)
  BY FS_Subset DEF SourceOk, Functions
<1>2. IsFiniteSet(Of)
  <2> DEFINE h == [f \in D |-> {f} \X DOMAIN Operations(f)]
  <2>1. h \in Surjection(D, Of)
    BY DEF Surjection
  <2> QED BY <1>1, <2>1, FS_Surjection
<1>3. ASSUME NEW T \in Of PROVE IsFiniteSet(T)
  <2>1. PICK f \in D : T = {f} \X DOMAIN Operations(f)
    OBVIOUS
  <2>2. Len(Operations(f)) \in Nat /\ DOMAIN Operations(f) = 1 .. Len(Operations(f))
    BY <1>1, OperationsAre
  <2>3. IsFiniteSet(DOMAIN Operations(f)) /\ IsFiniteSet({f})
    <3>1. IsFiniteSet(1 .. Len(Operations(f)))
      BY <2>2, FS_Interval
    <3>2. IsFiniteSet({f})
      BY FS_Singleton
    <3> QED BY <2>2, <3>1, <3>2
  <2> QED BY <2>1, <2>3, FS_Product
<1> HIDE DEF Of
<1>4. IsFiniteSet(UNION Of)
  BY <1>2, <1>3, FS_UNION
<1>5. Counted(do, c) \in SUBSET UNION Of
  BY DEF Counted, Of
<1> QED BY <1>4, <1>5, FS_Subset

\* A function that goes on has done one operation more.
LEMMA OneMoreDid ==
  ASSUME PointerInv, NEW f \in Functions, Running(f), Advance(f), UNCHANGED <<source, flow>>,
         NEW do, NEW c
  PROVE  LET op == Operations(f)[step[f]]
         IN /\ Cardinality(Did(do, c)) \in Nat
            /\ Cardinality(Did(do, c)') = Cardinality(Did(do, c)) + IF op.do = do /\ op.at = c THEN 1 ELSE 0
<1> DEFINE i == step[f]
           op == Operations(f)[i]
           D == Did(do, c)
<1>1. SourceOk(source) /\ flow \in source.pipelines /\ f \in DOMAIN flow
  BY SourcesAreOk DEF PointerInv, Running
<1>2. i \in DOMAIN Operations(f) /\ i \in Nat
  <2>1. i \in 1 .. Len(Operations(f)) + 1 /\ ~ (i > Len(Operations(f)))
    BY DEF PointerInv, Stepped, Running, AtEnd
  <2>2. Len(Operations(f)) \in Nat /\ DOMAIN Operations(f) = 1 .. Len(Operations(f))
    BY <1>1, OperationsAre
  <2> QED BY <2>1, <2>2
<1>3. IsFiniteSet(Counted(do, c)) /\ IsFiniteSet(D)
  <2>1. D \in SUBSET Counted(do, c)
    BY DEF Did
  <2> QED BY <1>1, <2>1, CountedFinite, FS_Subset
<1>4. Counted(do, c)' = Counted(do, c)
  BY DEF Counted, Operations
<1>5. DOMAIN step = Functions /\ DOMAIN flow \subseteq Functions /\ \A g \in Functions : step[g] \in Nat
  BY <1>1 DEF PointerInv, Stepped, SourceOk, Functions
<1>6. \A g \in DOMAIN flow : step'[g] = IF g = f THEN i + 1 ELSE step[g]
  BY <1>5 DEF Advance
<1>7. \A fi \in Counted(do, c) : fi[1] \in DOMAIN flow /\ fi[2] \in DOMAIN Operations(fi[1]) /\ fi = <<fi[1], fi[2]>> /\ fi[2] \in Nat
  <2>1. \A g \in DOMAIN flow : DOMAIN Operations(g) = 1 .. Len(Operations(g)) /\ Len(Operations(g)) \in Nat
    BY <1>1, <1>5, OperationsAre
  <2>2. ASSUME NEW fi \in Counted(do, c)
        PROVE  fi[1] \in DOMAIN flow /\ fi[2] \in DOMAIN Operations(fi[1]) /\ fi = <<fi[1], fi[2]>>
    BY DEF Counted
  <2>3. ASSUME NEW fi \in Counted(do, c) PROVE fi[2] \in Nat
    BY <2>1, <2>2
  <2> QED BY <2>2, <2>3
<1>8. <<f, i>> \in Counted(do, c) <=> op.do = do /\ op.at = c
  <2>1. <<f, i>> \in UNION {{g} \X DOMAIN Operations(g) : g \in DOMAIN flow}
    <3>1. <<f, i>> \in {f} \X DOMAIN Operations(f)
      BY <1>2
    <3> QED BY <1>1, <3>1
  <2> QED BY <2>1 DEF Counted
<1>9. <<f, i>> \notin D
  <2>1. ~ (i < step[f])
    BY <1>2
  <2> QED BY <2>1 DEF Did
<1>10. Did(do, c)' = {fi \in Counted(do, c) : fi[2] < step'[fi[1]]}
  BY <1>4 DEF Did
<1>11. Did(do, c)' = IF op.do = do /\ op.at = c THEN D \cup {<<f, i>>} ELSE D
  <2>1. \A fi \in Counted(do, c) : fi[2] < step'[fi[1]] <=> fi[2] < step[fi[1]] \/ fi = <<f, i>>
    <3> SUFFICES ASSUME NEW fi \in Counted(do, c) PROVE fi[2] < step'[fi[1]] <=> fi[2] < step[fi[1]] \/ fi = <<f, i>>
      OBVIOUS
    <3>1. fi[1] \in DOMAIN flow /\ fi = <<fi[1], fi[2]>> /\ fi[2] \in Nat
      BY <1>7
    <3>2. CASE fi[1] = f
      <4>1. step'[fi[1]] = i + 1 /\ step[fi[1]] = i
        BY <1>6, <3>1, <3>2
      <4>2. fi = <<f, i>> <=> fi[2] = i
        BY <3>1, <3>2
      <4> HIDE DEF i
      <4> QED BY <1>2, <3>1, <4>1, <4>2
    <3>3. CASE fi[1] # f
      <4>1. step'[fi[1]] = step[fi[1]]
        BY <1>6, <3>1, <3>3
      <4>2. fi # <<f, i>>
        BY <3>3
      <4> HIDE DEF i
      <4> QED BY <4>1, <4>2
    <3> QED BY <3>2, <3>3
  <2>2. D = {fi \in Counted(do, c) : fi[2] < step[fi[1]]}
    BY DEF Did
  <2> HIDE DEF D, i, op
  <2>3. Did(do, c)' = {fi \in Counted(do, c) : fi[2] < step[fi[1]] \/ fi = <<f, i>>}
    BY <1>10, <2>1
  <2> QED BY <1>8, <2>2, <2>3
<1>12. Cardinality(D) \in Nat
  BY <1>3, FS_CardinalityType
<1>13. Cardinality(D \cup {<<f, i>>}) = Cardinality(D) + 1
  BY <1>3, <1>9, FS_AddElement
<1> HIDE DEF D, i, op
<1>14. Cardinality(Did(do, c)') = Cardinality(D) + IF op.do = do /\ op.at = c THEN 1 ELSE 0
  BY <1>11, <1>12, <1>13
<1> QED BY <1>12, <1>14 DEF D, i, op

\* Of two functions of a flow that run, none is alone in its stage.
LEMMA NotAlone ==
  ASSUME SourceOk(source), flow \in source.pipelines, AllAgree,
         NEW f \in Functions, NEW g \in Functions, f # g, Running(f), Running(g), RunsAlone(g)
  PROVE  FALSE
<1>1. f \in DOMAIN flow /\ g \in DOMAIN flow /\ ~ AtEnd(f) /\ ~ AtEnd(g)
  BY DEF Running
<1>2. ~ (flow[f] < flow[g]) /\ ~ (flow[g] < flow[f])
  BY <1>1 DEF Running
<1>3. flow[f] \in Nat /\ flow[g] \in Nat
  BY <1>1 DEF SourceOk
<1>4. flow[f] = flow[g]
  BY <1>2, <1>3
<1>5. Exclusive(flow, g)
  BY <1>1 DEF AllAgree, Agreed
<1> QED BY <1>1, <1>4, <1>5 DEF Exclusive

\* A count that is held is held by the one function that runs.
LEMMA HeldAlone ==
  ASSUME PointerInv, AllAgree, NEW f \in Functions, Running(f), NEW g \in Functions, held[g] # Absent
  PROVE  g = f
<1>1. HeldIs(g) /\ SourceOk(source) /\ flow \in source.pipelines /\ emitted = [h \in Functions |-> EmittedFor(h)]
  BY SourcesAreOk DEF PointerInv, Exact, Running
<1>2. Running(g) /\ emitted[g][step[g]].do = "plain"
  BY <1>1 DEF HeldIs
<1>3. step[g] \in DOMAIN Operations(g)
  <2>1. step[g] \in 1 .. Len(Operations(g)) + 1 /\ ~ (step[g] > Len(Operations(g)))
    BY <1>2 DEF PointerInv, Stepped, Running, AtEnd
  <2>2. Len(Operations(g)) \in Nat /\ DOMAIN Operations(g) = 1 .. Len(Operations(g))
    BY <1>1, OperationsAre
  <2> QED BY <2>1, <2>2
<1>4. RunsAlone(g)
  <2> DEFINE op == Operations(g)[step[g]]
  <2>1. op.do # "plain"
    BY <1>1, <1>3, OperationsAre
  <2>2. Direct(g, op).do = "direct"
    BY DEF Direct
  <2>3. \/ emitted[g][step[g]] = op
        \/ emitted[g][step[g]] = NotAtomic(op) /\ op.do \in {"sub", "add"} /\ RunsAlone(g)
        \/ emitted[g][step[g]] = Direct(g, op) /\ Devirtualized(g, op)
    BY <1>1, <1>3, EmittedIs
  <2> QED BY <1>2, <2>1, <2>2, <2>3
<1> QED BY <1>1, <1>2, <1>4, NotAlone

\* What a step does when it takes the operation at hand: counts move as the program
\* says, and nothing is held after it.
LEMMA StepIsExact ==
  ASSUME PointerInv, AllAgree, NEW f \in Functions, Running(f), Advance(f), UNCHANGED <<source, flow, emitted>>,
         DOMAIN held' = Functions, \A g \in Functions : held'[g] = Absent,
         DOMAIN counts' = Counts,
         \A c \in Counts :
           LET op == Operations(f)[step[f]]
           IN counts'[c] = counts[c] + IF op.do = "add" /\ op.at = c THEN 1 ELSE IF op.do = "sub" /\ op.at = c THEN -1 ELSE 0
  PROVE  Exact'
<1> DEFINE op == Operations(f)[step[f]]
<1>1. Counts' = Counts /\ Functions' = Functions
  BY DEF Counts, Functions, Operations
<1>2. ASSUME NEW g \in Functions PROVE HeldIs(g)'
  BY DEF HeldIs, Absent
<1>3. ASSUME NEW c \in Counts PROVE counts'[c] = Cardinality(Did("add", c)') - Cardinality(Did("sub", c)')
  <2> DEFINE a == Cardinality(Did("add", c))  s == Cardinality(Did("sub", c))
  <2>1. a \in Nat /\ Cardinality(Did("add", c)') = a + IF op.do = "add" /\ op.at = c THEN 1 ELSE 0
    BY OneMoreDid
  <2>2. s \in Nat /\ Cardinality(Did("sub", c)') = s + IF op.do = "sub" /\ op.at = c THEN 1 ELSE 0
    BY OneMoreDid
  <2>3. counts[c] = a - s
    BY DEF PointerInv, Exact
  <2>4. counts'[c] = counts[c] + IF op.do = "add" /\ op.at = c THEN 1 ELSE IF op.do = "sub" /\ op.at = c THEN -1 ELSE 0
    OBVIOUS
  <2> HIDE DEF a, s, op
  <2> QED BY <2>1, <2>2, <2>3, <2>4
<1> QED BY <1>1, <1>2, <1>3 DEF Exact

\* What the pass reads and makes does not change while the program stays.
LEMMA TableStays == ASSUME UNCHANGED source, NEW c PROVE VTable(c)' = VTable(c)
BY DEF VTable, Lay, Members, Bases, FoldLeft, MapThenFoldSet

LEMMA ReadStays ==
  ASSUME UNCHANGED source, NEW f, NEW op PROVE Devirtualized(f, op)' = Devirtualized(f, op) /\ Direct(f, op)' = Direct(f, op)
<1>1. \A c : VTable(c)' = VTable(c) /\ ClassMethods(c)' = ClassMethods(c) /\ Concrete(c)' = Concrete(c)
  BY TableStays DEF ClassMethods, Members, Concrete, Known, Bases
<1> QED BY <1>1 DEF Devirtualized, Direct, CallType, Static

LEMMA EmittedStays ==
  ASSUME UNCHANGED <<source, switches>>, NEW f PROVE EmittedFor(f)' = EmittedFor(f)
<1>1. \A op : Devirtualized(f, op)' = Devirtualized(f, op) /\ Direct(f, op)' = Direct(f, op)
  BY ReadStays
<1> QED BY <1>1 DEF EmittedFor, InPipeline, RunsAlone, Operations

(* Calls: the table of a class, and what the declarations tell of it.      *)

\* Places of a sequence make a sequence.
LEMMA PickedIsSeq ==
  ASSUME NEW V, NEW s \in Seq(V), NEW K
  PROVE  Picked(s, K) \in Seq(V)
<1> DEFINE q == [k \in DOMAIN s |-> IF k \in K THEN <<s[k]>> ELSE << >>]
<1>1. Len(s) \in Nat /\ DOMAIN s = 1 .. Len(s) /\ q \in [1 .. Len(s) -> Seq(V)]
  OBVIOUS
<1> HIDE DEF q
<1>2. FlattenSeq(q) \in Seq(V)
  BY <1>1, FlattenIsSeq
<1> QED BY <1>2 DEF Picked, q

\* The table of a class without a base is what it lays out itself.
LEMMA TableAtRoot ==
  ASSUME NEW c, Bases(c) = << >>
  PROVE  VTable(c) = Lay(<< >>, c)
<1> DEFINE s == <<c>>
           Folds(G) == G = [t \in SUBSET (DOMAIN s) |-> IF t = {} THEN << >> ELSE Lay(G[t \ {Max(t)}], s[Max(t)])]
           I == CHOOSE G : Folds(G)
           H == [t \in SUBSET (1 .. 1) |-> IF t = {} THEN << >> ELSE Lay(<< >>, c)]
<1>1. Append(Bases(c), c) = s /\ DOMAIN s = 1 .. 1 /\ s[1] = c /\ 1 .. 1 # {} /\ 1 .. 1 \in SUBSET (1 .. 1)
  OBVIOUS
<1>2. VTable(c) = I[1 .. 1]
  BY <1>1 DEF VTable, FoldLeft, MapThenFoldSet
<1>3. \A t \in SUBSET (1 .. 1) : t # {} => t = 1 .. 1 /\ Max(t) = 1 /\ t \ {Max(t)} = {}
  <2>1. Max(1 .. 1) = 1 /\ (1 .. 1) \ {Max(1 .. 1)} = 1 .. (1 - 1) /\ 1 .. (1 - 1) = {}
    BY Shortened
  <2>2. \A t \in SUBSET (1 .. 1) : t # {} => t = 1 .. 1
    <3>1. 1 .. 1 = {1}
      OBVIOUS
    <3> QED BY <3>1
  <2> QED BY <2>1, <2>2
<1> HIDE DEF s
<1>4. Folds(H)
  <2>1. \A t \in SUBSET (1 .. 1) : H[t] = IF t = {} THEN << >> ELSE Lay(H[t \ {Max(t)}], s[Max(t)])
    BY <1>1, <1>3
  <2>2. H = [t \in SUBSET (1 .. 1) |-> H[t]]
    OBVIOUS
  <2> HIDE DEF H
  <2> QED BY <1>1, <2>1, <2>2
<1> HIDE DEF H
<1>5. Folds(I)
  <2> HIDE DEF Folds
  <2> QED BY <1>4
<1> HIDE DEF I
<1>6. \A t \in SUBSET (1 .. 1) : I[t] = IF t = {} THEN << >> ELSE Lay(I[t \ {Max(t)}], s[Max(t)])
  BY <1>1, <1>5
<1>7. I[1 .. 1] = Lay(I[{}], c) /\ I[{}] = << >>
  <2>1. (1 .. 1) \ {Max(1 .. 1)} = {} /\ s[Max(1 .. 1)] = c /\ {} \in SUBSET (1 .. 1)
    BY <1>1, <1>3
  <2> QED BY <1>1, <1>6, <2>1
<1> QED BY <1>2, <1>7

\* What the pass has a slot be is what is in it.
LEMMA DirectIsRight ==
  ASSUME SourceOk(source), NEW f \in Functions, NEW op \in ToSet(Operations(f)), Devirtualized(f, op),
         Flat(op, Static(f, op)), NEW o \in Objects(f)
  PROVE  Direct(f, op).to = VTable(Reached(op, o[op.param]))[op.slot + 1]
<1> DEFINE c == Static(f, op)
           ms == Members(c)
           methods == ClassMethods(c)
           k == op.slot + 1
<1>1. op.do = "dispatch" /\ op.param # 0 /\ op.slot < Len(methods)
  BY DEF Devirtualized
<1>2. op.slot \in Nat /\ op.param \in DOMAIN source.functions[f].params /\ c \in DOMAIN source.classes
  BY <1>1 DEF SourceOk, Functions, Operations, Static
<1>3. ms \in Seq(ToSet(ms))
  BY <1>2 DEF SourceOk, Members
<1>4. methods \in Seq(ToSet(ms))
  BY <1>3, PickedIsSeq DEF ClassMethods
<1>5. o[op.param] = c
  BY <1>2 DEF Objects, Flat, Static
<1>6. Reached(op, o[op.param]) = c /\ Bases(c) = << >>
  BY <1>5 DEF Reached, Flat
<1> DEFINE own == {j \in DOMAIN ms : ms[j].virtual}
           new == {j \in own : \A i \in DOMAIN << >> : ~ SameSlot(ms[j], << >>[i])}
<1>7. {j \in DOMAIN ms : ms[j].declared /\ ~ ms[j].static} = own
  <2>1. \A j \in DOMAIN ms : ms[j] \in ToSet(ms)
    BY <1>3 DEF ToSet
  <2>2. \A m \in ToSet(ms) : m.declared /\ ~ m.static <=> m.virtual
    BY DEF Flat
  <2> HIDE DEF ms
  <2> QED BY <2>1, <2>2
<1>8. new = own
  <2>1. DOMAIN << >> = {}
    OBVIOUS
  <2> HIDE DEF own
  <2> QED BY <2>1
<1>9. methods = Picked(ms, new)
  BY <1>7, <1>8 DEF ClassMethods
<1>10. Lay(<< >>, c) = [j \in DOMAIN methods |-> Slot(c, methods[j])]
  <2> DEFINE above == [j \in DOMAIN << >> |-> IF \E i \in own : SameSlot(ms[i], << >>[j]) THEN [<< >>[j] EXCEPT !.class = c] ELSE << >>[j]]
             slots == [j \in DOMAIN methods |-> Slot(c, methods[j])]
  <2>1. Lay(<< >>, c) = above \o slots
    BY <1>9 DEF Lay
  <2>2. above = << >>
    <3>1. DOMAIN << >> = {}
      OBVIOUS
    <3> HIDE DEF own
    <3> QED BY <3>1
  <2>3. slots \in Seq({Slot(c, methods[j]) : j \in DOMAIN methods})
    <3> HIDE DEF methods
    <3> QED BY <1>4
  <2> HIDE DEF above, slots
  <2>4. << >> \o slots = slots
    BY <2>3
  <2> QED BY <2>1, <2>2, <2>4 DEF slots
<1>11. k \in DOMAIN methods
  <2> HIDE DEF methods
  <2> QED BY <1>1, <1>2, <1>4
<1>12. VTable(c)[k] = Slot(c, methods[k])
  <2>1. VTable(c) = [j \in DOMAIN methods |-> Slot(c, methods[j])]
    BY <1>6, <1>10, TableAtRoot
  <2> HIDE DEF methods, k
  <2> QED BY <1>11, <2>1
<1>13. Direct(f, op).to = Slot(c, methods[k])
  BY DEF Direct
<1> QED BY <1>6, <1>12, <1>13

(* The steps.                                                              *)

LEMMA PointerStarts == ASSUME IndirectionInit PROVE PointerInv
<1>1. SourceOk(source) /\ flow = << >> /\ source \in Sources
  BY SourcesAreOk DEF IndirectionInit, IndirectionInitFrom, Absent
<1>2. Stepped
  <2>1. \A f \in Functions : Len(Operations(f)) \in Nat
    BY <1>1, OperationsAre
  <2> QED BY <2>1 DEF IndirectionInit, IndirectionInitFrom, Stepped
<1>3. Exact
  <2>1. \A do, c : Did(do, c) = {}
    <3>1. DOMAIN flow = {}
      BY <1>1
    <3> QED BY <3>1 DEF Did, Counted
  <2>2. Cardinality({}) = 0
    BY FS_EmptySet
  <2> QED BY <2>1, <2>2 DEF Exact, HeldIs, IndirectionInit, IndirectionInitFrom
<1> QED BY <1>1, <1>2, <1>3 DEF PointerInv, IndirectionInit, IndirectionInitFrom

LEMMA RunKeeps == ASSUME PointerInv, RunIndirection PROVE PointerInv'
<1>1. UNCHANGED <<source, switches, flow, given, step, held, counts, misled>> /\ flow = Absent
      /\ emitted' = [f \in Functions |-> EmittedFor(f)]
  BY DEF RunIndirection, PointerInv
<1>2. \A f : Operations(f)' = Operations(f) /\ (\A op : Static(f, op)' = Static(f, op)) /\ Agreed(f)' = Agreed(f)
  BY <1>1 DEF Operations, Static, Agreed, RunsAlone
<1>3. Functions' = Functions /\ Counts' = Counts
  BY <1>1 DEF Functions, Counts, Operations
<1>4. \A f : EmittedFor(f)' = EmittedFor(f)
  BY <1>1, EmittedStays
<1>5. Stepped'
  BY <1>1, <1>2, <1>3 DEF PointerInv, Stepped
<1>6. Exact'
  <2>1. \A do, c : Did(do, c)' = Did(do, c)
    BY <1>1, <1>2 DEF Did, Counted
  <2>2. Exact /\ \A f \in Functions : held[f] = Absent
    <3>1. AllAgree
      BY <1>1 DEF AllAgree, Absent
    <3> QED BY <1>1, <3>1 DEF PointerInv
  <2> QED BY <1>1, <1>3, <2>1, <2>2 DEF Exact, HeldIs, Absent
<1>7. \A op, c : Flat(op, c)' = Flat(op, c)
  BY <1>1 DEF Flat, Bases, Admits, Members
<1> QED BY <1>1, <1>2, <1>3, <1>4, <1>5, <1>6, <1>7 DEF PointerInv, Absent

LEMMA CallKeeps == ASSUME PointerInv, CallPipeline PROVE PointerInv'
<1>1. UNCHANGED <<source, switches, emitted, step, held, counts, misled>> /\ flow = Absent /\ emitted # Absent
      /\ flow' \in source.pipelines /\ \A f \in Functions : given'[f] \in Objects(f)
  BY DEF CallPipeline
<1>2. \A f : Operations(f)' = Operations(f) /\ (\A op : Static(f, op)' = Static(f, op)) /\ Objects(f)' = Objects(f)
  BY <1>1 DEF Operations, Static, Objects, Admits, Bases
<1>3. Functions' = Functions /\ Counts' = Counts
  BY <1>1 DEF Functions, Counts, Operations
<1>4. \A f : EmittedFor(f)' = EmittedFor(f)
  BY <1>1, EmittedStays
<1>5. Stepped'
  BY <1>1, <1>2, <1>3 DEF PointerInv, Stepped
<1>6. step = [f \in Functions |-> 1] /\ held = [f \in Functions |-> Absent] /\ counts = [c \in Counts |-> 0]
  BY <1>1 DEF PointerInv
<1>7. Exact'
  <2>1. \A do, c : Did(do, c)' = {}
    <3> SUFFICES ASSUME NEW do, NEW c, NEW fi \in Did(do, c)' PROVE FALSE
      OBVIOUS
    <3>1. fi \in Counted(do, c)' /\ fi[2] < step[fi[1]]
      BY <1>1 DEF Did
    <3>2. fi[1] \in DOMAIN flow' /\ fi[2] \in DOMAIN Operations(fi[1])
      BY <1>2, <3>1 DEF Counted
    <3>3. fi[1] \in Functions
      BY <1>1, <3>2, SourcesAreOk DEF PointerInv, SourceOk, Functions
    <3>4. fi[2] \in 1 .. Len(Operations(fi[1])) /\ step[fi[1]] = 1 /\ Len(Operations(fi[1])) \in Nat
      BY <1>6, <3>2, <3>3, OperationsAre, SourcesAreOk DEF PointerInv
    <3> QED BY <3>1, <3>4
  <2>2. Cardinality({}) = 0
    BY FS_EmptySet
  <2>3. \A g \in Functions : HeldIs(g)'
    BY <1>1, <1>6 DEF HeldIs, Absent
  <2>4. \A c \in Counts : counts'[c] = Cardinality(Did("add", c)') - Cardinality(Did("sub", c)')
    <3> SUFFICES ASSUME NEW c \in Counts PROVE counts'[c] = Cardinality(Did("add", c)') - Cardinality(Did("sub", c)')
      OBVIOUS
    <3>1. counts'[c] = 0 /\ Did("add", c)' = {} /\ Did("sub", c)' = {}
      BY <1>1, <1>6, <2>1
    <3> QED BY <2>2, <3>1
  <2>5. DOMAIN held' = Functions /\ DOMAIN counts' = Counts
    BY <1>1, <1>6
  <2> QED BY <1>3, <2>3, <2>4, <2>5 DEF Exact
<1>8. \A op, c : Flat(op, c)' = Flat(op, c)
  BY <1>1 DEF Flat, Bases, Admits, Members
<1> QED BY <1>1, <1>2, <1>3, <1>4, <1>5, <1>6, <1>7, <1>8 DEF PointerInv

\* What stays while a function goes on.
LEMMA GoingOn ==
  ASSUME PointerInv, UNCHANGED <<source, switches, emitted, flow, given>>,
         NEW f \in Functions, Running(f), Stepped', AllAgree => Exact',
         \A fi \in misled' :
           \/ fi \in misled
           \/ /\ fi[1] \in Functions /\ fi[2] \in DOMAIN Operations(fi[1])
              /\ LET op == Operations(fi[1])[fi[2]] IN ~ Flat(op, Static(fi[1], op))
  PROVE  PointerInv'
<1>1. \A g : Operations(g)' = Operations(g) /\ (\A op : Static(g, op)' = Static(g, op)) /\ Objects(g)' = Objects(g) /\ Agreed(g)' = Agreed(g)
  BY DEF Operations, Static, Objects, Admits, Bases, Agreed, RunsAlone
<1>2. Functions' = Functions /\ \A g : EmittedFor(g)' = EmittedFor(g)
  BY EmittedStays DEF Functions
<1>3. AllAgree' = AllAgree
  BY <1>1 DEF AllAgree
<1>4. flow # Absent
  BY DEF Running
<1>5. \A op, c : Flat(op, c)' = Flat(op, c)
  BY DEF Flat, Bases, Admits, Members
<1>6. \A fi \in misled' : /\ fi[1] \in Functions /\ fi[2] \in DOMAIN Operations(fi[1])
                          /\ LET op == Operations(fi[1])[fi[2]] IN ~ Flat(op, Static(fi[1], op))
  BY DEF PointerInv
<1>7. Absent' = Absent
  BY DEF Absent
<1> QED BY <1>1, <1>2, <1>3, <1>4, <1>5, <1>6, <1>7 DEF PointerInv

\* The operation at hand.
LEMMA AtHand ==
  ASSUME PointerInv, NEW f \in Functions, Running(f)
  PROVE  LET op == Operations(f)[step[f]] e == emitted[f][step[f]]
         IN /\ step[f] \in DOMAIN Operations(f) /\ op \in ToSet(Operations(f)) /\ op.do \in {"sub", "add", "arith", "memory", "dispatch"}
            /\ op.do \in {"sub", "add"} => op.at \in Counts
            /\ \/ e = op
               \/ e = NotAtomic(op) /\ op.do \in {"sub", "add"} /\ e.do = "plain" /\ e.at = op.at /\ e.by = IF op.do = "sub" THEN -1 ELSE 1
               \/ e = Direct(f, op) /\ op.do = "dispatch" /\ e.do = "direct" /\ e.was = op /\ Devirtualized(f, op)
            /\ flow \in source.pipelines /\ SourceOk(source) /\ given[f] \in Objects(f)
<1>1. flow \in source.pipelines /\ SourceOk(source) /\ emitted = [g \in Functions |-> EmittedFor(g)] /\ given[f] \in Objects(f)
  BY SourcesAreOk DEF PointerInv, Running
<1>2. step[f] \in DOMAIN Operations(f)
  <2>1. step[f] \in 1 .. Len(Operations(f)) + 1 /\ ~ (step[f] > Len(Operations(f)))
    BY DEF PointerInv, Stepped, Running, AtEnd
  <2>2. Len(Operations(f)) \in Nat /\ DOMAIN Operations(f) = 1 .. Len(Operations(f))
    BY <1>1, OperationsAre
  <2> QED BY <2>1, <2>2
<1> DEFINE op == Operations(f)[step[f]]  e == emitted[f][step[f]]
<1>3. op \in ToSet(Operations(f)) /\ op.do \in {"sub", "add", "arith", "memory", "dispatch"} /\ (op.do \in {"sub", "add"} => op.at \in Counts)
  BY <1>1, <1>2, OperationsAre
<1>4. \/ e = op
      \/ e = NotAtomic(op) /\ op.do \in {"sub", "add"} /\ RunsAlone(f)
      \/ e = Direct(f, op) /\ Devirtualized(f, op)
  BY <1>1, <1>2, EmittedIs
<1>5. NotAtomic(op).do = "plain" /\ NotAtomic(op).at = op.at /\ NotAtomic(op).by = IF op.do = "sub" THEN -1 ELSE 1
  BY DEF NotAtomic
<1>6. Direct(f, op).do = "direct" /\ Direct(f, op).was = op /\ (Devirtualized(f, op) => op.do = "dispatch")
  BY DEF Direct, Devirtualized
<1> HIDE DEF op, e
<1>7. \/ e = op
      \/ e = NotAtomic(op) /\ op.do \in {"sub", "add"} /\ e.do = "plain" /\ e.at = op.at /\ e.by = IF op.do = "sub" THEN -1 ELSE 1
      \/ e = Direct(f, op) /\ op.do = "dispatch" /\ e.do = "direct" /\ e.was = op /\ Devirtualized(f, op)
  BY <1>4, <1>5, <1>6
<1> QED BY <1>1, <1>2, <1>3, <1>7 DEF op, e

LEMMA SteppedOn ==
  ASSUME PointerInv, UNCHANGED source, NEW f \in Functions, Running(f), Advance(f)
  PROVE  Stepped'
<1>1. step[f] \in DOMAIN Operations(f) /\ SourceOk(source)
  BY AtHand
<1>2. \A g \in Functions : Len(Operations(g)) \in Nat /\ DOMAIN Operations(g) = 1 .. Len(Operations(g)) /\ Len(Operations(g))' = Len(Operations(g))
  BY <1>1, OperationsAre DEF Operations
<1>3. step' = [step EXCEPT ![f] = @ + 1] /\ Functions' = Functions
  BY DEF Advance, Functions
<1>4. step'[f] = step[f] + 1 /\ \A g \in Functions : g # f => step'[g] = step[g]
  BY <1>3 DEF PointerInv, Stepped
<1> QED BY <1>1, <1>2, <1>3, <1>4 DEF PointerInv, Stepped

StaysPut == UNCHANGED <<source, switches, emitted, flow, given>>

LEMMA AtomicKeeps ==
  ASSUME PointerInv, StaysPut, NEW f \in Functions, Running(f), Atomic(f)
  PROVE  PointerInv'
<1> DEFINE op == Operations(f)[step[f]]
<1>1. op.do \in {"sub", "add", "arith", "memory"} /\ emitted[f][step[f]] = op /\ (op.do \in {"sub", "add"} => op.at \in Counts)
  BY AtHand DEF Atomic
<1>2. /\ counts' = IF op.do \in {"sub", "add"} THEN [counts EXCEPT ![op.at] = @ + IF op.do = "sub" THEN -1 ELSE 1] ELSE counts
      /\ Advance(f) /\ UNCHANGED <<held, misled>>
  BY <1>1 DEF Atomic
<1>3. Stepped'
  BY <1>2, SteppedOn DEF StaysPut
<1>4. ASSUME AllAgree PROVE Exact'
  <2>1. Exact
    BY <1>4 DEF PointerInv
  <2>2. \A g \in Functions : held[g] = Absent
    <3> SUFFICES ASSUME NEW g \in Functions, held[g] # Absent PROVE FALSE
      OBVIOUS
    <3>1. g = f
      BY <1>4, HeldAlone
    <3>2. op.do = "plain"
      BY <1>1, <2>1, <3>1 DEF Exact, HeldIs
    <3> HIDE DEF op
    <3> QED BY <1>1, <3>2
  <2>3. DOMAIN counts = Counts /\ \A c \in Counts : counts[c] \in Int
    <3>1. \A c \in Counts : counts[c] = Cardinality(Did("add", c)) - Cardinality(Did("sub", c))
      BY <2>1 DEF Exact
    <3>2. \A do, c : Cardinality(Did(do, c)) \in Nat
      BY <1>2, OneMoreDid DEF StaysPut
    <3>3. ASSUME NEW c \in Counts PROVE counts[c] \in Int
      <4>1. Cardinality(Did("add", c)) \in Nat /\ Cardinality(Did("sub", c)) \in Nat
        BY <3>2
      <4> QED BY <3>1, <4>1
    <3> QED BY <2>1, <3>3 DEF Exact
  <2> HIDE DEF op
  <2>4. DOMAIN counts' = Counts
    BY <1>2, <2>3
  <2>5. ASSUME NEW c \in Counts
        PROVE  counts'[c] = counts[c] + IF op.do = "add" /\ op.at = c THEN 1 ELSE IF op.do = "sub" /\ op.at = c THEN -1 ELSE 0
    <3>1. CASE op.do \in {"sub", "add"} /\ op.at = c
      <4>1. counts'[c] = counts[c] + IF op.do = "sub" THEN -1 ELSE 1
        BY <1>1, <1>2, <2>3, <3>1
      <4> QED BY <3>1, <4>1
    <3>2. CASE ~ (op.do \in {"sub", "add"} /\ op.at = c)
      <4>1. counts'[c] = counts[c]
        BY <1>1, <1>2, <2>3, <3>2
      <4> QED BY <2>3, <3>2, <4>1
    <3> QED BY <3>1, <3>2
  <2>6. DOMAIN held' = Functions /\ \A g \in Functions : held'[g] = Absent
    BY <1>2, <2>1, <2>2 DEF Exact
  <2> QED BY <1>2, <1>4, <2>4, <2>5, <2>6, StepIsExact DEF StaysPut, op
<1>5. \A fi \in misled' : fi \in misled
  BY <1>2
<1> QED BY <1>3, <1>4, <1>5, GoingOn DEF StaysPut

LEMMA DispatchKeeps ==
  ASSUME PointerInv, StaysPut, NEW f \in Functions, Running(f), Dispatch(f)
  PROVE  PointerInv'
<1> DEFINE op == Operations(f)[step[f]]  e == emitted[f][step[f]]
<1>1. op.do = "dispatch" /\ op \in ToSet(Operations(f)) /\ step[f] \in DOMAIN Operations(f)
      /\ (e.do = "direct" => e = Direct(f, op) /\ e.was = op /\ Devirtualized(f, op))
      /\ SourceOk(source) /\ given[f] \in Objects(f)
  BY AtHand DEF Dispatch
<1>2. Advance(f) /\ UNCHANGED <<held, counts>>
      /\ misled' = IF e.do = "direct" /\ e.to # VTable(Reached(e.was, given[f][e.was.param]))[e.was.slot + 1]
                   THEN misled \cup {<<f, step[f]>>} ELSE misled
  BY DEF Dispatch
<1>3. Stepped'
  BY <1>2, SteppedOn DEF StaysPut
<1>4. ASSUME AllAgree PROVE Exact'
  <2>1. Exact
    BY <1>4 DEF PointerInv
  <2>2. \A g \in Functions : held[g] = Absent
    <3> SUFFICES ASSUME NEW g \in Functions, held[g] # Absent PROVE FALSE
      OBVIOUS
    <3>1. g = f
      BY <1>4, HeldAlone
    <3>2. e.do = "plain"
      BY <2>1, <3>1 DEF Exact, HeldIs
    <3>3. e.do \in {"dispatch", "direct"}
      BY DEF Dispatch
    <3> HIDE DEF e
    <3> QED BY <3>2, <3>3
  <2>3. \A c \in Counts : counts'[c] = counts[c] + 0
    <3>1. \A c \in Counts : counts[c] = Cardinality(Did("add", c)) - Cardinality(Did("sub", c))
      BY <2>1 DEF Exact
    <3>2. \A do, c : Cardinality(Did(do, c)) \in Nat
      BY <1>2, OneMoreDid DEF StaysPut
    <3>3. ASSUME NEW c \in Counts PROVE counts'[c] = counts[c] + 0
      <4>1. Cardinality(Did("add", c)) \in Nat /\ Cardinality(Did("sub", c)) \in Nat /\ counts'[c] = counts[c]
        BY <1>2, <3>2
      <4> QED BY <3>1, <4>1
    <3> QED BY <3>3
  <2> HIDE DEF op
  <2>4. DOMAIN counts' = Counts /\ DOMAIN held' = Functions /\ \A g \in Functions : held'[g] = Absent
    BY <1>2, <2>1, <2>2 DEF Exact
  <2>5. \A c \in Counts : counts'[c] = counts[c] + IF op.do = "add" /\ op.at = c THEN 1 ELSE IF op.do = "sub" /\ op.at = c THEN -1 ELSE 0
    BY <1>1, <2>3
  <2> QED BY <1>2, <1>4, <2>4, <2>5, StepIsExact DEF StaysPut, op
<1>5. ASSUME NEW fi \in misled'
      PROVE  \/ fi \in misled
             \/ /\ fi[1] \in Functions /\ fi[2] \in DOMAIN Operations(fi[1])
                /\ LET o == Operations(fi[1])[fi[2]] IN ~ Flat(o, Static(fi[1], o))
  <2> SUFFICES ASSUME fi \notin misled
               PROVE  /\ fi[1] \in Functions /\ fi[2] \in DOMAIN Operations(fi[1])
                      /\ LET o == Operations(fi[1])[fi[2]] IN ~ Flat(o, Static(fi[1], o))
    OBVIOUS
  <2>1. fi = <<f, step[f]>> /\ e.do = "direct" /\ e.to # VTable(Reached(e.was, given[f][e.was.param]))[e.was.slot + 1]
    <3> HIDE DEF e
    <3> QED BY <1>2
  <2>2. e = Direct(f, op) /\ e.was = op /\ Devirtualized(f, op)
    <3> HIDE DEF e, op
    <3> QED BY <1>1, <2>1
  <2>3. ~ Flat(op, Static(f, op))
    <3> SUFFICES ASSUME Flat(op, Static(f, op)) PROVE FALSE
      OBVIOUS
    <3>1. Direct(f, op).to = VTable(Reached(op, given[f][op.param]))[op.slot + 1]
      BY <1>1, <2>2, DirectIsRight
    <3> HIDE DEF e, op
    <3> QED BY <2>1, <2>2, <3>1
  <2>4. fi[1] = f /\ fi[2] = step[f]
    BY <2>1
  <2> QED BY <1>1, <2>3, <2>4
<1> QED BY <1>3, <1>4, <1>5, GoingOn DEF StaysPut

LEMMA LoadKeeps ==
  ASSUME PointerInv, StaysPut, NEW f \in Functions, Running(f), Load(f)
  PROVE  PointerInv'
<1> DEFINE e == emitted[f][step[f]]
<1>1. /\ e.do = "plain" /\ held' = [held EXCEPT ![f] = <<counts[e.at]>>]
      /\ UNCHANGED <<step, counts, misled>>
  BY DEF Load
<1>2. \A g : Operations(g)' = Operations(g)
  BY DEF StaysPut, Operations
<1>3. Functions' = Functions /\ Counts' = Counts
  BY DEF StaysPut, Functions, Counts, Operations
<1>4. Stepped'
  BY <1>1, <1>2, <1>3 DEF PointerInv, Stepped
<1>5. ASSUME AllAgree PROVE Exact'
  <2>1. Exact
    BY <1>5 DEF PointerInv
  <2>2. \A do, c : Did(do, c)' = Did(do, c)
    BY <1>1, <1>2 DEF Did, Counted, StaysPut
  <2>3. Running(f)' /\ emitted' = emitted
    BY <1>1, <1>2 DEF Running, AtEnd, StaysPut, Absent
  <2>4. ASSUME NEW g \in Functions PROVE HeldIs(g)'
    <3>1. CASE g = f
      <4>1. held'[f] = <<counts[e.at]>>
        BY <1>1, <2>1 DEF Exact
      <4> QED BY <1>1, <2>3, <3>1, <4>1 DEF HeldIs
    <3>2. CASE g # f
      <4>1. held'[g] = held[g] /\ held[g] = Absent
        BY <1>1, <1>5, <2>1, <3>2, HeldAlone DEF Exact
      <4> QED BY <4>1 DEF HeldIs, Absent
    <3> QED BY <3>1, <3>2
  <2> QED BY <1>1, <1>3, <2>1, <2>2, <2>4 DEF Exact
<1> QED BY <1>1, <1>4, <1>5, GoingOn DEF StaysPut

LEMMA StoreKeeps ==
  ASSUME PointerInv, StaysPut, NEW f \in Functions, Running(f), Store(f)
  PROVE  PointerInv'
<1> DEFINE op == Operations(f)[step[f]]  e == emitted[f][step[f]]
<1>1. /\ op.do \in {"sub", "add"} /\ op.at \in Counts /\ e.at = op.at /\ e.by = IF op.do = "sub" THEN -1 ELSE 1
  <2>1. e.do = "plain"
    BY DEF Store
  <2>2. /\ op.do \in {"sub", "add", "arith", "memory", "dispatch"}
        /\ op.do \in {"sub", "add"} => op.at \in Counts
        /\ \/ e = op
           \/ op.do \in {"sub", "add"} /\ e.at = op.at /\ e.by = IF op.do = "sub" THEN -1 ELSE 1
           \/ e.do = "direct"
    BY AtHand
  <2> HIDE DEF op, e
  <2> QED BY <2>1, <2>2
<1>2. /\ held[f] # Absent /\ held' = [held EXCEPT ![f] = Absent]
      /\ counts' = [counts EXCEPT ![e.at] = held[f][1] + e.by] /\ Advance(f) /\ UNCHANGED misled
  BY DEF Store
<1>3. Stepped'
  BY <1>2, SteppedOn DEF StaysPut
<1>4. ASSUME AllAgree PROVE Exact'
  <2>1. Exact
    BY <1>4 DEF PointerInv
  <2>2. held[f][1] = counts[op.at]
    <3>1. held[f] = <<counts[e.at]>>
      BY <1>2, <2>1 DEF Exact, HeldIs
    <3> HIDE DEF e, op
    <3> QED BY <1>1, <3>1
  <2>3. DOMAIN counts = Counts /\ \A c \in Counts : counts[c] \in Int
    <3>1. \A c \in Counts : counts[c] = Cardinality(Did("add", c)) - Cardinality(Did("sub", c))
      BY <2>1 DEF Exact
    <3>2. \A do, c : Cardinality(Did(do, c)) \in Nat
      BY <1>2, OneMoreDid DEF StaysPut
    <3>3. ASSUME NEW c \in Counts PROVE counts[c] \in Int
      <4>1. Cardinality(Did("add", c)) \in Nat /\ Cardinality(Did("sub", c)) \in Nat
        BY <3>2
      <4> QED BY <3>1, <4>1
    <3> QED BY <2>1, <3>3 DEF Exact
  <2>4. DOMAIN held' = Functions /\ \A g \in Functions : held'[g] = Absent
    <3>1. \A g \in Functions : g # f => held[g] = Absent
      BY <1>4, HeldAlone
    <3> QED BY <1>2, <2>1, <3>1 DEF Exact
  <2> HIDE DEF op, e
  <2>5. DOMAIN counts' = Counts
    BY <1>2, <2>3
  <2>6. ASSUME NEW c \in Counts
        PROVE  counts'[c] = counts[c] + IF op.do = "add" /\ op.at = c THEN 1 ELSE IF op.do = "sub" /\ op.at = c THEN -1 ELSE 0
    <3>1. CASE op.at = c
      <4>1. counts'[c] = counts[c] + IF op.do = "sub" THEN -1 ELSE 1
        BY <1>1, <1>2, <2>2, <2>3, <3>1
      <4> QED BY <1>1, <3>1, <4>1
    <3>2. CASE op.at # c
      <4>1. counts'[c] = counts[c]
        BY <1>1, <1>2, <2>3, <3>2
      <4> QED BY <2>3, <3>2, <4>1
    <3> QED BY <3>1, <3>2
  <2> QED BY <1>2, <1>4, <2>4, <2>5, <2>6, StepIsExact DEF StaysPut, op
<1>5. \A fi \in misled' : fi \in misled
  BY <1>2
<1> QED BY <1>3, <1>4, <1>5, GoingOn DEF StaysPut

LEMMA PointerSteps == ASSUME PointerInv, [IndirectionNext]_indirectionVars PROVE PointerInv'
<1>1. CASE RunIndirection
  BY <1>1, RunKeeps
<1>2. CASE CallPipeline
  BY <1>2, CallKeeps
<1>3. CASE Execute
  <2>1. PICK f \in Functions : Running(f) /\ (Atomic(f) \/ Load(f) \/ Store(f) \/ Dispatch(f))
    BY <1>3 DEF Execute
  <2>2. StaysPut
    BY <1>3 DEF Execute, StaysPut
  <2> QED BY <2>1, <2>2, AtomicKeeps, LoadKeeps, StoreKeeps, DispatchKeeps
<1>4. CASE UNCHANGED indirectionVars
  <2>1. \A g : Operations(g)' = Operations(g) /\ Agreed(g)' = Agreed(g)
    BY <1>4 DEF Operations, Agreed, RunsAlone, indirectionVars
  <2>2. Functions' = Functions /\ Counts' = Counts
    BY <1>4 DEF Functions, Counts, Operations, indirectionVars
  <2>3. \A g : EmittedFor(g)' = EmittedFor(g) /\ Objects(g)' = Objects(g) /\ \A op : Static(g, op)' = Static(g, op)
    BY <1>4, EmittedStays DEF indirectionVars, Objects, Admits, Bases, Static
  <2>4. Stepped' = Stepped
    BY <1>4, <2>1, <2>2 DEF Stepped, indirectionVars
  <2>5. Exact' = Exact
    <3>1. \A do, c : Did(do, c)' = Did(do, c)
      BY <1>4, <2>1 DEF Did, Counted, indirectionVars
    <3>2. \A g : Running(g)' = Running(g)
      BY <1>4, <2>1 DEF Running, AtEnd, indirectionVars, Absent
    <3>3. \A g : HeldIs(g)' = HeldIs(g)
      BY <1>4, <3>2 DEF HeldIs, indirectionVars, Absent
    <3> QED BY <1>4, <2>2, <3>1, <3>3 DEF Exact, indirectionVars
  <2>6. AllAgree' = AllAgree
    BY <1>4, <2>1 DEF AllAgree, indirectionVars
  <2>7. \A op, c : Flat(op, c)' = Flat(op, c)
    BY <1>4 DEF Flat, Bases, Admits, Members, indirectionVars
  <2>8. Absent' = Absent
    BY DEF Absent
  <2> QED BY <1>4, <2>1, <2>2, <2>3, <2>4, <2>5, <2>6, <2>7, <2>8 DEF PointerInv, indirectionVars
<1> QED BY <1>1, <1>2, <1>3, <1>4 DEF IndirectionNext, FlowOver

LEMMA MeaningKept == ASSUME PointerInv PROVE PipelineKeepsMeaning
<1>1. ASSUME flow # Absent, \A f \in DOMAIN flow : AtEnd(f), \A f \in DOMAIN flow : Agreed(f), NEW c \in Counts
      PROVE  counts[c] = Cardinality(Counted("add", c)) - Cardinality(Counted("sub", c))
  <2>1. SourceOk(source) /\ DOMAIN flow \subseteq Functions
    BY <1>1, SourcesAreOk DEF PointerInv, SourceOk, Functions
  <2>2. \A do : Did(do, c) = Counted(do, c)
    <3> SUFFICES ASSUME NEW do, NEW fi \in Counted(do, c) PROVE fi[2] < step[fi[1]]
      BY DEF Did
    <3>1. fi[1] \in DOMAIN flow /\ fi[2] \in DOMAIN Operations(fi[1])
      BY DEF Counted
    <3>2. step[fi[1]] > Len(Operations(fi[1])) /\ step[fi[1]] \in 1 .. Len(Operations(fi[1])) + 1
      BY <1>1, <2>1, <3>1 DEF AtEnd, PointerInv, Stepped
    <3>3. Len(Operations(fi[1])) \in Nat /\ DOMAIN Operations(fi[1]) = 1 .. Len(Operations(fi[1]))
      BY <2>1, <3>1, OperationsAre
    <3> QED BY <3>1, <3>2, <3>3
  <2>3. Exact
    BY <1>1 DEF PointerInv, AllAgree
  <2> QED BY <2>2, <2>3 DEF Exact
<1>2. \A fi \in misled : LET op == Operations(fi[1])[fi[2]] IN ~ Flat(op, Static(fi[1], op))
  BY DEF PointerInv
<1> QED BY <1>1, <1>2 DEF PipelineKeepsMeaning

\* Once a pipeline whose stages all pipelines agree on has run, every reference count is
\* where its functions took it, though some of them are counted without atomics; and no
\* call that became direct reached another function than that of the object's class,
\* where the parameter's class is what the declarations tell of it (PipelineKeepsMeaning).
THEOREM IndirectionKeepsMeaning == IndirectionSpec => []PipelineKeepsMeaning
<1>1. IndirectionInit => PointerInv
  BY PointerStarts
<1>2. PointerInv /\ [IndirectionNext]_indirectionVars => PointerInv'
  BY PointerSteps
<1>3. PointerInv => PipelineKeepsMeaning
  BY MeaningKept
<1> QED BY <1>1, <1>2, <1>3, PTL DEF IndirectionSpec
=============================================================================
