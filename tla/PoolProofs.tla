----------------------------- MODULE PoolProofs -----------------------------
(***************************************************************************)
(* Where tasks are in WorkPool: no task is lost, run twice or used after   *)
(* its handle is freed, whatever the number of workers, clients and tasks  *)
(* and whatever the bodies call.                                           *)
(*                                                                         *)
(* First the types, and what a step of a thread does to queues and stacks: *)
(* the proofs about where tasks are need no more of the actions.           *)
(***************************************************************************)
EXTENDS WorkPool, SequenceTheorems, FiniteSetTheorems, WellFoundedInduction, TLAPS

USE DEF Workers, Threads, Bodies

Points == {"call", "lock", "snap", "submit", "start", "publish", "stop", "join", "seed", "help"}
Frames == [body : Bodies, pc : Nat \ {0}, at : Points, pool : Nat, victims : Seq(Workers),
           k : Nat \ {0}, first : BOOLEAN, raised : BOOLEAN]
Locs   == {"own", "steal", "idle", "wait", "exited", "none"}

\* A frame is inside a call only while there is one, and its indices are in range.
FrameOK(calls, f) ==
  /\ f.pc <= Len(calls) + 1
  /\ f.at # "call" => f.pc <= Len(calls)
  /\ f.pc <= Len(calls) /\ calls[f.pc].op = "await" => f.k \in DOMAIN calls[f.pc].tasks
  /\ f.at = "help" => f.victims # << >>

StackOK ==
  /\ stack \in [Threads -> Seq(Frames)]
  /\ \A th \in Threads : \A i \in 1 .. Len(stack[th]) :
       /\ FrameOK(prog[stack[th][i].body], stack[th][i])
       /\ i > 1 => stack[th][i].at = "call"

TypeOK ==
  /\ prog \in Programs
  /\ queue \in [Workers -> Seq(Tasks)]
  /\ counter \in Workers
  /\ flag \in BOOLEAN
  /\ loc \in [Workers -> Locs]
  /\ left \in [Workers -> Seq(Workers)]
  /\ \A w \in Workers : loc[w] = "steal" => left[w] # << >>
  /\ StackOK
  /\ \A w \in Workers : loc[w] # "own" => stack[w] = << >>
  /\ gpool \in Nat /\ alive \in Nat /\ born \in Nat
  /\ lifecycle \in SUBSET Threads
  /\ spawned \in SUBSET Tasks /\ done \in SUBSET Tasks /\ threw \in SUBSET Tasks
  /\ detached \in SUBSET Tasks /\ freed \in SUBSET Tasks

LEMMA RotationType ==
  ASSUME NEW s \in Workers
  PROVE  Rotation(s) \in Seq(Workers) /\ Rotation(s) # << >>
<1>1. \A i \in 1 .. NumWorkers : (s + i - 1) % NumWorkers \in Workers
  BY PoolAssumption
<1>2. Rotation(s) \in [1 .. NumWorkers -> Workers]
  BY <1>1 DEF Rotation
<1>3. Rotation(s) \in Seq(Workers) /\ Len(Rotation(s)) = NumWorkers
  BY <1>2, PoolAssumption
<1> QED BY <1>3, PoolAssumption

LEMMA OthersType ==
  ASSUME NEW s \in Workers, NEW w \in Workers, NumWorkers > 1
  PROVE  Others(s, w) \in Seq(Workers) /\ Others(s, w) # << >>
<1> DEFINE p == ((w + NumWorkers - s) % NumWorkers) + 1
<1>1. p \in 1 .. NumWorkers
  BY PoolAssumption
<1>2. \A i \in 1 .. NumWorkers : Rotation(s)[i] \in Workers
  BY PoolAssumption DEF Rotation
<1>3. Others(s, w) = [i \in 1 .. NumWorkers - 1 |-> Rotation(s)[IF i < p THEN i ELSE i + 1]]
  BY DEF Others
<1> HIDE DEF p
<1>4. \A i \in 1 .. NumWorkers - 1 : (IF i < p THEN i ELSE i + 1) \in 1 .. NumWorkers
  BY <1>1, PoolAssumption
<1>5. Others(s, w) \in [1 .. NumWorkers - 1 -> Workers]
  BY <1>2, <1>3, <1>4
<1>6. Others(s, w) \in Seq(Workers) /\ Len(Others(s, w)) = NumWorkers - 1
  BY <1>5, PoolAssumption
<1> QED BY <1>6, PoolAssumption

LEMMA ProgramType ==
  ASSUME prog \in Programs, NEW b \in Bodies, NEW i \in 1 .. Len(prog[b])
  PROVE  /\ prog[b][i] \in Calls
         /\ prog[b][i].op \in {"spawn", "detach"} => Len(prog[b][i].tasks) = 1
         /\ prog[b][i].op = "await" => prog[b][i].tasks # << >>
BY PoolAssumption

-----------------------------------------------------------------------------
LEMMA TopFacts ==
  ASSUME TypeOK, NEW th \in Threads, stack[th] # << >>
  PROVE  /\ Len(stack[th]) \in Nat \ {0}
         /\ Top(th) = stack[th][1] /\ Top(th) \in Frames /\ FrameOK(prog[Top(th).body], Top(th))
<1>1. stack[th] \in Seq(Frames)
  BY DEF TypeOK, StackOK
<1>2. Len(stack[th]) \in Nat \ {0} /\ Top(th) = stack[th][1] /\ Top(th) \in Frames
  BY <1>1 DEF Top
<1>3. FrameOK(prog[stack[th][1].body], stack[th][1])
  BY <1>2 DEF TypeOK, StackOK
<1> QED BY <1>2, <1>3

LEMMA SetTopFacts ==
  ASSUME TypeOK, NEW th \in Threads, stack[th] # << >>, NEW f \in Frames, SetTop(th, f)
  PROVE  /\ stack' \in [Threads -> Seq(Frames)]
         /\ Len(stack'[th]) = Len(stack[th]) /\ stack'[th] # << >>
         /\ stack'[th][1] = f
         /\ \A i \in 2 .. Len(stack[th]) : stack'[th][i] = stack[th][i]
         /\ \A u \in Threads \ {th} : stack'[u] = stack[u]
<1> DEFINE s == stack[th]
           r == <<f>> \o Tail(s)
<1>1. s \in Seq(Frames) /\ s # << >> /\ Len(s) \in Nat \ {0}
  BY DEF TypeOK, StackOK
<1>2. /\ Tail(s) \in Seq(Frames) /\ Len(Tail(s)) = Len(s) - 1
      /\ \A i \in 1 .. Len(Tail(s)) : Tail(s)[i] = s[i + 1]
  BY <1>1, HeadTailProperties
<1>3. <<f>> \in Seq(Frames) /\ Len(<<f>>) = 1 /\ <<f>>[1] = f
  OBVIOUS
<1> HIDE DEF s
<1>4. /\ r \in Seq(Frames) /\ Len(r) = Len(s)
      /\ \A i \in 1 .. Len(s) : r[i] = IF i <= 1 THEN <<f>>[i] ELSE Tail(s)[i - 1]
  BY <1>1, <1>2, <1>3, ConcatProperties
<1>5. r[1] = f /\ \A i \in 2 .. Len(s) : r[i] = s[i]
  BY <1>1, <1>2, <1>3, <1>4
<1> HIDE DEF r
<1>6. stack \in [Threads -> Seq(Frames)] /\ stack' = [stack EXCEPT ![th] = r]
  BY DEF TypeOK, StackOK, SetTop, r, s
<1>7. stack'[th] = r /\ r # << >>
  BY <1>1, <1>4, <1>6
<1> QED BY <1>4, <1>5, <1>6, <1>7 DEF s

LEMMA PushFacts ==
  ASSUME NEW s \in Seq(Frames), NEW f \in Frames
  PROVE  /\ <<f>> \o s \in Seq(Frames) /\ Len(<<f>> \o s) = Len(s) + 1
         /\ (<<f>> \o s)[1] = f /\ \A i \in 1 .. Len(s) : (<<f>> \o s)[i + 1] = s[i]
<1>1. <<f>> \in Seq(Frames) /\ Len(<<f>>) = 1 /\ <<f>>[1] = f
  OBVIOUS
<1>2. /\ <<f>> \o s \in Seq(Frames) /\ Len(<<f>> \o s) = 1 + Len(s)
      /\ \A i \in 1 .. 1 + Len(s) : (<<f>> \o s)[i] = IF i <= 1 THEN <<f>>[i] ELSE s[i - 1]
  BY <1>1, ConcatProperties
<1> QED BY <1>1, <1>2

LEMMA TailLeft ==
  ASSUME NEW S, NEW s \in Seq(S), s # << >>
  PROVE  Tail(s) \in Seq(S) /\ (Len(s) # 1 => Tail(s) # << >>)
<1> DEFINE q == Tail(s)
           n == Len(s)
<1>1. q \in Seq(S) /\ Len(q) = n - 1
  BY HeadTailProperties
<1>2. n \in Nat
  OBVIOUS
<1> HIDE DEF q, n
<1>3. q = << >> => Len(q) = 0
  OBVIOUS
<1>4. q = << >> => n = 1
  BY <1>1, <1>2, <1>3
<1> QED BY <1>1, <1>4 DEF q, n

LEMMA FrameType == \A b \in Bodies : Frame(b) \in Frames
BY DEF Frame, Frames, Points

LEMMA ProgType ==
  ASSUME prog \in Programs, NEW b \in Bodies
  PROVE  prog[b] \in Seq(Calls)
BY PoolAssumption

\* A body that starts, a call that returns and one that throws leave good frames.
LEMMA FrameStarts ==
  ASSUME prog \in Programs, NEW b \in Bodies
  PROVE  FrameOK(prog[b], Frame(b))
<1>1. prog[b] \in Seq(Calls) /\ Len(prog[b]) \in Nat
  BY ProgType
<1>2. 1 <= Len(prog[b]) /\ prog[b][1].op = "await" => 1 \in DOMAIN prog[b][1].tasks
  <2>1. 1 <= Len(prog[b]) => prog[b][1] \in Calls
    BY <1>1
  <2>2. 1 <= Len(prog[b]) /\ prog[b][1].op = "await" => prog[b][1].tasks # << >>
    BY <1>1, ProgramType
  <2>3. \A c \in Calls : c.tasks # << >> => 1 \in DOMAIN c.tasks
    BY DEF Calls
  <2> QED BY <2>1, <2>2, <2>3
<1> QED BY <1>1, <1>2 DEF FrameOK, Frame

LEMMA CallReturns ==
  ASSUME prog \in Programs, NEW f \in Frames, FrameOK(prog[f.body], f), ~Returned(f)
  PROVE  /\ NextCall(f) \in Frames /\ FrameOK(prog[f.body], NextCall(f))
         /\ Unwind(f) \in Frames /\ FrameOK(prog[f.body], Unwind(f))
<1>1. f.body \in Bodies /\ f.pc \in Nat \ {0}
  BY DEF Frames
<1>2. prog[f.body] \in Seq(Calls) /\ Len(prog[f.body]) \in Nat
  BY <1>1, ProgType
<1> DEFINE i == f.pc + 1
<1>3. i <= Len(prog[f.body]) /\ prog[f.body][i].op = "await" => 1 \in DOMAIN prog[f.body][i].tasks
  <2>1. i <= Len(prog[f.body]) => prog[f.body][i] \in Calls
    BY <1>1, <1>2
  <2>2. i <= Len(prog[f.body]) /\ prog[f.body][i].op = "await" => prog[f.body][i].tasks # << >>
    BY <1>1, <1>2, ProgramType
  <2>3. \A c \in Calls : c.tasks # << >> => 1 \in DOMAIN c.tasks
    BY DEF Calls
  <2> QED BY <2>1, <2>2, <2>3
<1>4. f.pc <= Len(prog[f.body])
  BY <1>1, <1>2 DEF Returned
<1>5. NextCall(f) \in Frames /\ Unwind(f) \in Frames
  <2>1. Frame(f.body) \in Frames
    BY <1>1, FrameType
  <2>2. \A g \in Frames, n \in Nat \ {0} :
          [g EXCEPT !.pc = n] \in Frames /\ [g EXCEPT !.pc = n, !.raised = TRUE] \in Frames
    BY DEF Frames
  <2>3. f.pc + 1 \in Nat \ {0} /\ Len(prog[f.body]) + 1 \in Nat \ {0}
    BY <1>1, <1>2
  <2> QED BY <2>1, <2>2, <2>3 DEF NextCall, Unwind
<1>6. FrameOK(prog[f.body], NextCall(f))
  BY <1>1, <1>2, <1>3, <1>4 DEF FrameOK, Frame, NextCall, Returned, Call
<1>7. FrameOK(prog[f.body], Unwind(f))
  BY <1>1, <1>2, <1>4 DEF FrameOK, Frame, Unwind, Returned, Call
<1> QED BY <1>5, <1>6, <1>7

-----------------------------------------------------------------------------
(***************************************************************************)
(* What a step does to queues and stacks.  Frame g is frame f later on: it *)
(* is the same body, at the same handle of the same call or further on.    *)
(***************************************************************************)
Later(g, f) == g.body = f.body /\ (g.pc > f.pc \/ (g.pc = f.pc /\ g.k >= f.k))
Past(g, f)  == g.body = f.body /\ (g.pc > f.pc \/ (g.pc = f.pc /\ g.k > f.k))

\* Frame g is frame f at the same handle of the same call.
Stays(g, f) == g.body = f.body /\ g.pc = f.pc /\ g.k = f.k

\* r is q without the element at p.
Without(q, r, p) ==
  /\ p \in 1 .. Len(q) /\ Len(r) = Len(q) - 1
  /\ \A i \in 1 .. Len(r) : r[i] = q[IF i < p THEN i ELSE i + 1]

\* The bodies on the stacks are the same ones, only further on.
SameBodies ==
  \A th \in Threads :
    /\ Len(stack'[th]) = Len(stack[th])
    /\ \A i \in 1 .. Len(stack[th]) : Later(stack'[th][i], stack[th][i])

\* Thread th releases the handle it is at.
Releases(th) ==
  /\ stack[th] # << >> /\ ~Returned(Top(th)) /\ Call(Top(th)).op \in {"await", "detach"}
  /\ \E k \in DOMAIN Call(Top(th)).tasks :
       /\ freed' \cup detached' = freed \cup detached \cup {Call(Top(th)).tasks[k]}
       /\ freed' \in {freed, freed \cup {Call(Top(th)).tasks[k]}}
       /\ \/ stack'[th][1].pc > Top(th).pc
          \/ stack'[th][1].pc = Top(th).pc /\ stack'[th][1].k > k
  /\ freed' \subseteq freed \cup done

Calling(th) ==
  /\ UNCHANGED <<queue, spawned, done>> /\ SameBodies
  /\ UNCHANGED <<freed, detached>> \/ Releases(th)

Starting(th, w, p) ==
  /\ Without(queue[w], queue'[w], p) /\ \A v \in Workers \ {w} : queue'[v] = queue[v]
  /\ Len(stack'[th]) = Len(stack[th]) + 1 /\ stack'[th][1] = Frame(queue[w][p])
  /\ \A i \in 1 .. Len(stack[th]) : Stays(stack'[th][i + 1], stack[th][i])
  /\ \A u \in Threads \ {th} : stack'[u] = stack[u]
  /\ UNCHANGED <<spawned, done, freed, detached>>

Ending(th) ==
  /\ stack[th] # << >>
  /\ Len(stack'[th]) = Len(stack[th]) - 1
  /\ \A i \in 1 .. Len(stack'[th]) : stack'[th][i] = stack[th][i + 1]
  /\ \A u \in Threads \ {th} : stack'[u] = stack[u]
  /\ done' = done \cup ({Top(th).body} \cap Tasks)
  /\ freed' \cup detached' = freed \cup detached
  /\ freed' \in {freed, freed \cup ({Top(th).body} \cap Tasks)}
  /\ UNCHANGED <<queue, spawned>>

Spawning(th, w, p) ==
  /\ stack[th] # << >> /\ ~Returned(Top(th)) /\ Call(Top(th)).op = "spawn"
  /\ LET t == Call(Top(th)).tasks[1] IN
       /\ t \in Tasks /\ spawned' = spawned \cup {t}
       /\ Without(queue'[w], queue[w], p) /\ queue'[w][p] = t
       /\ p = IF Priority[t] < 2 THEN 1 ELSE Len(queue'[w])
  /\ \A v \in Workers \ {w} : queue'[v] = queue[v]
  /\ SameBodies /\ stack'[th][1].pc > Top(th).pc
  /\ UNCHANGED <<done, freed, detached>>

Clearing(th) ==
  /\ stack[th] # << >> /\ Top(th).at = "join"
  /\ queue' = EmptyQueues /\ SameBodies
  /\ UNCHANGED <<spawned, done, freed, detached>>

Begins(th) == \E w \in Workers : \E p \in Nat : Starting(th, w, p)

StepOf(th) ==
  \/ Calling(th) \/ Ending(th) \/ Clearing(th)
  \/ Begins(th)
  \/ \E w \in Workers : \E p \in Nat : Spawning(th, w, p)

LEMMA LaterReflexive ==
  ASSUME TypeOK, NEW th \in Threads, NEW i \in 1 .. Len(stack[th])
  PROVE  Later(stack[th][i], stack[th][i])
<1>1. stack[th][i] \in Frames
  BY DEF TypeOK, StackOK
<1> QED BY <1>1 DEF Later, Frames

\* The top frame is replaced by one of the same body, further on.
LEMMA SetTopStep ==
  ASSUME TypeOK, NEW th \in Threads, stack[th] # << >>, NEW f \in Frames, SetTop(th, f),
         FrameOK(prog[f.body], f), prog' = prog, Later(f, Top(th))
  PROVE  /\ StackOK' /\ SameBodies /\ stack'[th][1] = f
         /\ \A u \in Threads : stack'[u] = << >> <=> stack[u] = << >>
<1>1. /\ stack' \in [Threads -> Seq(Frames)]
      /\ Len(stack'[th]) = Len(stack[th]) /\ stack'[th] # << >>
      /\ stack'[th][1] = f
      /\ \A i \in 2 .. Len(stack[th]) : stack'[th][i] = stack[th][i]
      /\ \A u \in Threads \ {th} : stack'[u] = stack[u]
  BY SetTopFacts
<1>2. Len(stack[th]) \in Nat \ {0} /\ Top(th) = stack[th][1]
  BY TopFacts
<1>3. ASSUME NEW u \in Threads, NEW i \in 1 .. Len(stack'[u])
      PROVE  /\ FrameOK(prog'[stack'[u][i].body], stack'[u][i])
             /\ i > 1 => stack'[u][i].at = "call"
             /\ Later(stack'[u][i], stack[u][i])
  <2>1. CASE u = th /\ i = 1
    BY <1>1, <1>2, <2>1
  <2>2. CASE u # th \/ i # 1
    <3>1. i \in 1 .. Len(stack[u]) /\ stack'[u][i] = stack[u][i]
      <4>1. CASE u # th
        BY <1>1, <4>1
      <4>2. CASE u = th
        <5>1. i \in 2 .. Len(stack[th])
          BY <1>1, <1>2, <2>2, <4>2
        <5> QED BY <1>1, <4>2, <5>1
      <4> QED BY <4>1, <4>2
    <3>2. FrameOK(prog[stack[u][i].body], stack[u][i]) /\ (i > 1 => stack[u][i].at = "call")
      BY <3>1 DEF TypeOK, StackOK
    <3> QED BY <3>1, <3>2, LaterReflexive
  <2> QED BY <2>1, <2>2
<1>4. StackOK'
  BY <1>1, <1>3 DEF StackOK
<1>5. SameBodies
  BY <1>1, <1>3 DEF SameBodies
<1> QED BY <1>1, <1>4, <1>5

\* Nothing happens on the stacks.
LEMMA SameStack ==
  ASSUME TypeOK, UNCHANGED <<prog, stack>>
  PROVE  StackOK' /\ SameBodies
<1>1. StackOK'
  BY DEF TypeOK, StackOK
<1> QED BY <1>1, LaterReflexive DEF SameBodies

-----------------------------------------------------------------------------
(***************************************************************************)
(* Every step keeps the types and is one of those steps.                   *)
(***************************************************************************)
LEMMA InFacts ==
  ASSUME TypeOK, NEW th \in Threads, NEW op, NEW at, In(th, op, at)
  PROVE  /\ stack[th] # << >> /\ Top(th) \in Frames /\ FrameOK(prog[Top(th).body], Top(th))
         /\ ~Returned(Top(th)) /\ Top(th).pc \in 1 .. Len(prog[Top(th).body])
         /\ Top(th).at = at /\ Call(Top(th)).op = op /\ Call(Top(th)) \in Calls
         /\ Call(Top(th)) = prog[Top(th).body][Top(th).pc]
<1>1. stack[th] # << >> /\ ~Returned(Top(th)) /\ Top(th).at = at /\ Call(Top(th)).op = op
  BY DEF In
<1>2. Top(th) \in Frames /\ FrameOK(prog[Top(th).body], Top(th))
  BY <1>1, TopFacts
<1>3. Top(th).body \in Bodies /\ Top(th).pc \in Nat \ {0} /\ prog \in Programs
  BY <1>2 DEF Frames, TypeOK
<1>4. prog[Top(th).body] \in Seq(Calls)
  BY <1>3, ProgType
<1>5. Top(th).pc \in 1 .. Len(prog[Top(th).body])
  BY <1>1, <1>3, <1>4 DEF Returned
<1>6. Call(Top(th)) = prog[Top(th).body][Top(th).pc] /\ Call(Top(th)) \in Calls
  BY <1>4, <1>5 DEF Call
<1> QED BY <1>1, <1>2, <1>5, <1>6

\* The frame goes on inside its call.
LEMMA GotoStep ==
  ASSUME TypeOK, NEW th \in Threads, NEW op, NEW at, In(th, op, at),
         NEW next \in Points \ {"help"}, Goto(th, next), prog' = prog
  PROVE  /\ StackOK' /\ SameBodies /\ stack'[th][1] = [Top(th) EXCEPT !.at = next]
         /\ \A u \in Threads : stack'[u] = << >> <=> stack[u] = << >>
<1> DEFINE f == Top(th)
           g == [f EXCEPT !.at = next]
<1>1. stack[th] # << >> /\ f \in Frames /\ FrameOK(prog[f.body], f) /\ f.pc \in 1 .. Len(prog[f.body])
  BY InFacts
<1> HIDE DEF f
<1>2. g \in Frames /\ FrameOK(prog[g.body], g) /\ Later(g, f)
  BY <1>1 DEF Frames, FrameOK, Later
<1>3. SetTop(th, g)
  BY DEF Goto, f
<1> HIDE DEF g
<1>4. /\ StackOK' /\ SameBodies /\ stack'[th][1] = g
      /\ \A u \in Threads : stack'[u] = << >> <=> stack[u] = << >>
  BY <1>1, <1>2, <1>3, SetTopStep DEF f
<1> QED BY <1>4 DEF g, f

\* The frame's call returns, or throws.
LEMMA ReturnStep ==
  ASSUME TypeOK, NEW th \in Threads, NEW op, NEW at, In(th, op, at),
         SetTop(th, NextCall(Top(th))) \/ SetTop(th, Unwind(Top(th))), prog' = prog
  PROVE  /\ StackOK' /\ SameBodies /\ stack'[th][1].pc > Top(th).pc /\ stack'[th][1].at = "call"
         /\ \A u \in Threads : stack'[u] = << >> <=> stack[u] = << >>
<1> DEFINE f == Top(th)
<1>1. /\ stack[th] # << >> /\ f \in Frames /\ FrameOK(prog[f.body], f) /\ ~Returned(f)
      /\ f.pc \in 1 .. Len(prog[f.body]) /\ prog \in Programs
  BY InFacts DEF TypeOK
<1> HIDE DEF f
<1>2. PICK g : g \in {NextCall(f), Unwind(f)} /\ SetTop(th, g)
  BY DEF f
<1>3. g \in Frames /\ FrameOK(prog[f.body], g)
  BY <1>1, <1>2, CallReturns
<1>4. g.body = f.body /\ g.pc > f.pc /\ g.at = "call"
  <2>1. f.pc \in Nat \ {0} /\ Len(prog[f.body]) \in Nat
    BY <1>1, ProgType DEF Frames
  <2>2. /\ NextCall(f).body = f.body /\ NextCall(f).pc > f.pc /\ NextCall(f).at = "call"
    BY <2>1 DEF NextCall, Frame
  <2>3. /\ Unwind(f).body = f.body /\ Unwind(f).pc > f.pc /\ Unwind(f).at = "call"
    BY <1>1, <2>1 DEF Unwind, Frame
  <2> QED BY <1>2, <2>2, <2>3
<1>5. /\ StackOK' /\ SameBodies /\ stack'[th][1] = g
      /\ \A u \in Threads : stack'[u] = << >> <=> stack[u] = << >>
  BY <1>1, <1>2, <1>3, <1>4, SetTopStep DEF f, Later
<1> QED BY <1>4, <1>5 DEF f

\* Queues: what is taken and added at their ends.
LEMMA EndsTaken ==
  ASSUME NEW q \in Seq(Tasks), q # << >>
  PROVE  /\ Tail(q) \in Seq(Tasks) /\ Without(q, Tail(q), 1) /\ Head(q) = q[1] /\ q[1] \in Tasks
         /\ Front(q) \in Seq(Tasks) /\ Without(q, Front(q), Len(q)) /\ Last(q) = q[Len(q)]
         /\ q[Len(q)] \in Tasks
<1>1. Len(q) \in Nat \ {0} /\ \A i \in 1 .. Len(q) : q[i] \in Tasks
  OBVIOUS
<1>2. Tail(q) \in Seq(Tasks) /\ Without(q, Tail(q), 1)
  BY <1>1, HeadTailProperties DEF Without
<1>3. /\ Front(q) \in Seq(Tasks) /\ Len(Front(q)) = Len(q) - 1
      /\ \A i \in 1 .. Len(q) - 1 : Front(q)[i] = q[i]
  <2>1. \A i \in 1 .. Len(q) - 1 : q[i] \in Tasks
    BY <1>1
  <2> DEFINE n == Len(q) - 1
             r == SubSeq(q, 1, n)
  <2>2. n \in Nat /\ n - 1 + 1 = n
    BY <1>1
  <2>3. /\ r \in Seq(Tasks) /\ Len(r) = IF 1 <= n THEN n - 1 + 1 ELSE 0
        /\ \A i \in 1 .. n - 1 + 1 : r[i] = q[1 + i - 1]
    <3> HIDE DEF n
    <3> QED BY <2>1, <2>2, SubSeqProperties DEF n
  <2> HIDE DEF n, r
  <2>4. Len(r) = n
    BY <2>2, <2>3
  <2>5. \A i \in 1 .. n : r[i] = q[i]
    BY <2>2, <2>3
  <2> QED BY <2>3, <2>4, <2>5 DEF Front, n, r
<1>4. Without(q, Front(q), Len(q))
  BY <1>1, <1>3 DEF Without
<1> QED BY <1>1, <1>2, <1>3, <1>4 DEF Last

LEMMA EndsAdded ==
  ASSUME NEW q \in Seq(Tasks), NEW t \in Tasks
  PROVE  /\ <<t>> \o q \in Seq(Tasks) /\ Without(<<t>> \o q, q, 1) /\ (<<t>> \o q)[1] = t
         /\ Append(q, t) \in Seq(Tasks) /\ Without(Append(q, t), q, Len(Append(q, t)))
         /\ Append(q, t)[Len(Append(q, t))] = t /\ Len(Append(q, t)) \in Nat
<1>1. Len(q) \in Nat
  OBVIOUS
<1>2. /\ <<t>> \o q \in Seq(Tasks) /\ Len(<<t>> \o q) = 1 + Len(q)
      /\ \A i \in 1 .. 1 + Len(q) : (<<t>> \o q)[i] = IF i <= 1 THEN <<t>>[i] ELSE q[i - 1]
  <2>1. <<t>> \in Seq(Tasks) /\ Len(<<t>>) = 1
    OBVIOUS
  <2> QED BY <2>1, ConcatProperties
<1>3. (<<t>> \o q)[1] = t /\ \A i \in 1 .. Len(q) : (<<t>> \o q)[i + 1] = q[i]
  BY <1>1, <1>2
<1>4. Without(<<t>> \o q, q, 1)
  BY <1>1, <1>2, <1>3 DEF Without
<1>5. /\ Append(q, t) \in Seq(Tasks) /\ Len(Append(q, t)) = Len(q) + 1
      /\ \A i \in 1 .. Len(q) : Append(q, t)[i] = q[i]
      /\ Append(q, t)[Len(q) + 1] = t
  BY AppendProperties
<1>6. Without(Append(q, t), q, Len(q) + 1)
  BY <1>1, <1>5 DEF Without
<1>7. Len(Append(q, t)) \in Nat
  BY <1>1, <1>5
<1> QED BY <1>2, <1>3, <1>4, <1>5, <1>6, <1>7

-----------------------------------------------------------------------------
LEMMA IdleStep ==
  ASSUME TypeOK, NEW w \in Workers, IdleCheck(w) \/ WaitOver(w)
  PROVE  TypeOK' /\ StepOf(w)
<1>1. UNCHANGED <<prog, queue, counter, left, stack, poolVars, taskVars, fault>>
  BY DEF IdleCheck, WaitOver
<1>2. StackOK' /\ SameBodies
  BY <1>1, SameStack
<1>3. loc[w] \in {"idle", "wait"} /\ \E l \in {"exited", "wait", "own"} : loc' = [loc EXCEPT ![w] = l]
  BY DEF IdleCheck, WaitOver
<1>4. TypeOK'
  BY <1>1, <1>2, <1>3 DEF TypeOK, Locs, poolVars, taskVars
<1>5. Calling(w)
  BY <1>1, <1>2 DEF Calling, taskVars
<1> QED BY <1>4, <1>5 DEF StepOf

LEMMA GoingOn ==
  ASSUME TypeOK, NEW th \in Threads,
         \/ EnsureInit(th) \/ EnsureInitLocked(th) \/ StopFlag(th) \/ DoInitStart(th)
  PROVE  TypeOK' /\ StepOf(th)
<1>1. UNCHANGED <<prog, queue, taskVars, left, gpool>>
  BY DEF EnsureInit, EnsureInitLocked, StopFlag, DoInitStart, poolVars, scanVars
<1>2. \E op, at : In(th, op, at)
  BY DEF EnsureInit, EnsureInitLocked, StopFlag, DoInitStart
<1>3. \E next \in Points \ {"help"} : Goto(th, next)
  <2>1. CASE EnsureInit(th)
    BY <2>1 DEF EnsureInit, Points
  <2>2. CASE EnsureInitLocked(th)
    BY <2>2 DEF EnsureInitLocked, Points
  <2>3. CASE StopFlag(th)
    BY <2>3 DEF StopFlag, Points
  <2>4. CASE DoInitStart(th)
    BY <2>4 DEF DoInitStart, Points
  <2> QED BY <2>1, <2>2, <2>3, <2>4
<1>4. StackOK' /\ SameBodies /\ \A u \in Threads : stack'[u] = << >> <=> stack[u] = << >>
  BY <1>1, <1>2, <1>3, GotoStep
<1>5. TypeOK'
  <2>1. CASE EnsureInit(th)
    BY <1>1, <1>4, <2>1 DEF EnsureInit, TypeOK, poolVars, scanVars, taskVars
  <2>2. CASE EnsureInitLocked(th)
    BY <1>1, <1>4, <2>2 DEF EnsureInitLocked, TypeOK, scanVars, taskVars
  <2>3. CASE StopFlag(th)
    BY <1>1, <1>4, <2>3 DEF StopFlag, TypeOK, scanVars, taskVars
  <2>4. CASE DoInitStart(th)
    <3>1. /\ flag' = FALSE /\ loc' = [w \in Workers |-> "own"] /\ counter' = 0
          /\ born' = born + 1 /\ alive' = born + 1 /\ lifecycle' = lifecycle
      BY <2>4 DEF DoInitStart
    <3>3. born \in Nat
      BY DEF TypeOK
    <3>4. born' \in Nat /\ alive' \in Nat
      BY <3>1, <3>3
    <3>5. flag' \in BOOLEAN
      BY <3>1
    <3>2. counter' \in Workers
      BY <3>1, PoolAssumption
    <3> QED BY <1>1, <1>4, <3>1, <3>2, <3>4, <3>5 DEF TypeOK, taskVars, Locs
  <2> QED BY <2>1, <2>2, <2>3, <2>4
<1>6. Calling(th)
  BY <1>1, <1>4 DEF Calling, taskVars
<1> QED BY <1>5, <1>6 DEF StepOf

\* A frame that stays at its call is as good as before.
LEMMA SameCall ==
  ASSUME NEW calls \in Seq(Calls), NEW f \in Frames, NEW g \in Frames,
         FrameOK(calls, f), f.pc <= Len(calls), g.body = f.body, g.pc = f.pc, g.k >= f.k,
         g.k = f.k \/ g.k \in DOMAIN calls[f.pc].tasks, g.at = "help" => g.victims # << >>
  PROVE  FrameOK(calls, g) /\ Later(g, f)
<1>1. FrameOK(calls, g)
  BY DEF FrameOK, Frames
<1>2. Later(g, f)
  BY DEF Later, Frames
<1> QED BY <1>1, <1>2

LEMMA StartingLater ==
  ASSUME TypeOK, NEW th \in Threads, NEW w \in Workers, NEW p, Starting(th, w, p)
  PROVE  \A i \in 1 .. Len(stack[th]) : Later(stack'[th][i + 1], stack[th][i])
<1>1. stack[th] \in Seq(Frames)
  BY DEF TypeOK, StackOK
<1>2. \A i \in 1 .. Len(stack[th]) : stack[th][i] \in Frames
  BY <1>1
<1> QED BY <1>2 DEF Starting, Stays, Later, Frames

\* A snapshot of g_pool is taken, or the scan of the victims begins.
LEMMA SnapshotStep ==
  ASSUME TypeOK, NEW th \in Threads, Snapshot(th) \/ AwaitSnapshot(th) \/ HelpSeed(th)
  PROVE  TypeOK' /\ StepOf(th)
<1> DEFINE f == Top(th)
<1>1. UNCHANGED <<prog, queue, taskVars, scanVars, poolVars>>
  BY DEF Snapshot, AwaitSnapshot, HelpSeed
<1>2. \E op, at : In(th, op, at)
  BY DEF Snapshot, AwaitSnapshot, HelpSeed
<1>3. /\ stack[th] # << >> /\ f \in Frames /\ FrameOK(prog[f.body], f)
      /\ f.pc \in 1 .. Len(prog[f.body]) /\ prog[f.body] \in Seq(Calls)
  BY <1>2, InFacts, ProgType DEF TypeOK, Frames
<1>31. f.k >= f.k /\ f.pc <= Len(prog[f.body])
  <2>1. f.k \in Nat
    BY <1>3 DEF Frames
  <2> QED BY <1>3, <2>1
<1>4. \E g \in Frames : SetTop(th, g) /\ FrameOK(prog[g.body], g) /\ Later(g, f)
  <2>1. gpool \in Nat /\ counter \in Workers
    BY DEF TypeOK
  <2>2. CASE Snapshot(th)
    <3> DEFINE g == [f EXCEPT !.at = "submit", !.pool = gpool]
    <3>1. SetTop(th, g)
      BY <2>2 DEF Snapshot
    <3> HIDE DEF f
    <3>2. g \in Frames /\ g.body = f.body /\ g.pc = f.pc /\ g.k = f.k /\ g.at # "help"
      BY <1>3, <2>1 DEF Frames, Points
    <3> HIDE DEF g
    <3>3. FrameOK(prog[g.body], g) /\ Later(g, f)
      BY <1>3, <1>31, <3>2, SameCall
    <3> QED BY <3>1, <3>2, <3>3
  <2>3. CASE AwaitSnapshot(th)
    <3> DEFINE g == [f EXCEPT !.at = "seed", !.pool = gpool]
    <3>1. SetTop(th, g)
      BY <2>3 DEF AwaitSnapshot
    <3> HIDE DEF f
    <3>2. g \in Frames /\ g.body = f.body /\ g.pc = f.pc /\ g.k = f.k /\ g.at # "help"
      BY <1>3, <2>1 DEF Frames, Points
    <3> HIDE DEF g
    <3>3. FrameOK(prog[g.body], g) /\ Later(g, f)
      BY <1>3, <1>31, <3>2, SameCall
    <3> QED BY <3>1, <3>2, <3>3
  <2>4. CASE HelpSeed(th)
    <3> DEFINE g == [f EXCEPT !.at = "help", !.victims = Rotation(counter)]
    <3>1. SetTop(th, g)
      BY <2>4 DEF HelpSeed
    <3>2. Rotation(counter) \in Seq(Workers) /\ Rotation(counter) # << >>
      BY <2>1, RotationType
    <3> HIDE DEF f
    <3>3. g \in Frames /\ g.body = f.body /\ g.pc = f.pc /\ g.k = f.k /\ g.victims # << >>
      BY <1>3, <3>2 DEF Frames, Points
    <3> HIDE DEF g
    <3>4. FrameOK(prog[g.body], g) /\ Later(g, f)
      BY <1>3, <1>31, <3>3, SameCall
    <3> QED BY <3>1, <3>3, <3>4
  <2> QED BY <2>2, <2>3, <2>4
<1>5. StackOK' /\ SameBodies /\ \A u \in Threads : stack'[u] = << >> <=> stack[u] = << >>
  BY <1>1, <1>3, <1>4, SetTopStep
<1>6. counter' \in Workers
  <2>1. CASE counter' = counter
    BY <2>1 DEF TypeOK
  <2>2. CASE counter' = (counter + 1) % NumWorkers
    BY <2>2, PoolAssumption DEF TypeOK
  <2> QED BY <2>1, <2>2 DEF Snapshot, AwaitSnapshot, HelpSeed
<1>7. TypeOK'
  BY <1>1, <1>5, <1>6 DEF TypeOK, scanVars, poolVars, taskVars
<1>8. Calling(th)
  BY <1>1, <1>5 DEF Calling, taskVars
<1> QED BY <1>7, <1>8 DEF StepOf

LEMMA BadPoolStep ==
  ASSUME TypeOK, NEW th \in Threads, BadPool(th)
  PROVE  TypeOK' /\ StepOf(th)
<1>1. UNCHANGED <<prog, queue, counter, scanVars, stack, poolVars, taskVars>>
  BY DEF BadPool
<1>2. StackOK' /\ SameBodies
  BY <1>1, SameStack
<1>3. TypeOK'
  BY <1>1, <1>2 DEF TypeOK, scanVars, poolVars, taskVars
<1>4. Calling(th)
  BY <1>1, <1>2 DEF Calling, taskVars
<1> QED BY <1>3, <1>4 DEF StepOf

\* A body throws; init and shutdown begin, and the pool is published.
LEMMA MovingOn ==
  ASSUME TypeOK, NEW th \in Threads, Throw(th) \/ Lifecycle(th) \/ DoInitPublish(th)
  PROVE  TypeOK' /\ StepOf(th)
<1>1. UNCHANGED <<prog, queue, counter, taskVars, scanVars, alive, born, flag>>
  BY DEF Throw, Lifecycle, DoInitPublish, poolVars
<1>2. \E op, at : In(th, op, at)
  BY DEF Throw, Lifecycle, DoInitPublish
<1>3. \/ \E next \in Points \ {"help"} : Goto(th, next)
      \/ SetTop(th, NextCall(Top(th))) \/ SetTop(th, Unwind(Top(th)))
  <2>1. CASE Throw(th)
    BY <2>1 DEF Throw
  <2>2. CASE Lifecycle(th)
    BY <2>2 DEF Lifecycle, Points
  <2>3. CASE DoInitPublish(th)
    BY <2>3 DEF DoInitPublish, Points
  <2> QED BY <2>1, <2>2, <2>3
<1>4. StackOK' /\ SameBodies /\ \A u \in Threads : stack'[u] = << >> <=> stack[u] = << >>
  <2>1. CASE \E next \in Points \ {"help"} : Goto(th, next)
    BY <1>1, <1>2, <2>1, GotoStep
  <2>2. CASE SetTop(th, NextCall(Top(th))) \/ SetTop(th, Unwind(Top(th)))
    BY <1>1, <1>2, <2>2, ReturnStep
  <2> QED BY <1>3, <2>1, <2>2
<1>5. gpool' \in Nat /\ lifecycle' \in SUBSET Threads
  <2>1. CASE Throw(th)
    BY <2>1 DEF Throw, TypeOK, poolVars
  <2>2. CASE Lifecycle(th)
    BY <2>2 DEF Lifecycle, TypeOK
  <2>3. CASE DoInitPublish(th)
    BY <2>3 DEF DoInitPublish, TypeOK
  <2> QED BY <2>1, <2>2, <2>3
<1>6. TypeOK'
  BY <1>1, <1>4, <1>5 DEF TypeOK, scanVars, taskVars
<1>7. Calling(th)
  BY <1>1, <1>4 DEF Calling, taskVars
<1> QED BY <1>6, <1>7 DEF StepOf

LEMMA JoinStep ==
  ASSUME TypeOK, NEW th \in Threads, StopJoin(th)
  PROVE  TypeOK' /\ StepOf(th)
<1>1. UNCHANGED <<prog, counter, left, gpool, born, flag, taskVars>> /\ queue' = EmptyQueues
  BY DEF StopJoin
<1>2. \E op : In(th, op, "join")
  BY DEF StopJoin
<1>3. Goto(th, "start") \/ SetTop(th, NextCall(Top(th)))
  BY DEF StopJoin
<1>4. StackOK' /\ SameBodies /\ \A u \in Threads : stack'[u] = << >> <=> stack[u] = << >>
  <2>1. CASE Goto(th, "start")
    BY <1>1, <1>2, <2>1, GotoStep DEF Points
  <2>2. CASE SetTop(th, NextCall(Top(th)))
    BY <1>1, <1>2, <2>2, ReturnStep
  <2> QED BY <1>3, <2>1, <2>2
<1>5. /\ loc' = [w \in Workers |-> "none"] /\ \A w \in Workers : loc[w] = "exited"
      /\ alive' = 0
  BY DEF StopJoin
<1>6. queue' \in [Workers -> Seq(Tasks)]
  BY <1>1 DEF EmptyQueues
<1>7. lifecycle' \in SUBSET Threads
  BY DEF StopJoin, TypeOK
<1>8. TypeOK'
  BY <1>1, <1>4, <1>5, <1>6, <1>7 DEF TypeOK, Locs, taskVars
<1>9. Clearing(th)
  BY <1>1, <1>2, <1>4 DEF Clearing, In, taskVars
<1> QED BY <1>8, <1>9 DEF StepOf

\* Await and detach: the handle the call is at is released.
LEMMA AwaitDoneStep ==
  ASSUME TypeOK, NEW th \in Threads, AwaitDone(th)
  PROVE  TypeOK' /\ StepOf(th)
<1> DEFINE f == Top(th)
           tasks == Call(f).tasks
           first == f.first \/ Waited(f) \in threw
           onward == [f EXCEPT !.k = @ + 1, !.first = first]
<1>1. UNCHANGED <<prog, queue, counter, scanVars, poolVars, spawned, done, threw, detached>>
  BY DEF AwaitDone
<1>2. In(th, "await", "call") /\ tasks[f.k] \in done /\ freed' = freed \cup {tasks[f.k]}
  BY DEF AwaitDone, Waited
<1>3. \/ f.k < Len(tasks) /\ SetTop(th, onward)
      \/ SetTop(th, NextCall(f)) \/ SetTop(th, Unwind(f))
  BY DEF AwaitDone
<1>4. /\ stack[th] # << >> /\ f \in Frames /\ FrameOK(prog[f.body], f) /\ ~Returned(f)
      /\ f.pc \in 1 .. Len(prog[f.body]) /\ prog[f.body] \in Seq(Calls)
      /\ Call(f) = prog[f.body][f.pc] /\ Call(f).op = "await" /\ Call(f) \in Calls
  BY <1>2, InFacts, ProgType DEF TypeOK, Frames
<1>5. tasks \in Seq(Tasks) /\ f.k \in DOMAIN tasks /\ f.k \in Nat /\ f.pc \in Nat
  <2>1. tasks \in Seq(Tasks)
    BY <1>4 DEF Calls
  <2>2. f.k \in DOMAIN tasks
    BY <1>4 DEF FrameOK
  <2>3. f.k \in Nat /\ f.pc \in Nat
    BY <1>4 DEF Frames
  <2> QED BY <2>1, <2>2, <2>3
<1>6. /\ StackOK' /\ SameBodies /\ \A u \in Threads : stack'[u] = << >> <=> stack[u] = << >>
      /\ stack'[th][1].pc > f.pc \/ (stack'[th][1].pc = f.pc /\ stack'[th][1].k > f.k)
  <2>1. CASE f.k < Len(tasks) /\ SetTop(th, onward)
    <3>1. first \in BOOLEAN
      BY <1>4 DEF Frames
    <3>2. f.k + 1 \in DOMAIN prog[f.body][f.pc].tasks /\ f.k + 1 \in Nat \ {0} /\ f.k + 1 > f.k
      BY <1>4, <1>5, <2>1
    <3>8. f.at = "call" /\ f.pc <= Len(prog[f.body])
      BY <1>2, <1>4 DEF In
    <3> HIDE DEF first, f
    <3>3. /\ onward \in Frames /\ onward.body = f.body /\ onward.pc = f.pc
          /\ onward.k = f.k + 1 /\ onward.at = "call"
      BY <1>4, <3>1, <3>2, <3>8 DEF Frames
    <3> HIDE DEF onward
    <3>4. f.k + 1 >= f.k
      BY <1>5
    <3>5. FrameOK(prog[onward.body], onward) /\ Later(onward, f)
      BY <1>4, <3>2, <3>3, <3>4, <3>8, SameCall
    <3>6. /\ StackOK' /\ SameBodies /\ stack'[th][1] = onward
          /\ \A u \in Threads : stack'[u] = << >> <=> stack[u] = << >>
      BY <1>1, <1>4, <2>1, <3>3, <3>5, SetTopStep DEF f
    <3> QED BY <3>2, <3>3, <3>6
  <2>2. CASE SetTop(th, NextCall(f)) \/ SetTop(th, Unwind(f))
    BY <1>1, <1>2, <2>2, ReturnStep
  <2> QED BY <1>3, <2>1, <2>2
<1>7. tasks[f.k] \in Tasks
  BY <1>5
<1>8. TypeOK'
  BY <1>1, <1>2, <1>6, <1>7 DEF TypeOK, scanVars, poolVars
<1>9. Releases(th)
  <2>1. /\ freed' \cup detached' = freed \cup detached \cup {tasks[f.k]} /\ freed' \subseteq freed \cup done
        /\ freed' \in {freed, freed \cup {tasks[f.k]}}
    BY <1>1, <1>2
  <2> QED BY <1>4, <1>5, <1>6, <2>1 DEF Releases
<1>10. Calling(th)
  BY <1>1, <1>6, <1>9 DEF Calling
<1> QED BY <1>8, <1>10 DEF StepOf

LEMMA DetachStep ==
  ASSUME TypeOK, NEW th \in Threads, Detach(th)
  PROVE  TypeOK' /\ StepOf(th)
<1> DEFINE f == Top(th)
           t == Call(f).tasks[1]
<1>1. UNCHANGED <<prog, queue, counter, scanVars, poolVars, spawned, done, threw>>
  BY DEF Detach
<1>2. /\ In(th, "detach", "call") /\ SetTop(th, NextCall(f))
      /\ IF t \in done THEN freed' = freed \cup {t} /\ UNCHANGED detached
                       ELSE detached' = detached \cup {t} /\ UNCHANGED freed
  BY DEF Detach
<1>3. /\ stack[th] # << >> /\ f \in Frames /\ ~Returned(f) /\ prog \in Programs
      /\ f.pc \in 1 .. Len(prog[f.body]) /\ Call(f) = prog[f.body][f.pc]
      /\ Call(f).op = "detach" /\ Call(f) \in Calls
  BY <1>2, InFacts DEF TypeOK
<1>4. 1 \in DOMAIN Call(f).tasks /\ t \in Tasks
  <2>1. f.body \in Bodies
    BY <1>3 DEF Frames
  <2>2. Len(Call(f).tasks) = 1
    BY <1>3, <2>1, ProgramType
  <2> QED BY <1>3, <2>2 DEF Calls
<1>5. /\ StackOK' /\ SameBodies /\ stack'[th][1].pc > f.pc
      /\ \A u \in Threads : stack'[u] = << >> <=> stack[u] = << >>
  BY <1>1, <1>2, ReturnStep
<1>6. TypeOK'
  BY <1>1, <1>2, <1>4, <1>5 DEF TypeOK, scanVars, poolVars
<1>7. /\ freed' \cup detached' = freed \cup detached \cup {t} /\ freed' \subseteq freed \cup done
      /\ freed' \in {freed, freed \cup {t}}
  BY <1>2
<1>8. Releases(th)
  BY <1>3, <1>4, <1>5, <1>7 DEF Releases
<1>9. Calling(th)
  BY <1>1, <1>5, <1>8 DEF Calling
<1> QED BY <1>6, <1>9 DEF StepOf

\* A body starts on top of a stack whose frames stay what they are.
LEMMA StartStep ==
  ASSUME TypeOK, NEW th \in Threads, NEW t \in Tasks, NEW s \in Seq(Frames),
         Len(s) = Len(stack[th]), prog' = prog,
         stack' = [stack EXCEPT ![th] = <<Frame(t)>> \o s],
         \A i \in 1 .. Len(s) : /\ s[i].at = "call" /\ FrameOK(prog[s[i].body], s[i])
                                /\ Stays(s[i], stack[th][i])
  PROVE  /\ StackOK'
         /\ Len(stack'[th]) = Len(stack[th]) + 1 /\ stack'[th][1] = Frame(t)
         /\ \A i \in 1 .. Len(stack[th]) : Stays(stack'[th][i + 1], stack[th][i])
         /\ \A u \in Threads \ {th} : stack'[u] = stack[u]
<1> DEFINE r == <<Frame(t)>> \o s
<1>1. Frame(t) \in Frames /\ FrameOK(prog[t], Frame(t)) /\ Frame(t).body = t
  BY FrameType, FrameStarts DEF TypeOK, Frame
<1>2. /\ r \in Seq(Frames) /\ Len(r) = Len(s) + 1
      /\ r[1] = Frame(t) /\ \A i \in 1 .. Len(s) : r[i + 1] = s[i]
  BY <1>1, PushFacts
<1> HIDE DEF r
<1>3. stack \in [Threads -> Seq(Frames)] /\ stack' = [stack EXCEPT ![th] = r]
  BY DEF TypeOK, StackOK, r
<1>4. /\ stack' \in [Threads -> Seq(Frames)] /\ stack'[th] = r
      /\ \A u \in Threads \ {th} : stack'[u] = stack[u]
  BY <1>2, <1>3
<1>5. Len(s) \in Nat
  OBVIOUS
<1>6. ASSUME NEW u \in Threads, NEW i \in 1 .. Len(stack'[u])
      PROVE  /\ FrameOK(prog'[stack'[u][i].body], stack'[u][i])
             /\ i > 1 => stack'[u][i].at = "call"
  <2>1. CASE u # th
    <3>1. i \in 1 .. Len(stack[u]) /\ stack'[u][i] = stack[u][i]
      BY <1>4, <2>1
    <3> QED BY <3>1 DEF TypeOK, StackOK
  <2>2. CASE u = th /\ i = 1
    BY <1>1, <1>2, <1>4, <2>2
  <2>3. CASE u = th /\ i # 1
    <3>1. PICK j \in 1 .. Len(s) : i = j + 1
      <4>1. i - 1 \in 1 .. Len(s) /\ i = (i - 1) + 1
        BY <1>2, <1>4, <1>5, <2>3
      <4> QED BY <4>1
    <3>2. stack'[u][i] = s[j]
      BY <1>2, <1>4, <2>3, <3>1
    <3> QED BY <3>2
  <2> QED BY <2>1, <2>2, <2>3
<1>7. StackOK'
  BY <1>4, <1>6 DEF StackOK
<1> QED BY <1>2, <1>4, <1>7


\* A worker between two tasks starts one.
LEMMA StartIdle ==
  ASSUME TypeOK, NEW th \in Threads, NEW t \in Tasks, stack[th] = << >>, prog' = prog,
         stack' = Start(th, t)
  PROVE  /\ StackOK'
         /\ Len(stack'[th]) = Len(stack[th]) + 1 /\ stack'[th][1] = Frame(t)
         /\ \A i \in 1 .. Len(stack[th]) : Stays(stack'[th][i + 1], stack[th][i])
         /\ \A u \in Threads \ {th} : stack'[u] = stack[u]
<1> DEFINE s == stack[th]
<1>1. s \in Seq(Frames) /\ Len(s) = Len(stack[th])
  BY DEF TypeOK, StackOK
<1>2. stack' = [stack EXCEPT ![th] = <<Frame(t)>> \o s]
  BY DEF Start
<1>3. Len(s) = 0
  OBVIOUS
<1> HIDE DEF s
<1>4. \A i \in 1 .. Len(s) : FALSE
  BY <1>3
<1> QED BY <1>1, <1>2, <1>4, StartStep

LEMMA ScanOwnStep ==
  ASSUME TypeOK, NEW w \in Workers, ScanOwn(w)
  PROVE  TypeOK' /\ StepOf(w) /\ (Begins(w) \/ UNCHANGED stack)
<1>1. UNCHANGED <<prog, counter, poolVars, taskVars>> /\ loc[w] = "own" /\ stack[w] = << >>
  BY DEF ScanOwn
<1>2. queue[w] \in Seq(Tasks) /\ queue \in [Workers -> Seq(Tasks)]
  BY DEF TypeOK
<1>3. CASE queue[w] # << >>
  <2> DEFINE t == queue[w][1]
  <2>1. /\ queue' = [queue EXCEPT ![w] = Tail(queue[w])] /\ stack' = Start(w, Head(queue[w]))
        /\ UNCHANGED scanVars
    BY <1>3 DEF ScanOwn
  <2>2. /\ Tail(queue[w]) \in Seq(Tasks) /\ Without(queue[w], Tail(queue[w]), 1)
        /\ Head(queue[w]) = t /\ t \in Tasks
    BY <1>2, <1>3, EndsTaken
  <2>3. queue'[w] = Tail(queue[w]) /\ \A v \in Workers \ {w} : queue'[v] = queue[v]
    BY <1>2, <2>1
  <2>4. stack' = Start(w, t)
    BY <2>1, <2>2
  <2>6. /\ StackOK'
        /\ Len(stack'[w]) = Len(stack[w]) + 1 /\ stack'[w][1] = Frame(t)
        /\ \A i \in 1 .. Len(stack[w]) : Stays(stack'[w][i + 1], stack[w][i])
        /\ \A u \in Threads \ {w} : stack'[u] = stack[u]
    BY <1>1, <2>2, <2>4, StartIdle
  <2>7. TypeOK'
    <3>1. queue' \in [Workers -> Seq(Tasks)]
      BY <1>2, <2>1, <2>2
    <3> QED BY <1>1, <2>1, <2>6, <3>1 DEF TypeOK, scanVars, poolVars, taskVars
  <2>8. Starting(w, w, 1)
    BY <1>1, <2>2, <2>3, <2>6 DEF Starting, taskVars
  <2> QED BY <2>7, <2>8 DEF StepOf, Begins
<1>4. CASE queue[w] = << >>
  <2>1. PICK s \in Workers : left' = [left EXCEPT ![w] = Others(s, w)]
    BY <1>3, <1>4 DEF ScanOwn
  <2>2. /\ loc' = [loc EXCEPT ![w] = IF NumWorkers > 1 THEN "steal" ELSE "idle"]
        /\ UNCHANGED <<queue, stack>>
    BY <1>4 DEF ScanOwn
  <2>3. StackOK' /\ SameBodies
    BY <1>1, <2>2, SameStack
  <2>4. Others(s, w) \in Seq(Workers) /\ (loc'[w] = "steal" => Others(s, w) # << >>)
    <3>1. CASE NumWorkers > 1
      BY <3>1, OthersType
    <3>2. CASE ~(NumWorkers > 1)
      <4>1. NumWorkers - 1 = 0
        BY <3>2, PoolAssumption
      <4>2. \A i \in 1 .. NumWorkers - 1 : FALSE
        BY <4>1
      <4>3. \E n \in Nat : 1 .. NumWorkers - 1 = 1 .. n
        BY <4>1
      <4>4. \A g : DOMAIN [i \in 1 .. NumWorkers - 1 |-> g[i]] = {}
        BY <4>2
      <4>5. Others(s, w) = << >>
        BY <4>1, <4>2 DEF Others
      <4>6. loc'[w] = "idle"
        BY <2>2, <3>2 DEF TypeOK
      <4> QED BY <4>5, <4>6
    <3> QED BY <3>1, <3>2
  <2>5. TypeOK'
    BY <1>1, <2>1, <2>2, <2>3, <2>4 DEF TypeOK, Locs, poolVars, taskVars
  <2>6. Calling(w)
    BY <1>1, <2>2, <2>3 DEF Calling, taskVars
  <2> QED BY <2>2, <2>5, <2>6 DEF StepOf
<1> QED BY <1>3, <1>4


LEMMA StealStep ==
  ASSUME TypeOK, NEW w \in Workers, Steal(w)
  PROVE  TypeOK' /\ StepOf(w) /\ (Begins(w) \/ UNCHANGED stack)
<1> DEFINE v == Head(left[w])
<1>1. UNCHANGED <<prog, counter, poolVars, taskVars>> /\ loc[w] = "steal" /\ stack[w] = << >>
  BY DEF Steal, TypeOK
<1>2. left[w] \in Seq(Workers) /\ left[w] # << >> /\ v \in Workers
  <2>1. left[w] \in Seq(Workers) /\ left[w] # << >>
    BY <1>1 DEF TypeOK
  <2> QED BY <2>1, HeadTailProperties
<1>3. /\ queue[v] \in Seq(Tasks) /\ queue \in [Workers -> Seq(Tasks)]
      /\ left \in [Workers -> Seq(Workers)] /\ loc \in [Workers -> Locs]
  BY <1>2 DEF TypeOK
<1>4. CASE queue[v] # << >>
  <2> DEFINE n == Len(queue[v])
             t == queue[v][n]
  <2>1. /\ queue' = [queue EXCEPT ![v] = Front(queue[v])] /\ stack' = Start(w, Last(queue[v]))
        /\ loc' = [loc EXCEPT ![w] = "own"] /\ left' = [left EXCEPT ![w] = << >>]
    BY <1>4 DEF Steal
  <2>2. /\ Front(queue[v]) \in Seq(Tasks) /\ Without(queue[v], Front(queue[v]), n)
        /\ Last(queue[v]) = t /\ t \in Tasks /\ n \in Nat
    BY <1>3, <1>4, EndsTaken
  <2> HIDE DEF n
  <2>3. queue'[v] = Front(queue[v]) /\ \A u \in Workers \ {v} : queue'[u] = queue[u]
    BY <1>2, <1>3, <2>1
  <2>4. stack' = Start(w, t)
    BY <2>1, <2>2
  <2>6. /\ StackOK'
        /\ Len(stack'[w]) = Len(stack[w]) + 1 /\ stack'[w][1] = Frame(t)
        /\ \A i \in 1 .. Len(stack[w]) : Stays(stack'[w][i + 1], stack[w][i])
        /\ \A u \in Threads \ {w} : stack'[u] = stack[u]
    BY <1>1, <2>2, <2>4, StartIdle
  <2>7. TypeOK'
    <3>1. queue' \in [Workers -> Seq(Tasks)]
      BY <1>3, <2>1, <2>2
    <3>2. left' \in [Workers -> Seq(Workers)] /\ loc' \in [Workers -> Locs] /\ loc'[w] = "own"
      BY <1>3, <2>1 DEF Locs
    <3>3. \A u \in Workers \ {w} : loc'[u] = loc[u] /\ left'[u] = left[u]
      BY <1>3, <2>1
    <3>4. \A u \in Workers : loc'[u] = "steal" => left'[u] # << >>
      BY <3>2, <3>3 DEF TypeOK
    <3>5. \A u \in Workers : loc'[u] # "own" => stack'[u] = << >>
      BY <2>6, <3>2, <3>3 DEF TypeOK
    <3> QED BY <1>1, <2>6, <3>1, <3>2, <3>4, <3>5 DEF TypeOK, poolVars, taskVars
  <2>8. Starting(w, v, n)
    BY <1>1, <2>2, <2>3, <2>6 DEF Starting, taskVars
  <2> QED BY <1>2, <2>2, <2>7, <2>8 DEF StepOf, Begins
<1>5. CASE queue[v] = << >>
  <2>1. /\ left' = [left EXCEPT ![w] = Tail(left[w])]
        /\ loc' = [loc EXCEPT ![w] = IF Len(left[w]) = 1 THEN "idle" ELSE "steal"]
        /\ UNCHANGED <<queue, stack>>
    BY <1>5 DEF Steal
  <2>2. StackOK' /\ SameBodies
    BY <1>1, <2>1, SameStack
  <2>3. Tail(left[w]) \in Seq(Workers) /\ (Len(left[w]) # 1 => Tail(left[w]) # << >>)
    BY <1>2, TailLeft
  <2>4. /\ left' \in [Workers -> Seq(Workers)] /\ loc' \in [Workers -> Locs]
        /\ \A u \in Workers : loc'[u] = "steal" => left'[u] # << >>
        /\ \A u \in Workers : loc'[u] # "own" => stack'[u] = << >>
    BY <1>1, <1>3, <2>1, <2>3 DEF TypeOK, Locs
  <2>5. TypeOK'
    BY <1>1, <2>1, <2>2, <2>4 DEF TypeOK, poolVars, taskVars
  <2>6. Calling(w)
    BY <1>1, <2>1, <2>2 DEF Calling, taskVars
  <2> QED BY <2>1, <2>5, <2>6 DEF StepOf
<1> QED BY <1>4, <1>5

\* Helping: the task found runs on top of the awaiter.
LEMMA HelpStep ==
  ASSUME TypeOK, NEW th \in Threads, Help(th)
  PROVE  /\ TypeOK' /\ StepOf(th)
         /\ \/ Begins(th)
            \/ \E g \in Frames : /\ SetTop(th, g) /\ Stays(g, Top(th))
                                /\ (g.at # "call" => g.at = "help" /\ g.pool = Top(th).pool)
<1> DEFINE f == Top(th)
           v == Head(f.victims)
           again == [f EXCEPT !.at = "call", !.pool = 0, !.victims = << >>]
<1>1. UNCHANGED <<prog, counter, scanVars, poolVars, taskVars>> /\ In(th, "await", "help")
  BY DEF Help
<1>2. /\ stack[th] # << >> /\ f \in Frames /\ FrameOK(prog[f.body], f) /\ f.at = "help"
      /\ f.pc \in 1 .. Len(prog[f.body]) /\ prog[f.body] \in Seq(Calls)
  BY <1>1, InFacts, ProgType DEF TypeOK, Frames
<1>3. f.victims \in Seq(Workers) /\ f.victims # << >>
  BY <1>2 DEF Frames, FrameOK
<1>4. v \in Workers
  BY <1>3, HeadTailProperties
<1>5. queue[v] \in Seq(Tasks) /\ queue \in [Workers -> Seq(Tasks)]
  BY <1>4 DEF TypeOK
<1>6. f.k >= f.k /\ f.pc <= Len(prog[f.body])
  <2>1. f.k \in Nat
    BY <1>2 DEF Frames
  <2> QED BY <1>2, <2>1
<1>7. /\ again \in Frames /\ again.body = f.body /\ again.pc = f.pc /\ again.k = f.k
      /\ again.at = "call"
  <2> HIDE DEF f
  <2>1. << >> \in Seq(Workers)
    OBVIOUS
  <2>2. f \in Frames
    BY <1>2
  <2> QED BY <2>1, <2>2 DEF Frames, Points
<1>8. FrameOK(prog[again.body], again) /\ Later(again, f)
  <2> HIDE DEF f, again
  <2> QED BY <1>2, <1>6, <1>7, SameCall
<1>9. th \in Workers => loc[th] = "own"
  BY <1>2 DEF TypeOK
<1>10. CASE queue[v] # << >>
  <2> DEFINE n == Len(queue[v])
             t == queue[v][n]
             s == <<again>> \o Tail(stack[th])
  <2>1. /\ queue' = [queue EXCEPT ![v] = Front(queue[v])]
        /\ stack' = [stack EXCEPT ![th] = <<Frame(Last(queue[v])), again>> \o Tail(stack[th])]
    BY <1>10 DEF Help
  <2>2. /\ Front(queue[v]) \in Seq(Tasks) /\ Without(queue[v], Front(queue[v]), n)
        /\ Last(queue[v]) = t /\ t \in Tasks /\ n \in Nat
    BY <1>5, <1>10, EndsTaken
  <2> HIDE DEF n
  <2>3. queue'[v] = Front(queue[v]) /\ \A u \in Workers \ {v} : queue'[u] = queue[u]
    BY <1>4, <1>5, <2>1
  <2>4. stack[th] \in Seq(Frames) /\ Len(stack[th]) \in Nat \ {0} /\ f = stack[th][1]
    BY <1>2, TopFacts DEF TypeOK, StackOK
  <2>5. /\ Tail(stack[th]) \in Seq(Frames) /\ Len(Tail(stack[th])) = Len(stack[th]) - 1
        /\ \A i \in 1 .. Len(Tail(stack[th])) : Tail(stack[th])[i] = stack[th][i + 1]
    BY <1>2, <2>4, HeadTailProperties
  <2>6. /\ s \in Seq(Frames) /\ Len(s) = Len(Tail(stack[th])) + 1 /\ s[1] = again
        /\ \A i \in 1 .. Len(Tail(stack[th])) : s[i + 1] = Tail(stack[th])[i]
    <3> HIDE DEF again
    <3> QED BY <1>7, <2>5, PushFacts
  <2>7. stack' = [stack EXCEPT ![th] = <<Frame(t)>> \o s]
    <3>1. Frame(t) \in Frames
      BY <2>2, FrameType
    <3> HIDE DEF again, t
    <3>2. <<Frame(t), again>> = <<Frame(t)>> \o <<again>>
      BY <1>7, <3>1
    <3>3. <<Frame(t)>> \in Seq(Frames) /\ <<again>> \in Seq(Frames)
      BY <1>7, <3>1
    <3>4. (<<Frame(t)>> \o <<again>>) \o Tail(stack[th]) = <<Frame(t)>> \o s
      BY <2>5, <3>3, ConcatAssociative
    <3> QED BY <2>1, <2>2, <3>2, <3>4
  <2>8. ASSUME NEW i \in 1 .. Len(s)
        PROVE  s[i].at = "call" /\ FrameOK(prog[s[i].body], s[i]) /\ Stays(s[i], stack[th][i])
    <3> HIDE DEF again, s, f
    <3>1. CASE i = 1
      BY <1>7, <1>8, <2>4, <2>6, <3>1 DEF Stays
    <3>2. CASE i # 1
      <4>1. PICK j \in 1 .. Len(Tail(stack[th])) : i = j + 1
        <5>1. i - 1 \in 1 .. Len(Tail(stack[th])) /\ i = (i - 1) + 1
          BY <2>4, <2>5, <2>6, <3>2
        <5> QED BY <5>1
      <4>2. s[i] = stack[th][i] /\ i \in 1 .. Len(stack[th]) /\ i > 1
        BY <2>4, <2>5, <2>6, <4>1
      <4>3. stack[th][i].at = "call" /\ FrameOK(prog[stack[th][i].body], stack[th][i])
        BY <4>2 DEF TypeOK, StackOK
      <4> QED BY <4>2, <4>3 DEF Stays
    <3> QED BY <3>1, <3>2
  <2>9. Len(s) = Len(stack[th])
    BY <2>4, <2>5, <2>6
  <2> HIDE DEF s, t
  <2>10. /\ StackOK'
         /\ Len(stack'[th]) = Len(stack[th]) + 1 /\ stack'[th][1] = Frame(t)
         /\ \A i \in 1 .. Len(stack[th]) : Stays(stack'[th][i + 1], stack[th][i])
         /\ \A u \in Threads \ {th} : stack'[u] = stack[u]
    BY <1>1, <2>2, <2>6, <2>7, <2>8, <2>9, StartStep
  <2>11. TypeOK'
    <3>1. queue' \in [Workers -> Seq(Tasks)]
      BY <1>5, <2>1, <2>2
    <3>2. \A w \in Workers : loc'[w] # "own" => stack'[w] = << >>
      BY <1>1, <1>9, <2>10 DEF TypeOK, scanVars
    <3> QED BY <1>1, <2>10, <3>1, <3>2 DEF TypeOK, scanVars, poolVars, taskVars
  <2>12. Starting(th, v, n)
    BY <1>1, <2>2, <2>3, <2>10 DEF Starting, taskVars, t
  <2> QED BY <1>4, <2>2, <2>11, <2>12 DEF StepOf, Begins
<1>11. CASE queue[v] = << >>
  <2> DEFINE on == [f EXCEPT !.victims = Tail(f.victims)]
  <2>1. /\ SetTop(th, again) \/ (Len(f.victims) # 1 /\ SetTop(th, on))
        /\ UNCHANGED queue
    BY <1>11 DEF Help
  <2>2. Tail(f.victims) \in Seq(Workers) /\ (Len(f.victims) # 1 => Tail(f.victims) # << >>)
    BY <1>3, TailLeft
  <2>3. /\ on \in Frames /\ on.body = f.body /\ on.pc = f.pc /\ on.k = f.k
        /\ on.victims = Tail(f.victims) /\ on.at = "help" /\ on.pool = f.pool
    <3>1. f \in Frames /\ f.at = "help"
      BY <1>2
    <3> HIDE DEF f
    <3> QED BY <3>1, <2>2 DEF Frames
  <2>4. Len(f.victims) # 1 => FrameOK(prog[on.body], on) /\ Later(on, f)
    <3> HIDE DEF f, on
    <3> QED BY <1>2, <1>6, <2>2, <2>3, SameCall
  <2>5. PICK g \in Frames : /\ SetTop(th, g) /\ FrameOK(prog[g.body], g) /\ Later(g, f) /\ Stays(g, f)
                            /\ g.at # "call" => g.at = "help" /\ g.pool = f.pool
    <3> HIDE DEF f, on, again
    <3> QED BY <1>7, <1>8, <2>1, <2>3, <2>4 DEF Stays
  <2>9. SetTop(th, g) /\ FrameOK(prog[g.body], g) /\ Later(g, f)
    BY <2>5
  <2>6. StackOK' /\ SameBodies /\ \A u \in Threads : stack'[u] = << >> <=> stack[u] = << >>
    BY <1>1, <1>2, <2>9, SetTopStep
  <2>7. TypeOK'
    BY <1>1, <2>1, <2>6 DEF TypeOK, scanVars, poolVars, taskVars
  <2>8. Calling(th)
    BY <1>1, <2>1, <2>6 DEF Calling, taskVars
  <2> QED BY <2>5, <2>7, <2>8 DEF StepOf
<1> QED BY <1>10, <1>11

LEMMA EndsStep ==
  ASSUME TypeOK, NEW th \in Threads, BodyEnds(th)
  PROVE  TypeOK' /\ StepOf(th) /\ Ending(th)
<1> DEFINE f == Top(th)
<1>1. /\ UNCHANGED <<prog, queue, counter, scanVars, poolVars, spawned, detached>>
      /\ stack[th] # << >> /\ stack' = [stack EXCEPT ![th] = Tail(stack[th])]
  BY DEF BodyEnds
<1>2. \/ /\ f.body \in Tasks /\ done' = done \cup {f.body}
         /\ threw' = threw \cup {f.body} \/ threw' = threw
         /\ freed' = freed \cup {f.body} \/ freed' = freed
         /\ freed' \cup detached = freed \cup detached
      \/ f.body \notin Tasks /\ UNCHANGED <<done, threw, freed>>
  BY DEF BodyEnds
<1>3. stack[th] \in Seq(Frames) /\ Len(stack[th]) \in Nat \ {0} /\ stack \in [Threads -> Seq(Frames)]
  BY <1>1, TopFacts DEF TypeOK, StackOK
<1>4. /\ Tail(stack[th]) \in Seq(Frames) /\ Len(Tail(stack[th])) = Len(stack[th]) - 1
      /\ \A i \in 1 .. Len(Tail(stack[th])) : Tail(stack[th])[i] = stack[th][i + 1]
  BY <1>1, <1>3, HeadTailProperties
<1>5. /\ stack' \in [Threads -> Seq(Frames)] /\ stack'[th] = Tail(stack[th])
      /\ \A u \in Threads \ {th} : stack'[u] = stack[u]
  BY <1>1, <1>3, <1>4
<1>6. ASSUME NEW u \in Threads, NEW i \in 1 .. Len(stack'[u])
      PROVE  FrameOK(prog'[stack'[u][i].body], stack'[u][i]) /\ (i > 1 => stack'[u][i].at = "call")
  <2>1. CASE u # th
    <3>1. i \in 1 .. Len(stack[u]) /\ stack'[u][i] = stack[u][i]
      BY <1>5, <2>1
    <3> QED BY <1>1, <3>1 DEF TypeOK, StackOK
  <2>2. CASE u = th
    <3>1. i \in 1 .. Len(Tail(stack[th])) /\ stack'[u][i] = Tail(stack[th])[i]
      BY <1>5, <2>2
    <3>2. stack'[u][i] = stack[th][i + 1]
      BY <1>4, <3>1
    <3> DEFINE j == i + 1
    <3>3. j \in 1 .. Len(stack[th]) /\ j > 1
      BY <1>3, <1>4, <3>1
    <3> HIDE DEF j
    <3>4. FrameOK(prog[stack[th][j].body], stack[th][j]) /\ stack[th][j].at = "call"
      BY <3>3 DEF TypeOK, StackOK
    <3> QED BY <1>1, <3>2, <3>4 DEF j
  <2> QED BY <2>1, <2>2
<1>7. StackOK'
  BY <1>5, <1>6 DEF StackOK
<1>8. \A w \in Workers : loc'[w] # "own" => stack'[w] = << >>
  BY <1>1, <1>5 DEF TypeOK, scanVars
<1>9. TypeOK'
  BY <1>1, <1>2, <1>7, <1>8 DEF TypeOK, scanVars, poolVars
<1>10. Ending(th)
  <2>1. done' = done \cup ({f.body} \cap Tasks)
    BY <1>2
  <2>2. freed' \cup detached' = freed \cup detached /\ freed' \in {freed, freed \cup ({f.body} \cap Tasks)}
    BY <1>1, <1>2
  <2> QED BY <1>1, <1>4, <1>5, <2>1, <2>2 DEF Ending
<1> QED BY <1>9, <1>10 DEF StepOf

LEMMA SubmitStep ==
  ASSUME TypeOK, NEW th \in Threads, Submit(th)
  PROVE  TypeOK' /\ StepOf(th)
<1> DEFINE f == Top(th)
           t == Call(f).tasks[1]
           w == counter
<1>1. /\ UNCHANGED <<prog, scanVars, poolVars, done, threw, detached, freed>>
      /\ In(th, "spawn", "submit") /\ SetTop(th, NextCall(f))
      /\ spawned' = spawned \cup {t} /\ counter' = (counter + 1) % NumWorkers
      /\ queue' = [queue EXCEPT ![w] = IF Priority[t] < 2 THEN <<t>> \o @ ELSE Append(@, t)]
  BY DEF Submit
<1>2. /\ stack[th] # << >> /\ f \in Frames /\ ~Returned(f) /\ prog \in Programs
      /\ f.pc \in 1 .. Len(prog[f.body]) /\ Call(f) = prog[f.body][f.pc]
      /\ Call(f).op = "spawn" /\ Call(f) \in Calls
  BY <1>1, InFacts DEF TypeOK
<1>3. t \in Tasks
  <2>1. f.body \in Bodies
    BY <1>2 DEF Frames
  <2>2. Len(Call(f).tasks) = 1
    BY <1>2, <2>1, ProgramType
  <2> QED BY <1>2, <2>2 DEF Calls
<1>4. w \in Workers /\ queue \in [Workers -> Seq(Tasks)] /\ queue[w] \in Seq(Tasks)
  BY DEF TypeOK
<1>5. \E q \in Seq(Tasks) : \E p \in Nat :
        /\ queue' = [queue EXCEPT ![w] = q] /\ Without(q, queue[w], p) /\ q[p] = t
        /\ p = IF Priority[t] < 2 THEN 1 ELSE Len(q)
  <2>2. CASE Priority[t] < 2
    <3> DEFINE q == <<t>> \o queue[w]
    <3>1. q \in Seq(Tasks) /\ Without(q, queue[w], 1) /\ q[1] = t
      BY <1>3, <1>4, EndsAdded
    <3>2. queue' = [queue EXCEPT ![w] = q]
      BY <1>1, <2>2
    <3> HIDE DEF q
    <3> QED BY <2>2, <3>1, <3>2
  <2>3. CASE ~(Priority[t] < 2)
    <3> DEFINE q == Append(queue[w], t)
    <3>1. q \in Seq(Tasks) /\ Without(q, queue[w], Len(q)) /\ q[Len(q)] = t /\ Len(q) \in Nat
      BY <1>3, <1>4, EndsAdded
    <3>2. queue' = [queue EXCEPT ![w] = q]
      BY <1>1, <2>3
    <3> HIDE DEF q
    <3> QED BY <2>3, <3>1, <3>2
  <2> QED BY <2>2, <2>3
<1>6. /\ StackOK' /\ SameBodies /\ stack'[th][1].pc > f.pc
      /\ \A u \in Threads : stack'[u] = << >> <=> stack[u] = << >>
  BY <1>1, ReturnStep
<1>7. counter' \in Workers
  BY <1>1, <1>4, PoolAssumption
<1>8. queue' \in [Workers -> Seq(Tasks)]
  BY <1>4, <1>5
<1>9. TypeOK'
  BY <1>1, <1>3, <1>6, <1>7, <1>8 DEF TypeOK, scanVars, poolVars
<1>10. \E p \in Nat : Spawning(th, w, p)
  BY <1>1, <1>2, <1>3, <1>4, <1>5, <1>6 DEF Spawning
<1> QED BY <1>4, <1>9, <1>10 DEF StepOf

-----------------------------------------------------------------------------
LEMMA ThreadStepTyped ==
  ASSUME TypeOK, NEW th \in Threads, ThreadStep(th)
  PROVE  TypeOK' /\ StepOf(th) /\ prog' = prog
<1>1. TypeOK' /\ StepOf(th)
  <2>1. CASE th \in Workers /\ WorkerStep(th)
    BY <2>1, ScanOwnStep, StealStep, IdleStep DEF WorkerStep
  <2>2. CASE BodyStep(th)
    <3>1. CASE BodyEnds(th) \/ Submit(th) \/ AwaitDone(th) \/ Help(th) \/ Detach(th) \/ BadPool(th)
      BY <3>1, EndsStep, SubmitStep, AwaitDoneStep, HelpStep, DetachStep, BadPoolStep
    <3>2. CASE \/ EnsureInit(th) \/ EnsureInitLocked(th) \/ StopFlag(th) \/ DoInitStart(th)
      BY <3>2, GoingOn
    <3>3. CASE Snapshot(th) \/ AwaitSnapshot(th) \/ HelpSeed(th)
      BY <3>3, SnapshotStep
    <3>4. CASE Throw(th) \/ Lifecycle(th) \/ DoInitPublish(th)
      BY <3>4, MovingOn
    <3>5. CASE StopJoin(th)
      BY <3>5, JoinStep
    <3> QED BY <2>2, <3>1, <3>2, <3>3, <3>4, <3>5 DEF BodyStep
  <2> QED BY <2>1, <2>2 DEF ThreadStep
<1>2. prog' = prog
  BY DEF ThreadStep, WorkerStep, BodyStep, ScanOwn, Steal, IdleCheck, WaitOver, BodyEnds, Throw,
         EnsureInit, EnsureInitLocked, Snapshot, Submit, AwaitDone, AwaitSnapshot, HelpSeed, Help,
         Detach, BadPool, Lifecycle, StopFlag, StopJoin, DoInitStart, DoInitPublish
<1> QED BY <1>1, <1>2

LEMMA InitTyped ==
  ASSUME Init
  PROVE  TypeOK
<1>1. prog \in Programs /\ loc = [w \in Workers |-> "none"] /\ lifecycle = {}
  BY DEF Init
<1>2. counter \in Workers
  BY PoolAssumption DEF Init
<1>3. stack = [th \in Threads |->
                 IF th \in Clients /\ prog[th] # << >> THEN <<Frame(th)>> ELSE << >>]
  BY DEF Init
<1>4. \A th \in Clients : Frame(th) \in Frames /\ FrameOK(prog[th], Frame(th)) /\ Frame(th).body = th
  BY <1>1, FrameType, FrameStarts DEF Frame
<1>5. stack \in [Threads -> Seq(Frames)]
  BY <1>3, <1>4
<1>6. ASSUME NEW th \in Threads, NEW i \in 1 .. Len(stack[th])
      PROVE  FrameOK(prog[stack[th][i].body], stack[th][i]) /\ ~(i > 1)
  <2>1. th \in Clients /\ stack[th] = <<Frame(th)>>
    BY <1>3
  <2>2. i = 1 /\ stack[th][i] = Frame(th)
    BY <2>1
  <2> QED BY <1>4, <2>1, <2>2
<1>7. StackOK
  BY <1>5, <1>6 DEF StackOK
<1>8. \A w \in Workers : stack[w] = << >>
  BY <1>3, PoolAssumption
<1>9. queue \in [Workers -> Seq(Tasks)]
  BY DEF Init, EmptyQueues
<1>10. left \in [Workers -> Seq(Workers)]
  BY DEF Init
<1>11. /\ flag \in BOOLEAN /\ gpool \in Nat /\ alive \in Nat /\ born \in Nat
       /\ spawned = {} /\ done = {} /\ threw = {} /\ detached = {} /\ freed = {}
  BY DEF Init
<1> QED BY <1>1, <1>2, <1>7, <1>8, <1>9, <1>10, <1>11 DEF TypeOK, Locs

\* A step of the pool is one of a thread, or changes nothing.
LEMMA NextSteps ==
  ASSUME TypeOK, [Next]_vars
  PROVE  \/ UNCHANGED vars
         \/ fault = {} /\ \E th \in Threads : ThreadStep(th)
BY DEF Next, Finished

LEMMA TypeNext ==
  ASSUME TypeOK, [Next]_vars
  PROVE  TypeOK'
<1>1. CASE UNCHANGED vars
  BY <1>1 DEF TypeOK, StackOK, vars, scanVars, poolVars, taskVars
<1> QED BY <1>1, NextSteps, ThreadStepTyped

(***************************************************************************)
(* Types.  A worker that is not between two scans runs no body, a scan has *)
(* a victim to look at, a frame is inside a call only while its body has   *)
(* one, and only the topmost frame of a stack is inside one that is not an *)
(* await that will be looked at again.                                     *)
(***************************************************************************)
THEOREM PoolTypeCorrect == Spec => []TypeOK
<1>1. Init => TypeOK
  BY InitTyped
<1>2. TypeOK /\ [Next]_vars => TypeOK'
  BY TypeNext
<1> QED BY <1>1, <1>2, PTL DEF Spec

-----------------------------------------------------------------------------
(***************************************************************************)
(* Where tasks are.                                                        *)
(***************************************************************************)
HIDE DEF Workers, Threads, Bodies

QueueDistinct ==
  \A w, v \in Workers : \A i \in 1 .. Len(queue[w]), j \in 1 .. Len(queue[v]) :
    queue[w][i] = queue[v][j] => w = v /\ i = j

StackDistinct ==
  \A th, u \in Threads : \A i \in 1 .. Len(stack[th]), j \in 1 .. Len(stack[u]) :
    stack[th][i].body = stack[u][j].body => th = u /\ i = j

Apart ==
  \A w \in Workers, th \in Threads : \A i \in 1 .. Len(queue[w]), j \in 1 .. Len(stack[th]) :
    queue[w][i] # stack[th][j].body

Live ==
  /\ \A w \in Workers : \A i \in 1 .. Len(queue[w]) : queue[w][i] \in spawned \ done
  /\ \A th \in Threads : \A i \in 1 .. Len(stack[th]) :
       stack[th][i].body \in (spawned \ done) \cup Clients

Begun(b) ==
  /\ b \in spawned \cup Clients
  /\ \A w \in Workers : \A i \in 1 .. Len(queue[w]) : queue[w][i] # b

\* Body b has made its call i, and is past its k-th handle.
Made(b, i) ==
  /\ Begun(b)
  /\ \A th \in Threads : \A j \in 1 .. Len(stack[th]) :
       stack[th][j].body = b => stack[th][j].pc > i
Passed(b, i, k) ==
  /\ Begun(b)
  /\ \A th \in Threads : \A j \in 1 .. Len(stack[th]) :
       LET f == stack[th][j] IN f.body = b => f.pc > i \/ (f.pc = i /\ f.k > k)

SpawnedIsMade ==
  \A b \in Bodies : \A i \in 1 .. Len(prog[b]) :
    prog[b][i].op = "spawn" /\ prog[b][i].tasks[1] \in spawned => Made(b, i)

ReleasedIsPast ==
  \A b \in Bodies : \A i \in 1 .. Len(prog[b]) : \A k \in DOMAIN prog[b][i].tasks :
    prog[b][i].op \in {"await", "detach"} /\ prog[b][i].tasks[k] \in freed \cup detached
      => Passed(b, i, k)

FreedDone == freed \subseteq done /\ done \subseteq spawned

PlacesOK == QueueDistinct /\ StackDistinct /\ Apart /\ Live /\ SpawnedIsMade /\ ReleasedIsPast /\ FreedDone


-----------------------------------------------------------------------------
\* Removing position p of a sequence of length n moves Skip(p, i) to i.
Skip(p, i) == IF i < p THEN i ELSE i + 1

LEMMA SkipFacts ==
  ASSUME NEW n \in Nat, NEW p \in 1 .. n
  PROVE  /\ \A i \in 1 .. n - 1 : Skip(p, i) \in 1 .. n /\ Skip(p, i) # p
         /\ \A i, j \in 1 .. n - 1 : (Skip(p, i) = Skip(p, j) => i = j) /\ (i < j <=> Skip(p, i) < Skip(p, j))
         /\ \A j \in 1 .. n : j # p => \E i \in 1 .. n - 1 : Skip(p, i) = j
<1>1. ASSUME NEW j \in 1 .. n, j # p
      PROVE  \E i \in 1 .. n - 1 : Skip(p, i) = j
  <2>1. CASE j < p
    <3>1. j \in 1 .. n - 1 /\ Skip(p, j) = j
      BY <2>1 DEF Skip
    <3> QED BY <3>1
  <2>2. CASE j > p
    <3>1. j - 1 \in 1 .. n - 1 /\ Skip(p, j - 1) = j
      BY <2>2 DEF Skip
    <3> QED BY <3>1
  <2> QED BY <1>1, <2>1, <2>2
<1> QED BY <1>1 DEF Skip

LEMMA WithoutFacts ==
  ASSUME NEW q \in Seq(Tasks), NEW r \in Seq(Tasks), NEW p, Without(q, r, p)
  PROVE  /\ p \in 1 .. Len(q) /\ Len(q) \in Nat
         /\ \A i \in 1 .. Len(r) : Skip(p, i) \in 1 .. Len(q) /\ Skip(p, i) # p /\ r[i] = q[Skip(p, i)]
         /\ \A i, j \in 1 .. Len(r) : (Skip(p, i) = Skip(p, j) => i = j) /\ (i < j <=> Skip(p, i) < Skip(p, j))
         /\ \A j \in 1 .. Len(q) : j # p => \E i \in 1 .. Len(r) : Skip(p, i) = j
<1> DEFINE n == Len(q)
<1>1. n \in Nat /\ p \in 1 .. n /\ Len(r) = n - 1
  BY DEF Without
<1>2. \A i \in 1 .. Len(r) : r[i] = q[Skip(p, i)]
  BY DEF Without, Skip
<1> HIDE DEF n
<1>3. /\ \A i \in 1 .. n - 1 : Skip(p, i) \in 1 .. n /\ Skip(p, i) # p
      /\ \A i, j \in 1 .. n - 1 : (Skip(p, i) = Skip(p, j) => i = j) /\ (i < j <=> Skip(p, i) < Skip(p, j))
      /\ \A j \in 1 .. n : j # p => \E i \in 1 .. n - 1 : Skip(p, i) = j
  BY <1>1, SkipFacts
<1> QED BY <1>1, <1>2, <1>3 DEF n

LEMMA LaterPast ==
  ASSUME NEW f \in Frames, NEW g \in Frames, Later(g, f), NEW i \in Nat, NEW k \in Nat
  PROVE  /\ g.body = f.body
         /\ f.pc > i => g.pc > i
         /\ f.pc > i \/ (f.pc = i /\ f.k > k) => g.pc > i \/ (g.pc = i /\ g.k > k)
BY DEF Later, Frames

\* What TypeOK says of queues and stacks, in the form the proofs below use.
PlaceTyped ==
  /\ \A w \in Workers : queue[w] \in Seq(Tasks) /\ Len(queue[w]) \in Nat
  /\ \A w \in Workers : \A i \in 1 .. Len(queue[w]) : queue[w][i] \in Tasks
  /\ \A th \in Threads : Len(stack[th]) \in Nat
  /\ \A th \in Threads : \A i \in 1 .. Len(stack[th]) :
       stack[th][i] \in Frames /\ stack[th][i].body \in Bodies

LEMMA PlaceTypes == TypeOK => PlaceTyped
<1> SUFFICES ASSUME TypeOK PROVE PlaceTyped
  OBVIOUS
<1>1. \A th \in Threads : stack[th] \in Seq(Frames)
  BY DEF TypeOK, StackOK
<1>2. \A th \in Threads : Len(stack[th]) \in Nat /\ \A i \in 1 .. Len(stack[th]) : stack[th][i] \in Frames
  BY <1>1
<1>3. \A f \in Frames : f.body \in Bodies
  BY DEF Frames
<1>4. \A w \in Workers : queue[w] \in Seq(Tasks)
  BY DEF TypeOK
<1>5. \A w \in Workers : Len(queue[w]) \in Nat /\ \A i \in 1 .. Len(queue[w]) : queue[w][i] \in Tasks
  BY <1>4
<1> QED BY <1>2, <1>3, <1>4, <1>5 DEF PlaceTyped

LEMMA PlaceTypesNext == TypeOK' => PlaceTyped'
BY PlaceTypes, PTL

\* The indices of a program's calls and of their handles are numbers.
LEMMA Indices ==
  ASSUME TypeOK, NEW b \in Bodies, NEW i \in 1 .. Len(prog[b])
  PROVE  i \in Nat /\ \A k \in DOMAIN prog[b][i].tasks : k \in Nat /\ prog[b][i].tasks[k] \in Tasks
<1>1. prog[b] \in Seq(Calls)
  BY ProgType DEF TypeOK
<1>2. prog[b][i] \in Calls
  BY <1>1
<1>3. prog[b][i].tasks \in Seq(Tasks)
  BY <1>2 DEF Calls
<1> QED BY <1>1, <1>3

\* The frames of body b are ones that were there, only further on.
OldFrames(b) ==
  \A u \in Threads : \A j \in 1 .. Len(stack'[u]) : stack'[u][j].body = b =>
    \E v \in Threads : \E l \in 1 .. Len(stack[v]) : Later(stack'[u][j], stack[v][l])

LEMMA CallsStayMade ==
  ASSUME TypeOK, TypeOK', NEW b \in Bodies, OldFrames(b), Begun(b)', NEW i \in Nat, NEW k \in Nat
  PROVE  (Made(b, i) => Made(b, i)') /\ (Passed(b, i, k) => Passed(b, i, k)')
<1>1. ASSUME NEW u \in Threads, NEW j \in 1 .. Len(stack'[u]), stack'[u][j].body = b
      PROVE  /\ Made(b, i) => stack'[u][j].pc > i
             /\ Passed(b, i, k) => \/ stack'[u][j].pc > i
                                   \/ stack'[u][j].pc = i /\ stack'[u][j].k > k
  <2> DEFINE g == stack'[u][j]
  <2>1. PICK v \in Threads : \E l \in 1 .. Len(stack[v]) : Later(g, stack[v][l])
    BY <1>1 DEF OldFrames
  <2>2. PICK l \in 1 .. Len(stack[v]) : Later(g, stack[v][l])
    BY <2>1
  <2> DEFINE f == stack[v][l]
  <2>3. f \in Frames /\ g \in Frames
    BY PlaceTypes, PlaceTypesNext DEF PlaceTyped
  <2>4. /\ g.body = f.body
        /\ f.pc > i => g.pc > i
        /\ f.pc > i \/ (f.pc = i /\ f.k > k) => g.pc > i \/ (g.pc = i /\ g.k > k)
    <3> HIDE DEF f, g
    <3> QED BY <2>2, <2>3, LaterPast DEF f, g
  <2>5. Made(b, i) => f.pc > i
    BY <1>1, <2>4 DEF Made
  <2>6. Passed(b, i, k) => f.pc > i \/ (f.pc = i /\ f.k > k)
    BY <1>1, <2>4 DEF Passed
  <2> QED BY <2>4, <2>5, <2>6
<1> QED BY <1>1 DEF Made, Passed

LEMMA CallsStay ==
  ASSUME TypeOK, TypeOK', \A b \in Bodies : Begun(b) => Begun(b)' /\ OldFrames(b)
  PROVE  /\ \A b \in Bodies : \A i \in 1 .. Len(prog[b]) : Made(b, i) => Made(b, i)'
         /\ \A b \in Bodies : \A i \in 1 .. Len(prog[b]) : \A k \in DOMAIN prog[b][i].tasks :
              Passed(b, i, k) => Passed(b, i, k)'
<1>1. ASSUME NEW b \in Bodies, NEW i \in 1 .. Len(prog[b]), Made(b, i)
      PROVE  Made(b, i)'
  <2>1. i \in Nat
    BY Indices
  <2>2. Begun(b)' /\ OldFrames(b)
    BY <1>1 DEF Made
  <2> QED BY <1>1, <2>1, <2>2, CallsStayMade
<1>2. ASSUME NEW b \in Bodies, NEW i \in 1 .. Len(prog[b]), NEW k \in DOMAIN prog[b][i].tasks, Passed(b, i, k)
      PROVE  Passed(b, i, k)'
  <2>1. i \in Nat /\ k \in Nat
    BY Indices
  <2>2. Begun(b)' /\ OldFrames(b)
    BY <1>2 DEF Passed
  <2> QED BY <1>2, <2>1, <2>2, CallsStayMade
<1> QED BY <1>1, <1>2

LEMMA SameBodiesFacts ==
  ASSUME TypeOK, TypeOK', SameBodies
  PROVE  /\ \A th \in Threads : Len(stack'[th]) = Len(stack[th])
         /\ \A th \in Threads : \A i \in 1 .. Len(stack[th]) : stack'[th][i].body = stack[th][i].body
         /\ \A b \in Bodies : OldFrames(b)
         /\ StackDistinct => StackDistinct'
<1>1. /\ \A th \in Threads : Len(stack'[th]) = Len(stack[th])
      /\ \A th \in Threads : \A i \in 1 .. Len(stack[th]) : stack'[th][i].body = stack[th][i].body
  BY DEF SameBodies, Later
<1>2. \A b \in Bodies : OldFrames(b)
  BY DEF SameBodies, OldFrames
<1>3. StackDistinct => StackDistinct'
  BY <1>1 DEF StackDistinct
<1> QED BY <1>1, <1>2, <1>3

-----------------------------------------------------------------------------
\* The contract on handles: one call spawns a task, one releases it.
LEMMA OneUse ==
  ASSUME TypeOK, NEW b \in Bodies, NEW c \in Bodies,
         NEW i \in 1 .. Len(prog[b]), NEW j \in 1 .. Len(prog[c]),
         NEW k \in DOMAIN prog[b][i].tasks, NEW l \in DOMAIN prog[c][j].tasks,
         SameUse(prog[b][i].op, prog[c][j].op), prog[b][i].tasks[k] = prog[c][j].tasks[l]
  PROVE  b = c /\ i = j /\ k = l
<1>1. prog \in Programs /\ prog[b] \in Seq(Calls) /\ prog[c] \in Seq(Calls)
  BY ProgType DEF TypeOK
<1>2. i \in DOMAIN prog[b] /\ j \in DOMAIN prog[c]
  BY <1>1
<1> QED BY <1>1, <1>2, HandleAssumption

\* The body that is on top of a stack and not over.
LEMMA Runner ==
  ASSUME TypeOK, PlacesOK, NEW th \in Threads, stack[th] # << >>, ~Returned(Top(th))
  PROVE  /\ 1 \in 1 .. Len(stack[th]) /\ Top(th) = stack[th][1] /\ Top(th) \in Frames
         /\ Top(th).body \in Bodies
         /\ Top(th).pc \in 1 .. Len(prog[Top(th).body])
         /\ Call(Top(th)) = prog[Top(th).body][Top(th).pc]
         /\ Begun(Top(th).body)
<1>1. Len(stack[th]) \in Nat \ {0} /\ Top(th) = stack[th][1] /\ Top(th) \in Frames
  BY TopFacts
<1>2. 1 \in 1 .. Len(stack[th])
  BY <1>1
<1>3. Top(th).body \in Bodies /\ Top(th).pc \in Nat \ {0}
  BY <1>1 DEF Frames
<1>4. prog[Top(th).body] \in Seq(Calls)
  BY <1>3, ProgType DEF TypeOK
<1>5. Top(th).pc \in 1 .. Len(prog[Top(th).body])
  BY <1>3, <1>4 DEF Returned
<1>6. Begun(Top(th).body)
  BY <1>1, <1>2 DEF PlacesOK, Live, Apart, Begun
<1> QED BY <1>1, <1>2, <1>3, <1>5, <1>6 DEF Call

LEMMA CallingKeeps ==
  ASSUME TypeOK, TypeOK', prog' = prog, PlacesOK, NEW th \in Threads, Calling(th)
  PROVE  PlacesOK'
<1>1. /\ UNCHANGED <<queue, spawned, done>> /\ SameBodies
      /\ UNCHANGED <<freed, detached>> \/ Releases(th)
  BY DEF Calling
<1>2. /\ \A u \in Threads : Len(stack'[u]) = Len(stack[u])
      /\ \A u \in Threads : \A i \in 1 .. Len(stack[u]) : stack'[u][i].body = stack[u][i].body
      /\ \A b \in Bodies : OldFrames(b)
      /\ StackDistinct => StackDistinct'
  BY <1>1, SameBodiesFacts
<1>3. QueueDistinct' /\ StackDistinct'
  BY <1>1, <1>2 DEF PlacesOK, QueueDistinct
<1>4. Apart' /\ Live'
  BY <1>1, <1>2 DEF PlacesOK, Apart, Live
<1>5. \A b \in Bodies : Begun(b) => Begun(b)'
  BY <1>1 DEF Begun
<1>6. \A b \in Bodies : \A i \in 1 .. Len(prog[b]) : Made(b, i) => Made(b, i)'
  BY <1>2, <1>5, CallsStay
<1>7. SpawnedIsMade'
  BY <1>1, <1>6 DEF PlacesOK, SpawnedIsMade
<1>8. FreedDone'
  BY <1>1 DEF PlacesOK, FreedDone, Releases
<1>9. \A b \in Bodies : \A i \in 1 .. Len(prog[b]) : \A k \in DOMAIN prog[b][i].tasks :
        Passed(b, i, k) => Passed(b, i, k)'
  BY <1>2, <1>5, CallsStay
<1>10. ReleasedIsPast'
  <2>1. CASE UNCHANGED <<freed, detached>>
    BY <1>9, <2>1 DEF PlacesOK, ReleasedIsPast
  <2>2. CASE Releases(th)
    <3> DEFINE f == Top(th)
    <3>1. /\ stack[th] # << >> /\ ~Returned(f) /\ Call(f).op \in {"await", "detach"}
          /\ \E l \in DOMAIN Call(f).tasks :
               /\ freed' \cup detached' = freed \cup detached \cup {Call(f).tasks[l]}
               /\ \/ stack'[th][1].pc > f.pc
                  \/ stack'[th][1].pc = f.pc /\ stack'[th][1].k > l
      BY <2>2 DEF Releases
    <3>2. /\ 1 \in 1 .. Len(stack[th]) /\ f = stack[th][1] /\ f.body \in Bodies
          /\ f.pc \in 1 .. Len(prog[f.body]) /\ Call(f) = prog[f.body][f.pc] /\ Begun(f.body)
      BY <3>1, Runner
    <3>3. PICK c \in Bodies : c = f.body
      BY <3>2
    <3>4. PICK j \in 1 .. Len(prog[c]) : j = f.pc
      BY <3>2, <3>3
    <3>5. Call(f) = prog[c][j] /\ Begun(c) /\ stack[th][1].body = c /\ 1 \in 1 .. Len(stack[th])
      BY <3>2, <3>3, <3>4
    <3>6. PICK l \in DOMAIN prog[c][j].tasks :
               /\ freed' \cup detached' = freed \cup detached \cup {prog[c][j].tasks[l]}
               /\ stack'[th][1].pc > j \/ (stack'[th][1].pc = j /\ stack'[th][1].k > l)
      BY <3>1, <3>4, <3>5
    <3>7. prog[c][j].op \in {"await", "detach"}
      BY <3>1, <3>5
    <3>8. Passed(c, j, l)'
      <4>1. \A u \in Threads : \A m \in 1 .. Len(stack'[u]) :
              stack'[u][m].body = c => u = th /\ m = 1
        BY <1>2, <3>5 DEF PlacesOK, StackDistinct
      <4> QED BY <1>5, <3>5, <3>6, <4>1 DEF Passed
    <3> HIDE DEF f
    <3>9. ASSUME NEW b \in Bodies, NEW i \in 1 .. Len(prog[b]), NEW k \in DOMAIN prog[b][i].tasks,
                 prog[b][i].op \in {"await", "detach"}, prog[b][i].tasks[k] \in freed' \cup detached'
          PROVE  Passed(b, i, k)'
      <4>1. CASE prog[b][i].tasks[k] \in freed \cup detached
        BY <1>9, <3>9, <4>1 DEF PlacesOK, ReleasedIsPast
      <4>2. CASE prog[b][i].tasks[k] = prog[c][j].tasks[l]
        <5>1. SameUse(prog[b][i].op, prog[c][j].op)
          BY <3>7, <3>9 DEF SameUse
        <5>2. b = c /\ i = j /\ k = l
          BY <4>2, <5>1, OneUse
        <5> QED BY <3>8, <5>2
      <4> QED BY <3>6, <3>9, <4>1, <4>2
    <3> QED BY <3>9 DEF ReleasedIsPast
  <2> QED BY <1>1, <2>1, <2>2
<1> QED BY <1>3, <1>4, <1>7, <1>8, <1>10 DEF PlacesOK

LEMMA ClearingKeeps ==
  ASSUME TypeOK, TypeOK', prog' = prog, PlacesOK, NEW th \in Threads, Clearing(th)
  PROVE  PlacesOK'
<1>1. /\ queue' = EmptyQueues /\ SameBodies
      /\ UNCHANGED <<spawned, done, freed, detached>>
  BY DEF Clearing
<1>2. /\ \A u \in Threads : Len(stack'[u]) = Len(stack[u])
      /\ \A u \in Threads : \A i \in 1 .. Len(stack[u]) : stack'[u][i].body = stack[u][i].body
      /\ \A b \in Bodies : OldFrames(b)
      /\ StackDistinct => StackDistinct'
  BY <1>1, SameBodiesFacts
<1>3. \A w \in Workers : \A i \in 1 .. Len(queue'[w]) : FALSE
  BY <1>1 DEF EmptyQueues
<1>4. QueueDistinct' /\ StackDistinct' /\ Apart'
  BY <1>2, <1>3 DEF PlacesOK, QueueDistinct, Apart
<1>5. Live'
  BY <1>1, <1>2, <1>3 DEF PlacesOK, Live
<1>6. \A b \in Bodies : Begun(b) => Begun(b)'
  BY <1>1, <1>3 DEF Begun
<1>7. SpawnedIsMade'
  <2>1. \A b \in Bodies : \A i \in 1 .. Len(prog[b]) : Made(b, i) => Made(b, i)'
    BY <1>2, <1>6, CallsStay
  <2> QED BY <1>1, <2>1 DEF PlacesOK, SpawnedIsMade
<1>8. ReleasedIsPast'
  <2>1. \A b \in Bodies : \A i \in 1 .. Len(prog[b]) : \A k \in DOMAIN prog[b][i].tasks :
          Passed(b, i, k) => Passed(b, i, k)'
    BY <1>2, <1>6, CallsStay
  <2> QED BY <1>1, <2>1 DEF PlacesOK, ReleasedIsPast
<1>9. FreedDone'
  BY <1>1 DEF PlacesOK, FreedDone
<1> QED BY <1>4, <1>5, <1>7, <1>8, <1>9 DEF PlacesOK

LEMMA StartingKeeps ==
  ASSUME TypeOK, TypeOK', prog' = prog, PlacesOK, NEW th \in Threads, NEW w \in Workers,
         NEW p \in Nat, Starting(th, w, p)
  PROVE  PlacesOK'
<1> DEFINE t == queue[w][p]
<1>1. /\ Without(queue[w], queue'[w], p) /\ \A v \in Workers \ {w} : queue'[v] = queue[v]
      /\ Len(stack'[th]) = Len(stack[th]) + 1 /\ stack'[th][1] = Frame(t)
      /\ \A i \in 1 .. Len(stack[th]) : Later(stack'[th][i + 1], stack[th][i])
      /\ \A u \in Threads \ {th} : stack'[u] = stack[u]
      /\ UNCHANGED <<spawned, done, freed, detached>>
  BY StartingLater DEF Starting
<1>2. PlaceTyped /\ PlaceTyped'
  BY PlaceTypes, PlaceTypesNext
<1>3. /\ p \in 1 .. Len(queue[w])
      /\ \A i \in 1 .. Len(queue'[w]) :
           Skip(p, i) \in 1 .. Len(queue[w]) /\ Skip(p, i) # p /\ queue'[w][i] = queue[w][Skip(p, i)]
      /\ \A i, j \in 1 .. Len(queue'[w]) : Skip(p, i) = Skip(p, j) => i = j
  BY <1>1, <1>2, WithoutFacts DEF PlaceTyped
\* Where an entry of a queue, and a frame of a stack, were before.
<1> DEFINE from(v, i)  == IF v = w THEN Skip(p, i) ELSE i
<1>4. \A v \in Workers : \A i \in 1 .. Len(queue'[v]) :
        /\ from(v, i) \in 1 .. Len(queue[v]) /\ queue'[v][i] = queue[v][from(v, i)]
        /\ ~(v = w /\ from(v, i) = p)
        /\ \A j \in 1 .. Len(queue'[v]) : from(v, i) = from(v, j) => i = j
  BY <1>1, <1>3
<1> HIDE DEF from
<1>5. ASSUME NEW u \in Threads, NEW i \in 1 .. Len(stack'[u])
      PROVE  \/ u = th /\ i = 1 /\ stack'[u][i].body = t
             \/ \E j \in 1 .. Len(stack[u]) : /\ i = IF u = th THEN j + 1 ELSE j
                                              /\ Later(stack'[u][i], stack[u][j])
  <2>1. CASE u # th
    BY <1>1, <2>1, LaterReflexive
  <2>2. CASE u = th /\ i = 1
    BY <1>1, <2>2 DEF Frame
  <2>3. CASE u = th /\ i # 1
    <3>1. i - 1 \in 1 .. Len(stack[th]) /\ i = (i - 1) + 1
      BY <1>1, <1>2, <2>3 DEF PlaceTyped
    <3> QED BY <1>1, <2>3, <3>1
  <2> QED BY <2>1, <2>2, <2>3
<1>6. t \in spawned \ done /\ t \in Tasks
  BY <1>2, <1>3 DEF PlacesOK, Live, PlaceTyped
<1>7. \A u \in Threads : \A j \in 1 .. Len(stack[u]) : stack[u][j].body # t
  BY <1>3 DEF PlacesOK, Apart
<1>8. QueueDistinct'
  <2>1. ASSUME NEW v \in Workers, NEW u \in Workers,
               NEW i \in 1 .. Len(queue'[v]), NEW j \in 1 .. Len(queue'[u]),
               queue'[v][i] = queue'[u][j]
        PROVE  v = u /\ i = j
    <3>1. queue[v][from(v, i)] = queue[u][from(u, j)]
      BY <1>4, <2>1
    <3>2. v = u /\ from(v, i) = from(u, j)
      BY <1>4, <3>1 DEF PlacesOK, QueueDistinct
    <3> QED BY <1>4, <3>2
  <2> QED BY <2>1 DEF QueueDistinct
<1>9. StackDistinct'
  <2>1. \A u \in Threads : \A i \in 1 .. Len(stack'[u]) :
          \/ u = th /\ i = 1 /\ stack'[u][i].body = t
          \/ \E j \in 1 .. Len(stack[u]) : /\ i = IF u = th THEN j + 1 ELSE j
                                           /\ stack'[u][i].body = stack[u][j].body
    BY <1>5 DEF Later
  <2>2. ASSUME NEW u \in Threads, NEW v \in Threads,
               NEW i \in 1 .. Len(stack'[u]), NEW j \in 1 .. Len(stack'[v]),
               stack'[u][i].body = stack'[v][j].body
        PROVE  u = v /\ i = j
    <3>1. CASE stack'[u][i].body = t
      <4>1. u = th /\ i = 1
        BY <1>7, <2>1, <3>1
      <4>2. stack'[v][j].body = t
        BY <2>2, <3>1
      <4>3. v = th /\ j = 1
        <5>1. ~ \E k \in 1 .. Len(stack[v]) : stack'[v][j].body = stack[v][k].body
          BY <1>7, <4>2
        <5> QED BY <2>1, <5>1
      <4> QED BY <4>1, <4>3
    <3>2. CASE stack'[u][i].body # t
      <4>1. PICK k \in 1 .. Len(stack[u]) : /\ i = IF u = th THEN k + 1 ELSE k
                                            /\ stack'[u][i].body = stack[u][k].body
        BY <2>1, <3>2
      <4>2. PICK l \in 1 .. Len(stack[v]) : /\ j = IF v = th THEN l + 1 ELSE l
                                            /\ stack'[v][j].body = stack[v][l].body
        BY <2>1, <2>2, <3>2
      <4>3. u = v /\ k = l
        BY <2>2, <4>1, <4>2 DEF PlacesOK, StackDistinct
      <4> QED BY <4>1, <4>2, <4>3
    <3> QED BY <3>1, <3>2
  <2> QED BY <2>2 DEF StackDistinct
<1> HIDE DEF t
<1>10. \A u \in Threads : \A i \in 1 .. Len(stack'[u]) :
         stack'[u][i].body # t => \E j \in 1 .. Len(stack[u]) : stack'[u][i].body = stack[u][j].body
  BY <1>5 DEF Later
<1>11. \A v \in Workers : \A i \in 1 .. Len(queue'[v]) :
         queue'[v][i] # t /\ \E j \in 1 .. Len(queue[v]) : queue'[v][i] = queue[v][j]
  BY <1>3, <1>4 DEF PlacesOK, QueueDistinct, t
<1>12. Apart'
  BY <1>10, <1>11 DEF PlacesOK, Apart
<1>13. Live'
  <2>1. \A v \in Workers : \A i \in 1 .. Len(queue'[v]) : queue'[v][i] \in spawned' \ done'
    <3>1. \A v \in Workers : \A i \in 1 .. Len(queue[v]) : queue[v][i] \in spawned' \ done'
      BY <1>1 DEF PlacesOK, Live
    <3> QED BY <1>11, <3>1
  <2>2. \A u \in Threads : \A i \in 1 .. Len(stack'[u]) :
          stack'[u][i].body \in (spawned' \ done') \cup Clients
    <3>1. \A u \in Threads : \A i \in 1 .. Len(stack[u]) :
            stack[u][i].body \in (spawned' \ done') \cup Clients
      BY <1>1 DEF PlacesOK, Live
    <3>2. t \in spawned' \ done'
      BY <1>1, <1>6
    <3> QED BY <1>10, <3>1, <3>2
  <2> QED BY <2>1, <2>2 DEF Live
<1>14. \A b \in Bodies : Begun(b) => Begun(b)' /\ OldFrames(b)
  <2>1. ASSUME NEW b \in Bodies, Begun(b)
        PROVE  Begun(b)' /\ OldFrames(b)
    <3>1. b # t
      BY <1>3, <2>1 DEF Begun, t
    <3>2. Begun(b)'
      <4>1. b \in spawned' \cup Clients
        BY <1>1, <2>1 DEF Begun
      <4>2. \A v \in Workers : \A i \in 1 .. Len(queue'[v]) : queue'[v][i] # b
        BY <1>11, <2>1 DEF Begun
      <4> QED BY <4>1, <4>2 DEF Begun
    <3> QED BY <1>5, <3>1, <3>2 DEF OldFrames
  <2> QED BY <2>1
<1>15. SpawnedIsMade'
  <2>1. \A b \in Bodies : \A i \in 1 .. Len(prog[b]) : Made(b, i) => Made(b, i)'
    BY <1>14, CallsStay
  <2> QED BY <1>1, <2>1 DEF PlacesOK, SpawnedIsMade
<1>16. ReleasedIsPast'
  <2>1. \A b \in Bodies : \A i \in 1 .. Len(prog[b]) : \A k \in DOMAIN prog[b][i].tasks :
          Passed(b, i, k) => Passed(b, i, k)'
    BY <1>14, CallsStay
  <2> QED BY <1>1, <2>1 DEF PlacesOK, ReleasedIsPast
<1>17. FreedDone'
  BY <1>1 DEF PlacesOK, FreedDone
<1> QED BY <1>8, <1>9, <1>12, <1>13, <1>15, <1>16, <1>17 DEF PlacesOK

LEMMA EndingKeeps ==
  ASSUME TypeOK, TypeOK', prog' = prog, PlacesOK, NEW th \in Threads, Ending(th)
  PROVE  PlacesOK'
<1> DEFINE b0 == stack[th][1].body
<1>1. /\ stack[th] # << >> /\ Len(stack'[th]) = Len(stack[th]) - 1
      /\ \A i \in 1 .. Len(stack'[th]) : stack'[th][i] = stack[th][i + 1]
      /\ \A u \in Threads \ {th} : stack'[u] = stack[u]
      /\ done' = done \cup ({Top(th).body} \cap Tasks)
      /\ freed' \cup detached' = freed \cup detached /\ freed' \subseteq freed \cup done'
      /\ UNCHANGED <<queue, spawned>>
  BY DEF Ending
<1>2. Len(stack[th]) \in Nat \ {0} /\ Top(th) = stack[th][1]
  BY <1>1, TopFacts
<1>3. PlaceTyped /\ PlaceTyped'
  BY PlaceTypes, PlaceTypesNext
<1>4. ASSUME NEW u \in Threads, NEW i \in 1 .. Len(stack'[u])
      PROVE  \E j \in 1 .. Len(stack[u]) : /\ j = IF u = th THEN i + 1 ELSE i
                                           /\ stack'[u][i] = stack[u][j]
  <2>1. CASE u # th
    BY <1>1, <2>1
  <2>2. CASE u = th
    <3>1. i + 1 \in 1 .. Len(stack[th])
      BY <1>1, <1>2, <2>2
    <3> QED BY <1>1, <2>2, <3>1
  <2> QED BY <2>1, <2>2
<1>5. done' = done \cup ({b0} \cap Tasks) /\ 1 \in 1 .. Len(stack[th])
  BY <1>1, <1>2
<1>6. \A u \in Threads : \A i \in 1 .. Len(stack'[u]) : stack'[u][i].body # b0
  <2>1. ASSUME NEW u \in Threads, NEW i \in 1 .. Len(stack'[u]), stack'[u][i].body = b0
        PROVE  FALSE
    <3>1. PICK j \in 1 .. Len(stack[u]) : /\ j = IF u = th THEN i + 1 ELSE i
                                          /\ stack'[u][i] = stack[u][j]
      BY <1>4
    <3>2. u = th /\ j = 1
      BY <1>5, <2>1, <3>1 DEF PlacesOK, StackDistinct
    <3> QED BY <3>1, <3>2
  <2> QED BY <2>1
<1>7. \A w \in Workers : \A i \in 1 .. Len(queue[w]) : queue[w][i] # b0
  BY <1>5 DEF PlacesOK, Apart
<1>8. b0 \in (spawned \ done) \cup Clients
  BY <1>5 DEF PlacesOK, Live
<1> HIDE DEF b0
<1>9. QueueDistinct'
  BY <1>1 DEF PlacesOK, QueueDistinct
<1>10. StackDistinct'
  <2>1. ASSUME NEW u \in Threads, NEW v \in Threads,
               NEW i \in 1 .. Len(stack'[u]), NEW j \in 1 .. Len(stack'[v]),
               stack'[u][i].body = stack'[v][j].body
        PROVE  u = v /\ i = j
    <3>1. PICK k \in 1 .. Len(stack[u]) : /\ k = IF u = th THEN i + 1 ELSE i
                                          /\ stack'[u][i] = stack[u][k]
      BY <1>4
    <3>2. PICK l \in 1 .. Len(stack[v]) : /\ l = IF v = th THEN j + 1 ELSE j
                                          /\ stack'[v][j] = stack[v][l]
      BY <1>4
    <3>3. u = v /\ k = l
      BY <2>1, <3>1, <3>2 DEF PlacesOK, StackDistinct
    <3> QED BY <3>1, <3>2, <3>3
  <2> QED BY <2>1 DEF StackDistinct
<1>11. \A u \in Threads : \A i \in 1 .. Len(stack'[u]) :
         \E j \in 1 .. Len(stack[u]) : stack'[u][i] = stack[u][j]
  BY <1>4
<1>12. Apart'
  <2>1. queue' = queue /\ Apart
    BY <1>1 DEF PlacesOK
  <2>2. ASSUME NEW w \in Workers, NEW u \in Threads,
               NEW i \in 1 .. Len(queue'[w]), NEW j \in 1 .. Len(stack'[u])
        PROVE  queue'[w][i] # stack'[u][j].body
    <3>1. PICK l \in 1 .. Len(stack[u]) : stack'[u][j] = stack[u][l]
      BY <1>11
    <3> QED BY <2>1, <3>1 DEF Apart
  <2> QED BY <2>2 DEF Apart
<1>13. Live'
  <2>1. \A w \in Workers : \A i \in 1 .. Len(queue'[w]) : queue'[w][i] \in spawned' \ done'
    BY <1>1, <1>5, <1>7 DEF PlacesOK, Live
  <2>2. \A u \in Threads : \A i \in 1 .. Len(stack'[u]) :
          stack'[u][i].body \in (spawned' \ done') \cup Clients
    <3>1. ASSUME NEW u \in Threads, NEW i \in 1 .. Len(stack'[u])
          PROVE  stack'[u][i].body \in (spawned \ done) \cup Clients /\ stack'[u][i].body # b0
      <4>1. PICK j \in 1 .. Len(stack[u]) : stack'[u][i] = stack[u][j]
        BY <1>11
      <4> QED BY <1>6, <4>1 DEF PlacesOK, Live
    <3>2. spawned' = spawned
      BY <1>1
    <3> QED BY <1>5, <3>1, <3>2
  <2> QED BY <2>1, <2>2 DEF Live
<1>14. \A b \in Bodies : OldFrames(b) /\ (Begun(b) => Begun(b)')
  BY <1>1, <1>11, LaterReflexive DEF OldFrames, Begun
<1>15. SpawnedIsMade'
  <2>1. \A b \in Bodies : \A i \in 1 .. Len(prog[b]) : Made(b, i) => Made(b, i)'
    BY <1>14, CallsStay
  <2> QED BY <1>1, <2>1 DEF PlacesOK, SpawnedIsMade
<1>16. ReleasedIsPast'
  <2>1. \A b \in Bodies : \A i \in 1 .. Len(prog[b]) : \A k \in DOMAIN prog[b][i].tasks :
          Passed(b, i, k) => Passed(b, i, k)'
    BY <1>14, CallsStay
  <2> QED BY <1>1, <2>1 DEF PlacesOK, ReleasedIsPast
<1>17. FreedDone'
  <2>1. b0 \in Tasks => b0 \in spawned
    BY <1>8, PoolAssumption
  <2> QED BY <1>1, <1>5, <2>1 DEF PlacesOK, FreedDone
<1> QED BY <1>9, <1>10, <1>12, <1>13, <1>15, <1>16, <1>17 DEF PlacesOK

\* A handle comes from one spawn only: the task it spawns is new.
LEMMA SpawnIsNew ==
  ASSUME TypeOK, PlacesOK, NEW th \in Threads, stack[th] # << >>, ~Returned(Top(th)),
         Call(Top(th)).op = "spawn"
  PROVE  Call(Top(th)).tasks[1] \notin spawned
<1>1. /\ 1 \in 1 .. Len(stack[th]) /\ Top(th) = stack[th][1] /\ Top(th).body \in Bodies
      /\ Top(th).pc \in 1 .. Len(prog[Top(th).body])
      /\ Call(Top(th)) = prog[Top(th).body][Top(th).pc]
  BY Runner
<1>2. PICK c \in Bodies : c = Top(th).body
  BY <1>1
<1>3. PICK n \in 1 .. Len(prog[c]) : n = Top(th).pc
  BY <1>1, <1>2
<1>4. n \in Nat /\ stack[th][1].body = c /\ stack[th][1].pc = n /\ Call(Top(th)) = prog[c][n]
  BY <1>1, <1>2, <1>3
<1>5. Call(Top(th)).tasks[1] \in spawned => Made(c, n)
  BY <1>4 DEF PlacesOK, SpawnedIsMade
<1>6. Made(c, n) => n > n
  BY <1>1, <1>4 DEF Made
<1> QED BY <1>4, <1>5, <1>6

LEMMA SpawningKeeps ==
  ASSUME TypeOK, TypeOK', prog' = prog, PlacesOK, NEW th \in Threads, NEW w \in Workers,
         NEW p \in Nat, Spawning(th, w, p)
  PROVE  PlacesOK'
<1>1. /\ stack[th] # << >> /\ ~Returned(Top(th)) /\ Call(Top(th)).op = "spawn"
      /\ \A v \in Workers \ {w} : queue'[v] = queue[v]
      /\ SameBodies /\ stack'[th][1].pc > Top(th).pc
      /\ UNCHANGED <<done, freed, detached>>
  BY DEF Spawning
<1>2. PICK t \in Tasks : /\ t = Call(Top(th)).tasks[1] /\ spawned' = spawned \cup {t}
                         /\ Without(queue'[w], queue[w], p) /\ queue'[w][p] = t
  BY DEF Spawning
<1>3. /\ 1 \in 1 .. Len(stack[th]) /\ Top(th) = stack[th][1] /\ Top(th).body \in Bodies
      /\ Top(th).pc \in 1 .. Len(prog[Top(th).body])
      /\ Call(Top(th)) = prog[Top(th).body][Top(th).pc] /\ Begun(Top(th).body)
  BY <1>1, Runner
\* The spawning body c, at its call n.
<1>4. PICK c \in Bodies : c = Top(th).body
  BY <1>3
<1>5. PICK n \in 1 .. Len(prog[c]) : n = Top(th).pc
  BY <1>3, <1>4
<1>6. /\ stack[th][1].body = c /\ stack[th][1].pc = n /\ prog[c][n].op = "spawn"
      /\ prog[c][n].tasks[1] = t /\ stack'[th][1].pc > n /\ Begun(c)
  BY <1>1, <1>2, <1>3, <1>4, <1>5
<1>7. /\ \A u \in Threads : Len(stack'[u]) = Len(stack[u])
      /\ \A u \in Threads : \A i \in 1 .. Len(stack[u]) : stack'[u][i].body = stack[u][i].body
      /\ \A b \in Bodies : OldFrames(b)
      /\ StackDistinct => StackDistinct'
  BY <1>1, SameBodiesFacts
<1>8. PlaceTyped /\ PlaceTyped'
  BY PlaceTypes, PlaceTypesNext
\* The task is new: its handle is spawned by this call only.
<1>9. t \notin spawned
  BY <1>1, <1>2, SpawnIsNew
<1>10. t \notin done /\ t \notin Clients
  BY <1>9, PoolAssumption DEF PlacesOK, FreedDone
<1>11. \A b \in spawned \cup Clients : b # t
  BY <1>9, <1>10
<1>12. /\ p \in 1 .. Len(queue'[w])
       /\ \A i \in 1 .. Len(queue[w]) : queue[w][i] = queue'[w][Skip(p, i)]
       /\ \A j \in 1 .. Len(queue'[w]) : j # p => \E i \in 1 .. Len(queue[w]) : Skip(p, i) = j
  BY <1>2, <1>8, WithoutFacts DEF PlaceTyped
<1>13. ASSUME NEW v \in Workers, NEW i \in 1 .. Len(queue'[v])
       PROVE  \/ v = w /\ i = p /\ queue'[v][i] = t
              \/ \E j \in 1 .. Len(queue[v]) : /\ i = IF v = w THEN Skip(p, j) ELSE j
                                               /\ queue'[v][i] = queue[v][j]
  <2>1. CASE v # w
    BY <1>1, <2>1
  <2>2. CASE v = w /\ i = p
    BY <1>2, <2>2
  <2>3. CASE v = w /\ i # p
    BY <1>12, <2>3
  <2> QED BY <2>1, <2>2, <2>3
<1>14. \A v \in Workers : \A i \in 1 .. Len(queue[v]) : queue[v][i] # t
  BY <1>11 DEF PlacesOK, Live
<1>15. \A u \in Threads : \A i \in 1 .. Len(stack'[u]) : stack'[u][i].body # t
  <2>1. \A u \in Threads : \A i \in 1 .. Len(stack[u]) : stack[u][i].body # t
    BY <1>9, <1>10 DEF PlacesOK, Live
  <2> QED BY <1>7, <2>1
<1>16. QueueDistinct'
  <2>1. ASSUME NEW v \in Workers, NEW u \in Workers,
               NEW i \in 1 .. Len(queue'[v]), NEW j \in 1 .. Len(queue'[u]),
               queue'[v][i] = queue'[u][j]
        PROVE  v = u /\ i = j
    <3>1. CASE queue'[v][i] = t
      <4>1. v = w /\ i = p
        BY <1>13, <1>14, <3>1
      <4>2. u = w /\ j = p
        <5>1. queue'[u][j] = t
          BY <2>1, <3>1
        <5> QED BY <1>13, <1>14, <5>1
      <4> QED BY <4>1, <4>2
    <3>2. CASE queue'[v][i] # t
      <4>1. PICK k \in 1 .. Len(queue[v]) : /\ i = IF v = w THEN Skip(p, k) ELSE k
                                            /\ queue'[v][i] = queue[v][k]
        BY <1>13, <3>2
      <4>2. PICK l \in 1 .. Len(queue[u]) : /\ j = IF u = w THEN Skip(p, l) ELSE l
                                            /\ queue'[u][j] = queue[u][l]
        BY <1>13, <2>1, <3>2
      <4>3. v = u /\ k = l
        BY <2>1, <4>1, <4>2 DEF PlacesOK, QueueDistinct
      <4> QED BY <4>1, <4>2, <4>3
    <3> QED BY <3>1, <3>2
  <2> QED BY <2>1 DEF QueueDistinct
<1>17. \A v \in Workers : \A i \in 1 .. Len(queue'[v]) :
         queue'[v][i] # t => \E j \in 1 .. Len(queue[v]) : queue'[v][i] = queue[v][j]
  BY <1>13
<1>18. Apart'
  <2>1. ASSUME NEW v \in Workers, NEW u \in Threads,
               NEW i \in 1 .. Len(queue'[v]), NEW j \in 1 .. Len(stack'[u])
        PROVE  queue'[v][i] # stack'[u][j].body
    <3>1. CASE queue'[v][i] = t
      BY <1>15, <3>1
    <3>2. CASE queue'[v][i] # t
      <4>1. PICK k \in 1 .. Len(queue[v]) : queue'[v][i] = queue[v][k]
        BY <1>17, <3>2
      <4>2. stack'[u][j].body = stack[u][j].body /\ j \in 1 .. Len(stack[u])
        BY <1>7
      <4> QED BY <4>1, <4>2 DEF PlacesOK, Apart
    <3> QED BY <3>1, <3>2
  <2> QED BY <2>1 DEF Apart
<1>19. Live'
  <2>1. spawned \ done \subseteq spawned' \ done' /\ t \in spawned' \ done'
    BY <1>1, <1>2, <1>10
  <2>2. \A v \in Workers : \A i \in 1 .. Len(queue'[v]) : queue'[v][i] \in spawned' \ done'
    <3>1. \A v \in Workers : \A i \in 1 .. Len(queue[v]) : queue[v][i] \in spawned' \ done'
      BY <2>1 DEF PlacesOK, Live
    <3>2. t \in spawned' \ done'
      BY <2>1
    <3> DEFINE L == spawned' \ done'
    <3> HIDE DEF L
    <3>3. /\ t \in L /\ \A v \in Workers : \A i \in 1 .. Len(queue[v]) : queue[v][i] \in L
      BY <3>1, <3>2 DEF L
    <3>4. \A v \in Workers : \A i \in 1 .. Len(queue'[v]) : queue'[v][i] \in L
      BY <1>17, <3>3
    <3> QED BY <3>4 DEF L
  <2>3. \A u \in Threads : \A i \in 1 .. Len(stack'[u]) :
          stack'[u][i].body \in (spawned' \ done') \cup Clients
    <3>1. \A u \in Threads : \A i \in 1 .. Len(stack[u]) :
            stack[u][i].body \in (spawned' \ done') \cup Clients
      BY <2>1 DEF PlacesOK, Live
    <3> QED BY <1>7, <3>1
  <2> QED BY <2>2, <2>3 DEF Live
<1>20. \A b \in Bodies : Begun(b) => Begun(b)'
  <2>1. ASSUME NEW b \in Bodies, Begun(b)
        PROVE  Begun(b)'
    <3>1. b # t /\ b \in spawned' \cup Clients
      BY <1>2, <1>11, <2>1 DEF Begun
    <3>2. \A v \in Workers : \A i \in 1 .. Len(queue[v]) : queue[v][i] # b
      BY <2>1 DEF Begun
    <3>3. \A v \in Workers : \A i \in 1 .. Len(queue'[v]) : queue'[v][i] # b
      BY <1>17, <3>1, <3>2
    <3> QED BY <3>1, <3>3 DEF Begun
  <2> QED BY <2>1
<1>21. SpawnedIsMade'
  <2>1. \A b \in Bodies : \A i \in 1 .. Len(prog[b]) : Made(b, i) => Made(b, i)'
    BY <1>7, <1>20, CallsStay
  <2>2. ASSUME NEW b \in Bodies, NEW i \in 1 .. Len(prog[b]),
               prog[b][i].op = "spawn", prog[b][i].tasks[1] \in spawned'
        PROVE  Made(b, i)'
    <3>1. CASE prog[b][i].tasks[1] \in spawned
      BY <2>1, <2>2, <3>1 DEF PlacesOK, SpawnedIsMade
    <3>2. CASE prog[b][i].tasks[1] = t
      <4>1. 1 \in DOMAIN prog[b][i].tasks /\ 1 \in DOMAIN prog[c][n].tasks
        <5>1. prog \in Programs /\ \A d \in Bodies : prog[d] \in Seq(Calls)
          BY ProgType DEF TypeOK
        <5>2. /\ Len(prog[b][i].tasks) = 1 /\ prog[b][i] \in Calls
              /\ Len(prog[c][n].tasks) = 1 /\ prog[c][n] \in Calls
          BY <1>6, <2>2, <5>1, ProgramType
        <5> QED BY <5>2 DEF Calls
      <4>2. SameUse(prog[b][i].op, prog[c][n].op)
        BY <1>6, <2>2 DEF SameUse
      <4>3. b = c /\ i = n
        <5>1. prog[b][i].tasks[1] = prog[c][n].tasks[1] /\ c \in Bodies /\ n \in 1 .. Len(prog[c])
          BY <1>6, <3>2
        <5> QED BY <4>1, <4>2, <5>1, OneUse
      <4>4. \A u \in Threads : \A m \in 1 .. Len(stack'[u]) :
              stack'[u][m].body = c => u = th /\ m = 1
        BY <1>3, <1>6, <1>7 DEF PlacesOK, StackDistinct
      <4>5. Made(c, n)'
        BY <1>6, <1>20, <4>4 DEF Made
      <4> QED BY <4>3, <4>5
    <3> QED BY <1>2, <2>2, <3>1, <3>2
  <2> QED BY <2>2 DEF SpawnedIsMade
<1>22. ReleasedIsPast'
  <2>1. \A b \in Bodies : \A i \in 1 .. Len(prog[b]) : \A k \in DOMAIN prog[b][i].tasks :
          Passed(b, i, k) => Passed(b, i, k)'
    BY <1>7, <1>20, CallsStay
  <2> QED BY <1>1, <2>1 DEF PlacesOK, ReleasedIsPast
<1>23. FreedDone'
  BY <1>1, <1>2 DEF PlacesOK, FreedDone
<1> QED BY <1>7, <1>16, <1>18, <1>19, <1>21, <1>22, <1>23 DEF PlacesOK

-----------------------------------------------------------------------------
LEMMA PlacesInit ==
  ASSUME Init
  PROVE  PlacesOK
<1>1. /\ \A w \in Workers : queue[w] = << >>
      /\ \A th \in Threads :
           stack[th] = IF th \in Clients /\ prog[th] # << >> THEN <<Frame(th)>> ELSE << >>
      /\ spawned = {} /\ done = {} /\ detached = {} /\ freed = {}
  BY DEF Init, EmptyQueues
<1>2. \A w \in Workers : \A i \in 1 .. Len(queue[w]) : FALSE
  BY <1>1
<1>3. ASSUME NEW th \in Threads, NEW i \in 1 .. Len(stack[th])
      PROVE  th \in Clients /\ i = 1 /\ stack[th][i].body = th
  <2>1. th \in Clients /\ stack[th] = <<Frame(th)>>
    <3>1. th \notin Clients => stack[th] = << >>
      BY <1>1
    <3>2. stack[th] # << >>
      OBVIOUS
    <3> QED BY <1>1, <3>1, <3>2
  <2>2. i = 1 /\ stack[th][i] = Frame(th)
    BY <2>1
  <2> QED BY <2>1, <2>2 DEF Frame
<1>4. QueueDistinct /\ StackDistinct /\ Apart
  BY <1>2, <1>3 DEF QueueDistinct, StackDistinct, Apart
<1>5. Live
  BY <1>2, <1>3 DEF Live
<1>6. SpawnedIsMade /\ ReleasedIsPast /\ FreedDone
  BY <1>1 DEF SpawnedIsMade, ReleasedIsPast, FreedDone
<1> QED BY <1>4, <1>5, <1>6 DEF PlacesOK

LEMMA PlacesKept ==
  ASSUME TypeOK, TypeOK', PlacesOK, NEW th \in Threads, StepOf(th), prog' = prog
  PROVE  PlacesOK'
BY CallingKeeps, ClearingKeeps, StartingKeeps, EndingKeeps, SpawningKeeps DEF StepOf, Begins

LEMMA PlacesStutter ==
  ASSUME PlacesOK, UNCHANGED vars
  PROVE  PlacesOK'
BY DEF PlacesOK, QueueDistinct, StackDistinct, Apart, Live, SpawnedIsMade, ReleasedIsPast, FreedDone,
       Made, Passed, Begun, vars, taskVars

(***************************************************************************)
(* Wherever tasks are queued, stolen, helped and nested, no task is in two *)
(* queues, on two stacks, or in a queue while it runs; those that are      *)
(* somewhere have been spawned and are not done; and a call that spawns a  *)
(* handle or releases it is behind every frame of its body.                *)
(***************************************************************************)
THEOREM TasksInOnePlace == Spec => []PlacesOK
<1>1. Init => TypeOK /\ PlacesOK
  BY InitTyped, PlacesInit
<1>2. TypeOK /\ PlacesOK /\ [Next]_vars => (TypeOK /\ PlacesOK)'
  <2> SUFFICES ASSUME TypeOK, PlacesOK, [Next]_vars
               PROVE  TypeOK' /\ PlacesOK'
    OBVIOUS
  <2>1. TypeOK'
    BY TypeNext
  <2>2. CASE UNCHANGED vars
    BY <2>1, <2>2, PlacesStutter
  <2>3. CASE \E th \in Threads : ThreadStep(th)
    BY <2>1, <2>3, ThreadStepTyped, PlacesKept
  <2> QED BY <2>1, <2>2, <2>3, NextSteps
<1> QED BY <1>1, <1>2, PTL DEF Spec

(***************************************************************************)
(* A handle is freed only when its task is done, and no body is still at a *)
(* call that awaits it: topo_task_await and the runner of a detached task  *)
(* free it once, whoever comes last.                                       *)
(***************************************************************************)
THEOREM HandlesOutliveUses == Spec => []FreedIsOver
<1>1. TypeOK /\ PlacesOK => FreedIsOver
  <2> SUFFICES ASSUME TypeOK, PlacesOK, NEW t \in freed
               PROVE  /\ t \in done
                      /\ \A th \in Threads : \A i \in 1 .. Len(stack[th]) :
                           LET f == stack[th][i] IN
                             /\ f.body # t
                             /\ ~Returned(f) /\ Call(f).op = "await" => t # Waited(f)
    BY DEF FreedIsOver
  <2>1. t \in done /\ t \in Tasks
    BY DEF PlacesOK, FreedDone, TypeOK
  <2>2. t \notin Clients
    BY <2>1, PoolAssumption
  <2>3. ASSUME NEW th \in Threads, NEW i \in 1 .. Len(stack[th])
        PROVE  stack[th][i].body # t
    BY <2>1, <2>2 DEF PlacesOK, Live
  <2>4. ASSUME NEW th \in Threads, NEW i \in 1 .. Len(stack[th]),
               ~Returned(stack[th][i]), Call(stack[th][i]).op = "await", t = Waited(stack[th][i])
        PROVE  FALSE
    <3> DEFINE f == stack[th][i]
    <3>1. f \in Frames /\ f.body \in Bodies /\ f.pc \in Nat \ {0} /\ f.k \in Nat
      BY PlaceTypes DEF PlaceTyped, Frames
    <3>2. prog[f.body] \in Seq(Calls) /\ FrameOK(prog[f.body], f)
      BY <3>1, ProgType DEF TypeOK, StackOK
    <3>3. f.pc \in 1 .. Len(prog[f.body])
      BY <2>4, <3>1, <3>2 DEF Returned
    <3>4. f.k \in DOMAIN prog[f.body][f.pc].tasks
      BY <2>4, <3>2, <3>3 DEF FrameOK, Call
    <3>5. prog[f.body][f.pc].op = "await" /\ prog[f.body][f.pc].tasks[f.k] = t
      BY <2>4 DEF Call, Waited
    <3>6. Passed(f.body, f.pc, f.k)
      BY <3>1, <3>3, <3>4, <3>5 DEF PlacesOK, ReleasedIsPast
    <3>7. f.pc > f.pc \/ (f.pc = f.pc /\ f.k > f.k)
      BY <3>6 DEF Passed
    <3> QED BY <3>1, <3>7
  <2> QED BY <2>1, <2>3, <2>4
<1> QED BY <1>1, TasksInOnePlace, PoolTypeCorrect, PTL

-----------------------------------------------------------------------------
\* The order in which the urgent tasks are in a queue.
Ahead(q) == \A i, j \in 1 .. Len(q) : i < j /\ Priority[q[j]] < 2 => Priority[q[i]] < 2

LEMMA AheadWithout ==
  ASSUME NEW q \in Seq(Tasks), NEW r \in Seq(Tasks), NEW p, Without(q, r, p), Ahead(q)
  PROVE  Ahead(r)
<1>1. /\ \A i \in 1 .. Len(r) : Skip(p, i) \in 1 .. Len(q) /\ r[i] = q[Skip(p, i)]
      /\ \A i, j \in 1 .. Len(r) : i < j <=> Skip(p, i) < Skip(p, j)
  BY WithoutFacts
<1> QED BY <1>1 DEF Ahead

LEMMA AheadWith ==
  ASSUME NEW q \in Seq(Tasks), NEW r \in Seq(Tasks), NEW p, Without(q, r, p), Ahead(r),
         p = IF Priority[q[p]] < 2 THEN 1 ELSE Len(q)
  PROVE  Ahead(q)
<1>1. /\ p \in 1 .. Len(q) /\ Len(q) \in Nat
      /\ \A i \in 1 .. Len(r) : r[i] = q[Skip(p, i)]
      /\ \A i, j \in 1 .. Len(r) : i < j <=> Skip(p, i) < Skip(p, j)
      /\ \A j \in 1 .. Len(q) : j # p => \E i \in 1 .. Len(r) : Skip(p, i) = j
  BY WithoutFacts
<1>2. ASSUME NEW i \in 1 .. Len(q), NEW j \in 1 .. Len(q), i < j, Priority[q[j]] < 2
      PROVE  Priority[q[i]] < 2
  <2>1. CASE i = p
    <3>1. p # Len(q)
      BY <1>1, <1>2, <2>1
    <3> QED BY <2>1, <3>1
  <2>2. CASE j = p
    <3>1. p # 1
      BY <1>1, <1>2, <2>2
    <3>2. ~(Priority[q[p]] < 2)
      BY <3>1
    <3> QED BY <1>2, <2>2, <3>2
  <2>3. CASE i # p /\ j # p
    <3>1. PICK k \in 1 .. Len(r) : Skip(p, k) = i
      BY <1>1, <2>3
    <3>2. PICK l \in 1 .. Len(r) : Skip(p, l) = j
      BY <1>1, <2>3
    <3>3. k < l /\ r[k] = q[i] /\ r[l] = q[j]
      BY <1>1, <1>2, <3>1, <3>2
    <3> QED BY <1>2, <3>3 DEF Ahead
  <2> QED BY <2>1, <2>2, <2>3
<1> QED BY <1>2 DEF Ahead

(***************************************************************************)
(* ThreadPool::submit puts a Critical or High task in front of its queue   *)
(* and any other behind it; taking from either end and clearing keep the   *)
(* urgent ones ahead, in every queue, however many workers steal.          *)
(***************************************************************************)
THEOREM UrgentStayAhead == Spec => []UrgentAhead
<1>1. Init => UrgentAhead
  <2>1. Init => \A w \in Workers : \A i \in 1 .. Len(queue[w]) : FALSE
    BY DEF Init, EmptyQueues
  <2> QED BY <2>1 DEF UrgentAhead
<1>2. TypeOK /\ UrgentAhead /\ [Next]_vars => UrgentAhead'
  <2> SUFFICES ASSUME TypeOK, UrgentAhead, [Next]_vars, NEW v \in Workers
               PROVE  Ahead(queue'[v])
    BY DEF UrgentAhead, Ahead
  <2>1. TypeOK'
    BY TypeNext
  <2>2. Ahead(queue[v])
    BY DEF UrgentAhead, Ahead
  <2>3. CASE queue'[v] = queue[v]
    BY <2>2, <2>3
  <2>4. queue[v] \in Seq(Tasks) /\ queue'[v] \in Seq(Tasks)
    BY <2>1, PlaceTypes, PlaceTypesNext DEF PlaceTyped
  <2>5. CASE \E th \in Threads : StepOf(th)
    <3>1. PICK th \in Threads : StepOf(th)
      BY <2>5
    <3>2. CASE Calling(th) \/ Ending(th)
      BY <2>3, <3>2 DEF Calling, Ending
    <3>3. CASE Clearing(th)
      <4>1. \A i \in 1 .. Len(queue'[v]) : FALSE
        BY <3>3 DEF Clearing, EmptyQueues
      <4> QED BY <4>1 DEF Ahead
    <3>4. ASSUME NEW w \in Workers, NEW p \in Nat, Starting(th, w, p)
          PROVE  Ahead(queue'[v])
      <4>1. v # w => queue'[v] = queue[v]
        BY <3>4 DEF Starting
      <4>2. v = w => Without(queue[v], queue'[v], p)
        BY <3>4 DEF Starting
      <4> QED BY <2>2, <2>3, <2>4, <4>1, <4>2, AheadWithout
    <3>5. ASSUME NEW w \in Workers, NEW p \in Nat, Spawning(th, w, p)
          PROVE  Ahead(queue'[v])
      <4>1. v # w => queue'[v] = queue[v]
        BY <3>5 DEF Spawning
      <4>2. v = w => /\ Without(queue'[v], queue[v], p)
                     /\ p = IF Priority[queue'[v][p]] < 2 THEN 1 ELSE Len(queue'[v])
        BY <3>5 DEF Spawning
      <4> QED BY <2>2, <2>3, <2>4, <4>1, <4>2, AheadWith
    <3> QED BY <3>1, <3>2, <3>3, <3>4, <3>5 DEF StepOf, Begins
  <2>6. CASE UNCHANGED vars
    BY <2>3, <2>6 DEF vars
  <2> QED BY <2>5, <2>6, NextSteps, ThreadStepTyped
<1> QED BY <1>1, <1>2, PoolTypeCorrect, PTL DEF Spec

-----------------------------------------------------------------------------
\* Where task t is in its life, as TaskService tells it.
Running(t) == \E th \in Threads : \E i \in 1 .. Len(stack[th]) : stack[th][i].body = t

PhaseOf(t) == IF t \notin spawned THEN "unborn"
              ELSE IF t \in done THEN "done" ELSE IF Running(t) THEN "running" ELSE "pending"

Phases == [t \in Tasks |-> PhaseOf(t)]

PhasesAre == phase = Phases

LEMMA PhaseIs == TypeOK => PhasesAre
<1> SUFFICES ASSUME TypeOK, NEW t \in Tasks PROVE RunningAt(t) # {} <=> Running(t)
  BY DEF PhasesAre, PhasesAre, phase, Phases, PhaseOf
<1>1. \A th \in Threads : DOMAIN stack[th] = 1 .. Len(stack[th])
  BY DEF TypeOK, StackOK
<1>2. ASSUME NEW x \in RunningAt(t) PROVE Running(t)
  <2>1. PICK th \in Threads : x \in {<<th, i>> : i \in {j \in DOMAIN stack[th] : stack[th][j].body = t}}
    BY DEF RunningAt
  <2>2. \E i \in DOMAIN stack[th] : stack[th][i].body = t
    BY <2>1
  <2> QED BY <1>1, <2>2 DEF Running
<1>3. ASSUME Running(t) PROVE RunningAt(t) # {}
  <2>1. PICK th \in Threads : \E i \in 1 .. Len(stack[th]) : stack[th][i].body = t
    BY <1>3 DEF Running
  <2>2. PICK i \in DOMAIN stack[th] : stack[th][i].body = t
    BY <1>1, <2>1
  <2>3. <<th, i>> \in RunningAt(t)
    BY <2>2 DEF RunningAt
  <2> QED BY <2>3
<1> QED BY <1>2, <1>3

LEMMA PhaseIsNext == TypeOK' => PhasesAre'
BY PhaseIs, PTL

\* The phases of all tasks but t stay what they are; that of t, if it is one, moves.
LEMMA PhaseMoves ==
  ASSUME TypeOK, TypeOK', NEW t \in Tasks, \A u \in Tasks \ {t} : PhaseOf(u)' = PhaseOf(u)
  PROVE  phase' = [phase EXCEPT ![t] = PhaseOf(t)'] /\ phase[t] = PhaseOf(t)
<1>1. phase = [u \in Tasks |-> PhaseOf(u)] /\ phase' = [u \in Tasks |-> PhaseOf(u)']
  BY PhaseIs, PhaseIsNext DEF PhasesAre, Phases
<1> HIDE DEF phase
<1> QED BY <1>1

LEMMA PhaseStays ==
  ASSUME TypeOK, TypeOK', \A u \in Tasks : PhaseOf(u)' = PhaseOf(u)
  PROVE  phase' = phase
BY PhaseIs, PhaseIsNext DEF PhasesAre, Phases

LEMMA SameBodiesRun ==
  ASSUME TypeOK, TypeOK', SameBodies, NEW t \in Tasks
  PROVE  Running(t)' <=> Running(t)
<1>1. /\ \A th \in Threads : Len(stack'[th]) = Len(stack[th])
      /\ \A th \in Threads : \A i \in 1 .. Len(stack[th]) : stack'[th][i].body = stack[th][i].body
  BY SameBodiesFacts
<1> QED BY <1>1 DEF Running

LEMMA CallingRefines ==
  ASSUME TypeOK, TypeOK', PlacesOK, NEW th \in Threads,
         Calling(th) \/ Clearing(th)
  PROVE  Service!Next \/ UNCHANGED <<phase, freed>>
<1>1. UNCHANGED <<spawned, done>> /\ SameBodies
  BY DEF Calling, Clearing
<1>2. phase' = phase
  <2>1. \A u \in Tasks : Running(u)' <=> Running(u)
    BY <1>1, SameBodiesRun
  <2> QED BY <1>1, <2>1, PhaseStays DEF PhaseOf
<1>3. CASE freed' = freed
  BY <1>2, <1>3
<1>4. CASE freed' # freed
  <2>1. Releases(th)
    BY <1>4 DEF Calling, Clearing
  <2>2. PICK t : freed' = freed \cup {t} /\ freed' \subseteq freed \cup done
    BY <1>4, <2>1 DEF Releases
  <2>3. t \in done /\ t \notin freed /\ t \in Tasks /\ t \in spawned
    BY <1>4, <2>2 DEF TypeOK, PlacesOK, FreedDone
  <2>4. phase[t] = "done"
    BY <2>3, PhaseIs DEF PhasesAre, Phases, PhaseOf
  <2>5. Service!Free(t)
    BY <1>2, <2>2, <2>3, <2>4 DEF Service!Free
  <2> QED BY <2>3, <2>5 DEF Service!Next
<1> QED BY <1>3, <1>4

LEMMA StartingRefines ==
  ASSUME TypeOK, TypeOK', PlacesOK, NEW th \in Threads, Begins(th)
  PROVE  Service!Next
<1>1. PICK w \in Workers, p \in Nat : Starting(th, w, p)
  BY DEF Begins
<1>2. p \in 1 .. Len(queue[w]) /\ PlaceTyped /\ PlaceTyped'
  BY <1>1, PlaceTypes, PlaceTypesNext DEF Starting, Without
<1>3. PICK t \in Tasks : t = queue[w][p]
  BY <1>2 DEF PlaceTyped
<1>4. /\ Without(queue[w], queue'[w], p)
      /\ Len(stack'[th]) = Len(stack[th]) + 1 /\ stack'[th][1] = Frame(t)
      /\ \A i \in 1 .. Len(stack[th]) : Later(stack'[th][i + 1], stack[th][i])
      /\ \A u \in Threads \ {th} : stack'[u] = stack[u]
      /\ UNCHANGED <<spawned, done, freed>>
  BY <1>1, <1>3, StartingLater DEF Starting
<1>5. t \in spawned \ done
  BY <1>3, <1>2 DEF PlacesOK, Live
<1>6. ~Running(t)
  BY <1>3, <1>2 DEF PlacesOK, Apart, Running
<1>7. Running(t)'
  <2>1. 1 \in 1 .. Len(stack'[th]) /\ stack'[th][1].body = t
    BY <1>4, <1>2 DEF PlaceTyped, Frame
  <2> QED BY <2>1 DEF Running
<1>8. ASSUME NEW u \in Tasks \ {t} PROVE Running(u)' <=> Running(u)
  <2>1. ASSUME Running(u) PROVE Running(u)'
    <3>0. PICK v \in Threads : \E i \in 1 .. Len(stack[v]) : stack[v][i].body = u
      BY <2>1 DEF Running
    <3>1. PICK i \in 1 .. Len(stack[v]) : stack[v][i].body = u
      BY <3>0
    <3>2. \E j \in 1 .. Len(stack'[v]) : stack'[v][j].body = u
      <4>1. CASE v # th
        BY <1>4, <3>1, <4>1
      <4>2. CASE v = th
        <5>1. Len(stack[th]) \in Nat
          BY <1>2 DEF PlaceTyped
        <5>2. i \in 1 .. Len(stack[th]) /\ stack[th][i].body = u
          BY <3>1, <4>2
        <5>3. stack'[th][i + 1].body = u
          BY <1>4, <5>2 DEF Later
        <5>4. i + 1 \in 1 .. Len(stack'[th])
          BY <1>4, <5>1, <5>2
        <5> QED BY <4>2, <5>3, <5>4
      <4> QED BY <4>1, <4>2
    <3> QED BY <3>2 DEF Running
  <2>2. ASSUME Running(u)' PROVE Running(u)
    <3>0. PICK v \in Threads : \E i \in 1 .. Len(stack'[v]) : stack'[v][i].body = u
      BY <2>2 DEF Running
    <3>1. PICK i \in 1 .. Len(stack'[v]) : stack'[v][i].body = u
      BY <3>0
    <3>2. \E j \in 1 .. Len(stack[v]) : stack[v][j].body = u
      <4>1. CASE v # th
        BY <1>4, <3>1, <4>1
      <4>2. CASE v = th /\ i # 1
        <5> DEFINE j == i - 1
        <5>1. j \in 1 .. Len(stack[th]) /\ j + 1 = i
          BY <1>4, <1>2, <3>1, <4>2 DEF PlaceTyped
        <5> HIDE DEF j
        <5>2. stack[th][j].body = u
          BY <1>4, <3>1, <4>2, <5>1 DEF Later
        <5> QED BY <4>2, <5>1, <5>2
      <4>3. CASE v = th /\ i = 1
        BY <1>4, <3>1, <4>3 DEF Frame
      <4> QED BY <4>1, <4>2, <4>3
    <3> QED BY <3>2 DEF Running
  <2> QED BY <2>1, <2>2
<1>9. PhaseOf(t) = "pending" /\ PhaseOf(t)' = "running"
  BY <1>4, <1>5, <1>6, <1>7 DEF PhaseOf
<1>10. \A u \in Tasks \ {t} : PhaseOf(u)' = PhaseOf(u)
  BY <1>4, <1>8 DEF PhaseOf
<1>11. phase[t] = "pending" /\ phase' = [phase EXCEPT ![t] = "running"]
  BY <1>9, <1>10, PhaseMoves
<1>12. Service!Start(t)
  BY <1>4, <1>11 DEF Service!Start, Service!Moves
<1> QED BY <1>12 DEF Service!Next

LEMMA EndingRefines ==
  ASSUME TypeOK, TypeOK', PlacesOK, PlacesOK', NEW th \in Threads, Ending(th)
  PROVE  Service!Next \/ UNCHANGED <<phase, freed>>
<1>1. /\ Len(stack[th]) \in Nat \ {0} /\ Top(th) = stack[th][1] /\ Top(th).body \in Bodies
  BY TopFacts DEF Ending, Frames
<1>2. PICK b \in Bodies : b = Top(th).body
  BY <1>1
<1>3. /\ stack[th] # << >>
      /\ Len(stack'[th]) = Len(stack[th]) - 1
      /\ \A i \in 1 .. Len(stack'[th]) : stack'[th][i] = stack[th][i + 1]
      /\ \A u \in Threads \ {th} : stack'[u] = stack[u]
      /\ done' = done \cup ({b} \cap Tasks) /\ freed' \in {freed, freed \cup ({b} \cap Tasks)}
      /\ spawned' = spawned
  BY <1>2 DEF Ending
<1>4. 1 \in 1 .. Len(stack[th]) /\ stack[th][1].body = b
  BY <1>2, <1>1
<1>5. b \in (spawned \ done) \cup Clients
  BY <1>4 DEF PlacesOK, Live
<1>6. Running(b)
  BY <1>4 DEF Running
<1>7. ASSUME NEW u \in Tasks \ {b} PROVE Running(u)' <=> Running(u)
  <2>1. ASSUME Running(u) PROVE Running(u)'
    <3>0. PICK v \in Threads : \E i \in 1 .. Len(stack[v]) : stack[v][i].body = u
      BY <2>1 DEF Running
    <3>1. PICK i \in 1 .. Len(stack[v]) : stack[v][i].body = u
      BY <3>0
    <3>2. \E j \in 1 .. Len(stack'[v]) : stack'[v][j].body = u
      <4>1. CASE v # th
        BY <1>3, <3>1, <4>1
      <4>2. CASE v = th
        <5> DEFINE j == i - 1
        <5>1. i # 1
          BY <1>4, <3>1, <4>2
        <5>2. j \in 1 .. Len(stack'[th]) /\ j + 1 = i
          BY <1>3, <1>1, <3>1, <4>2, <5>1
        <5> HIDE DEF j
        <5>3. stack'[th][j].body = u
          BY <1>3, <3>1, <4>2, <5>2
        <5> QED BY <4>2, <5>2, <5>3
      <4> QED BY <4>1, <4>2
    <3> QED BY <3>2 DEF Running
  <2>2. ASSUME Running(u)' PROVE Running(u)
    <3>0. PICK v \in Threads : \E i \in 1 .. Len(stack'[v]) : stack'[v][i].body = u
      BY <2>2 DEF Running
    <3>1. PICK i \in 1 .. Len(stack'[v]) : stack'[v][i].body = u
      BY <3>0
    <3>2. \E j \in 1 .. Len(stack[v]) : stack[v][j].body = u
      <4>1. CASE v # th
        BY <1>3, <3>1, <4>1
      <4>2. CASE v = th
        <5>1. i + 1 \in 1 .. Len(stack[th]) /\ stack[th][i + 1].body = u
          BY <1>3, <1>1, <3>1, <4>2
        <5> QED BY <4>2, <5>1
      <4> QED BY <4>1, <4>2
    <3> QED BY <3>2 DEF Running
  <2> QED BY <2>1, <2>2
<1>8. \A u \in Tasks \ {b} : PhaseOf(u)' = PhaseOf(u)
  BY <1>3, <1>7 DEF PhaseOf
<1>9. CASE b \in Tasks
  <2>1. b \in spawned \ done
    BY <1>5, <1>9, PoolAssumption
  <2>2. PhaseOf(b) = "running" /\ PhaseOf(b)' = "done"
    BY <1>3, <1>6, <1>9, <2>1 DEF PhaseOf
  <2>3. phase[b] = "running" /\ phase' = [phase EXCEPT ![b] = "done"]
    BY <1>8, <1>9, <2>2, PhaseMoves
  <2>4. freed' \in {freed, freed \cup {b}}
    BY <1>3, <1>9
  <2>5. Service!Finish(b)
    BY <2>3, <2>4 DEF Service!Finish, Service!Moves
  <2> QED BY <1>9, <2>5 DEF Service!Next
<1>10. CASE b \notin Tasks
  <2>1. freed' = freed /\ \A u \in Tasks : u # b
    BY <1>3, <1>10
  <2> QED BY <1>8, <2>1, PhaseStays
<1> QED BY <1>9, <1>10

LEMMA SpawningRefines ==
  ASSUME TypeOK, TypeOK', PlacesOK, NEW th \in Threads, NEW w \in Workers, NEW p \in Nat,
         Spawning(th, w, p)
  PROVE  Service!Next
<1>1. /\ stack[th] # << >> /\ ~Returned(Top(th)) /\ Call(Top(th)).op = "spawn"
      /\ SameBodies /\ UNCHANGED <<done, freed>>
  BY DEF Spawning
<1>2. PICK t \in Tasks : t = Call(Top(th)).tasks[1] /\ spawned' = spawned \cup {t}
  BY DEF Spawning
<1>3. t \notin spawned
  BY <1>1, <1>2, SpawnIsNew
<1>4. t \notin done /\ t \notin Clients
  BY <1>3, PoolAssumption DEF PlacesOK, FreedDone
<1>5. ~Running(t)
  BY <1>3, <1>4 DEF PlacesOK, Live, Running
<1>6. \A u \in Tasks : Running(u)' <=> Running(u)
  BY <1>1, SameBodiesRun
<1>7. PhaseOf(t) = "unborn" /\ PhaseOf(t)' = "pending"
  BY <1>1, <1>2, <1>3, <1>4, <1>5, <1>6 DEF PhaseOf
<1>8. \A u \in Tasks \ {t} : PhaseOf(u)' = PhaseOf(u)
  BY <1>1, <1>2, <1>6 DEF PhaseOf
<1>9. phase[t] = "unborn" /\ phase' = [phase EXCEPT ![t] = "pending"]
  BY <1>7, <1>8, PhaseMoves
<1>10. Service!Spawn(t)
  BY <1>1, <1>9 DEF Service!Spawn, Service!Moves
<1> QED BY <1>10 DEF Service!Next

(***************************************************************************)
(* The pool implements TaskService: whichever thread runs a task, and      *)
(* whatever queue it waited in, it starts once after topo_task_spawn, ends *)
(* once, and its handle is freed at most once, not before the end.         *)
(***************************************************************************)
THEOREM PoolImplementsService == Spec => Service!Spec
<1>1. Init => Service!Init
  <2> SUFFICES ASSUME Init PROVE Service!Init
    OBVIOUS
  <2>1. TypeOK /\ spawned = {} /\ freed = {}
    BY InitTyped DEF Init
  <2>2. phase = [t \in Tasks |-> "unborn"]
    BY <2>1, PhaseIs DEF PhasesAre, Phases, PhaseOf
  <2> QED BY <2>1, <2>2 DEF Service!Init
<1>2. TypeOK /\ PlacesOK /\ PlacesOK' /\ [Next]_vars => [Service!Next]_(Service!vars)
  <2> SUFFICES ASSUME TypeOK, PlacesOK, PlacesOK', [Next]_vars
               PROVE  Service!Next \/ UNCHANGED <<phase, freed>>
    BY DEF Service!vars
  <2>1. TypeOK'
    BY TypeNext
  <2>2. CASE UNCHANGED vars
    <3>1. UNCHANGED <<spawned, done, stack, freed>>
      BY <2>2 DEF vars, taskVars
    <3>2. \A u \in Tasks : PhaseOf(u)' = PhaseOf(u)
      BY <3>1 DEF PhaseOf, Running
    <3> QED BY <2>1, <3>1, <3>2, PhaseStays
  <2>3. ASSUME NEW th \in Threads, ThreadStep(th)
        PROVE  Service!Next \/ UNCHANGED <<phase, freed>>
    <3>1. StepOf(th)
      BY <2>3, ThreadStepTyped
    <3> QED BY <2>1, <3>1, CallingRefines, StartingRefines, EndingRefines, SpawningRefines DEF StepOf
  <2> QED BY <2>2, <2>3, NextSteps
<1> QED BY <1>1, <1>2, PoolTypeCorrect, TasksInOnePlace, PTL DEF Spec, Service!Spec

-----------------------------------------------------------------------------
(* The least number of a non-empty set. *)
LEMMA NatMin ==
  ASSUME NEW T \in SUBSET Nat, T # {}
  PROVE  \E n \in T : \A m \in T : n <= m
<1> DEFINE R == {ss \in Nat \X Nat : ss[1] < ss[2]}
<1>1. IsWellFoundedOn(R, Nat)
  BY NatLessThanWellFounded DEF OpToRel
<1>2. \A m, n \in Nat : m < n => <<m, n>> \in R
  OBVIOUS
<1> HIDE DEF R
<1>3. PICK n \in T : \A m \in T : <<m, n>> \notin R
  BY <1>1, WFMin
<1>4. ASSUME NEW m \in T PROVE n <= m
  <2>1. m \in Nat /\ n \in Nat
    OBVIOUS
  <2>2. <<m, n>> \notin R
    BY <1>3
  <2>3. ~(m < n)
    BY <1>2, <2>1, <2>2
  <2> QED BY <2>1, <2>3
<1> QED BY <1>4

-----------------------------------------------------------------------------
(***************************************************************************)
(* Who waits for whom.  Bodies can be numbered in the order they started:  *)
(* the number grows up a stack, and from a body to the tasks it spawned.   *)
(***************************************************************************)
Spawns(p, b, t) == \E i \in 1 .. Len(p[b]) : p[b][i].op = "spawn" /\ p[b][i].tasks[1] = t

\* A body awaits only what it spawned, as the stages and loops made parallel do.
AwaitsOwn(p) ==
  \A b \in Bodies : \A i \in 1 .. Len(p[b]) : \A k \in DOMAIN p[b][i].tasks :
    p[b][i].op = "await" => Spawns(p, b, p[b][i].tasks[k])

Numbered(ord, n) ==
  /\ \A th \in Threads : \A i \in 1 .. Len(stack[th]) : ord[stack[th][i].body] < n
  /\ \A th \in Threads : \A i, j \in 1 .. Len(stack[th]) :
       i < j => ord[stack[th][j].body] < ord[stack[th][i].body]
  /\ \A th, u \in Threads : \A i \in 1 .. Len(stack[th]), j \in 1 .. Len(stack[u]) :
       Spawns(prog, stack[th][i].body, stack[u][j].body)
         => ord[stack[th][i].body] < ord[stack[u][j].body]

StartOrder == \E ord \in [Bodies -> Nat] : \E n \in Nat : Numbered(ord, n)

\* A step that starts no body leaves the numbers as they are.
LEMMA OrderStays ==
  ASSUME prog' = prog, StartOrder,
         \A u \in Threads : \E d \in Nat : \A i \in 1 .. Len(stack'[u]) :
           i + d \in 1 .. Len(stack[u]) /\ stack'[u][i].body = stack[u][i + d].body
  PROVE  StartOrder'
<1>1. PICK ord \in [Bodies -> Nat], n \in Nat : Numbered(ord, n)
  BY DEF StartOrder
<1>2. \A th \in Threads : \A i \in 1 .. Len(stack'[th]) : ord[stack'[th][i].body] < n
  BY <1>1 DEF Numbered
<1>3. ASSUME NEW th \in Threads, NEW i \in 1 .. Len(stack'[th]), NEW j \in 1 .. Len(stack'[th]), i < j
      PROVE  ord[stack'[th][j].body] < ord[stack'[th][i].body]
  <2>1. PICK d \in Nat : \A l \in 1 .. Len(stack'[th]) :
          l + d \in 1 .. Len(stack[th]) /\ stack'[th][l].body = stack[th][l + d].body
    OBVIOUS
  <2>2. i + d < j + d
    BY <1>3
  <2> QED BY <1>1, <1>3, <2>1, <2>2 DEF Numbered
<1>4. \A th, u \in Threads : \A i \in 1 .. Len(stack'[th]), j \in 1 .. Len(stack'[u]) :
        Spawns(prog, stack'[th][i].body, stack'[u][j].body)
          => ord[stack'[th][i].body] < ord[stack'[u][j].body]
  BY <1>1 DEF Numbered
<1> QED BY <1>2, <1>3, <1>4 DEF StartOrder, Numbered

\* A body that starts gets the next number: it has spawned nothing yet.
LEMMA OrderStarts ==
  ASSUME TypeOK, TypeOK', PlacesOK, prog' = prog, StartOrder, NEW th \in Threads, Begins(th)
  PROVE  StartOrder'
<1>1. PICK ord \in [Bodies -> Nat], n \in Nat : Numbered(ord, n)
  BY DEF StartOrder
<1>2. PICK w \in Workers, p \in Nat : Starting(th, w, p)
  BY DEF Begins
<1>3. p \in 1 .. Len(queue[w]) /\ PlaceTyped /\ PlaceTyped'
  BY <1>2, PlaceTypes, PlaceTypesNext DEF Starting, Without
<1>4. PICK t \in Tasks : t = queue[w][p]
  BY <1>3 DEF PlaceTyped
<1>5. /\ Len(stack'[th]) = Len(stack[th]) + 1 /\ stack'[th][1].body = t
      /\ \A i \in 1 .. Len(stack[th]) : stack'[th][i + 1].body = stack[th][i].body
      /\ \A u \in Threads \ {th} : stack'[u] = stack[u]
  BY <1>2, <1>4 DEF Starting, Stays, Frame
<1>6. \A u \in Threads : \A i \in 1 .. Len(stack[u]) : stack[u][i].body # t
  BY <1>3, <1>4 DEF PlacesOK, Apart
\* Its children are not spawned, since it has not begun.
<1>7. ASSUME NEW u \in Threads, NEW i \in 1 .. Len(stack[u])
      PROVE  ~Spawns(prog, t, stack[u][i].body)
  <2>1. SUFFICES ASSUME NEW j \in 1 .. Len(prog[t]), prog[t][j].op = "spawn",
                        prog[t][j].tasks[1] = stack[u][i].body
                 PROVE  FALSE
    BY DEF Spawns
  <2>2. t \in Bodies
    BY DEF Bodies
  <2>3. prog[t][j].tasks[1] \in Tasks
    <3>1. prog[t][j] \in Calls /\ Len(prog[t][j].tasks) = 1
      BY <2>1, <2>2, ProgramType, ProgType DEF TypeOK
    <3> QED BY <3>1 DEF Calls
  <2>4. stack[u][i].body \in spawned
    BY <2>1, <2>3, PoolAssumption DEF PlacesOK, Live
  <2>5. Begun(t)
    BY <2>1, <2>2, <2>4 DEF PlacesOK, SpawnedIsMade, Made
  <2> QED BY <1>3, <1>4, <2>5 DEF Begun
<1>8. ~Spawns(prog, t, t)
  <2>1. SUFFICES ASSUME NEW j \in 1 .. Len(prog[t]), prog[t][j].op = "spawn", prog[t][j].tasks[1] = t
                 PROVE  FALSE
    BY DEF Spawns
  <2>2. t \in spawned /\ t \in Bodies
    BY <1>3, <1>4 DEF PlacesOK, Live, Bodies
  <2>3. Begun(t)
    BY <2>1, <2>2 DEF PlacesOK, SpawnedIsMade, Made
  <2> QED BY <1>3, <1>4, <2>3 DEF Begun
<1> DEFINE new == [ord EXCEPT ![t] = n]
<1>9. new \in [Bodies -> Nat] /\ new[t] = n /\ \A b \in Bodies : b # t => new[b] = ord[b]
  BY DEF Bodies
<1> HIDE DEF new
\* Where a frame was before.
<1>10. ASSUME NEW u \in Threads, NEW i \in 1 .. Len(stack'[u])
       PROVE  \/ u = th /\ i = 1 /\ stack'[u][i].body = t
              \/ \E l \in 1 .. Len(stack[u]) : /\ i = IF u = th THEN l + 1 ELSE l
                                               /\ stack'[u][i].body = stack[u][l].body
  <2>1. CASE u # th
    BY <1>5, <2>1
  <2>2. CASE u = th /\ i = 1
    BY <1>5, <2>2
  <2>3. CASE u = th /\ i # 1
    <3>1. i - 1 \in 1 .. Len(stack[th]) /\ i = (i - 1) + 1
      BY <1>3, <1>5, <2>3 DEF PlaceTyped
    <3>2. PICK l \in 1 .. Len(stack[th]) : i = l + 1
      BY <3>1
    <3> QED BY <1>5, <2>3, <3>2
  <2> QED BY <2>1, <2>2, <2>3
<1>11. \A u \in Threads : \A l \in 1 .. Len(stack[u]) :
         new[stack[u][l].body] = ord[stack[u][l].body] /\ ord[stack[u][l].body] \in Nat
           /\ ord[stack[u][l].body] < n
  BY <1>1, <1>3, <1>6, <1>9 DEF Numbered, PlaceTyped
<1>12. \A u \in Threads : \A i \in 1 .. Len(stack'[u]) : new[stack'[u][i].body] < n + 1
  <2>1. ASSUME NEW u \in Threads, NEW i \in 1 .. Len(stack'[u])
        PROVE  new[stack'[u][i].body] < n + 1
    <3>1. CASE stack'[u][i].body = t
      BY <1>9, <3>1
    <3>2. CASE \E l \in 1 .. Len(stack[u]) : stack'[u][i].body = stack[u][l].body
      BY <1>11, <3>2
    <3> QED BY <1>10, <3>1, <3>2
  <2> QED BY <2>1
<1>13. ASSUME NEW u \in Threads, NEW i \in 1 .. Len(stack'[u]), NEW j \in 1 .. Len(stack'[u]), i < j
       PROVE  new[stack'[u][j].body] < new[stack'[u][i].body]
  <2>1. PICK l \in 1 .. Len(stack[u]) : /\ j = IF u = th THEN l + 1 ELSE l
                                        /\ stack'[u][j].body = stack[u][l].body
    BY <1>10, <1>13
  <2>2. CASE u = th /\ i = 1
    <3>1. new[stack'[u][i].body] = n
      BY <1>5, <1>9, <2>2
    <3>2. new[stack[u][l].body] < n
      BY <1>11
    <3> QED BY <2>1, <3>1, <3>2
  <2>3. CASE ~(u = th /\ i = 1)
    <3>1. PICK m \in 1 .. Len(stack[u]) : /\ i = IF u = th THEN m + 1 ELSE m
                                          /\ stack'[u][i].body = stack[u][m].body
      BY <1>10, <2>3
    <3>2. m < l
      BY <1>13, <2>1, <3>1
    <3> QED BY <1>1, <1>11, <2>1, <3>1, <3>2 DEF Numbered
  <2> QED BY <2>2, <2>3
<1>14. ASSUME NEW u \in Threads, NEW v \in Threads,
              NEW i \in 1 .. Len(stack'[u]), NEW j \in 1 .. Len(stack'[v]),
              Spawns(prog, stack'[u][i].body, stack'[v][j].body)
       PROVE  new[stack'[u][i].body] < new[stack'[v][j].body]
  <2>1. PICK l \in 1 .. Len(stack[u]) : stack'[u][i].body = stack[u][l].body
    BY <1>7, <1>8, <1>10, <1>14
  <2>2. CASE stack'[v][j].body = t
    BY <1>9, <1>11, <2>1, <2>2
  <2>3. CASE \E m \in 1 .. Len(stack[v]) : stack'[v][j].body = stack[v][m].body
    BY <1>1, <1>11, <1>14, <2>1, <2>3 DEF Numbered
  <2> QED BY <1>10, <2>2, <2>3
<1>15. n + 1 \in Nat
  OBVIOUS
<1> QED BY <1>9, <1>12, <1>13, <1>14, <1>15 DEF StartOrder, Numbered

LEMMA OrderKept ==
  ASSUME TypeOK, TypeOK', PlacesOK, StartOrder, NEW th \in Threads, ThreadStep(th)
  PROVE  StartOrder'
<1>1. StepOf(th) /\ prog' = prog
  BY ThreadStepTyped
<1>2. PlaceTyped /\ PlaceTyped'
  BY PlaceTypes, PlaceTypesNext
<1>3. CASE SameBodies
  <2>1. ASSUME NEW u \in Threads, NEW i \in 1 .. Len(stack'[u])
        PROVE  i + 0 \in 1 .. Len(stack[u]) /\ stack'[u][i].body = stack[u][i + 0].body
    <3>1. i \in 1 .. Len(stack[u]) /\ stack'[u][i].body = stack[u][i].body /\ i + 0 = i
      BY <1>2, <1>3 DEF SameBodies, Later, PlaceTyped
    <3> QED BY <3>1
  <2>2. 0 \in Nat
    OBVIOUS
  <2> QED BY <1>1, <2>1, <2>2, OrderStays
<1>4. CASE Begins(th)
  BY <1>1, <1>4, OrderStarts
<1>5. CASE Ending(th)
  <2>1. ASSUME NEW u \in Threads
        PROVE  \E d \in Nat : \A i \in 1 .. Len(stack'[u]) :
                 i + d \in 1 .. Len(stack[u]) /\ stack'[u][i].body = stack[u][i + d].body
    <3>1. CASE u = th
      <4>1. \A i \in 1 .. Len(stack'[u]) : i + 1 \in 1 .. Len(stack[u]) /\ stack'[u][i].body = stack[u][i + 1].body
        BY <1>2, <1>5, <3>1 DEF Ending, PlaceTyped
      <4> QED BY <4>1
    <3>2. CASE u # th
      <4>1. \A i \in 1 .. Len(stack'[u]) : i + 0 \in 1 .. Len(stack[u]) /\ stack'[u][i].body = stack[u][i + 0].body
        <5>1. stack'[u] = stack[u] /\ Len(stack[u]) \in Nat
          BY <1>2, <1>5, <3>2 DEF Ending, PlaceTyped
        <5>2. \A i \in 1 .. Len(stack[u]) : i + 0 = i
          BY <5>1
        <5> QED BY <5>1, <5>2
      <4> QED BY <4>1
    <3> QED BY <3>1, <3>2
  <2> QED BY <1>1, <2>1, OrderStays
<1> QED BY <1>1, <1>3, <1>4, <1>5 DEF StepOf, Calling, Clearing, Spawning

LEMMA OrderInit ==
  ASSUME Init
  PROVE  StartOrder
<1> DEFINE ord == [b \in Bodies |-> 0]
<1>1. ASSUME NEW th \in Threads, NEW i \in 1 .. Len(stack[th])
      PROVE  i = 1 /\ stack[th][i].body = th /\ th \in Clients
  <2>1. stack[th] = IF th \in Clients /\ prog[th] # << >> THEN <<Frame(th)>> ELSE << >>
    BY DEF Init
  <2>2. th \in Clients /\ i = 1
    BY <2>1
  <2> QED BY <2>1, <2>2 DEF Frame
<1>2. ord \in [Bodies -> Nat] /\ \A b \in Bodies : ord[b] = 0
  OBVIOUS
<1> HIDE DEF ord
<1>3. \A b \in Clients : b \in Bodies
  BY DEF Bodies
<1>4. ASSUME NEW b \in Clients, NEW c \in Clients PROVE ~Spawns(prog, b, c)
  <2>1. SUFFICES ASSUME NEW i \in 1 .. Len(prog[b]), prog[b][i].op = "spawn", prog[b][i].tasks[1] = c
                 PROVE  FALSE
    BY DEF Spawns
  <2>2. prog[b][i] \in Calls /\ Len(prog[b][i].tasks) = 1
    BY <1>3, <2>1, ProgramType DEF Init
  <2>3. prog[b][i].tasks[1] \in Tasks
    BY <2>2 DEF Calls
  <2> QED BY <2>1, <2>3, PoolAssumption
<1>5. Numbered(ord, 1)
  BY <1>1, <1>2, <1>3, <1>4 DEF Numbered
<1> QED BY <1>2, <1>5 DEF StartOrder

(***************************************************************************)
(* When every body awaits only tasks it spawned itself, no set of threads  *)
(* waits for one another, however helping nests unrelated bodies: a body   *)
(* that is awaited started after the one that awaits it, so among threads  *)
(* that wait the one whose running body started last waits for none of     *)
(* them.                                                                   *)
(***************************************************************************)
THEOREM AwaitsAreAcyclic ==
  ASSUME \A p \in Programs : AwaitsOwn(p)
  PROVE  Spec => []NoAwaitCycle
<1>1. Init => StartOrder
  BY OrderInit
<1>2. TypeOK /\ PlacesOK /\ StartOrder /\ [Next]_vars => StartOrder'
  <2> SUFFICES ASSUME TypeOK, PlacesOK, StartOrder, [Next]_vars PROVE StartOrder'
    OBVIOUS
  <2>1. TypeOK'
    BY TypeNext
  <2>2. CASE UNCHANGED vars
    BY <2>2 DEF vars, StartOrder, Numbered
  <2>3. CASE \E th \in Threads : ThreadStep(th)
    BY <2>1, <2>3, OrderKept
  <2> QED BY <2>2, <2>3, NextSteps
<1>3. TypeOK /\ PlacesOK /\ StartOrder => NoAwaitCycle
  <2> SUFFICES ASSUME TypeOK, PlacesOK, StartOrder, NEW S \in SUBSET Threads, S # {},
                      \A th \in S : \E u \in S : WaitsOn(th, u)
               PROVE  FALSE
    BY DEF NoAwaitCycle
  <2>1. PICK ord \in [Bodies -> Nat], n \in Nat : Numbered(ord, n)
    BY DEF StartOrder
  <2>2. ASSUME NEW th \in S
        PROVE  /\ 1 \in 1 .. Len(stack[th]) /\ Top(th) = stack[th][1] /\ Top(th).body \in Bodies
               /\ ord[Top(th).body] \in Nat /\ ord[Top(th).body] < n
    <3>1. stack[th] # << >> /\ ~Returned(Top(th))
      BY DEF WaitsOn
    <3>2. 1 \in 1 .. Len(stack[th]) /\ Top(th) = stack[th][1] /\ Top(th).body \in Bodies
      BY <3>1, Runner
    <3> QED BY <2>1, <3>2 DEF Numbered
  <2>3. ASSUME NEW th \in S, NEW u \in S, WaitsOn(th, u)
        PROVE  ord[Top(th).body] < ord[Top(u).body]
    <3>1. /\ stack[th] # << >> /\ ~Returned(Top(th)) /\ Call(Top(th)).op = "await"
      BY <2>3 DEF WaitsOn
    <3>2. PICK i \in 1 .. Len(stack[u]) : stack[u][i].body = Waited(Top(th))
      BY <2>3 DEF WaitsOn
    <3>3. /\ Top(th).body \in Bodies /\ Top(th).pc \in 1 .. Len(prog[Top(th).body])
          /\ Call(Top(th)) = prog[Top(th).body][Top(th).pc]
      BY <3>1, Runner
    <3>4. Top(th).k \in DOMAIN prog[Top(th).body][Top(th).pc].tasks
      <4>1. FrameOK(prog[Top(th).body], Top(th)) /\ Top(th).pc \in Nat
        BY <3>1, TopFacts DEF Frames
      <4>2. Top(th).pc <= Len(prog[Top(th).body])
        BY <3>3
      <4> QED BY <3>1, <3>3, <4>1, <4>2 DEF FrameOK
    <3>5. Spawns(prog, Top(th).body, stack[u][i].body)
      BY <3>1, <3>2, <3>3, <3>4 DEF Waited, AwaitsOwn, TypeOK
    <3>6. ord[Top(th).body] < ord[stack[u][i].body]
      BY <2>1, <2>2, <3>5 DEF Numbered
    <3>7. CASE i = 1
      BY <2>2, <3>6, <3>7
    <3>8. CASE i # 1
      <4>1. 1 < i
        BY <3>8
      <4>2. ord[stack[u][i].body] < ord[Top(u).body]
        BY <2>1, <2>2, <4>1 DEF Numbered
      <4>3. ord[stack[u][i].body] \in Nat
        BY <2>1, PlaceTypes DEF PlaceTyped
      <4> QED BY <2>2, <3>6, <4>2, <4>3
    <3> QED BY <3>7, <3>8
  \* The thread whose running body started last.
  <2>4. PICK th \in S : \A u \in S : ord[Top(u).body] <= ord[Top(th).body]
    <3> DEFINE T == {m \in Nat : \A u \in S : ord[Top(u).body] <= m}
    <3>1. T \in SUBSET Nat /\ n \in T
      BY <2>2
    <3> HIDE DEF T
    <3>2. PICK m \in T : \A l \in T : m <= l
      BY <3>1, NatMin
    <3>3. m \in Nat /\ \A u \in S : ord[Top(u).body] <= m
      BY <3>2 DEF T
    <3>4. \E th \in S : ord[Top(th).body] = m
      <4>1. SUFFICES ASSUME \A u \in S : ord[Top(u).body] # m PROVE FALSE
        OBVIOUS
      <4>2. m # 0
        BY <2>2, <3>3, <4>1
      <4>3. m - 1 \in T
        <5>1. \A u \in S : ord[Top(u).body] <= m - 1
          BY <2>2, <3>3, <4>1
        <5> QED BY <3>3, <4>2, <5>1 DEF T
      <4> QED BY <3>2, <3>3, <4>3
    <3> QED BY <3>3, <3>4
  <2>5. PICK u \in S : WaitsOn(th, u)
    OBVIOUS
  <2>6. ord[Top(th).body] < ord[Top(u).body]
    BY <2>3, <2>5
  <2>7. ord[Top(u).body] <= ord[Top(th).body]
    BY <2>4
  <2>8. ord[Top(u).body] \in Nat /\ ord[Top(th).body] \in Nat
    BY <2>2
  <2> QED BY <2>6, <2>7, <2>8
<1> QED BY <1>1, <1>2, <1>3, PoolTypeCorrect, TasksInOnePlace, PTL DEF Spec

-----------------------------------------------------------------------------
(***************************************************************************)
(* Stopping WorkPool.  topo_parallel_init and topo_parallel_shutdown clear *)
(* the queues and delete the pool, so that what the pool promises depends  *)
(* on when they are called: no task is lost, and nothing is used after it  *)
(* is gone, when the pool is stopped in order, and programs that never     *)
(* stop it, or fork, join and then stop it, do so in order.                *)
(***************************************************************************)
(***************************************************************************)
(* Stopping in order: when stop() joins the workers and clears the queues  *)
(* every task spawned is done, and no call on another thread is in the     *)
(* middle of using the pool.                                               *)
(***************************************************************************)
Locked == {"stop", "join", "start", "publish"}

OrderlyStop ==
  \A th \in Threads : At(th) \in {"stop", "join"} =>
    spawned \subseteq done /\ \A u \in Threads : At(u) \notin Holding

\* Task t waits in a queue or runs on a stack.
Held(t) ==
  \/ \E w \in Workers : \E i \in 1 .. Len(queue[w]) : queue[w][i] = t
  \/ \E th \in Threads : \E i \in 1 .. Len(stack[th]) : stack[th][i].body = t

Kept == \A t \in spawned \ done : Held(t)

LEMMA KeptStep ==
  ASSUME TypeOK, TypeOK', PlacesOK, OrderlyStop, Kept, NEW th \in Threads, StepOf(th)
  PROVE  Kept'
<1>1. PlaceTyped /\ PlaceTyped'
  BY PlaceTypes, PlaceTypesNext
<1>2. ASSUME SameBodies, NEW t \in Tasks
      PROVE  (\E u \in Threads : \E i \in 1 .. Len(stack[u]) : stack[u][i].body = t)
               => \E u \in Threads : \E i \in 1 .. Len(stack'[u]) : stack'[u][i].body = t
  BY <1>2 DEF SameBodies, Later
<1>3. CASE Calling(th)
  <2>1. UNCHANGED <<queue, spawned, done>> /\ SameBodies
    BY <1>3 DEF Calling
  <2>2. \A t \in Tasks : Held(t) => Held(t)'
    BY <1>2, <2>1 DEF Held
  <2>3. spawned \subseteq Tasks
    BY DEF TypeOK
  <2> QED BY <2>1, <2>2, <2>3 DEF Kept
<1>4. CASE Clearing(th)
  <2>1. UNCHANGED <<spawned, done>> /\ At(th) = "join"
    BY <1>4 DEF Clearing, At
  <2> QED BY <2>1 DEF Kept, OrderlyStop
<1>5. CASE Ending(th)
  <2>1. /\ stack[th] # << >> /\ Len(stack'[th]) = Len(stack[th]) - 1
        /\ \A i \in 1 .. Len(stack'[th]) : stack'[th][i] = stack[th][i + 1]
        /\ \A u \in Threads \ {th} : stack'[u] = stack[u]
        /\ done' = done \cup ({Top(th).body} \cap Tasks)
        /\ UNCHANGED <<queue, spawned>>
    BY <1>5 DEF Ending
  <2>2. Top(th) = stack[th][1]
    BY <2>1, TopFacts
  <2>3. ASSUME NEW t \in spawned' \ done', NEW u \in Threads, NEW i \in 1 .. Len(stack[u]),
               stack[u][i].body = t
        PROVE  \E j \in 1 .. Len(stack'[u]) : stack'[u][j].body = t
    <3>1. CASE u # th
      BY <2>1, <2>3, <3>1
    <3>2. CASE u = th
      <4>1. i # 1
        <5>1. t \in Tasks
          BY <2>1 DEF TypeOK
        <5> QED BY <2>1, <2>2, <2>3, <3>2, <5>1
      <4>2. i - 1 \in 1 .. Len(stack'[th]) /\ i = (i - 1) + 1
        BY <1>1, <2>1, <3>2, <4>1 DEF PlaceTyped
      <4>3. stack'[th][i - 1] = stack[th][i]
        BY <2>1, <4>2
      <4> QED BY <2>3, <3>2, <4>2, <4>3
    <3> QED BY <3>1, <3>2
  <2>4. spawned' \ done' \subseteq spawned \ done
    BY <2>1
  <2> QED BY <2>1, <2>3, <2>4 DEF Kept, Held
<1>6. ASSUME NEW w \in Workers, NEW p \in Nat, Starting(th, w, p)
      PROVE  Kept'
  <2>1. /\ Without(queue[w], queue'[w], p) /\ \A v \in Workers \ {w} : queue'[v] = queue[v]
        /\ Len(stack'[th]) = Len(stack[th]) + 1 /\ stack'[th][1] = Frame(queue[w][p])
        /\ \A i \in 1 .. Len(stack[th]) : Later(stack'[th][i + 1], stack[th][i])
        /\ \A u \in Threads \ {th} : stack'[u] = stack[u]
        /\ UNCHANGED <<spawned, done>>
    BY <1>6, StartingLater DEF Starting
  <2>2. /\ \A i \in 1 .. Len(queue'[w]) : queue'[w][i] = queue[w][Skip(p, i)]
        /\ \A j \in 1 .. Len(queue[w]) : j # p => \E i \in 1 .. Len(queue'[w]) : Skip(p, i) = j
    <3>1. queue[w] \in Seq(Tasks) /\ queue'[w] \in Seq(Tasks) /\ Without(queue[w], queue'[w], p)
      BY <1>1, <2>1 DEF PlaceTyped
    <3>2. \A i \in 1 .. Len(queue'[w]) : queue'[w][i] = queue[w][Skip(p, i)]
      BY <3>1, WithoutFacts
    <3>3. \A j \in 1 .. Len(queue[w]) : j # p => \E i \in 1 .. Len(queue'[w]) : Skip(p, i) = j
      BY <3>1, WithoutFacts
    <3> QED BY <3>2, <3>3
  <2>3. ASSUME NEW t, NEW v \in Workers, NEW i \in 1 .. Len(queue[v]), queue[v][i] = t
        PROVE  Held(t)'
    <3>1. CASE v # w
      BY <2>1, <2>3, <3>1 DEF Held
    <3>2. CASE v = w /\ i # p
      BY <2>2, <2>3, <3>2 DEF Held
    <3>3. CASE v = w /\ i = p
      <4>1. 1 \in 1 .. Len(stack'[th]) /\ stack'[th][1].body = t
        BY <1>1, <2>1, <2>3, <3>3 DEF PlaceTyped, Frame
      <4> QED BY <4>1 DEF Held
    <3> QED BY <3>1, <3>2, <3>3
  <2>4. ASSUME NEW t, NEW u \in Threads, NEW i \in 1 .. Len(stack[u]), stack[u][i].body = t
        PROVE  Held(t)'
    <3>1. CASE u # th
      BY <2>1, <2>4, <3>1 DEF Held
    <3>2. CASE u = th
      <4>1. i + 1 \in 1 .. Len(stack'[th]) /\ stack'[th][i + 1].body = t
        BY <1>1, <2>1, <2>4, <3>2 DEF PlaceTyped, Later
      <4> QED BY <4>1 DEF Held
    <3> QED BY <3>1, <3>2
  <2>5. \A t : Held(t) => Held(t)'
    BY <2>3, <2>4 DEF Held
  <2> QED BY <2>1, <2>5 DEF Kept
<1>7. ASSUME NEW w \in Workers, NEW p \in Nat, Spawning(th, w, p)
      PROVE  Kept'
  <2>1. /\ \A v \in Workers \ {w} : queue'[v] = queue[v]
        /\ SameBodies /\ UNCHANGED done
    BY <1>7 DEF Spawning
  <2>2. PICK t \in Tasks : /\ spawned' = spawned \cup {t}
                           /\ Without(queue'[w], queue[w], p) /\ queue'[w][p] = t
    BY <1>7 DEF Spawning
  <2>3. /\ p \in 1 .. Len(queue'[w])
        /\ \A i \in 1 .. Len(queue[w]) :
             Skip(p, i) \in 1 .. Len(queue'[w]) /\ queue[w][i] = queue'[w][Skip(p, i)]
    BY <1>1, <2>2, WithoutFacts DEF PlaceTyped
  <2>4. ASSUME NEW s, NEW v \in Workers, NEW i \in 1 .. Len(queue[v]), queue[v][i] = s
        PROVE  \E j \in 1 .. Len(queue'[v]) : queue'[v][j] = s
    BY <2>1, <2>3, <2>4
  <2>5. Held(t)'
    BY <2>2, <2>3 DEF Held
  <2>6. \A s \in Tasks : Held(s) => Held(s)'
    BY <1>2, <2>1, <2>4 DEF Held
  <2> QED BY <2>1, <2>2, <2>5, <2>6 DEF Kept, TypeOK
<1> QED BY <1>3, <1>4, <1>5, <1>6, <1>7 DEF StepOf, Begins

\* The places of a task, counted.
LEMMA PlacesCounted ==
  ASSUME TypeOK, PlacesOK, Kept
  PROVE  NoTaskLost
<1> SUFFICES ASSUME NEW t \in Tasks
             PROVE  Cardinality(QueuedAt(t)) + Cardinality(RunningAt(t))
                      = IF t \in spawned \ done THEN 1 ELSE 0
  BY DEF NoTaskLost
<1>1. /\ \A w \in Workers : queue[w] \in Seq(Tasks)
      /\ \A th \in Threads : stack[th] \in Seq(Frames)
  BY DEF TypeOK, StackOK
<1>2. \A x : x \in QueuedAt(t) <=>
         \E w \in Workers : \E i \in 1 .. Len(queue[w]) : x = <<w, i>> /\ queue[w][i] = t
  BY <1>1 DEF QueuedAt
<1>3. \A x : x \in RunningAt(t) <=>
         \E th \in Threads : \E i \in 1 .. Len(stack[th]) : x = <<th, i>> /\ stack[th][i].body = t
  BY <1>1 DEF RunningAt
<1>4. Cardinality({}) = 0 /\ \A x, y : Cardinality({<<x, y>>}) = 1
  BY FS_EmptySet, FS_Singleton
<1>5. t \notin Clients
  BY PoolAssumption
<1>6. CASE \E w \in Workers : \E i \in 1 .. Len(queue[w]) : queue[w][i] = t
  <2>1. PICK w \in Workers : \E i \in 1 .. Len(queue[w]) : queue[w][i] = t
    BY <1>6
  <2>2. PICK i \in 1 .. Len(queue[w]) : queue[w][i] = t
    BY <2>1
  <2>3. QueuedAt(t) = {<<w, i>>}
    BY <1>2, <2>2 DEF PlacesOK, QueueDistinct
  <2>4. RunningAt(t) = {}
    BY <1>3, <2>2 DEF PlacesOK, Apart
  <2>6. Cardinality(QueuedAt(t)) = 1 /\ Cardinality(RunningAt(t)) = 0
    BY <1>4, <2>3, <2>4
  <2>5. t \in spawned \ done
    BY <2>2 DEF PlacesOK, Live
  <2> QED BY <2>5, <2>6
<1>7. CASE \E th \in Threads : \E i \in 1 .. Len(stack[th]) : stack[th][i].body = t
  <2>1. PICK th \in Threads : \E i \in 1 .. Len(stack[th]) : stack[th][i].body = t
    BY <1>7
  <2>2. PICK i \in 1 .. Len(stack[th]) : stack[th][i].body = t
    BY <2>1
  <2>3. RunningAt(t) = {<<th, i>>}
    BY <1>3, <2>2 DEF PlacesOK, StackDistinct
  <2>4. QueuedAt(t) = {}
    BY <1>2, <2>2 DEF PlacesOK, Apart
  <2>6. Cardinality(QueuedAt(t)) = 0 /\ Cardinality(RunningAt(t)) = 1
    BY <1>4, <2>3, <2>4
  <2>5. t \in spawned \ done
    BY <1>5, <2>2 DEF PlacesOK, Live
  <2> QED BY <2>5, <2>6
<1>8. CASE ~Held(t)
  <2>1. QueuedAt(t) = {} /\ RunningAt(t) = {}
    BY <1>2, <1>3, <1>8 DEF Held
  <2>2. t \notin spawned \ done
    BY <1>8 DEF Kept
  <2> QED BY <1>4, <2>1, <2>2
<1> QED BY <1>6, <1>7, <1>8 DEF Held

(***************************************************************************)
(* With the pool stopped in order, a submitted task is in exactly one      *)
(* queue or on exactly one stack until it is done, and nowhere after: no   *)
(* interleaving of submission, stealing from both ends, helping and        *)
(* nesting loses a task or runs it twice.                                  *)
(***************************************************************************)
THEOREM TasksAreKept == Spec /\ []OrderlyStop => []NoTaskLost
<1>1. Init => Kept
  BY DEF Init, Kept
<1>2. TypeOK /\ PlacesOK /\ OrderlyStop /\ Kept /\ [Next]_vars => Kept'
  <2> SUFFICES ASSUME TypeOK, PlacesOK, OrderlyStop, Kept, [Next]_vars
               PROVE  Kept'
    OBVIOUS
  <2>1. TypeOK'
    BY TypeNext
  <2>2. CASE UNCHANGED vars
    BY <2>2 DEF Kept, Held, vars, taskVars
  <2>3. CASE \E th \in Threads : ThreadStep(th)
    BY <2>1, <2>3, ThreadStepTyped, KeptStep
  <2> QED BY <2>2, <2>3, NextSteps
<1>3. TypeOK /\ PlacesOK /\ Kept => NoTaskLost
  BY PlacesCounted
<1> QED BY <1>1, <1>2, <1>3, PoolTypeCorrect, TasksInOnePlace, PTL DEF Spec

-----------------------------------------------------------------------------
(***************************************************************************)
(* g_pool, the pool object and the lifecycle mutex.  Who is inside init,   *)
(* shutdown or do_init holds the mutex, alone; g_pool is the pool that     *)
(* exists when nobody does and null while somebody does; and a thread that *)
(* has looked at g_pool finds that pool still there.                       *)
(***************************************************************************)
Snapped == Holding \ {"snap"}

PoolOK ==
  /\ \A th \in Threads : th \in lifecycle <=> At(th) \in Locked
  /\ \A th, u \in lifecycle : th = u
  /\ lifecycle = {} => gpool = alive
  /\ lifecycle # {} => gpool = 0
  /\ \A th \in Threads : At(th) = "publish" => alive # 0
  /\ \A th \in Threads : At(th) \in Holding => gpool # 0
  /\ \A th \in Threads : At(th) \in Snapped => Top(th).pool = alive

\* Where the threads are after a step that changes one frame, or starts or ends a body.
LEMMA AtSetTop ==
  ASSUME TypeOK, NEW th \in Threads, stack[th] # << >>, NEW f, SetTop(th, f)
  PROVE  /\ At(th)' = f.at /\ Top(th)' = f
         /\ \A u \in Threads \ {th} : At(u)' = At(u) /\ Top(u)' = Top(u)
<1> DEFINE S == Frames \cup {f}
           s == Tail(stack[th])
           r == <<f>> \o s
<1>1. stack[th] \in Seq(Frames) /\ stack \in [Threads -> Seq(Frames)]
  BY DEF TypeOK, StackOK
<1>2. s \in Seq(Frames)
  BY <1>1
<1>3. s \in Seq(S) /\ <<f>> \in Seq(S) /\ Len(<<f>>) = 1 /\ Len(s) \in Nat
  <2> HIDE DEF s
  <2> QED BY <1>2
<1>4. /\ r \in Seq(S) /\ Len(r) = 1 + Len(s)
      /\ \A i \in 1 .. 1 + Len(s) : r[i] = IF i <= 1 THEN <<f>>[i] ELSE s[i - 1]
  <2> HIDE DEF s, S
  <2> QED BY <1>3, ConcatProperties
<1>5. r # << >> /\ Head(r) = f
  <2> HIDE DEF s, S, r
  <2>1. r[1] = f /\ Len(r) > 0
    BY <1>3, <1>4
  <2> QED BY <1>4, <2>1
<1>6. stack' = [stack EXCEPT ![th] = r]
  BY DEF SetTop
<1> HIDE DEF r
<1>7. stack'[th] = r /\ \A u \in Threads \ {th} : stack'[u] = stack[u]
  BY <1>1, <1>6
<1> QED BY <1>5, <1>7 DEF At, Top

LEMMA AtStart ==
  ASSUME TypeOK', NEW th \in Threads, NEW w \in Workers, NEW p \in Nat, Starting(th, w, p)
  PROVE  /\ At(th)' = "call"
         /\ \A u \in Threads \ {th} : At(u)' = At(u) /\ Top(u)' = Top(u)
<1>1. /\ stack'[th][1] = Frame(queue[w][p])
      /\ \A u \in Threads \ {th} : stack'[u] = stack[u]
  BY DEF Starting
<1>2. stack'[th] \in Seq(Frames)
  BY DEF TypeOK, StackOK
<1>3. stack'[th] # << >> => Head(stack'[th]) = stack'[th][1]
  BY <1>2
<1> QED BY <1>1, <1>3 DEF At, Top, Frame

LEMMA AtEnd ==
  ASSUME TypeOK, TypeOK', NEW th \in Threads, Ending(th)
  PROVE  /\ At(th)' = "call"
         /\ \A u \in Threads \ {th} : At(u)' = At(u) /\ Top(u)' = Top(u)
<1>1. /\ stack[th] # << >> /\ Len(stack'[th]) = Len(stack[th]) - 1
      /\ \A i \in 1 .. Len(stack'[th]) : stack'[th][i] = stack[th][i + 1]
      /\ \A u \in Threads \ {th} : stack'[u] = stack[u]
  BY DEF Ending
<1>2. stack'[th] \in Seq(Frames) /\ stack[th] \in Seq(Frames)
  BY DEF TypeOK, StackOK
<1>3. stack'[th] # << >> => Head(stack'[th]).at = "call"
  <2>1. SUFFICES ASSUME stack'[th] # << >> PROVE Head(stack'[th]).at = "call"
    OBVIOUS
  <2>2. Head(stack'[th]) = stack'[th][1] /\ 1 \in 1 .. Len(stack'[th])
    BY <1>2, <2>1
  <2>3. stack'[th][1] = stack[th][1 + 1] /\ 2 \in 1 .. Len(stack[th])
    BY <1>1, <1>2, <2>2
  <2>4. stack[th][2].at = "call"
    BY <2>3 DEF TypeOK, StackOK
  <2> QED BY <2>2, <2>3, <2>4
<1> QED BY <1>1, <1>3 DEF At, Top

\* The thread of an action that is inside a call.
LEMMA AtIn ==
  ASSUME NEW th \in Threads, NEW op, NEW at, In(th, op, at)
  PROVE  At(th) = at
BY DEF At, In

\* A step that leaves the pool as it is, and the mutex.
LEMMA QuietKeeps ==
  ASSUME PoolOK, UNCHANGED <<gpool, alive, lifecycle>>, NEW th \in Threads,
         \A u \in Threads \ {th} : At(u)' = At(u) /\ Top(u)' = Top(u),
         At(th) \notin Locked, At(th)' \notin Locked,
         At(th)' \in Holding => gpool # 0,
         At(th)' \in Snapped => Top(th)'.pool = alive
  PROVE  PoolOK'
<1>1. \A u \in Threads : u \in lifecycle' <=> At(u)' \in Locked
  BY DEF PoolOK
<1>2. \A u \in Threads : At(u)' = "publish" => alive' # 0
  BY DEF PoolOK, Locked
<1>3. \A u \in Threads : At(u)' \in Holding => gpool' # 0
  BY DEF PoolOK
<1>4. \A u \in Threads : At(u)' \in Snapped => Top(u)'.pool = alive'
  BY DEF PoolOK
<1>5. /\ \A v, u \in lifecycle' : v = u
      /\ lifecycle' = {} => gpool' = alive'
      /\ lifecycle' # {} => gpool' = 0
  BY DEF PoolOK
<1> QED BY <1>1, <1>2, <1>3, <1>4, <1>5 DEF PoolOK

LEMMA StackSameKeeps ==
  ASSUME PoolOK, UNCHANGED <<gpool, alive, lifecycle, stack>>
  PROVE  PoolOK'
BY DEF PoolOK, At, Top

LEMMA QuietSetTop ==
  ASSUME TypeOK, PoolOK, UNCHANGED <<gpool, alive, lifecycle>>, NEW th \in Threads,
         stack[th] # << >>, NEW f, SetTop(th, f), At(th) \notin Locked, f.at \notin Locked,
         f.at \in Holding => gpool # 0, f.at \in Snapped => f.pool = alive
  PROVE  PoolOK'
<1>1. /\ At(th)' = f.at /\ Top(th)' = f
      /\ \A u \in Threads \ {th} : At(u)' = At(u) /\ Top(u)' = Top(u)
  BY AtSetTop
<1> QED BY <1>1, QuietKeeps

\* The holder of the mutex goes on under it.
LEMMA HolderMoves ==
  ASSUME PoolOK, UNCHANGED <<gpool, lifecycle>>, NEW th \in Threads,
         \A u \in Threads \ {th} : At(u)' = At(u) /\ Top(u)' = Top(u),
         At(th) \in Locked, At(th)' \in Locked, At(th)' = "publish" => alive' # 0
  PROVE  PoolOK'
<1>1. th \in lifecycle /\ gpool = 0
  BY DEF PoolOK
<1>2. \A u \in Threads : u # th => At(u) \notin Locked
  BY <1>1 DEF PoolOK
<1>3. \A u \in Threads : At(u)' \notin Holding
  BY <1>1 DEF PoolOK, Locked, Holding
<1>4. \A u \in Threads : At(u)' = "publish" => alive' # 0
  BY <1>2 DEF Locked
<1>5. \A u \in Threads : u \in lifecycle' <=> At(u)' \in Locked
  BY <1>1 DEF PoolOK
<1>6. (\A v, u \in lifecycle' : v = u) /\ gpool' = 0 /\ lifecycle' # {}
  BY <1>1 DEF PoolOK
<1> QED BY <1>3, <1>4, <1>5, <1>6 DEF PoolOK, Snapped

\* It releases the mutex.
LEMMA HolderLeaves ==
  ASSUME PoolOK, lifecycle' = {}, gpool' = alive', NEW th \in Threads,
         \A u \in Threads \ {th} : At(u)' = At(u) /\ Top(u)' = Top(u),
         At(th) \in Locked, At(th)' \notin Locked \cup Snapped, At(th)' = "snap" => gpool' # 0
  PROVE  PoolOK'
<1>1. th \in lifecycle /\ gpool = 0
  BY DEF PoolOK
<1>2. \A u \in Threads : At(u)' \notin Locked
  BY <1>1 DEF PoolOK
<1>3. \A u \in Threads : At(u)' \in Holding => u = th /\ At(u)' = "snap"
  BY <1>1 DEF PoolOK, Snapped
<1> QED BY <1>2, <1>3 DEF PoolOK, Snapped, Locked

\* A thread takes the mutex when nobody has it.
LEMMA HolderComes ==
  ASSUME PoolOK, lifecycle = {}, NEW th \in Threads, lifecycle' = {th}, gpool' = 0,
         \A u \in Threads \ {th} : At(u)' = At(u) /\ Top(u)' = Top(u),
         At(th)' \in Locked \ {"publish"},
         gpool = 0 \/ \A u \in Threads : At(u)' \notin Holding
  PROVE  PoolOK'
<1>1. \A u \in Threads : At(u) \notin Locked
  BY DEF PoolOK
<1>2. \A u \in Threads : At(u)' \notin Holding
  BY DEF PoolOK, Locked, Holding
<1>3. \A u \in Threads : At(u)' # "publish"
  BY <1>1 DEF Locked
<1>4. \A u \in Threads : u \in lifecycle' <=> At(u)' \in Locked
  BY <1>1
<1> QED BY <1>2, <1>3, <1>4 DEF PoolOK, Snapped

LEMMA WorkerKeepsPool ==
  ASSUME TypeOK, TypeOK', PoolOK, NEW w \in Workers, WorkerStep(w)
  PROVE  PoolOK'
<1>1. UNCHANGED <<gpool, alive, lifecycle>>
  BY DEF WorkerStep, ScanOwn, Steal, IdleCheck, WaitOver, poolVars
<1>2. CASE UNCHANGED stack
  BY <1>1, <1>2, StackSameKeeps
<1>3. CASE Begins(w) /\ (ScanOwn(w) \/ Steal(w))
  <2>1. stack[w] = << >>
    BY <1>3 DEF ScanOwn, Steal, TypeOK
  <2>3. PICK v \in Workers : \E p \in Nat : Starting(w, v, p)
    BY <1>3 DEF Begins
  <2>2. /\ At(w) = "call" /\ At(w)' = "call"
        /\ \A u \in Threads \ {w} : At(u)' = At(u) /\ Top(u)' = Top(u)
    <3>1. At(w) = "call" /\ w \in Threads
      BY <2>1 DEF At, Threads
    <3> QED BY <2>3, <3>1, AtStart
  <2>4. w \in Threads
    BY DEF Threads
  <2> QED BY <1>1, <2>2, <2>4, QuietKeeps DEF Locked, Holding, Snapped
<1>4. CASE IdleCheck(w) \/ WaitOver(w)
  BY <1>2, <1>4 DEF IdleCheck, WaitOver
<1> QED BY <1>2, <1>3, <1>4, ScanOwnStep, StealStep DEF WorkerStep

LEMMA CallsKeepPool ==
  ASSUME TypeOK, TypeOK', PoolOK, NEW th \in Threads,
         \/ BodyEnds(th) \/ Throw(th) \/ EnsureInit(th) \/ Snapshot(th) \/ Submit(th)
         \/ AwaitDone(th) \/ AwaitSnapshot(th) \/ HelpSeed(th) \/ Help(th)
         \/ Detach(th) \/ BadPool(th)
  PROVE  PoolOK'
<1>1. UNCHANGED <<gpool, alive, lifecycle>>
  BY DEF BodyEnds, Throw, EnsureInit, Snapshot, Submit, AwaitDone, AwaitSnapshot, HelpSeed, Help,
         Detach, BadPool, poolVars
<1>2. CASE BodyEnds(th)
  <2>1. At(th) = "call"
    <3>1. stack[th] # << >> /\ Returned(Top(th))
      BY <1>2 DEF BodyEnds
    <3>2. Top(th) \in Frames /\ FrameOK(prog[Top(th).body], Top(th))
      BY <3>1, TopFacts
    <3>3. Top(th).pc \in Nat /\ prog[Top(th).body] \in Seq(Calls)
      BY <3>2, ProgType DEF Frames, TypeOK
    <3>4. Top(th).at = "call"
      BY <3>1, <3>2, <3>3 DEF Returned, FrameOK
    <3> QED BY <3>4 DEF At
  <2>2. At(th)' = "call" /\ \A u \in Threads \ {th} : At(u)' = At(u) /\ Top(u)' = Top(u)
    BY <1>2, EndsStep, AtEnd
  <2> QED BY <1>1, <2>1, <2>2, QuietKeeps DEF Locked, Holding, Snapped
<1>3. CASE BadPool(th)
  BY <1>1, <1>3, StackSameKeeps DEF BadPool
<1>4. CASE Help(th)
  <2>1. stack[th] # << >> /\ At(th) = "help" /\ Top(th).pool = alive
    BY <1>4, AtIn DEF Help, In
  <2>2. gpool # 0
    BY <2>1 DEF PoolOK, Holding
  <2>3. CASE Begins(th)
    <3>1. At(th)' = "call" /\ \A u \in Threads \ {th} : At(u)' = At(u) /\ Top(u)' = Top(u)
      BY <2>3, AtStart DEF Begins
    <3> QED BY <1>1, <2>1, <3>1, QuietKeeps DEF Locked, Holding, Snapped
  <2>4. CASE ~Begins(th)
    <3>1. PICK g \in Frames : SetTop(th, g) /\ (g.at # "call" => g.at = "help" /\ g.pool = Top(th).pool)
      BY <1>4, <2>4, HelpStep
    <3> QED BY <1>1, <2>1, <2>2, <3>1, QuietSetTop DEF Locked, Holding, Snapped
  <2> QED BY <2>3, <2>4
<1>5. CASE Throw(th) \/ Submit(th) \/ Detach(th) \/ AwaitDone(th)
  <2>1. stack[th] # << >> /\ At(th) \in {"call", "submit"}
    BY <1>5, AtIn DEF Throw, Submit, Detach, AwaitDone, In
  <2>2. \E f : SetTop(th, f) /\ f.at = "call"
    <3>1. NextCall(Top(th)).at = "call" /\ Unwind(Top(th)).at = "call"
      BY DEF NextCall, Unwind, Frame
    <3>2. CASE Throw(th) \/ Submit(th) \/ Detach(th)
      BY <3>1, <3>2 DEF Throw, Submit, Detach
    <3>3. CASE AwaitDone(th)
      <4> DEFINE g == Top(th)
                 onward == [g EXCEPT !.k = @ + 1, !.first = g.first \/ Waited(g) \in threw]
      <4>1. g \in Frames /\ g.at = "call"
        BY <3>3, InFacts DEF AwaitDone
      <4>2. SetTop(th, onward) \/ SetTop(th, NextCall(g)) \/ SetTop(th, Unwind(g))
        BY <3>3 DEF AwaitDone
      <4>3. onward.at = "call"
        <5> HIDE DEF g
        <5> QED BY <4>1 DEF Frames
      <4> HIDE DEF onward
      <4> QED BY <3>1, <4>2, <4>3
    <3> QED BY <1>5, <3>2, <3>3
  <2> QED BY <1>1, <2>1, <2>2, QuietSetTop DEF Locked, Holding, Snapped
<1>6. CASE EnsureInit(th)
  <2>1. stack[th] # << >> /\ At(th) = "call" /\ Goto(th, IF gpool # 0 THEN "snap" ELSE "lock")
    BY <1>6, AtIn DEF EnsureInit, In
  <2>2. Top(th) \in Frames
    BY <2>1, TopFacts
  <2>3. \E f : SetTop(th, f) /\ f.at = IF gpool # 0 THEN "snap" ELSE "lock"
    BY <2>1, <2>2 DEF Goto, Frames
  <2> QED BY <1>1, <2>1, <2>3, QuietSetTop DEF Locked, Holding, Snapped
<1>7. CASE Snapshot(th) \/ AwaitSnapshot(th) \/ HelpSeed(th)
  <2>1. stack[th] # << >> /\ At(th) \in {"snap", "call", "seed"} /\ (At(th) = "call" => gpool # 0)
    BY <1>7, AtIn DEF Snapshot, AwaitSnapshot, HelpSeed, In
  <2>2. gpool # 0 /\ gpool = alive
    BY <2>1 DEF PoolOK, Holding
  <2>3. Top(th) \in Frames
    BY <2>1, TopFacts
  <2>4. \E f : SetTop(th, f) /\ f.at \in Snapped /\ f.pool = alive
    <3> DEFINE g == Top(th)
               submit == [g EXCEPT !.at = "submit", !.pool = gpool]
               seed == [g EXCEPT !.at = "seed", !.pool = gpool]
               help == [g EXCEPT !.at = "help", !.victims = Rotation(counter)]
    <3>1. /\ submit.at = "submit" /\ submit.pool = gpool /\ seed.at = "seed" /\ seed.pool = gpool
          /\ help.at = "help" /\ help.pool = g.pool
      <4>1. g \in Frames
        BY <2>3
      <4> HIDE DEF g
      <4> QED BY <4>1 DEF Frames
    <3>5. HelpSeed(th) => g.pool = alive
      BY DEF HelpSeed
    <3>6. SetTop(th, submit) \/ SetTop(th, seed) \/ (SetTop(th, help) /\ HelpSeed(th))
      BY <1>7 DEF Snapshot, AwaitSnapshot, HelpSeed
    <3> HIDE DEF g, submit, seed, help
    <3> QED BY <2>2, <3>1, <3>5, <3>6 DEF Snapped, Holding
  <2> QED BY <1>1, <2>1, <2>2, <2>4, QuietSetTop DEF Locked, Holding, Snapped
<1> QED BY <1>2, <1>3, <1>4, <1>5, <1>6, <1>7

LEMMA LifecycleKeepsPool ==
  ASSUME TypeOK, PoolOK, QuietStop', NEW th \in Threads,
         \/ EnsureInitLocked(th) \/ Lifecycle(th) \/ StopFlag(th)
         \/ StopJoin(th) \/ DoInitStart(th) \/ DoInitPublish(th)
  PROVE  PoolOK'
<1>1. stack[th] # << >> /\ Top(th) \in Frames
  <2>1. stack[th] # << >>
    BY DEF EnsureInitLocked, Lifecycle, StopFlag, StopJoin, DoInitStart, DoInitPublish, In
  <2> QED BY <2>1, TopFacts
<1>2. ASSUME NEW at, Goto(th, at)
      PROVE  At(th)' = at /\ \A u \in Threads \ {th} : At(u)' = At(u) /\ Top(u)' = Top(u)
  <2>1. [Top(th) EXCEPT !.at = at].at = at
    BY <1>1 DEF Frames
  <2> QED BY <1>1, <1>2, <2>1, AtSetTop DEF Goto
<1>3. ASSUME SetTop(th, NextCall(Top(th)))
      PROVE  At(th)' = "call" /\ \A u \in Threads \ {th} : At(u)' = At(u) /\ Top(u)' = Top(u)
  <2>1. NextCall(Top(th)).at = "call"
    BY DEF NextCall, Frame
  <2> QED BY <1>1, <1>3, <2>1, AtSetTop
<1>4. CASE EnsureInitLocked(th)
  <2>1. At(th) = "lock" /\ lifecycle = {} /\ UNCHANGED <<gpool, alive>>
    BY <1>4, AtIn DEF EnsureInitLocked
  <2>2. CASE gpool # 0
    <3>1. Goto(th, "snap") /\ lifecycle' = lifecycle
      BY <1>4, <2>2 DEF EnsureInitLocked
    <3>2. At(th)' = "snap" /\ \A u \in Threads \ {th} : At(u)' = At(u) /\ Top(u)' = Top(u)
      BY <1>2, <3>1
    <3> QED BY <2>1, <2>2, <3>1, <3>2, QuietKeeps DEF Locked, Snapped
  <2>3. CASE gpool = 0
    <3>1. Goto(th, "start") /\ lifecycle' = {th} /\ gpool' = 0
      BY <1>4, <2>1, <2>3 DEF EnsureInitLocked
    <3>2. At(th)' = "start" /\ \A u \in Threads \ {th} : At(u)' = At(u) /\ Top(u)' = Top(u)
      BY <1>2, <3>1
    <3> QED BY <2>1, <2>3, <3>1, <3>2, HolderComes DEF Locked
  <2> QED BY <2>2, <2>3
<1>5. CASE Lifecycle(th)
  <2>1. At(th) = "call" /\ lifecycle = {} /\ alive' = alive
    BY <1>5, AtIn DEF Lifecycle
  <2>2. CASE gpool # 0
    <3>1. Goto(th, "stop") /\ lifecycle' = {th} /\ gpool' = 0
      BY <1>5, <2>2 DEF Lifecycle
    <3>2. At(th)' = "stop" /\ \A u \in Threads \ {th} : At(u)' = At(u) /\ Top(u)' = Top(u)
      BY <1>2, <3>1
    <3>3. \A u \in Threads : At(u)' \notin Holding
      BY <3>2 DEF QuietStop
    <3> QED BY <2>1, <3>1, <3>2, <3>3, HolderComes DEF Locked
  <2>3. CASE gpool = 0 /\ SetTop(th, NextCall(Top(th))) /\ UNCHANGED <<gpool, lifecycle>>
    <3>1. At(th)' = "call" /\ \A u \in Threads \ {th} : At(u)' = At(u) /\ Top(u)' = Top(u)
      BY <1>3, <2>3
    <3> QED BY <2>1, <2>3, <3>1, QuietKeeps DEF Locked, Holding, Snapped
  <2>4. CASE gpool = 0 /\ Goto(th, "start") /\ lifecycle' = {th} /\ gpool' = gpool
    <3>1. At(th)' = "start" /\ \A u \in Threads \ {th} : At(u)' = At(u) /\ Top(u)' = Top(u)
      BY <1>2, <2>4
    <3> QED BY <2>1, <2>4, <3>1, HolderComes DEF Locked
  <2> QED BY <1>5, <2>2, <2>3, <2>4 DEF Lifecycle
<1>6. CASE StopFlag(th)
  <2>1. At(th) = "stop" /\ Goto(th, "join") /\ UNCHANGED <<gpool, lifecycle>>
    BY <1>6, AtIn DEF StopFlag
  <2>2. At(th)' = "join" /\ \A u \in Threads \ {th} : At(u)' = At(u) /\ Top(u)' = Top(u)
    BY <1>2, <2>1
  <2> QED BY <2>1, <2>2, HolderMoves DEF Locked
<1>7. CASE StopJoin(th)
  <2>1. At(th) = "join" /\ alive' = 0 /\ gpool' = gpool
    BY <1>7, AtIn DEF StopJoin
  <2>2. CASE Goto(th, "start") /\ lifecycle' = lifecycle
    <3>1. At(th)' = "start" /\ \A u \in Threads \ {th} : At(u)' = At(u) /\ Top(u)' = Top(u)
      BY <1>2, <2>2
    <3> QED BY <2>1, <2>2, <3>1, HolderMoves DEF Locked
  <2>3. CASE SetTop(th, NextCall(Top(th))) /\ lifecycle' = {}
    <3>1. At(th)' = "call" /\ \A u \in Threads \ {th} : At(u)' = At(u) /\ Top(u)' = Top(u)
      BY <1>3, <2>3
    <3>2. gpool' = 0
      BY <2>1 DEF PoolOK, Locked
    <3> QED BY <2>1, <2>3, <3>1, <3>2, HolderLeaves DEF Locked, Snapped, Holding
  <2> QED BY <1>7, <2>2, <2>3 DEF StopJoin
<1>8. CASE DoInitStart(th)
  <2>1. /\ At(th) = "start" /\ Goto(th, "publish") /\ UNCHANGED <<gpool, lifecycle>>
        /\ alive' = born + 1
    BY <1>8, AtIn DEF DoInitStart
  <2>2. At(th)' = "publish" /\ \A u \in Threads \ {th} : At(u)' = At(u) /\ Top(u)' = Top(u)
    BY <1>2, <2>1
  <2>3. alive' # 0
    BY <2>1 DEF TypeOK
  <2> QED BY <2>1, <2>2, <2>3, HolderMoves DEF Locked
<1>9. CASE DoInitPublish(th)
  <2>1. At(th) = "publish" /\ gpool' = alive /\ lifecycle' = {} /\ alive' = alive
    BY <1>9, AtIn DEF DoInitPublish
  <2>2. gpool' # 0
    BY <2>1 DEF PoolOK
  <2>3. /\ At(th)' \in {"snap", "call"}
        /\ \A u \in Threads \ {th} : At(u)' = At(u) /\ Top(u)' = Top(u)
    <3>1. Goto(th, "snap") \/ SetTop(th, NextCall(Top(th)))
      BY <1>9 DEF DoInitPublish
    <3> QED BY <1>2, <1>3, <3>1
  <2> QED BY <2>1, <2>2, <2>3, HolderLeaves DEF Locked, Snapped, Holding
<1> QED BY <1>4, <1>5, <1>6, <1>7, <1>8, <1>9

LEMMA PoolKept ==
  ASSUME TypeOK, TypeOK', PoolOK, QuietStop', NEW th \in Threads, ThreadStep(th), fault = {}
  PROVE  PoolOK' /\ fault' = {}
<1>1. PoolOK'
  BY WorkerKeepsPool, CallsKeepPool, LifecycleKeepsPool DEF ThreadStep, BodyStep
<1>2. ~BadPool(th)
  <2>1. SUFFICES ASSUME BadPool(th) PROVE FALSE
    OBVIOUS
  <2>2. At(th) \in Snapped
    BY <2>1, AtIn DEF BadPool, Snapped, Holding
  <2>3. stack[th] # << >>
    BY <2>2 DEF At, Snapped, Holding
  <2>4. gpool # 0 /\ Top(th).pool = alive
    BY <2>2 DEF PoolOK, Snapped
  <2>5. gpool = alive
    BY <2>4 DEF PoolOK
  <2> QED BY <2>1, <2>4, <2>5 DEF BadPool
<1>3. fault' = fault
  BY <1>2 DEF ThreadStep, WorkerStep, BodyStep, ScanOwn, Steal, IdleCheck, WaitOver, BodyEnds, Throw,
         EnsureInit, EnsureInitLocked, Snapshot, Submit, AwaitDone, AwaitSnapshot, HelpSeed, Help,
         Detach, Lifecycle, StopFlag, StopJoin, DoInitStart, DoInitPublish
<1> QED BY <1>1, <1>3

LEMMA PoolInit ==
  ASSUME Init
  PROVE  PoolOK
<1>1. \A th \in Threads : At(th) = "call"
  <2>1. \A th \in Threads :
          stack[th] = IF th \in Clients /\ prog[th] # << >> THEN <<Frame(th)>> ELSE << >>
    BY DEF Init
  <2>2. ASSUME NEW th \in Threads, stack[th] # << >> PROVE Top(th) = Frame(th)
    <3> DEFINE fr == Frame(th)
    <3>1. stack[th] = <<fr>>
      BY <2>1, <2>2
    <3> HIDE DEF fr
    <3>2. Head(<<fr>>) = fr
      OBVIOUS
    <3> QED BY <3>1, <3>2 DEF Top, fr
  <2> QED BY <2>2 DEF At, Frame
<1> QED BY <1>1 DEF Init, PoolOK, Locked, Holding, Snapped

(***************************************************************************)
(* If nobody is between his load of g_pool and his use of it while the     *)
(* pool is stopped, no null and no deleted pool is used: the g_pool a      *)
(* spawn reads after ensure_init is not null, and the pool an awaiter took *)
(* a snapshot of outlives its helping, however init, shutdown and the lazy *)
(* init of several clients follow.  Tasks may be left in the queues.       *)
(***************************************************************************)
THEOREM UsesEndFirst == Spec => PoolOutlivesUses
<1>1. Init => PoolOK /\ PoolValid
  BY PoolInit DEF Init, PoolValid
<1>2. TypeOK /\ PoolOK /\ PoolValid /\ QuietStop' /\ [Next]_vars => (PoolOK /\ PoolValid)'
  <2> SUFFICES ASSUME TypeOK, PoolOK, PoolValid, QuietStop', [Next]_vars
               PROVE  PoolOK' /\ PoolValid'
    OBVIOUS
  <2>1. TypeOK'
    BY TypeNext
  <2>2. CASE UNCHANGED vars
    BY <2>2, StackSameKeeps DEF PoolValid, vars, poolVars
  <2>3. CASE fault = {} /\ \E th \in Threads : ThreadStep(th)
    BY <2>1, <2>3, PoolKept DEF PoolValid
  <2> QED BY <2>2, <2>3, NextSteps
<1> QED BY <1>1, <1>2, PoolTypeCorrect, PTL DEF Spec, PoolOutlivesUses

-----------------------------------------------------------------------------
(***************************************************************************)
(* What is published, whenever the pool is stopped.  A thread inside       *)
(* do_init, init or shutdown holds the lifecycle mutex alone, with g_pool  *)
(* null; the pool it is about to publish runs.                             *)
(***************************************************************************)
Runs == ~flag /\ \A w \in Workers : loc[w] \notin {"none", "exited"}

LifeOK ==
  /\ \A th \in Threads : At(th) \in Locked => lifecycle = {th}
  /\ lifecycle # {} => gpool = 0
  /\ \A th \in Threads : At(th) = "publish" => Runs
  /\ gpool # 0 => gpool = alive /\ Runs

\* A step outside the lifecycle functions.
LEMMA LifeQuiet ==
  ASSUME LifeOK, UNCHANGED <<gpool, alive, lifecycle>>, Runs => Runs',
         \A u \in Threads : At(u)' \in Locked => At(u)' = At(u)
  PROVE  LifeOK'
<1>1. \A u \in Threads : At(u)' \in Locked => lifecycle' = {u}
  BY DEF LifeOK
<1>2. \A u \in Threads : At(u)' = "publish" => Runs'
  BY DEF LifeOK, Locked
<1>3. (lifecycle' # {} => gpool' = 0) /\ (gpool' # 0 => gpool' = alive' /\ Runs')
  BY DEF LifeOK
<1> QED BY <1>1, <1>2, <1>3 DEF LifeOK

\* A thread takes the mutex when nobody has it,
LEMMA LifeComes ==
  ASSUME LifeOK, lifecycle = {}, NEW th \in Threads, lifecycle' = {th}, gpool' = 0,
         \A u \in Threads \ {th} : At(u)' = At(u), At(th)' # "publish"
  PROVE  LifeOK'
<1>1. \A u \in Threads : At(u) \notin Locked
  BY DEF LifeOK
<1>2. \A u \in Threads \ {th} : At(u)' \notin Locked
  BY <1>1
<1>3. \A u \in Threads : At(u)' # "publish"
  BY <1>2 DEF Locked
<1> QED BY <1>2, <1>3 DEF LifeOK

\* goes on under it,
LEMMA LifeMoves ==
  ASSUME LifeOK, UNCHANGED <<gpool, lifecycle>>, NEW th \in Threads,
         \A u \in Threads \ {th} : At(u)' = At(u),
         At(th) \in Locked, At(th)' = "publish" => Runs'
  PROVE  LifeOK'
<1>1. lifecycle = {th} /\ gpool = 0
  BY DEF LifeOK
<1>2. \A u \in Threads \ {th} : At(u) \notin Locked
  BY <1>1 DEF LifeOK
<1>3. \A u \in Threads \ {th} : At(u)' \notin Locked
  BY <1>2
<1>4. \A u \in Threads : At(u)' = "publish" => Runs'
  BY <1>3 DEF Locked
<1> QED BY <1>1, <1>3, <1>4 DEF LifeOK

\* and releases it.
LEMMA LifeLeaves ==
  ASSUME LifeOK, lifecycle' = {}, NEW th \in Threads,
         \A u \in Threads \ {th} : At(u)' = At(u),
         At(th) \in Locked, At(th)' \notin Locked, gpool' # 0 => gpool' = alive' /\ Runs'
  PROVE  LifeOK'
<1>1. lifecycle = {th}
  BY DEF LifeOK
<1>2. \A u \in Threads : At(u)' \notin Locked
  BY <1>1 DEF LifeOK
<1> QED BY <1>2 DEF LifeOK, Locked

LEMMA WorkerKeepsLife ==
  ASSUME TypeOK, TypeOK', LifeOK, NEW w \in Workers, WorkerStep(w)
  PROVE  LifeOK'
<1>1. UNCHANGED <<gpool, alive, lifecycle, flag>>
  BY DEF WorkerStep, ScanOwn, Steal, IdleCheck, WaitOver, poolVars
<1>2. Runs => Runs'
  <2>1. SUFFICES ASSUME Runs PROVE Runs'
    OBVIOUS
  <2>2. ASSUME NEW v \in Workers PROVE loc'[v] \notin {"none", "exited"}
    <3>1. loc[v] \notin {"none", "exited"} /\ ~flag
      BY <2>1 DEF Runs
    <3>2. loc \in [Workers -> Locs]
      BY DEF TypeOK
    <3>3. CASE UNCHANGED loc
      BY <3>1, <3>3
    <3>4. CASE \E x \in {"own", "steal", "idle", "wait"} : loc' = [loc EXCEPT ![w] = x]
      BY <3>1, <3>2, <3>4
    <3> QED BY <3>1, <3>3, <3>4 DEF WorkerStep, ScanOwn, Steal, IdleCheck, WaitOver, scanVars
  <2> QED BY <1>1, <2>1, <2>2 DEF Runs
<1>3. w \in Threads
  BY DEF Threads
<1>4. \A u \in Threads : At(u)' \in Locked => At(u)' = At(u)
  <2>1. CASE UNCHANGED stack
    BY <2>1 DEF At, Top
  <2>2. CASE Begins(w)
    <3>1. PICK v \in Workers : \E p \in Nat : Starting(w, v, p)
      BY <2>2 DEF Begins
    <3>2. At(w)' = "call" /\ \A u \in Threads \ {w} : At(u)' = At(u)
      BY <1>3, <3>1, AtStart
    <3> QED BY <3>2 DEF Locked
  <2>3. CASE IdleCheck(w) \/ WaitOver(w)
    BY <2>1, <2>3 DEF IdleCheck, WaitOver
  <2> QED BY <2>1, <2>2, <2>3, ScanOwnStep, StealStep DEF WorkerStep
<1> QED BY <1>1, <1>2, <1>4, LifeQuiet

LEMMA CallsKeepLife ==
  ASSUME TypeOK, TypeOK', LifeOK, NEW th \in Threads,
         \/ BodyEnds(th) \/ Throw(th) \/ EnsureInit(th) \/ Snapshot(th) \/ Submit(th)
         \/ AwaitDone(th) \/ AwaitSnapshot(th) \/ HelpSeed(th) \/ Help(th)
         \/ Detach(th) \/ BadPool(th)
  PROVE  LifeOK'
<1>1. UNCHANGED <<gpool, alive, lifecycle, flag, loc>>
  BY DEF BodyEnds, Throw, EnsureInit, Snapshot, Submit, AwaitDone, AwaitSnapshot, HelpSeed, Help,
         Detach, BadPool, poolVars, scanVars
<1>2. SUFFICES \A u \in Threads : At(u)' \in Locked => At(u)' = At(u)
  BY <1>1, LifeQuiet DEF Runs
<1>3. CASE UNCHANGED stack
  BY <1>3 DEF At, Top
<1>4. CASE BodyEnds(th) \/ Begins(th)
  <2>1. At(th)' = "call" /\ \A u \in Threads \ {th} : At(u)' = At(u)
    BY <1>4, EndsStep, AtEnd, AtStart DEF Begins
  <2> QED BY <2>1 DEF Locked
<1>5. CASE stack[th] # << >> /\ \E f : SetTop(th, f) /\ f.at \notin Locked
  <2>1. At(th)' \notin Locked /\ \A u \in Threads \ {th} : At(u)' = At(u)
    BY <1>5, AtSetTop
  <2> QED BY <2>1
<1>6. CASE Help(th) /\ ~Begins(th)
  <2>1. \E f : SetTop(th, f) /\ f.at \in {"call", "help"}
    BY <1>6, HelpStep
  <2>2. stack[th] # << >>
    BY <1>6 DEF Help, In
  <2> QED BY <1>5, <2>1, <2>2 DEF Locked
<1>7. CASE Throw(th) \/ Submit(th) \/ Detach(th) \/ AwaitDone(th)
  <2>1. stack[th] # << >>
    BY <1>7 DEF Throw, Submit, Detach, AwaitDone, In
  <2>2. \E f : SetTop(th, f) /\ f.at = "call"
    <3>1. NextCall(Top(th)).at = "call" /\ Unwind(Top(th)).at = "call"
      BY DEF NextCall, Unwind, Frame
    <3>2. CASE Throw(th) \/ Submit(th) \/ Detach(th)
      BY <3>1, <3>2 DEF Throw, Submit, Detach
    <3>3. CASE AwaitDone(th)
      <4> DEFINE g == Top(th)
                 onward == [g EXCEPT !.k = @ + 1, !.first = g.first \/ Waited(g) \in threw]
      <4>1. g \in Frames /\ g.at = "call"
        BY <3>3, InFacts DEF AwaitDone
      <4>2. SetTop(th, onward) \/ SetTop(th, NextCall(g)) \/ SetTop(th, Unwind(g))
        BY <3>3 DEF AwaitDone
      <4>3. onward.at = "call"
        <5> HIDE DEF g
        <5> QED BY <4>1 DEF Frames
      <4> HIDE DEF onward
      <4> QED BY <3>1, <4>2, <4>3
    <3> QED BY <1>7, <3>2, <3>3
  <2> QED BY <1>5, <2>1, <2>2 DEF Locked
<1>8. CASE EnsureInit(th) \/ Snapshot(th) \/ AwaitSnapshot(th) \/ HelpSeed(th)
  <2>1. stack[th] # << >>
    BY <1>8 DEF EnsureInit, Snapshot, AwaitSnapshot, HelpSeed, In
  <2>2. \E f : SetTop(th, f) /\ f.at \in {"snap", "lock", "submit", "seed", "help"}
    <3> DEFINE g == Top(th)
               to(at) == [g EXCEPT !.at = at]
               submit == [g EXCEPT !.at = "submit", !.pool = gpool]
               seed == [g EXCEPT !.at = "seed", !.pool = gpool]
               help == [g EXCEPT !.at = "help", !.victims = Rotation(counter)]
    <3>1. /\ to("snap").at = "snap" /\ to("lock").at = "lock"
          /\ submit.at = "submit" /\ seed.at = "seed" /\ help.at = "help"
      <4>1. g \in Frames
        BY <2>1, TopFacts
      <4> HIDE DEF g
      <4> QED BY <4>1 DEF Frames
    <3>2. \/ SetTop(th, to("snap")) \/ SetTop(th, to("lock"))
          \/ SetTop(th, submit) \/ SetTop(th, seed) \/ SetTop(th, help)
      BY <1>8 DEF EnsureInit, Snapshot, AwaitSnapshot, HelpSeed, Goto
    <3> HIDE DEF g, to, submit, seed, help
    <3> QED BY <3>1, <3>2
  <2> QED BY <1>5, <2>1, <2>2 DEF Locked
<1> QED BY <1>3, <1>4, <1>6, <1>7, <1>8 DEF BadPool

LEMMA LifecycleKeepsLife ==
  ASSUME TypeOK, LifeOK, NEW th \in Threads,
         \/ EnsureInitLocked(th) \/ Lifecycle(th) \/ StopFlag(th)
         \/ StopJoin(th) \/ DoInitStart(th) \/ DoInitPublish(th)
  PROVE  LifeOK'
<1>1. stack[th] # << >> /\ Top(th) \in Frames
  <2>1. stack[th] # << >>
    BY DEF EnsureInitLocked, Lifecycle, StopFlag, StopJoin, DoInitStart, DoInitPublish, In
  <2> QED BY <2>1, TopFacts
<1>2. ASSUME NEW at, Goto(th, at)
      PROVE  At(th)' = at /\ \A u \in Threads \ {th} : At(u)' = At(u)
  <2>1. [Top(th) EXCEPT !.at = at].at = at
    BY <1>1 DEF Frames
  <2> QED BY <1>1, <1>2, <2>1, AtSetTop DEF Goto
<1>3. ASSUME SetTop(th, NextCall(Top(th)))
      PROVE  At(th)' = "call" /\ \A u \in Threads \ {th} : At(u)' = At(u)
  <2>1. NextCall(Top(th)).at = "call"
    BY DEF NextCall, Frame
  <2> QED BY <1>1, <1>3, <2>1, AtSetTop
<1>4. CASE EnsureInitLocked(th)
  <2>1. UNCHANGED <<gpool, alive, flag, loc>> /\ lifecycle = {}
    BY <1>4 DEF EnsureInitLocked, scanVars
  <2>2. CASE Goto(th, "snap") /\ UNCHANGED lifecycle
    <3>1. At(th)' = "snap" /\ \A u \in Threads \ {th} : At(u)' = At(u)
      BY <1>2, <2>2
    <3> QED BY <2>1, <2>2, <3>1, LifeQuiet DEF Locked, Runs
  <2>3. CASE gpool = 0 /\ Goto(th, "start") /\ lifecycle' = {th}
    <3>1. At(th)' = "start" /\ \A u \in Threads \ {th} : At(u)' = At(u)
      BY <1>2, <2>3
    <3> QED BY <2>1, <2>3, <3>1, LifeComes
  <2> QED BY <1>4, <2>2, <2>3 DEF EnsureInitLocked
<1>5. CASE Lifecycle(th)
  <2>1. UNCHANGED <<alive, flag, loc>> /\ lifecycle = {}
    BY <1>5 DEF Lifecycle, scanVars
  <2>2. CASE gpool' = 0 /\ lifecycle' = {th} /\ (Goto(th, "stop") \/ Goto(th, "start"))
    <3>1. At(th)' \in {"stop", "start"} /\ \A u \in Threads \ {th} : At(u)' = At(u)
      BY <1>2, <2>2
    <3> QED BY <2>1, <2>2, <3>1, LifeComes
  <2>3. CASE SetTop(th, NextCall(Top(th))) /\ UNCHANGED <<gpool, lifecycle>>
    <3>1. At(th)' = "call" /\ \A u \in Threads \ {th} : At(u)' = At(u)
      BY <1>3, <2>3
    <3> QED BY <2>1, <2>3, <3>1, LifeQuiet DEF Locked, Runs
  <2> QED BY <1>5, <2>2, <2>3 DEF Lifecycle
<1>6. CASE StopFlag(th)
  <2>1. At(th) = "stop" /\ Goto(th, "join") /\ UNCHANGED <<gpool, lifecycle>>
    BY <1>6, AtIn DEF StopFlag
  <2>2. At(th)' = "join" /\ \A u \in Threads \ {th} : At(u)' = At(u)
    BY <1>2, <2>1
  <2> QED BY <2>1, <2>2, LifeMoves DEF Locked
<1>7. CASE StopJoin(th)
  <2>1. At(th) = "join" /\ gpool' = gpool
    BY <1>7, AtIn DEF StopJoin
  <2>2. CASE Goto(th, "start") /\ UNCHANGED lifecycle
    <3>1. At(th)' = "start" /\ \A u \in Threads \ {th} : At(u)' = At(u)
      BY <1>2, <2>2
    <3> QED BY <2>1, <2>2, <3>1, LifeMoves DEF Locked
  <2>3. CASE SetTop(th, NextCall(Top(th))) /\ lifecycle' = {}
    <3>1. At(th)' = "call" /\ \A u \in Threads \ {th} : At(u)' = At(u)
      BY <1>3, <2>3
    <3>2. gpool' = 0
      BY <2>1 DEF LifeOK, Locked
    <3> QED BY <2>1, <2>3, <3>1, <3>2, LifeLeaves DEF Locked
  <2> QED BY <1>7, <2>2, <2>3 DEF StopJoin
<1>8. CASE DoInitStart(th)
  <2>1. At(th) = "start" /\ Goto(th, "publish") /\ UNCHANGED <<gpool, lifecycle>>
    BY <1>8, AtIn DEF DoInitStart
  <2>2. At(th)' = "publish" /\ \A u \in Threads \ {th} : At(u)' = At(u)
    BY <1>2, <2>1
  <2>3. Runs'
    BY <1>8 DEF DoInitStart, Runs
  <2> QED BY <2>1, <2>2, <2>3, LifeMoves DEF Locked
<1>9. CASE DoInitPublish(th)
  <2>1. At(th) = "publish" /\ gpool' = alive /\ lifecycle' = {} /\ UNCHANGED <<alive, flag, loc>>
    BY <1>9, AtIn DEF DoInitPublish, scanVars
  <2>2. Runs'
    BY <2>1 DEF LifeOK, Runs
  <2>3. At(th)' \in {"snap", "call"} /\ \A u \in Threads \ {th} : At(u)' = At(u)
    <3>1. Goto(th, "snap") \/ SetTop(th, NextCall(Top(th)))
      BY <1>9 DEF DoInitPublish
    <3> QED BY <1>2, <1>3, <3>1
  <2> QED BY <2>1, <2>2, <2>3, LifeLeaves DEF Locked
<1> QED BY <1>4, <1>5, <1>6, <1>7, <1>8, <1>9

(***************************************************************************)
(* A published pool is the one that exists, started, with its workers in   *)
(* their loop: no order of lazy initialisation, init and shutdown exposes  *)
(* one that is not started yet or is being stopped or deleted.             *)
(***************************************************************************)
THEOREM PublishedPoolRuns == Spec => []PublishedRuns
<1>1. Init => LifeOK
  <2> SUFFICES ASSUME Init PROVE LifeOK
    OBVIOUS
  <2>1. PoolOK /\ gpool = 0 /\ lifecycle = {}
    BY PoolInit DEF Init
  <2>2. \A th \in Threads : At(th) \notin Locked
    BY <2>1 DEF PoolOK
  <2> QED BY <2>1, <2>2 DEF LifeOK, Locked
<1>2. TypeOK /\ LifeOK /\ [Next]_vars => LifeOK'
  <2> SUFFICES ASSUME TypeOK, LifeOK, [Next]_vars PROVE LifeOK'
    OBVIOUS
  <2>1. TypeOK'
    BY TypeNext
  <2>2. CASE UNCHANGED vars
    BY <2>2 DEF LifeOK, Runs, At, Top, vars, poolVars, scanVars
  <2>3. CASE \E th \in Threads : ThreadStep(th)
    BY <2>1, <2>3, WorkerKeepsLife, CallsKeepLife, LifecycleKeepsLife DEF ThreadStep, BodyStep
  <2> QED BY <2>2, <2>3, NextSteps
<1>3. LifeOK => PublishedRuns
  BY DEF LifeOK, Runs, PublishedRuns
<1> QED BY <1>1, <1>2, <1>3, PoolTypeCorrect, PTL DEF Spec

(***************************************************************************)
(* Neither g_pool nor a handle dangles, whatever the clients call.  (A     *)
(* pool loaded a while ago may: UsesEndFirst says when it does not.)       *)
(***************************************************************************)
THEOREM NothingIsDangling == Spec => []NothingDangles
BY PublishedPoolRuns, HandlesOutliveUses, PTL DEF NothingDangles

-----------------------------------------------------------------------------
(***************************************************************************)
(* Programs that stop the pool in order.  A body awaits before its call n  *)
(* every task it spawned before that call.                                 *)
(***************************************************************************)
Awaited(calls, n) ==
  \A i \in 1 .. Len(calls) : i < n /\ calls[i].op = "spawn" =>
    \E j \in 1 .. Len(calls) : \E k \in DOMAIN calls[j].tasks :
      j < n /\ calls[j].op = "await" /\ calls[j].tasks[k] = calls[i].tasks[1]

\* Fork and join under one client: a body, however it ends, has awaited what
\* it spawned, and so has the client whenever it stops the pool.
ForkJoins(p) ==
  /\ \E c \in Clients : \A d \in Clients \ {c} : p[d] = << >>
  /\ \A b \in Bodies : \A n \in 1 .. Len(p[b]) :
       p[b][n].op \in {"init", "shutdown"} => Awaited(p[b], n)
  /\ \A t \in Tasks :
       /\ Awaited(p[t], Len(p[t]) + 1)
       /\ \A n \in 1 .. Len(p[t]) : /\ p[t][n].op = "throw" => Awaited(p[t], n)
                                    /\ p[t][n].op = "await" => Awaited(p[t], n + 1)
  /\ \E rank \in [Tasks -> Nat] : \A t \in Tasks : \A n \in 1 .. Len(p[t]) :
       p[t][n].op = "spawn" => rank[t] < rank[p[t][n].tasks[1]]

NeverStops(p) == \A b \in Bodies : \A n \in 1 .. Len(p[b]) : p[b][n].op \notin {"init", "shutdown"}

StopsInOrder(p) == NeverStops(p) \/ ForkJoins(p)

ChildrenDone(b) ==
  \A i \in 1 .. Len(prog[b]) :
    prog[b][i].op = "spawn" /\ prog[b][i].tasks[1] \in spawned => prog[b][i].tasks[1] \in done

\* A frame has awaited up to where it is; a body that returned has no child left.
PointOK(f) == f.at \in {"stop", "join"} => Call(f).op \in {"init", "shutdown"}
Reached(f) ==
  \A j \in 1 .. Len(prog[f.body]) : \A k \in DOMAIN prog[f.body][j].tasks :
    prog[f.body][j].op = "await" /\ (j < f.pc \/ (j = f.pc /\ k < f.k)) => prog[f.body][j].tasks[k] \in done
Unwound(f) == Returned(f) /\ (f.body \in Tasks => ChildrenDone(f.body))
Joins(f)   == PointOK(f) /\ (ForkJoins(prog) => Reached(f) \/ Unwound(f))

FramesJoin   == \A th \in Threads : \A i \in 1 .. Len(stack[th]) : Joins(stack[th][i])
FamiliesDone == ForkJoins(prog) => \A t \in done : ChildrenDone(t)
HaveSpawners ==
  \A t \in spawned : \E b \in Bodies : \E i \in 1 .. Len(prog[b]) :
    prog[b][i].op = "spawn" /\ prog[b][i].tasks[1] = t

JoinsOK == FramesJoin /\ FamiliesDone /\ HaveSpawners

-----------------------------------------------------------------------------
\* A body past the awaits of all it spawned has no child left.
LEMMA AwaitedDone ==
  ASSUME TypeOK, PlacesOK, NEW b \in Bodies, NEW n \in Nat, Awaited(prog[b], n),
         NEW th \in Threads, NEW l \in 1 .. Len(stack[th]), stack[th][l].body = b, stack[th][l].pc <= n,
         \A j \in 1 .. Len(prog[b]) : \A k \in DOMAIN prog[b][j].tasks :
           prog[b][j].op = "await" /\ j < n => prog[b][j].tasks[k] \in done
  PROVE  ChildrenDone(b)
<1> SUFFICES ASSUME NEW i \in 1 .. Len(prog[b]), prog[b][i].op = "spawn",
                    prog[b][i].tasks[1] \in spawned
             PROVE  prog[b][i].tasks[1] \in done
  BY DEF ChildrenDone
<1>1. Made(b, i)
  BY DEF PlacesOK, SpawnedIsMade
<1>2. stack[th][l].pc > i /\ stack[th][l].pc \in Nat /\ i \in Nat
  BY <1>1, PlaceTypes DEF Made, PlaceTyped, Frames
<1>3. i < n
  BY <1>2
<1>4. PICK j \in 1 .. Len(prog[b]) : \E k \in DOMAIN prog[b][j].tasks :
        j < n /\ prog[b][j].op = "await" /\ prog[b][j].tasks[k] = prog[b][i].tasks[1]
  BY <1>3 DEF Awaited
<1> QED BY <1>4

\* No step gives a child to a body that is done or has returned.
LEMMA ChildrenStay ==
  ASSUME TypeOK, TypeOK', PlacesOK, prog' = prog, NEW th \in Threads, StepOf(th),
         NEW b \in Bodies, ChildrenDone(b),
         \/ b \in done
         \/ \E u \in Threads : \E i \in 1 .. Len(stack[u]) : stack[u][i].body = b /\ Returned(stack[u][i])
  PROVE  ChildrenDone(b)'
<1>1. CASE spawned' = spawned /\ done \subseteq done'
  BY <1>1 DEF ChildrenDone
<1>2. CASE \E w \in Workers : \E p \in Nat : Spawning(th, w, p)
  <2>1. /\ stack[th] # << >> /\ ~Returned(Top(th)) /\ Call(Top(th)).op = "spawn" /\ done' = done
        /\ spawned' = spawned \cup {Call(Top(th)).tasks[1]}
    BY <1>2 DEF Spawning
  <2>2. /\ 1 \in 1 .. Len(stack[th]) /\ Top(th) = stack[th][1] /\ Top(th).body \in Bodies
        /\ Top(th).pc \in 1 .. Len(prog[Top(th).body])
        /\ Call(Top(th)) = prog[Top(th).body][Top(th).pc]
    BY <2>1, Runner
  <2>3. PICK c \in Bodies : c = Top(th).body
    BY <2>2
  <2>4. PICK n \in 1 .. Len(prog[c]) : n = Top(th).pc
    BY <2>2, <2>3
  <2>5. b # c
    <3>1. c \in (spawned \ done) \cup Clients
      BY <2>2, <2>3 DEF PlacesOK, Live
    <3>2. done \subseteq Tasks
      BY DEF TypeOK
    <3>3. b \in done => b # c
      BY <3>1, <3>2, PoolAssumption
    <3>4. ASSUME NEW u \in Threads, NEW i \in 1 .. Len(stack[u]), stack[u][i].body = b,
                 Returned(stack[u][i]), b = c
          PROVE  FALSE
      <4>1. u = th /\ i = 1
        BY <2>2, <2>3, <3>4 DEF PlacesOK, StackDistinct
      <4> QED BY <2>1, <2>2, <3>4, <4>1
    <3> QED BY <3>3, <3>4
  <2>6. ASSUME NEW i \in 1 .. Len(prog[b]), prog[b][i].op = "spawn"
        PROVE  prog[b][i].tasks[1] # prog[c][n].tasks[1]
    <3>1. prog[c][n].op = "spawn"
      BY <2>1, <2>2, <2>3, <2>4
    <3>2. 1 \in DOMAIN prog[b][i].tasks /\ 1 \in DOMAIN prog[c][n].tasks
      <4>1. prog[b][i] \in Calls /\ Len(prog[b][i].tasks) = 1
        BY <2>6, ProgramType DEF TypeOK
      <4>2. prog[c][n] \in Calls /\ Len(prog[c][n].tasks) = 1
        BY <3>1, ProgramType DEF TypeOK
      <4> QED BY <4>1, <4>2 DEF Calls
    <3>3. SameUse(prog[b][i].op, prog[c][n].op)
      BY <2>6, <3>1 DEF SameUse
    <3> QED BY <2>5, <3>2, <3>3, OneUse
  <2>7. Call(Top(th)) = prog[c][n]
    BY <2>2, <2>3, <2>4
  <2> QED BY <2>1, <2>6, <2>7 DEF ChildrenDone
<1>3. (spawned' = spawned /\ done \subseteq done') \/ \E w \in Workers : \E p \in Nat : Spawning(th, w, p)
  BY DEF StepOf, Calling, Clearing, Ending, Begins, Starting
<1> QED BY <1>1, <1>2, <1>3

LEMMA DoneGrows ==
  ASSUME NEW th \in Threads, StepOf(th)
  PROVE  done \subseteq done'
BY DEF StepOf, Calling, Clearing, Ending, Begins, Starting, Spawning

\* What a frame has awaited stays awaited.
LEMMA FramesKeep ==
  ASSUME TypeOK, TypeOK', PlacesOK, prog' = prog, NEW th \in Threads, StepOf(th),
         NEW u \in Threads, NEW i \in 1 .. Len(stack[u]), NEW f, f = stack[u][i], Joins(f)
  PROVE  Joins(f)'
<1>1. f.body \in Bodies
  BY PlaceTypes DEF PlaceTyped
<1>2. PointOK(f)'
  BY DEF Joins, PointOK, Call
<1>3. Reached(f) => Reached(f)'
  BY DoneGrows DEF Reached
<1>4. Unwound(f) => Unwound(f)'
  <2> SUFFICES ASSUME Unwound(f) PROVE Unwound(f)'
    OBVIOUS
  <2>1. Returned(f)'
    BY DEF Unwound, Returned
  <2>2. f.body \in Tasks => ChildrenDone(f.body)'
    <3>1. PICK b \in Bodies : b = f.body
      BY <1>1
    <3>2. b \in Tasks => ChildrenDone(b)'
      BY <3>1, ChildrenStay DEF Unwound
    <3> QED BY <3>1, <3>2 DEF ChildrenDone
  <2> QED BY <2>1, <2>2 DEF Unwound
<1> QED BY <1>2, <1>3, <1>4 DEF Joins

\* The new top frame joins if it is the old one at the same handle,
LEMMA StaysJoins ==
  ASSUME prog' = prog, NEW f, NEW g, Joins(f)', Stays(g, f), PointOK(g)
  PROVE  Joins(g)'
<1>1. Reached(f)' => Reached(g)'
  BY DEF Reached, Stays
<1>2. Unwound(f)' => Unwound(g)'
  BY DEF Unwound, Returned, ChildrenDone, Stays
<1> QED BY <1>1, <1>2 DEF Joins, PointOK, Call

\* or the call that follows one that is not an await,
LEMMA NextJoins ==
  ASSUME TypeOK, prog' = prog, NEW f \in Frames, f.body \in Bodies, f.pc \in 1 .. Len(prog[f.body]),
         Joins(f)', Call(f).op # "await"
  PROVE  Joins(NextCall(f))'
<1> DEFINE g == NextCall(f)
<1>1. g.body = f.body /\ g.pc = f.pc + 1 /\ g.k = 1 /\ g.at = "call"
  BY DEF NextCall, Frame
<1>2. ~Returned(f)' /\ f.pc \in Nat
  BY DEF Returned, Frames
<1> HIDE DEF g
<1>3. Reached(f)' => Reached(g)'
  <2> SUFFICES ASSUME Reached(f)',
                      NEW j \in 1 .. Len(prog[g.body]), NEW k \in DOMAIN prog[g.body][j].tasks,
                      prog[g.body][j].op = "await", j < g.pc \/ (j = g.pc /\ k < g.k)
               PROVE  prog[g.body][j].tasks[k] \in done'
    BY DEF Reached
  <2>1. k \in Nat \ {0} /\ j \in Nat
    <3>1. prog[f.body] \in Seq(Calls)
      BY ProgType DEF TypeOK
    <3>2. prog[f.body][j] \in Calls
      BY <1>1, <3>1
    <3> QED BY <1>1, <3>2 DEF Calls
  <2>2. j < f.pc
    <3>1. j # f.pc
      BY <1>1 DEF Call
    <3> QED BY <1>1, <1>2, <2>1, <3>1
  <2> QED BY <1>1, <2>2 DEF Reached
<1> QED BY <1>1, <1>2, <1>3 DEF Joins, PointOK, Unwound, g

\* or the next handle of an await whose handle was done; and a body that
\* unwinds from a throw or an await has no child left.
LEMMA UnwindJoins ==
  ASSUME TypeOK, PlacesOK, UNCHANGED <<prog, spawned, done>>, NEW th \in Threads, stack[th] # << >>,
         ~Returned(Top(th)), NEW n \in Nat, Top(th).pc <= n,
         ForkJoins(prog) /\ Top(th).body \in Tasks => Awaited(prog[Top(th).body], n),
         ForkJoins(prog) =>
           \A j \in 1 .. Len(prog[Top(th).body]) : \A k \in DOMAIN prog[Top(th).body][j].tasks :
             prog[Top(th).body][j].op = "await" /\ j < n => prog[Top(th).body][j].tasks[k] \in done
  PROVE  \E g \in Frames : g = Unwind(Top(th)) /\ Joins(g)'
<1>1. /\ 1 \in 1 .. Len(stack[th]) /\ Top(th) = stack[th][1] /\ Top(th) \in Frames
      /\ Top(th).body \in Bodies
  BY Runner
<1>2. FrameOK(prog[Top(th).body], Top(th)) /\ prog \in Programs
  BY <1>1, TopFacts DEF TypeOK
<1>3. PICK g \in Frames : g = Unwind(Top(th))
  BY <1>1, <1>2, CallReturns
<1>4. PICK b \in Bodies : b = Top(th).body
  BY <1>1
<1>5. g.body = b /\ g.pc = Len(prog[b]) + 1 /\ g.at = "call"
  BY <1>3, <1>4 DEF Unwind, Frame
<1>6. Returned(g)
  <2>1. Len(prog[b]) \in Nat
    BY ProgType DEF TypeOK
  <2> QED BY <1>5, <2>1 DEF Returned
<1>7. ForkJoins(prog) /\ b \in Tasks => ChildrenDone(b)
  BY <1>1, <1>4, AwaitedDone
<1>8. Unwound(g)' <=> Unwound(g)
  BY DEF Unwound, Returned, ChildrenDone
<1>9. ForkJoins(prog)' => Unwound(g)'
  BY <1>5, <1>6, <1>7, <1>8 DEF Unwound
<1>10. Joins(g)'
  BY <1>5, <1>9 DEF Joins, PointOK
<1> QED BY <1>3, <1>10

LEMMA ThrowJoins ==
  ASSUME TypeOK, PlacesOK, NEW th \in Threads, Throw(th), Joins(Top(th))
  PROVE  \E g \in Frames : SetTop(th, g) /\ Joins(g)'
<1> DEFINE f == Top(th)
<1>1. In(th, "throw", "call") /\ SetTop(th, Unwind(f)) /\ UNCHANGED <<prog, spawned, done>>
  BY DEF Throw, taskVars
<1>2. /\ stack[th] # << >> /\ f \in Frames /\ ~Returned(f)
      /\ f.pc \in 1 .. Len(prog[f.body]) /\ prog[f.body][f.pc].op = "throw"
  BY <1>1, InFacts
<1>3. f.pc \in Nat /\ f.pc <= f.pc
  BY <1>2 DEF Frames
<1>4. ForkJoins(prog) /\ f.body \in Tasks => Awaited(prog[f.body], f.pc)
  BY <1>2 DEF ForkJoins
<1>5. ForkJoins(prog) =>
        \A j \in 1 .. Len(prog[f.body]) : \A k \in DOMAIN prog[f.body][j].tasks :
          prog[f.body][j].op = "await" /\ j < f.pc => prog[f.body][j].tasks[k] \in done
  BY <1>2 DEF Joins, Unwound, Reached
<1> QED BY <1>1, <1>2, <1>3, <1>4, <1>5, UnwindJoins

LEMMA AwaitJoins ==
  ASSUME TypeOK, PlacesOK, NEW th \in Threads, AwaitDone(th), Joins(Top(th))
  PROVE  \E g \in Frames : SetTop(th, g) /\ Joins(g)'
<1>1. PICK f : f = Top(th)
  OBVIOUS
<1> DEFINE tasks == prog[f.body][f.pc].tasks
           first == f.first \/ Waited(f) \in threw
           onward == [f EXCEPT !.k = @ + 1, !.first = first]
<1>2. /\ In(th, "await", "call") /\ UNCHANGED <<prog, spawned, done>>
      /\ Waited(f) \in done
  BY <1>1 DEF AwaitDone
<1>3. \/ f.k < Len(Call(f).tasks) /\ SetTop(th, onward)
      \/ ~(f.k < Len(Call(f).tasks)) /\ (SetTop(th, NextCall(f)) \/ SetTop(th, Unwind(f)))
  BY <1>1 DEF AwaitDone
<1>4. /\ stack[th] # << >> /\ f \in Frames /\ FrameOK(prog[f.body], f) /\ ~Returned(f)
      /\ f.pc \in 1 .. Len(prog[f.body]) /\ Call(f) = prog[f.body][f.pc]
      /\ Call(f).op = "await" /\ Call(f) \in Calls
  BY <1>1, <1>2, InFacts
<1>5. /\ f.body \in Bodies /\ f.pc \in Nat /\ f.k \in Nat /\ prog[f.body] \in Seq(Calls)
      /\ tasks \in Seq(Tasks) /\ f.k \in DOMAIN tasks
  <2>1. f.body \in Bodies /\ f.pc \in Nat /\ f.k \in Nat
    BY <1>4 DEF Frames
  <2>2. tasks \in Seq(Tasks)
    BY <1>4 DEF Calls
  <2>3. f.k \in DOMAIN tasks
    BY <1>4 DEF FrameOK
  <2> QED BY <2>1, <2>2, <2>3, ProgType DEF TypeOK
<1>6. tasks[f.k] \in done
  BY <1>2, <1>4 DEF Waited
<1>7. ForkJoins(prog) => Reached(f)
  BY <1>1, <1>4 DEF Joins, Unwound
<1> HIDE DEF tasks, first
<1>8. CASE f.k < Len(Call(f).tasks) /\ SetTop(th, onward)
  <2>1. onward \in Frames
    <3>1. first \in BOOLEAN
      BY <1>4 DEF first, Frames
    <3>2. f.k + 1 \in Nat \ {0}
      BY <1>5
    <3> QED BY <1>4, <3>1, <3>2 DEF Frames
  <2>6. PICK g \in Frames : g = onward
    BY <2>1
  <2>2. g.body = f.body /\ g.pc = f.pc /\ g.k = f.k + 1 /\ g.at = "call"
    BY <1>1, <1>2, <1>4, <2>6 DEF Frames, In
  <2> HIDE DEF onward
  <2>3. ForkJoins(prog) => Reached(g)
    <3> SUFFICES ASSUME Reached(f),
                        NEW j \in 1 .. Len(prog[f.body]), NEW k \in DOMAIN prog[f.body][j].tasks,
                        prog[f.body][j].op = "await", j < f.pc \/ (j = f.pc /\ k < f.k + 1)
                 PROVE  prog[f.body][j].tasks[k] \in done
      BY <1>7, <2>2 DEF Reached
    <3>1. j \in Nat /\ k \in Nat
      <4>1. prog[f.body][j] \in Calls
        BY <1>5
      <4> QED BY <4>1 DEF Calls
    <3>2. CASE j = f.pc /\ k = f.k
      BY <1>6, <3>2 DEF tasks
    <3>3. CASE j < f.pc \/ (j = f.pc /\ k < f.k)
      BY <3>3 DEF Reached
    <3> QED BY <1>5, <3>1, <3>2, <3>3
  <2>4. Reached(g)' <=> Reached(g)
    BY <1>2 DEF Reached
  <2>5. Joins(g)'
    BY <1>2, <2>2, <2>3, <2>4 DEF Joins, PointOK
  <2> QED BY <1>8, <2>5, <2>6
<1>9. CASE ~(f.k < Len(Call(f).tasks)) /\ (SetTop(th, NextCall(f)) \/ SetTop(th, Unwind(f)))
  <2>1. ASSUME ForkJoins(prog),
               NEW j \in 1 .. Len(prog[f.body]), NEW k \in DOMAIN prog[f.body][j].tasks,
               prog[f.body][j].op = "await", j < f.pc + 1
        PROVE  prog[f.body][j].tasks[k] \in done
    <3>1. j \in Nat /\ k \in Nat /\ prog[f.body][j].tasks \in Seq(Tasks)
      <4>1. prog[f.body][j] \in Calls
        BY <1>5
      <4> QED BY <4>1 DEF Calls
    <3>2. CASE j = f.pc
      <4>1. k <= Len(tasks) /\ f.k = Len(tasks)
        <5>1. k \in DOMAIN tasks /\ Call(f).tasks = tasks
          BY <1>4, <2>1, <3>2 DEF tasks
        <5> QED BY <1>5, <1>9, <5>1
      <4>2. k < f.k \/ k = f.k
        BY <1>5, <3>1, <4>1
      <4> QED BY <1>6, <1>7, <2>1, <3>2, <4>2 DEF Reached, tasks
    <3>3. CASE j < f.pc
      BY <1>7, <2>1, <3>3 DEF Reached
    <3> QED BY <1>5, <2>1, <3>1, <3>2, <3>3
  <2>2. CASE SetTop(th, NextCall(f))
    <3>1. PICK g \in Frames : g = NextCall(f)
      BY <1>4, CallReturns DEF TypeOK
    <3>2. g.body = f.body /\ g.pc = f.pc + 1 /\ g.k = 1 /\ g.at = "call"
      BY <3>1 DEF NextCall, Frame
    <3>3. ForkJoins(prog) => Reached(g)
      <4> SUFFICES ASSUME ForkJoins(prog),
                          NEW j \in 1 .. Len(prog[f.body]), NEW k \in DOMAIN prog[f.body][j].tasks,
                          prog[f.body][j].op = "await", j < f.pc + 1 \/ (j = f.pc + 1 /\ k < 1)
                   PROVE  prog[f.body][j].tasks[k] \in done
        BY <3>2 DEF Reached
      <4>1. k \in Nat \ {0}
        <5>1. prog[f.body][j] \in Calls
          BY <1>5
        <5> QED BY <5>1 DEF Calls
      <4>2. j < f.pc + 1
        BY <4>1
      <4> QED BY <2>1, <4>2
    <3>4. Reached(g)' <=> Reached(g)
      BY <1>2 DEF Reached
    <3>5. Joins(g)'
      BY <1>2, <3>2, <3>3, <3>4 DEF Joins, PointOK
    <3> QED BY <2>2, <3>1, <3>5
  <2>3. CASE SetTop(th, Unwind(f))
    <3>1. ForkJoins(prog) /\ f.body \in Tasks => Awaited(prog[f.body], f.pc + 1)
      BY <1>4 DEF ForkJoins
    <3>2. f.pc + 1 \in Nat /\ f.pc <= f.pc + 1
      BY <1>5
    <3>3. \E g \in Frames : g = Unwind(f) /\ Joins(g)'
      BY <1>1, <1>2, <1>4, <2>1, <3>1, <3>2, UnwindJoins
    <3> QED BY <2>3, <3>3
  <2> QED BY <1>9, <2>2, <2>3
<1> QED BY <1>3, <1>8, <1>9

\* Every step that changes only a top frame leaves one that joins.
LEMMA TopJoins ==
  ASSUME TypeOK, TypeOK', PlacesOK, FramesJoin, prog' = prog, NEW th \in Threads, StepOf(th), BodyStep(th)
  PROVE  \/ UNCHANGED stack
         \/ Begins(th) \/ Ending(th)
         \/ stack[th] # << >> /\ \E g \in Frames : SetTop(th, g) /\ Joins(g)'
<1>1. CASE BodyEnds(th) \/ BadPool(th)
  BY <1>1, EndsStep DEF BadPool
<1>2. CASE ~(BodyEnds(th) \/ BadPool(th))
  <2>1. \E op, at : In(th, op, at)
    BY <1>2 DEF BodyStep, Throw, EnsureInit, EnsureInitLocked, Snapshot, Submit, AwaitDone, AwaitSnapshot,
           HelpSeed, Help, Detach, Lifecycle, StopFlag, StopJoin, DoInitStart, DoInitPublish
  <2>2. /\ stack[th] # << >> /\ Top(th) \in Frames /\ FrameOK(prog[Top(th).body], Top(th))
        /\ Top(th).pc \in 1 .. Len(prog[Top(th).body]) /\ ~Returned(Top(th)) /\ prog \in Programs
    BY <2>1, InFacts DEF TypeOK
  <2>3. 1 \in 1 .. Len(stack[th]) /\ Top(th) = stack[th][1]
    BY <2>2, Runner
  <2>4. PICK f \in Frames : f = Top(th)
    BY <2>2
  <2>5. Joins(f) /\ Joins(f)'
    BY <2>3, <2>4, FramesKeep DEF FramesJoin
  <2>6. CASE Throw(th) \/ AwaitDone(th)
    BY <2>2, <2>4, <2>5, <2>6, ThrowJoins, AwaitJoins
  <2>7. CASE Help(th)
    <3>1. CASE Begins(th)
      BY <3>1
    <3>2. CASE \E g \in Frames : SetTop(th, g) /\ Stays(g, f) /\ (g.at # "call" => g.at = "help")
      <4>1. PICK g \in Frames : SetTop(th, g) /\ Stays(g, f) /\ (g.at # "call" => g.at = "help")
        BY <3>2
      <4>2. Joins(g)'
        BY <2>5, <4>1, StaysJoins DEF PointOK
      <4> QED BY <2>2, <4>1, <4>2
    <3> QED BY <2>4, <2>7, <3>1, <3>2, HelpStep
  <2>8. CASE SetTop(th, NextCall(f)) /\ Call(f).op # "await"
    <3>1. f.body \in Bodies /\ f.pc \in 1 .. Len(prog[f.body])
      BY <2>2, <2>4 DEF Frames
    <3>2. Joins(NextCall(f))'
      BY <2>5, <2>8, <3>1, NextJoins
    <3>3. PICK g \in Frames : g = NextCall(f)
      BY <2>2, <2>4, CallReturns
    <3>4. Joins(g)'
      BY <3>2, <3>3 DEF Joins, PointOK, Reached, Unwound, Returned, ChildrenDone, Call
    <3> QED BY <2>2, <2>8, <3>3, <3>4
  <2>9. CASE \E g \in Frames : SetTop(th, g) /\ Stays(g, f) /\ PointOK(g)
    BY <2>2, <2>5, <2>9, StaysJoins
  <2>10. \/ Throw(th) \/ AwaitDone(th) \/ Help(th)
         \/ SetTop(th, NextCall(f)) /\ Call(f).op # "await"
         \/ \E g \in Frames : SetTop(th, g) /\ Stays(g, f) /\ PointOK(g)
    <3>1. CASE Submit(th) \/ Detach(th)
      BY <2>4, <3>1 DEF Submit, Detach, In
    <3>2. ASSUME NEW at \in Points, at \in {"stop", "join"} => Call(f).op \in {"init", "shutdown"}
          PROVE  [f EXCEPT !.at = at] \in Frames /\ Stays([f EXCEPT !.at = at], f) /\ PointOK([f EXCEPT !.at = at])
      BY <2>4, <3>2 DEF Frames, Stays, PointOK, Call
    <3>3. \A at : Goto(th, at) <=> SetTop(th, [f EXCEPT !.at = at])
      BY <2>4 DEF Goto
    <3>4. CASE EnsureInit(th) \/ EnsureInitLocked(th) \/ DoInitStart(th)
      <4>1. \E at \in Points \ {"stop", "join"} : Goto(th, at)
        BY <3>4 DEF EnsureInit, EnsureInitLocked, DoInitStart, Points
      <4> QED BY <3>2, <3>3, <4>1
    <3>5. CASE Lifecycle(th) \/ StopFlag(th) \/ StopJoin(th)
      <4>1. Call(f).op \in {"init", "shutdown"}
        BY <2>4, <3>5 DEF Lifecycle, StopFlag, StopJoin, In
      <4>2. (\E at \in Points : Goto(th, at)) \/ SetTop(th, NextCall(f))
        BY <2>4, <3>5 DEF Lifecycle, StopFlag, StopJoin, Points
      <4> QED BY <3>2, <3>3, <4>1, <4>2
    <3>6. CASE DoInitPublish(th)
      <4>1. Call(f).op # "await"
        BY <2>4, <3>6 DEF DoInitPublish, In
      <4>2. Goto(th, "snap") \/ SetTop(th, NextCall(f))
        BY <2>4, <3>6 DEF DoInitPublish
      <4> QED BY <3>2, <3>3, <4>1, <4>2 DEF Points
    <3>7. CASE Snapshot(th) \/ AwaitSnapshot(th) \/ HelpSeed(th)
      <4>1. gpool \in Nat /\ Rotation(counter) \in Seq(Workers)
        BY RotationType DEF TypeOK
      <4>2. PICK p \in Nat, vs \in Seq(Workers) : p = gpool /\ vs = Rotation(counter)
        BY <4>1
      <4>3. \/ SetTop(th, [f EXCEPT !.at = "submit", !.pool = p])
            \/ SetTop(th, [f EXCEPT !.at = "seed", !.pool = p])
            \/ SetTop(th, [f EXCEPT !.at = "help", !.victims = vs])
        BY <2>4, <3>7, <4>2 DEF Snapshot, AwaitSnapshot, HelpSeed
      <4>4. ASSUME NEW g, \/ g = [f EXCEPT !.at = "submit", !.pool = p]
                          \/ g = [f EXCEPT !.at = "seed", !.pool = p]
                          \/ g = [f EXCEPT !.at = "help", !.victims = vs]
            PROVE  g \in Frames /\ Stays(g, f) /\ PointOK(g)
        <5>1. g \in Frames
          BY <4>4 DEF Frames, Points
        <5>2. Stays(g, f) /\ g.at \notin {"stop", "join"}
          BY <4>4 DEF Frames, Stays
        <5> QED BY <5>1, <5>2 DEF PointOK
      <4> QED BY <4>3, <4>4
    <3> QED BY <1>2, <3>1, <3>4, <3>5, <3>6, <3>7 DEF BodyStep
  <2> QED BY <2>6, <2>7, <2>8, <2>9, <2>10
<1> QED BY <1>1, <1>2

LEMMA FramesJoinKept ==
  ASSUME TypeOK, TypeOK', PlacesOK, FramesJoin, NEW th \in Threads, ThreadStep(th)
  PROVE  FramesJoin'
<1>1. StepOf(th) /\ prog' = prog
  BY ThreadStepTyped
<1>2. PlaceTyped /\ PlaceTyped'
  BY PlaceTypes, PlaceTypesNext
<1>3. ASSUME NEW u \in Threads, NEW i \in 1 .. Len(stack[u])
      PROVE  \E f \in Frames : f = stack[u][i] /\ Joins(f)'
  <2>1. PICK f \in Frames : f = stack[u][i]
    BY <1>2 DEF PlaceTyped
  <2> QED BY <1>1, <2>1, FramesKeep DEF FramesJoin
<1>4. ASSUME NEW u, NEW i, NEW g, g = stack'[u][i], Joins(g)'
       PROVE  Joins(stack[u][i])'
  BY <1>4 DEF Joins, PointOK, Reached, Unwound, Returned, ChildrenDone, Call
<1>5. SUFFICES ASSUME NEW u \in Threads, NEW i \in 1 .. Len(stack'[u])
               PROVE  \E g : g = stack'[u][i] /\ Joins(g)'
  BY <1>4 DEF FramesJoin
<1>6. CASE UNCHANGED stack
  BY <1>3, <1>6
<1>7. CASE Begins(th)
  <2>1. PICK w \in Workers, p \in Nat : Starting(th, w, p)
    BY <1>7 DEF Begins
  <2>2. /\ Len(stack'[th]) = Len(stack[th]) + 1 /\ stack'[th][1] = Frame(queue[w][p])
        /\ \A l \in 1 .. Len(stack[th]) : Stays(stack'[th][l + 1], stack[th][l]) /\ stack'[th][l + 1].at = "call"
        /\ \A v \in Threads \ {th} : stack'[v] = stack[v]
        /\ p \in 1 .. Len(queue[w])
    <3>1. \A l \in 1 .. Len(stack[th]) : stack'[th][l + 1].at = "call"
      <4>1. ASSUME NEW l \in 1 .. Len(stack[th]) PROVE stack'[th][l + 1].at = "call"
        <5> DEFINE j == l + 1
        <5>1. j \in 1 .. Len(stack'[th]) /\ j > 1
          BY <1>2, <2>1 DEF PlaceTyped, Starting
        <5> HIDE DEF j
        <5>2. stack'[th][j].at = "call"
          BY <5>1 DEF TypeOK, StackOK
        <5> QED BY <5>2 DEF j
      <4> QED BY <4>1
    <3> QED BY <2>1, <3>1 DEF Starting, Without
  <2>3. CASE u # th
    BY <1>3, <1>5, <2>2, <2>3
  <2>4. CASE u = th /\ i = 1
    <3>1. PICK t \in Tasks : t = queue[w][p]
      BY <1>2, <2>2 DEF PlaceTyped
    <3>2. PICK g : g = Frame(t)
      OBVIOUS
    <3>3. g.body = t /\ g.pc = 1 /\ g.k = 1 /\ g.at = "call"
      BY <3>2 DEF Frame
    <3>4. Reached(g)'
      <4> SUFFICES ASSUME NEW j \in 1 .. Len(prog[t]), NEW k \in DOMAIN prog[t][j].tasks
                   PROVE  ~(j < 1 \/ (j = 1 /\ k < 1))
        BY <1>1, <3>3 DEF Reached
      <4>1. prog[t] \in Seq(Calls)
        BY ProgType DEF TypeOK, Bodies
      <4>2. prog[t][j] \in Calls /\ j \in Nat \ {0}
        BY <4>1
      <4>3. k \in Nat \ {0}
        BY <4>2 DEF Calls
      <4> QED BY <4>2, <4>3
    <3>5. Joins(g)'
      BY <3>3, <3>4 DEF Joins, PointOK
    <3> QED BY <2>2, <2>4, <3>1, <3>2, <3>5
  <2>5. CASE u = th /\ i # 1
    <3>1. PICK l \in 1 .. Len(stack[th]) : i = l + 1
      <4>1. i - 1 \in 1 .. Len(stack[th]) /\ i = (i - 1) + 1
        BY <1>2, <1>5, <2>2, <2>5 DEF PlaceTyped
      <4> QED BY <4>1
    <3>2. PICK f \in Frames : f = stack[th][l] /\ Joins(f)'
      BY <1>3
    <3>3. PICK g : g = stack'[th][l + 1]
      OBVIOUS
    <3>4. Stays(g, f) /\ PointOK(g)
      BY <2>2, <3>2, <3>3 DEF PointOK
    <3>5. Joins(g)'
      BY <1>1, <3>2, <3>4, StaysJoins
    <3> QED BY <2>5, <3>1, <3>3, <3>5
  <2> QED BY <2>3, <2>4, <2>5
<1>8. CASE Ending(th)
  <2>1. /\ Len(stack'[th]) = Len(stack[th]) - 1
        /\ \A l \in 1 .. Len(stack'[th]) : stack'[th][l] = stack[th][l + 1]
        /\ \A v \in Threads \ {th} : stack'[v] = stack[v]
    BY <1>8 DEF Ending
  <2>2. CASE u # th
    BY <1>3, <1>5, <2>1, <2>2
  <2>3. CASE u = th
    <3>1. i + 1 \in 1 .. Len(stack[th]) /\ stack'[u][i] = stack[th][i + 1]
      BY <1>2, <1>5, <2>1, <2>3 DEF PlaceTyped
    <3> QED BY <1>3, <3>1
  <2> QED BY <2>2, <2>3
<1>9. CASE stack[th] # << >> /\ \E g \in Frames : SetTop(th, g) /\ Joins(g)'
  <2>1. PICK g \in Frames : SetTop(th, g) /\ Joins(g)'
    BY <1>9
  <2>2. /\ Len(stack'[th]) = Len(stack[th])
        /\ stack'[th][1] = g
        /\ \A l \in 2 .. Len(stack[th]) : stack'[th][l] = stack[th][l]
        /\ \A v \in Threads \ {th} : stack'[v] = stack[v]
    BY <1>9, <2>1, SetTopFacts
  <2>3. CASE u # th
    BY <1>3, <1>5, <2>2, <2>3
  <2>4. CASE u = th /\ i = 1
    BY <2>1, <2>2, <2>4
  <2>5. CASE u = th /\ i # 1
    <3>1. i \in 2 .. Len(stack[th]) /\ i \in 1 .. Len(stack[th])
      BY <1>2, <1>5, <2>2, <2>5 DEF PlaceTyped
    <3> QED BY <1>3, <2>2, <2>5, <3>1
  <2> QED BY <2>3, <2>4, <2>5
<1>10. UNCHANGED stack \/ Begins(th) \/ Ending(th)
      \/ (stack[th] # << >> /\ \E g \in Frames : SetTop(th, g) /\ Joins(g)')
  <2>1. CASE BodyStep(th)
    BY <1>1, <2>1, TopJoins
  <2>2. CASE th \in Workers /\ WorkerStep(th)
    BY <2>2, ScanOwnStep, StealStep DEF WorkerStep, IdleCheck, WaitOver
  <2> QED BY <2>1, <2>2 DEF ThreadStep
<1> QED BY <1>6, <1>7, <1>8, <1>9, <1>10

LEMMA FamiliesKept ==
  ASSUME TypeOK, TypeOK', PlacesOK, PlacesOK', JoinsOK, NEW th \in Threads, ThreadStep(th)
  PROVE  FamiliesDone'
<1>1. StepOf(th) /\ prog' = prog
  BY ThreadStepTyped
<1>2. SUFFICES ASSUME ForkJoins(prog), NEW t \in done' PROVE ChildrenDone(t)'
  BY <1>1 DEF FamiliesDone
<1>3. t \in Tasks /\ t \in Bodies
  BY DEF TypeOK, Bodies
<1>4. CASE t \in done
  BY <1>1, <1>2, <1>3, <1>4, ChildrenStay DEF JoinsOK, FamiliesDone
<1>5. CASE t \notin done
  <2>1. /\ stack[th] # << >> /\ Top(th).body = t /\ spawned' = spawned /\ done \subseteq done'
    BY <1>1, <1>5 DEF StepOf, Calling, Clearing, Begins, Starting, Spawning, Ending
  <2>2. Returned(Top(th))
    <3>1. CASE BodyEnds(th)
      BY <3>1 DEF BodyEnds
    <3>2. CASE ~BodyEnds(th)
      <4>1. done' = done
        BY <3>2 DEF ThreadStep, WorkerStep, BodyStep, ScanOwn, Steal, IdleCheck, WaitOver, Throw,
           EnsureInit, EnsureInitLocked, Snapshot, Submit, AwaitDone, AwaitSnapshot, HelpSeed, Help,
           Detach, BadPool, Lifecycle, StopFlag, StopJoin, DoInitStart, DoInitPublish, taskVars
      <4> QED BY <1>5, <4>1
    <3> QED BY <3>1, <3>2
  <2>3. /\ Len(stack[th]) \in Nat \ {0} /\ Top(th) = stack[th][1] /\ Top(th) \in Frames
        /\ FrameOK(prog[Top(th).body], Top(th))
    BY <2>1, TopFacts
  <2>4. Joins(Top(th)) /\ 1 \in 1 .. Len(stack[th])
    BY <2>3 DEF JoinsOK, FramesJoin
  <2>5. CASE Unwound(Top(th))
    BY <1>1, <1>3, <2>1, <2>5 DEF Unwound, ChildrenDone
  <2>6. CASE Reached(Top(th))
    <3>1. PICK n \in Nat : n = Len(prog[t]) + 1
      <4>1. prog[t] \in Seq(Calls)
        BY <1>3, ProgType DEF TypeOK
      <4> QED BY <4>1
    <3>2. Top(th).pc = n
      <4>1. prog[t] \in Seq(Calls)
        BY <1>3, ProgType DEF TypeOK
      <4>2. Top(th).pc \in Nat /\ Len(prog[t]) \in Nat
        BY <2>3, <4>1 DEF Frames
      <4> QED BY <2>1, <2>2, <2>3, <3>1, <4>2 DEF Returned, FrameOK
    <3>3. Awaited(prog[t], n)
      BY <1>2, <1>3, <3>1 DEF ForkJoins
    <3>4. ChildrenDone(t)
      <4>1. n <= n
        BY <3>1
      <4> QED BY <1>3, <2>1, <2>3, <2>4, <2>6, <3>2, <3>3, <4>1, AwaitedDone DEF Reached
    <3> QED BY <2>1, <3>4, <1>1 DEF ChildrenDone
  <2> QED BY <1>2, <2>4, <2>5, <2>6 DEF Joins
<1> QED BY <1>4, <1>5

LEMMA SpawnersKept ==
  ASSUME TypeOK, PlacesOK, HaveSpawners, NEW th \in Threads, ThreadStep(th)
  PROVE  HaveSpawners'
<1>1. StepOf(th) /\ prog' = prog
  BY ThreadStepTyped
<1>2. CASE spawned' = spawned
  BY <1>1, <1>2 DEF HaveSpawners
<1>3. CASE \E w \in Workers : \E p \in Nat : Spawning(th, w, p)
  <2>1. /\ stack[th] # << >> /\ ~Returned(Top(th)) /\ Call(Top(th)).op = "spawn"
        /\ spawned' = spawned \cup {Call(Top(th)).tasks[1]}
    BY <1>3 DEF Spawning
  <2>2. /\ Top(th).body \in Bodies /\ Top(th).pc \in 1 .. Len(prog[Top(th).body])
        /\ Call(Top(th)) = prog[Top(th).body][Top(th).pc]
    BY <2>1, Runner
  <2> QED BY <1>1, <2>1, <2>2 DEF HaveSpawners
<1> QED BY <1>1, <1>2, <1>3 DEF StepOf, Calling, Clearing, Begins, Starting, Ending

LEMMA JoinsInit ==
  ASSUME Init
  PROVE  JoinsOK
<1>1. TypeOK /\ spawned = {} /\ done = {}
  BY InitTyped DEF Init
<1>2. ASSUME NEW th \in Threads, NEW i \in 1 .. Len(stack[th])
      PROVE  Joins(stack[th][i])
  <2>1. th \in Clients /\ stack[th] = <<Frame(th)>>
    <3>1. stack[th] = IF th \in Clients /\ prog[th] # << >> THEN <<Frame(th)>> ELSE << >>
      BY DEF Init
    <3> QED BY <1>2, <3>1
  <2>2. PICK g : g = Frame(th)
    OBVIOUS
  <2>3. stack[th][i] = g
    BY <2>1, <2>2
  <2>4. g.body = th /\ g.pc = 1 /\ g.k = 1 /\ g.at = "call"
    BY <2>2 DEF Frame
  <2>5. Reached(g)
    <3> SUFFICES ASSUME NEW j \in 1 .. Len(prog[th]), NEW k \in DOMAIN prog[th][j].tasks
                 PROVE  ~(j < 1 \/ (j = 1 /\ k < 1))
      BY <2>4 DEF Reached
    <3>1. prog[th] \in Seq(Calls)
      BY <1>1, <2>1, ProgType DEF TypeOK, Bodies
    <3>2. prog[th][j] \in Calls /\ j \in Nat \ {0}
      BY <3>1
    <3>3. k \in Nat \ {0}
      BY <3>2 DEF Calls
    <3> QED BY <3>2, <3>3
  <2> QED BY <2>3, <2>4, <2>5 DEF Joins, PointOK
<1> QED BY <1>1, <1>2 DEF JoinsOK, FramesJoin, FamiliesDone, HaveSpawners

-----------------------------------------------------------------------------
\* A thread inside a call runs the body of a client that makes calls.
LEMMA InsideCall ==
  ASSUME TypeOK, NEW th \in Threads, At(th) # "call"
  PROVE  /\ 1 \in 1 .. Len(stack[th]) /\ Top(th) = stack[th][1] /\ Top(th).at = At(th)
         /\ Top(th).body \in Bodies /\ ~Returned(Top(th)) /\ Top(th).pc \in 1 .. Len(prog[Top(th).body])
         /\ Call(Top(th)) = prog[Top(th).body][Top(th).pc]
<1>1. stack[th] # << >> /\ Top(th).at = At(th)
  BY DEF At
<1>2. /\ Len(stack[th]) \in Nat \ {0} /\ Top(th) = stack[th][1] /\ Top(th) \in Frames
      /\ FrameOK(prog[Top(th).body], Top(th))
  BY <1>1, TopFacts
<1>3. Top(th).body \in Bodies /\ Top(th).pc \in Nat \ {0}
  BY <1>2 DEF Frames
<1>4. Len(prog[Top(th).body]) \in Nat
  BY <1>3, ProgType DEF TypeOK
<1>5. Top(th).pc <= Len(prog[Top(th).body])
  BY <1>1, <1>2 DEF FrameOK
<1> QED BY <1>1, <1>2, <1>3, <1>4, <1>5 DEF Returned, Call

LEMMA JoinedStops ==
  ASSUME TypeOK, PlacesOK, JoinsOK, ForkJoins(prog)
  PROVE  OrderlyStop
<1> SUFFICES ASSUME NEW th \in Threads, At(th) \in {"stop", "join"}
             PROVE  spawned \subseteq done /\ \A u \in Threads : At(u) \notin Holding
  BY DEF OrderlyStop
<1>1. PICK c \in Clients : \A d \in Clients \ {c} : prog[d] = << >>
  BY DEF ForkJoins
<1>2. /\ 1 \in 1 .. Len(stack[th]) /\ Top(th) = stack[th][1] /\ Top(th).at = At(th)
      /\ Top(th).body \in Bodies /\ ~Returned(Top(th)) /\ Top(th).pc \in 1 .. Len(prog[Top(th).body])
      /\ Call(Top(th)) = prog[Top(th).body][Top(th).pc]
  BY InsideCall
<1>3. Joins(Top(th))
  BY <1>2 DEF JoinsOK, FramesJoin
<1>4. Call(Top(th)).op \in {"init", "shutdown"} /\ Reached(Top(th))
  BY <1>2, <1>3 DEF Joins, PointOK, Unwound
<1>5. prog \in Programs
  BY DEF TypeOK
\* The stopping body is the client that makes calls.
<1>6. Top(th).body = c
  <2>1. Top(th).body \in Clients
    BY <1>2, <1>4, <1>5, PoolAssumption
  <2>2. prog[Top(th).body] # << >>
    BY <1>2
  <2> QED BY <1>1, <2>1, <2>2
<1>7. ChildrenDone(c)
  <2>1. PICK n \in Nat : n = Top(th).pc
    BY <1>2
  <2>2. Awaited(prog[c], n) /\ c \in Bodies
    BY <1>2, <1>4, <1>6, <2>1 DEF ForkJoins
  <2>3. n <= n
    BY <2>1
  <2> QED BY <1>2, <1>4, <1>6, <2>1, <2>2, <2>3, AwaitedDone DEF Reached
<1>8. spawned \subseteq done
  <2> DEFINE D == spawned \ done
  <2>1. SUFFICES ASSUME D # {} PROVE FALSE
    OBVIOUS
  <2>2. PICK rank \in [Tasks -> Nat] : \A t \in Tasks : \A n \in 1 .. Len(prog[t]) :
               prog[t][n].op = "spawn" => rank[t] < rank[prog[t][n].tasks[1]]
    BY DEF ForkJoins
  <2>3. D \subseteq Tasks
    BY DEF TypeOK
  <2>4. PICK t \in D : \A u \in D : rank[t] <= rank[u]
    <3> DEFINE T == {rank[u] : u \in D}
    <3>1. T \in SUBSET Nat /\ T # {}
      BY <2>1, <2>2, <2>3
    <3> HIDE DEF T
    <3>2. PICK n \in T : \A m \in T : n <= m
      BY <3>1, NatMin
    <3> QED BY <3>2 DEF T
  <2>5. PICK b \in Bodies : \E i \in 1 .. Len(prog[b]) : prog[b][i].op = "spawn" /\ prog[b][i].tasks[1] = t
    BY DEF JoinsOK, HaveSpawners
  <2>6. PICK i \in 1 .. Len(prog[b]) : prog[b][i].op = "spawn" /\ prog[b][i].tasks[1] = t
    BY <2>5
  <2>7. b \in spawned \cup Clients
    BY <2>6 DEF PlacesOK, SpawnedIsMade, Made, Begun
  <2>8. CASE b \in Clients
    <3>1. b = c
      BY <1>1, <2>6, <2>8
    <3> QED BY <1>7, <2>6, <3>1 DEF ChildrenDone
  <2>9. CASE b \in spawned
    <3>1. b \in Tasks
      BY <2>9 DEF TypeOK
    <3>2. rank[b] < rank[t]
      BY <2>2, <2>6, <3>1
    <3>3. rank[b] \in Nat /\ rank[t] \in Nat
      BY <2>2, <2>3, <3>1
    <3>4. b \notin D
      BY <2>4, <3>2, <3>3
    <3>5. ChildrenDone(b)
      BY <2>9, <3>4 DEF JoinsOK, FamiliesDone
    <3> QED BY <2>6, <3>5 DEF ChildrenDone
  <2> QED BY <2>7, <2>8, <2>9
<1>9. ASSUME NEW u \in Threads, At(u) \in Holding PROVE FALSE
  <2>1. At(u) # "call"
    BY <1>9 DEF Holding
  <2>2. /\ 1 \in 1 .. Len(stack[u]) /\ Top(u) = stack[u][1]
        /\ Top(u).pc \in 1 .. Len(prog[Top(u).body])
    BY <2>1, InsideCall
  <2>3. Top(u).body \in Clients
    BY <1>8, <2>2 DEF PlacesOK, Live
  <2>4. Top(u).body = c
    BY <1>1, <2>2, <2>3
  <2>5. u = th
    BY <1>2, <1>6, <2>2, <2>4 DEF PlacesOK, StackDistinct
  <2> QED BY <1>9, <2>5 DEF Holding
<1> QED BY <1>8, <1>9

(***************************************************************************)
(* The pool is stopped in order when no body stops it, or when the bodies  *)
(* fork and join and the one client that stops it has joined first.        *)
(***************************************************************************)
THEOREM StopsAreOrderly ==
  ASSUME \A p \in Programs : StopsInOrder(p)
  PROVE  Spec => []OrderlyStop
<1>1. Init => TypeOK /\ PlacesOK /\ JoinsOK
  BY InitTyped, PlacesInit, JoinsInit
<1>2. TypeOK /\ PlacesOK /\ PlacesOK' /\ JoinsOK /\ [Next]_vars => JoinsOK'
  <2> SUFFICES ASSUME TypeOK, PlacesOK, PlacesOK', JoinsOK, [Next]_vars PROVE JoinsOK'
    OBVIOUS
  <2>1. TypeOK'
    BY TypeNext
  <2>2. CASE UNCHANGED vars
    <3>1. UNCHANGED <<prog, stack, taskVars>>
      BY <2>2 DEF vars
    <3>2. ASSUME NEW f PROVE Joins(f) => Joins(f)'
      BY <3>1 DEF taskVars, Joins, PointOK, Call, Reached, Unwound, Returned, ChildrenDone
    <3>3. FramesJoin'
      BY <3>1, <3>2 DEF JoinsOK, FramesJoin
    <3>4. FamiliesDone' /\ HaveSpawners'
      BY <2>2 DEF vars, taskVars, JoinsOK, FamiliesDone, HaveSpawners, ChildrenDone
    <3> QED BY <3>3, <3>4 DEF JoinsOK
  <2>3. CASE \E th \in Threads : ThreadStep(th)
    BY <2>1, <2>3, FramesJoinKept, FamiliesKept, SpawnersKept DEF JoinsOK
  <2> QED BY <2>2, <2>3, NextSteps
<1>3. TypeOK /\ PlacesOK /\ JoinsOK => OrderlyStop
  <2> SUFFICES ASSUME TypeOK, PlacesOK, JoinsOK PROVE OrderlyStop
    OBVIOUS
  <2>1. CASE ForkJoins(prog)
    BY <2>1, JoinedStops
  <2>2. CASE NeverStops(prog)
    <3>1. ASSUME NEW th \in Threads, At(th) \in {"stop", "join"} PROVE FALSE
      <4>1. /\ 1 \in 1 .. Len(stack[th]) /\ Top(th) = stack[th][1] /\ Top(th).at = At(th)
            /\ Top(th).body \in Bodies /\ Top(th).pc \in 1 .. Len(prog[Top(th).body])
            /\ Call(Top(th)) = prog[Top(th).body][Top(th).pc]
        BY <3>1, InsideCall
      <4>2. Call(Top(th)).op \in {"init", "shutdown"}
        BY <3>1, <4>1 DEF JoinsOK, FramesJoin, Joins, PointOK
      <4> QED BY <2>2, <4>1, <4>2 DEF NeverStops
    <3> QED BY <3>1 DEF OrderlyStop
  <2> QED BY <2>1, <2>2 DEF TypeOK, StopsInOrder
<1> QED BY <1>1, <1>2, <1>3, PoolTypeCorrect, TasksInOnePlace, PTL DEF Spec

(***************************************************************************)
(* Under such programs no task is lost, and no pool is used that is gone.  *)
(***************************************************************************)
COROLLARY ForkedIsJoined ==
  ASSUME \A p \in Programs : StopsInOrder(p)
  PROVE  Spec => [](NoTaskLost /\ PoolValid)
<1>1. OrderlyStop => QuietStop
  BY DEF OrderlyStop, QuietStop
<1> QED BY <1>1, StopsAreOrderly, TasksAreKept, UsesEndFirst, PTL DEF PoolOutlivesUses
=============================================================================
