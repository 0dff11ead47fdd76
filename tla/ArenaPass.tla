------------------------------ MODULE ArenaPass ------------------------------
(***************************************************************************)
(* LifetimeArenaPass: allocations of a lifetime scope that do not leave it *)
(* are taken from an arena that the owner of the scope makes and destroys, *)
(* and their frees are erased.  The program as written and the program the *)
(* pass makes of it run side by side on the same path, each with its own   *)
(* memory.                                                                 *)
(***************************************************************************)
EXTENDS Naturals, Sequences, SequencesExt, FiniteSets

CONSTANTS
  Scopes,   \* [fns, start, end]; fns[f] is a sequence of blocks of instructions; start and end
            \* are functions, or None; "owner" is the function that calls start
  Words,    \* sizes below it can be had
  MaxRuns,  \* how often the owner is called
  MaxMade   \* how many objects there are

None == "none"
\* Allocators and frees are instructions of their own; "lib" is any function outside the scope.
InScope(f) == f # "lib"

-----------------------------------------------------------------------------
(* A place is <<function, block, index>>.                                  *)
At(s, x) == s.fns[x[1]][x[2]][x[3]]
Places(s) == UNION {UNION {{<<f, b, i>> : i \in DOMAIN s.fns[f][b]} : b \in DOMAIN s.fns[f]} : f \in DOMAIN s.fns}
PlacesOf(s, f) == {x \in Places(s) : x[1] = f}

\* findAllocSites in every function of the scope that has a body
Sites(s) == {x \in Places(s) : At(s, x).op = "alloc"}

\* The values and the slots that a pointer flows into, within its function.
Flow(s, x) ==
  LET ins == {At(s, y) : y \in PlacesOf(s, x[1])}
      grow(vs) == vs \cup {i.def : i \in {j \in ins : j.op \in {"derive", "spill", "reload"} /\ ToSet(j.args) \cap vs # {}}}
      RECURSIVE closed(_)
      closed(vs) == IF grow(vs) = vs THEN vs ELSE closed(grow(vs))
  IN closed({At(s, x).def})

\* escapesScope: a use that is not known to keep the pointer inside.
Escaping(i) ==
  \/ i.op \in {"keep", "leak", "test", "ret", "invoke"}   \* leak: of the address of a slot
  \/ i.op = "call" /\ ~ InScope(i.fn)
Uses(s, x) == {y \in PlacesOf(s, x[1]) : ToSet(At(s, y).args) \cap Flow(s, x) # {}}
EscapesScope(s, x) == \E y \in Uses(s, x) : Escaping(At(s, y))
Frees(s, x) == {y \in Uses(s, x) : At(s, y).op = "free"}

SafeSites(s) == {x \in Sites(s) : ~ EscapesScope(s, x)}

\* The first call of the declared function in the owner, as a call instruction.
Before(x, y) == x[2] < y[2] \/ (x[2] = y[2] /\ x[3] < y[3])
CallOf(s, f) ==
  LET calls == {x \in PlacesOf(s, "owner") : At(s, x).op = "call" /\ At(s, x).fn = f}
  IN {x \in calls : \A y \in calls : ~ Before(y, x)}

-----------------------------------------------------------------------------
(* applyArenaReplacement.  freed[x]: the frees that the walk from site x    *)
(* reached; a walk that escapes ends there and then.                       *)
Claims(s, freed, y) == {x \in SafeSites(s) : y \in freed[x]}
EscapingFrees(s, freed) == UNION {freed[x] : x \in Sites(s) \ SafeSites(s)}

Convertible_ClaimedOnce(s, freed, x) == \A y \in freed[x] : Claims(s, freed, y) = {x}
Convertible(s, freed, x) ==
  \A y \in freed[x] : Claims(s, freed, y) = {x} /\ y \notin EscapingFrees(s, freed)

\* Where the arena is made: before the start call, or on entry.
OpensAt(s) == IF CallOf(s, s.start) # {} THEN CallOf(s, s.start) ELSE {<<"owner", 1, 1>>}

\* Where it is destroyed: after the end call; without one, once per block, before
\* a return and else after a landing pad.
Exits(s) == {x \in PlacesOf(s, "owner") : At(s, x).op = "ret"}
Pads(s)  == {x \in PlacesOf(s, "owner") : At(s, x).op = "landingpad"}
ClosesBefore(s) == IF CallOf(s, s.end) # {} THEN {} ELSE Exits(s)
ClosesAfter(s)  == IF CallOf(s, s.end) # {} THEN CallOf(s, s.end)
                   ELSE {x \in Pads(s) : ~ \E y \in Exits(s) : y[2] = x[2]}

Untouched == [opens |-> {}, before |-> {}, after |-> {}, arena |-> {}, erased |-> {}, full |-> TRUE]
Replacement(s, freed) ==
  IF SafeSites(s) = {} THEN Untouched
  ELSE LET taken == {x \in SafeSites(s) : Convertible(s, freed, x)} IN
         [opens |-> OpensAt(s), before |-> ClosesBefore(s), after |-> ClosesAfter(s),
          arena |-> taken, erased |-> UNION {freed[x] : x \in taken},
          full |-> \A x \in Sites(s) : freed[x] = Frees(s, x)]

-----------------------------------------------------------------------------
VARIABLES
  scope, plan,
  stack,     \* frames [fn, at, env]: the place that runs next, values and slots
  heap, made, \* memory of the program as written and as made: objects in the order of
             \* their allocation, [st, of, size, zero]; st: "null", "heap", "freed", or "arena" with its number
  arenas,    \* "live" or "dead", in the order of their creation
  global,    \* the arena pointer of the scope, 0 for null
  faults, madeFaults, runs, phase

arenaVars == <<scope, plan, stack, heap, made, arenas, global, faults, madeFaults, runs, phase>>

Frame(f, arg) == [fn |-> f, at |-> <<f, 1, 1>>, env |-> [v \in {"arg"} |-> arg]]

ArenaInitFrom(S) ==
  /\ scope \in S /\ plan = Untouched /\ stack = << >> /\ heap = << >> /\ made = << >>
  /\ arenas = << >> /\ global = 0 /\ faults = {} /\ madeFaults = {} /\ runs = 0 /\ phase = "compile"
ArenaInit == ArenaInitFrom(Scopes)

LifetimeArena ==
  /\ phase = "compile"
  /\ \E missed \in SUBSET UNION {Frees(scope, x) : x \in Sites(scope) \ SafeSites(scope)} :
       plan' = Replacement(scope, [x \in Sites(scope) |->
                 IF x \in SafeSites(scope) THEN Frees(scope, x) ELSE Frees(scope, x) \ missed])
  /\ phase' = "run"
  /\ UNCHANGED <<scope, stack, heap, made, arenas, global, faults, madeFaults, runs>>

CallOwner ==
  /\ phase = "run" /\ stack = << >> /\ runs < MaxRuns
  /\ stack' = <<Frame("owner", 0)>> /\ runs' = runs + 1
  /\ UNCHANGED <<scope, plan, heap, made, arenas, global, faults, madeFaults, phase>>

-----------------------------------------------------------------------------
Top == Last(stack)
Here == At(scope, Top.at)
Live == phase = "run" /\ stack # << >> /\ faults = {} /\ madeFaults = {}
Value(v) == IF v \in DOMAIN Top.env THEN Top.env[v] ELSE 0
Bind(v, o) == [w \in DOMAIN Top.env \cup {v} |-> IF w = v THEN o ELSE Top.env[w]]

Goto(x, env) == stack' = Append(Front(stack), [Top EXCEPT !.at = x, !.env = env])
NextPlace == [Top.at EXCEPT ![3] = @ + 1]
Block(b) == <<Top.fn, b, 1>>

\* What the pass inserted around an instruction: create, destroy.
Created(as) == IF Top.at \in plan.opens THEN Append(as, "live") ELSE as
Opened == IF Top.at \in plan.opens THEN Len(arenas) + 1 ELSE global
Destroyed(as, g) == IF g = 0 THEN as ELSE [as EXCEPT ![g] = "dead"]
Closing == Top.at \in plan.before \cup plan.after
CloseFaults(as, g) == IF Closing /\ g # 0 /\ as[g] = "dead" THEN {"destroyed twice"} ELSE {}

\* Every step of a frame takes what was inserted at its place along.
Around ==
  LET as == Created(arenas) IN
    /\ global' = Opened
    /\ arenas' = IF Closing THEN Destroyed(as, Opened) ELSE as

\* Freeing and using an object, in either memory.
Usable(o, mem, as) == mem[o].st = "heap" \/ (mem[o].st = "arena" /\ as[mem[o].of] = "live")
Touched(o, mem, as, size, zero) ==
  IF o = 0 \/ mem[o].st = "null" THEN {}
  ELSE IF ~ Usable(o, mem, as) THEN {"used after its end"}
  ELSE IF mem[o].size < size \/ (zero /\ ~ mem[o].zero) THEN {"not what was asked for"}
  ELSE {}
FreeFaults(o, mem) == IF o = 0 \/ mem[o].st \in {"heap", "null"} THEN {} ELSE {"freed wrongly"}
Freed(o, mem) == IF o = 0 \/ mem[o].st # "heap" THEN mem ELSE [mem EXCEPT ![o].st = "freed"]

Settle(inOld, inNew) ==
  /\ faults' = faults \cup inOld
  /\ madeFaults' = madeFaults \cup inNew \cup CloseFaults(Created(arenas), Opened)
Calm == Settle({}, {})

Allocate ==
  /\ Live /\ Here.op = "alloc" /\ Len(heap) < MaxMade /\ Around
  /\ LET total == Here.count * Here.size
         huge  == total >= Words
         plain == [st |-> IF huge THEN "null" ELSE "heap", of |-> 0, size |-> total, zero |-> Here.zero]
         \* an overflow asks for more than there is; arena_alloc(null, ...) is null
         inArena == [plain EXCEPT !.st = IF huge \/ Opened = 0 THEN "null" ELSE "arena", !.of = Opened]
         dead == Top.at \in plan.arena /\ Opened # 0 /\ Created(arenas)[Opened] = "dead"
     IN /\ heap' = Append(heap, plain)
        /\ made' = Append(made, IF Top.at \in plan.arena THEN inArena ELSE plain)
        /\ Settle({}, IF dead THEN {"arena used after its end"}
                      ELSE IF Top.at \in plan.arena /\ Opened = 0 THEN {"no arena"} ELSE {})
  /\ Goto(NextPlace, Bind(Here.def, Len(heap) + 1))
  /\ UNCHANGED <<scope, plan, runs, phase>>

\* Address arithmetic, casts, phis and selects; stores into slots and loads from them.
Copy ==
  /\ Live /\ Here.op \in {"derive", "spill", "reload"} /\ Around /\ Calm
  /\ \E v \in ToSet(Here.args) : Goto(NextPlace, Bind(Here.def, Value(v)))
  /\ UNCHANGED <<scope, plan, heap, made, runs, phase>>

\* Loads and stores through the pointer, and functions that touch what they are given;
\* what is kept, leaked or tested is used here, too.
Touch ==
  /\ Live /\ Around
  /\ \/ Here.op \in {"use", "keep", "leak", "test", "landingpad"}
     \/ Here.op = "call" /\ Here.fn \notin DOMAIN scope.fns
  /\ LET os == {Value(v) : v \in ToSet(Here.args)} \ {0} IN
       Settle(UNION {Touched(o, heap, << >>, heap[o].size, heap[o].zero) : o \in os},
              UNION {Touched(o, made, Created(arenas), heap[o].size, heap[o].zero) : o \in os})
  /\ Goto(NextPlace, Top.env)
  /\ UNCHANGED <<scope, plan, heap, made, runs, phase>>

Free ==
  /\ Live /\ Here.op = "free" /\ Around
  /\ LET o == Value(Here.args[1]) IN
       IF Top.at \in plan.erased
       THEN heap' = Freed(o, heap) /\ made' = made /\ Settle(FreeFaults(o, heap), {})
       ELSE heap' = Freed(o, heap) /\ made' = Freed(o, made) /\ Settle(FreeFaults(o, heap), FreeFaults(o, made))
  /\ Goto(NextPlace, Top.env)
  /\ UNCHANGED <<scope, plan, runs, phase>>

\* A call of a function with a body.
Enter ==
  /\ Live /\ Here.op = "call" /\ Here.fn \in DOMAIN scope.fns /\ Around /\ Calm
  /\ stack' = Append(Append(Front(stack), [Top EXCEPT !.at = NextPlace]),
                     Frame(Here.fn, IF Here.args = << >> THEN 0 ELSE Value(Here.args[1])))
  /\ UNCHANGED <<scope, plan, heap, made, runs, phase>>

\* A branch; an invoke either returns or unwinds.
Branch ==
  /\ Live /\ Here.op \in {"br", "invoke"} /\ Around /\ Calm
  /\ \E i \in DOMAIN Here.to : Goto(Block(Here.to[i]), Top.env)
  /\ UNCHANGED <<scope, plan, heap, made, runs, phase>>

Return ==
  /\ Live /\ Here.op \in {"ret", "resume"} /\ Around /\ Calm
  /\ stack' = IF Here.op = "resume" THEN << >> ELSE Front(stack)
  /\ UNCHANGED <<scope, plan, heap, made, runs, phase>>

ArenaOver ==
  /\ phase = "run" /\ ~ (stack = << >> /\ runs < MaxRuns)
  /\ Live => Here.op = "alloc" /\ Len(heap) = MaxMade
  /\ UNCHANGED arenaVars

ArenaNext ==
  \/ LifetimeArena \/ CallOwner \/ Allocate \/ Copy \/ Touch \/ Free \/ Enter \/ Branch \/ Return \/ ArenaOver
ArenaSpec == ArenaInit /\ [][ArenaNext]_arenaVars
-----------------------------------------------------------------------------
\* What the pass takes for granted of a scope.
\* The owner reaches the start call first, and calls what allocates after it.
StartsFirst(s) ==
  CallOf(s, s.start) = {} \/
  \E x \in CallOf(s, s.start) :
    x[2] = 1 /\ \A y \in PlacesOf(s, "owner") :
                  Before(y, x) => At(s, y).op # "alloc" /\ (At(s, y).op = "call" => At(s, y).fn \notin DOMAIN s.fns)
\* Nothing follows the end call but the return, and no return goes without it.
EndsLast(s) ==
  CallOf(s, s.end) = {} \/
  \E x \in CallOf(s, s.end) :
    /\ \A y \in Exits(s) : y[2] = x[2] /\ y[3] = x[3] + 1
    /\ Pads(s) = {}
\* An exception that lands in the owner leaves it, and nothing is used on the way.
NoHandler(s) ==
  \A x \in Pads(s) :
    LET block == s.fns.owner[x[2]] IN
      /\ Last(block).op = "resume"
      /\ \A i \in 1 .. Len(block) - 1 : block[i].op \in {"landingpad", "free"}
\* A function of the scope only borrows its parameter.
Borrowed(s, f) == LET param == [op |-> "alloc", def |-> "arg", args |-> << >>]
                      t == [s EXCEPT !.fns = [g \in {f} |-> <<<<param>>>> \o s.fns[f]]]
                  IN ~ EscapesScope(t, <<f, 1, 1>>) /\ Frees(t, <<f, 1, 1>>) = {}
BorrowOnly(s) == \A f \in DOMAIN s.fns \ {"owner"} : Borrowed(s, f)

TakenForGranted(s) == StartsFirst(s) /\ EndsLast(s) /\ BorrowOnly(s)

\* The objects that nobody freed.
Left(mem) == {o \in DOMAIN mem : mem[o].st = "heap"}

\* A program that uses its memory well still does when its allocations come from
\* the arena: nothing is used, freed or destroyed after its end, whatever the
\* pointers flow through, and calls of the owner begin with a new arena.  When the
\* owner returns, its arena is gone and nothing is left that was not before.
ArenaKeepsMemory ==
  TakenForGranted(scope) /\ NoHandler(scope) /\ faults = {} =>
    /\ madeFaults = {}
    /\ stack = << >> => \A g \in DOMAIN arenas : arenas[g] = "dead"
    /\ stack = << >> /\ plan.full => Left(made) \subseteq Left(heap)

\* "a block that both lands and returns gets exactly one destroy"; more than one
\* teardown of an arena is "a runtime double-free" (LifetimeArenaPass.cpp:463-466,486-488).
DestroyedOnce == TakenForGranted(scope) => "destroyed twice" \notin madeFaults
=============================================================================
