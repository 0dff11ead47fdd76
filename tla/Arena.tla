-------------------------------- MODULE Arena --------------------------------
(***************************************************************************)
(* The arena of runtime/topo_arena.cpp: bump allocation in a list of       *)
(* malloc'd blocks.  size_t and uintptr_t are words of WordSize values, so *)
(* every sum may wrap around.  malloc is external: it returns any aligned  *)
(* base whose block, and the address past its end, lie in the address      *)
(* space and touch no block it has handed out, or fails.                   *)
(*                                                                         *)
(* given is history: what alloc has returned since the last reset.         *)
(***************************************************************************)
EXTENDS Integers, Sequences, FiniteSets, Functions, SequencesExt, FiniteSetsExt

CONSTANTS WordSize,      \* 2^64 in the build
          MallocAlign,   \* alignof(max_align_t)
          DefaultCapacity,  \* 4096 in the build
          Capacities, Sizes, Alignments,  \* the arguments tried; an alignment
                                          \* is 0 or a power of two
          MaxBlocks,     \* bound on the blocks of the arena
          MaxGiven       \* bound on the allocations between two resets

VARIABLES handle,        \* "none", "live" or "null"
          default,       \* defaultBlockSize
          blocks,        \* blocks, oldest first
          heap,          \* what malloc has handed out and has not got back
          given

arenaVars == <<handle, default, blocks, heap, given>>

W(n) == n % WordSize
RoundUp(addr, a) == (W(addr + a - 1) \div a) * a
Bytes(base, n) == base..(base + n - 1)

Init == handle = "none" /\ default = 0 /\ blocks = << >> /\ heap = {} /\ given = {}

-----------------------------------------------------------------------------
Bases(n) == {b \in 1..(WordSize - 1) :
               /\ b % MallocAlign = 0 /\ b + n < WordSize
               /\ \A h \in heap : Bytes(b, n) \cap Bytes(h.data, h.capacity) = {}}

Block(b, cap, used) == [data |-> b, capacity |-> cap, used |-> used]
Chunk(blk) == [data |-> blk.data, capacity |-> blk.capacity]

\* topo_arena_create; the constructor does not look at what addBlock returns.
Create(n) ==
  /\ handle = "none"
  /\ LET cap == IF n = 0 THEN DefaultCapacity ELSE n
     IN /\ default' = cap
        /\ \/ \E b \in Bases(cap) :
                /\ blocks' = <<Block(b, cap, 0)>> /\ heap' = heap \cup {[data |-> b, capacity |-> cap]}
           \/ blocks' = << >> /\ UNCHANGED heap
  /\ handle' = "live" /\ UNCHANGED given

\* new throws: the entry point returns null and every other call is a no-op.
CreateFails == handle = "none" /\ handle' = "null" /\ UNCHANGED <<default, blocks, heap, given>>

Give(at, size, a) == given' = given \cup {[at |-> at, size |-> size, align |-> a]}

\* padding + size, for a block whose first free byte is at addr
Needs(addr, size, a) == W(W(RoundUp(addr, a) - addr) + size)

Fits(blk, size, a) == Needs(blk.data + blk.used, size, a) <= blk.capacity - blk.used

InCurrent(size, a) ==
  LET cur  == Last(blocks)
      addr == cur.data + cur.used
  IN /\ Fits(cur, size, a)
     /\ blocks' = [blocks EXCEPT ![Len(blocks)].used = W(@ + Needs(addr, size, a))]
     /\ Give(RoundUp(addr, a), size, a) /\ UNCHANGED heap

\* A chunk of its own; a block that has no room for the request all the same
\* stays, unused.
InNewBlock(size, a) ==
  /\ ~Fits(Last(blocks), size, a)
  /\ LET cap == Max({W(size + a), default})
     IN \E b \in Bases(cap) :
          LET n == Needs(b, size, a)
          IN /\ heap' = heap \cup {[data |-> b, capacity |-> cap]}
             /\ blocks' = Append(blocks, Block(b, cap, IF n <= cap THEN n ELSE 0))
             /\ IF n <= cap THEN Give(RoundUp(b, a), size, a) ELSE UNCHANGED given

\* A defect: the guard against wrapping sums is missing.
Alloc_Wraps(size, align) ==
  LET a == IF align = 0 THEN MallocAlign ELSE align
  IN /\ handle = "live" /\ size # 0 /\ blocks # << >>
     /\ Cardinality(given) < MaxGiven /\ Len(blocks) < MaxBlocks
     /\ InCurrent(size, a) \/ InNewBlock(size, a)
     /\ UNCHANGED <<handle, default>>

\* topo_arena_alloc with an argument it accepts
Alloc(size, align) ==
  LET a == IF align = 0 THEN MallocAlign ELSE align
  IN /\ handle = "live" /\ size # 0 /\ blocks # << >>
     /\ size <= WordSize - 1 - a
     /\ Cardinality(given) < MaxGiven /\ Len(blocks) < MaxBlocks
     /\ InCurrent(size, a) \/ InNewBlock(size, a)
     /\ UNCHANGED <<handle, default>>

Freed(bs) == heap \ {Chunk(b) : b \in ToSet(bs)}

ArenaReset ==
  /\ handle = "live"
  /\ IF blocks = << >> THEN UNCHANGED <<blocks, heap>>
     ELSE /\ heap' = Freed(Tail(blocks))
          /\ blocks' = <<[Head(blocks) EXCEPT !.used = 0]>>
  /\ given' = {} /\ UNCHANGED <<handle, default>>

Destroy ==
  /\ handle # "none" /\ handle' = "none"
  /\ heap' = Freed(blocks) /\ blocks' = << >> /\ default' = 0 /\ given' = {}

BytesUsed == SumFunction([i \in DOMAIN blocks |-> blocks[i].used])

Next ==
  \/ \E n \in Capacities : Create(n)
  \/ CreateFails \/ ArenaReset \/ Destroy
  \/ \E n \in Sizes, a \in Alignments : Alloc(n, a)

Spec == Init /\ [][Next]_arenaVars

-----------------------------------------------------------------------------
\* Each piece of memory alloc has returned since the last reset lies in one
\* block of the arena that is still allocated, below its used mark, starts at a
\* multiple of its alignment, and no two of them overlap.
GivenDisjoint ==
  /\ \A g \in given : g.at % g.align = 0 /\ \E b \in ToSet(blocks) :
       /\ Chunk(b) \in heap
       /\ b.data <= g.at /\ g.at + g.size <= b.data + b.used
  /\ \A g, h \in given : g # h => Bytes(g.at, g.size) \cap Bytes(h.at, h.size) = {}

\* The arena holds exactly the blocks malloc has handed out: none leaks over a
\* reset or a destroy, none is freed twice, and none is used past its end.
BlocksAreHeap ==
  /\ heap = {Chunk(b) : b \in ToSet(blocks)} /\ Cardinality(heap) = Len(blocks)
  /\ \A b \in ToSet(blocks) : b.used <= b.capacity
  /\ BytesUsed >= SumFunction([g \in given |-> g.size])
=============================================================================
