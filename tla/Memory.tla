------------------------------- MODULE Memory -------------------------------
(***************************************************************************)
(* The kernel's memory (src/memory.c): the heap, whose arenas are set up   *)
(* by initialize_heap and from which malloc takes elements that are never  *)
(* given back (nothing defines free), and the storage from which           *)
(* forever_alloc_aligned cuts pieces.  Addresses count bytes from the      *)
(* start of the region the linker script reserves.                         *)
(*                                                                         *)
(* There is no behaviour of its own: Trap and Boot call the operations.    *)
(***************************************************************************)
EXTENDS Integers, Sequences, FiniteSetsExt

CONSTANTS
  ArenaSizes,                  \* 32, 64, 128, 256, 512
  Elements,                    \* ARENA_ELEMENT_COUNT (10)
  HeapStart, HeapEnd,          \* _heap_start, _heap_end
  ForeverStart, ForeverStop    \* _forever_storage_start and _stop

Arena == 1 .. Len(ArenaSizes)
Element == 0 .. Elements - 1

ASSUME MemoryAssumption ==
  /\ ArenaSizes \in Seq(Nat \ {0}) /\ Elements \in Nat
  /\ {HeapStart, HeapEnd, ForeverStart, ForeverStop} \subseteq Nat
  /\ ForeverStart <= ForeverStop /\ ForeverStop <= HeapStart

VARIABLES
  arena_start,  \* where each arena starts; 0 (NULL) before initialize_heap
  used,         \* the elements in use, for each arena
  frontier,     \* forever_storage_frontier
  blocks        \* history: what was given out, [start, size, heap]

memVars == <<arena_start, used, frontier, blocks>>

NULL == 0

MemoryInit ==
  /\ arena_start = [a \in Arena |-> NULL]
  /\ used = [a \in Arena |-> {}]
  /\ frontier = ForeverStart
  /\ blocks = <<>>

\* sizeof(struct arena_element): the mark and the buffer.
ElementSize(a) == ArenaSizes[a] + 1

\* Each arena starts where the one before it ends.
ArenaStart[a \in Nat] ==
  IF a <= 1 THEN HeapStart
            ELSE ArenaStart[a - 1] + Elements * ElementSize(a - 1)

ArenasFit == ArenaStart[Len(ArenaSizes) + 1] <= HeapEnd

initialize_heap ==
  /\ arena_start' = [a \in Arena |-> ArenaStart[a]]
  /\ UNCHANGED <<used, frontier, blocks>>

Given(start, size, heap) ==
  blocks' = Append(blocks, [start |-> start, size |-> size, heap |-> heap])

-----------------------------------------------------------------------------
(* malloc: the first free element of the first arena with larger buffers.  *)

Fitting(size) == {a \in Arena : size < ArenaSizes[a] /\ used[a] # Element}

CanMalloc(size) == Fitting(size) # {}

MallocArena(size) == Min(Fitting(size))
MallocElement(size) == Min(Element \ used[MallocArena(size)])

\* What it returns.
MallocAddress(size) ==
  LET a == MallocArena(size)
  IN  arena_start[a] + MallocElement(size) * ElementSize(a) + 1

\* Fault: the element is not marked.
MallocUnmarked(size) ==
  /\ CanMalloc(size)
  /\ Given(MallocAddress(size), size, TRUE)
  /\ UNCHANGED <<arena_start, used, frontier>>

malloc(size) ==
  /\ CanMalloc(size)
  /\ used' = [used EXCEPT ![MallocArena(size)] = @ \cup {MallocElement(size)}]
  /\ Given(MallocAddress(size), size, TRUE)
  /\ UNCHANGED <<arena_start, frontier>>

-----------------------------------------------------------------------------
(* forever_alloc_aligned.                                                  *)

\* align is a power of two.
ALIGN_UP(start, align) == ((start + align - 1) \div align) * align

ForeverAddress(align) == ALIGN_UP(frontier, align)

CanForever(size, align) == ForeverAddress(align) + size <= ForeverStop

forever_alloc_aligned(size, align) ==
  /\ CanForever(size, align)
  /\ frontier' = ForeverAddress(align) + size
  /\ Given(ForeverAddress(align), size, FALSE)
  /\ UNCHANGED <<arena_start, used>>

-----------------------------------------------------------------------------
(* Properties.                                                             *)

Apart(b, c) == b.start + b.size <= c.start \/ c.start + c.size <= b.start

(***************************************************************************)
(* What malloc and forever_alloc_aligned have given out never overlaps,    *)
(* is as large as was asked for and lies in its region, whichever arena    *)
(* it came from when smaller ones were full.  It rests on the heap being   *)
(* set up before anything is taken from it.                                *)
(***************************************************************************)
BlocksApart ==
  /\ \A i, j \in DOMAIN blocks : i # j => Apart(blocks[i], blocks[j])
  /\ \A i \in DOMAIN blocks :
       LET b == blocks[i]
           low == IF b.heap THEN HeapStart ELSE ForeverStart
           high == IF b.heap THEN HeapEnd ELSE ForeverStop
       IN  low <= b.start /\ b.start + b.size <= high
=============================================================================
