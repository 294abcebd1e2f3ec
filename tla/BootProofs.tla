----------------------------- MODULE BootProofs -----------------------------
(***************************************************************************)
(* Proofs about Boot and the modules it extends, Trap and Memory.  One     *)
(* inductive invariant, MachineInv, is the conjunction of                  *)
(*                                                                         *)
(*   TrapInv    what the trap stack and the registers hold in each place   *)
(*              the code can be in, and                                    *)
(*   ProcType   the type of the process;                                   *)
(*   HeapInv    the heap is up when it is used, and                        *)
(*   MemInv     where the blocks are that were given out;                  *)
(*   BootInv    the scan, the windows, the drivers and their rings, and    *)
(*   DrivesScannedDevice, which is inductive with it.                      *)
(*                                                                         *)
(* BlocksApart, UserContextKept and RingsAgree follow from it.             *)
(***************************************************************************)
EXTENDS Boot, SequenceTheorems, WellFoundedInduction, TLAPS

-----------------------------------------------------------------------------
(* The arenas.                                                             *)

\* A set of numbers has a least one.  Inductions below are over the least
\* counterexample.
LEMMA LeastNumber ==
  ASSUME NEW S \in SUBSET Nat, S # {}
  PROVE  \E x \in S : \A y \in S : x <= y
<1>1. PICK x \in S : \A y \in S : ~(<<y, x>> \in OpToRel(<, Nat))
  BY WFMin, NatLessThanWellFounded
<1>2. \A y \in S : ~(y < x)
  BY <1>1 DEF OpToRel
<1> QED
  BY <1>2

\* Min, by which malloc takes the first arena and the first element.
LEMMA MinIsLeast ==
  ASSUME NEW S \in SUBSET Nat, S # {}
  PROVE  Min(S) \in S /\ \A y \in S : Min(S) <= y
BY LeastNumber DEF Min

\* The start of an arena, given those before it.
Link(f, a) ==
  IF a <= 1 THEN HeapStart ELSE f[a - 1] + Elements * ElementSize(a - 1)
Chain(f, n) == f = [a \in 0 .. n |-> Link(f, a)]

\* The start of each arena follows from the one before: up to every n there
\* is a function that obeys this ...
LEMMA ChainExists ==
  \A n \in Nat : \E f : Chain(f, n)
<1> DEFINE Bad == {m \in Nat : ~\E f : Chain(f, m)}
<1> SUFFICES ASSUME Bad # {} PROVE FALSE
  OBVIOUS
<1>1. PICK m \in Bad : \A k \in Bad : m <= k
  BY LeastNumber
<1>2. CASE m = 0
  <2> DEFINE g == [a \in 0 .. 0 |-> HeapStart]
  <2>1. Chain(g, 0)
    BY DEF Chain, Link
  <2> QED BY <1>2, <2>1
<1>3. CASE m # 0
  <2>1. m - 1 \in Nat /\ m - 1 \notin Bad
    BY <1>1, <1>3
  <2>2. PICK f : Chain(f, m - 1)
    BY <2>1
  <2> DEFINE g == [a \in 0 .. m |-> Link(f, a)]
  <2>3. \A a \in 0 .. m - 1 : g[a] = f[a]
    BY <2>1, <2>2 DEF Chain
  <2>4. \A a \in 0 .. m : Link(g, a) = Link(f, a)
    <3> SUFFICES ASSUME NEW a \in 0 .. m PROVE Link(g, a) = Link(f, a)
      OBVIOUS
    <3>1. a <= 1 \/ a - 1 \in 0 .. m - 1
      OBVIOUS
    <3> HIDE DEF g
    <3> QED BY <3>1, <2>3 DEF Link
  <2>5. g = [a \in 0 .. m |-> Link(g, a)]
    BY <2>4
  <2>6. Chain(g, m)
    BY <2>5 DEF Chain
  <2> QED BY <2>6
<1> QED BY <1>2, <1>3

\* ... any two of them agree ...
LEMMA ChainsAgree ==
  ASSUME NEW m \in Nat, NEW n \in Nat, m <= n,
         NEW f, NEW g, Chain(f, m), Chain(g, n)
  PROVE  \A a \in 0 .. m : f[a] = g[a]
<1> DEFINE Bad == {a \in 0 .. m : f[a] # g[a]}
<1> SUFFICES ASSUME Bad # {} PROVE FALSE
  OBVIOUS
<1>0. Bad \in SUBSET Nat
  OBVIOUS
<1>1. PICK a \in Bad : \A k \in Bad : a <= k
  BY <1>0, LeastNumber
<1>2. a <= 1 \/ (a - 1 \in 0 .. m /\ a - 1 \notin Bad)
  BY <1>1
<1>3. Link(f, a) = Link(g, a)
  BY <1>2 DEF Link
<1>4. \A x \in 0 .. m : f[x] = Link(f, x)
  BY DEF Chain
<1>5. \A x \in 0 .. n : g[x] = Link(g, x)
  BY DEF Chain
<1>6. a \in 0 .. m /\ a \in 0 .. n /\ f[a] # g[a]
  BY <1>1
<1> QED BY <1>3, <1>4, <1>5, <1>6

\* ... and so the recursive function ArenaStart obeys it.
LEMMA ArenaStartLink ==
  \A a \in Nat : ArenaStart[a] = Link(ArenaStart, a)
<1> DEFINE part == [n \in Nat |-> CHOOSE f : Chain(f, n)]
           whole == [a \in Nat |-> part[a][a]]
<1>1. \A n \in Nat : Chain(part[n], n)
  BY ChainExists
<1>2. \A a \in Nat : Link(whole, a) = whole[a]
  <2> SUFFICES ASSUME NEW a \in Nat PROVE Link(whole, a) = whole[a]
    OBVIOUS
  <2>1. whole[a] = Link(part[a], a)
    <3>1. Chain(part[a], a) /\ a \in 0 .. a
      BY <1>1
    <3> HIDE DEF part
    <3>2. part[a] = [x \in 0 .. a |-> Link(part[a], x)]
      BY <3>1 DEF Chain
    <3>3. part[a][a] = Link(part[a], a)
      BY <3>1, <3>2
    <3> QED BY <3>3
  <2>2. CASE a <= 1
    BY <2>1, <2>2 DEF Link
  <2>3. CASE ~(a <= 1)
    <3>1. a - 1 \in Nat /\ a - 1 \in 0 .. a - 1 /\ a - 1 <= a
      BY <2>3
    <3>2. part[a - 1][a - 1] = part[a][a - 1]
      BY <3>1, <1>1, ChainsAgree
    <3>3. whole[a - 1] = part[a][a - 1]
      BY <3>1, <3>2
    <3> HIDE DEF whole, part
    <3> QED BY <2>1, <2>3, <3>3 DEF Link
  <2> QED BY <2>2, <2>3
<1>3. whole = [a \in Nat |-> Link(whole, a)]
  <2>1. whole = [a \in Nat |-> whole[a]]
    OBVIOUS
  <2> HIDE DEF whole
  <2> QED BY <1>2, <2>1
<1> HIDE DEF whole
<1>4. ArenaStart = [a \in Nat |-> Link(ArenaStart, a)]
  BY <1>3 DEF ArenaStart, Link
<1> HIDE DEF ArenaStart
<1> QED BY <1>4

ArenaEnd(a) == ArenaStart[a] + Elements * ElementSize(a)

\* Multiplication keeps the order.
LEMMA TimesMonotonic ==
  ASSUME NEW i \in Nat, NEW j \in Nat, NEW k \in Nat, i <= j
  PROVE  i * k <= j * k
<1>1. PICK d \in Nat : j = i + d
  BY SMT
<1>2. j * k = i * k + d * k /\ i * k \in Nat /\ d * k \in Nat /\ j * k \in Nat
  BY <1>1, SMT
<1> QED BY <1>2

\* The types of the constants of the heap.
LEMMA ArenaFacts ==
  /\ Len(ArenaSizes) \in Nat
  /\ \A a \in Arena : /\ a \in Nat /\ a >= 1
                      /\ ArenaSizes[a] \in Nat \ {0} /\ ElementSize(a) \in Nat
                      /\ Elements * ElementSize(a) \in Nat
  /\ Elements \in Nat /\ HeapStart \in Nat
<1>1. /\ Len(ArenaSizes) \in Nat /\ Elements \in Nat /\ HeapStart \in Nat
      /\ \A a \in Arena : ArenaSizes[a] \in Nat \ {0} /\ a \in Nat /\ a >= 1
  BY MemoryAssumption DEF Arena
<1>2. \A a \in Arena : ElementSize(a) \in Nat
  BY <1>1 DEF ElementSize
<1>3. \A x, y \in Nat : x * y \in Nat
  BY SMT
<1> QED BY <1>1, <1>2, <1>3

\* initialize_heap puts each arena where the one before it ends.
LEMMA NextArena ==
  /\ ArenaStart[1] = HeapStart
  /\ \A a \in Arena : ArenaStart[a + 1] = ArenaEnd(a)
<1>2. ASSUME NEW a \in Arena
      PROVE  ArenaStart[a + 1] = ArenaEnd(a)
  <2>1. PICK b \in Nat : b = a + 1 /\ b - 1 = a /\ ~(b <= 1)
    BY ArenaFacts
  <2>2. ArenaStart[b] = Link(ArenaStart, b)
    BY ArenaStartLink
  <2>3. Link(ArenaStart, b) = ArenaStart[a] + Elements * ElementSize(a)
    BY <2>1, Zenon DEF Link
  <2> QED BY <2>1, <2>2, <2>3, Zenon DEF ArenaEnd
<1>3. ArenaStart[1] = HeapStart
  BY ArenaStartLink DEF Link
<1> QED BY <1>2, <1>3

\* An arena ends at or before the start of every later one.
LEMMA ArenasOrdered ==
  \A b \in 1 .. Len(ArenaSizes) + 1 :
    /\ ArenaStart[b] \in Nat /\ HeapStart <= ArenaStart[b]
    /\ \A a \in Arena : a < b => ArenaEnd(a) <= ArenaStart[b]
<1> DEFINE Ok(b) == /\ ArenaStart[b] \in Nat /\ HeapStart <= ArenaStart[b]
                    /\ \A a \in Arena : a < b => ArenaEnd(a) <= ArenaStart[b]
           Bad == {b \in 1 .. Len(ArenaSizes) + 1 : ~Ok(b)}
<1> SUFFICES ASSUME Bad # {} PROVE FALSE
  OBVIOUS
<1>0. Bad \in SUBSET Nat
  OBVIOUS
<1>1. PICK b \in Bad : \A k \in Bad : b <= k
  BY <1>0, LeastNumber
<1>2. b # 1
  BY NextArena, ArenaFacts, <1>1 DEF Arena
<1>3. b - 1 \in Arena /\ b - 1 \in 1 .. Len(ArenaSizes) + 1 /\ b - 1 + 1 = b
  BY ArenaFacts, <1>1, <1>2 DEF Arena
<1>4. Ok(b - 1)
  BY <1>1, <1>3, ArenaFacts
<1>5. ArenaStart[b] = ArenaStart[b - 1] + Elements * ElementSize(b - 1)
  BY <1>3, NextArena DEF ArenaEnd
<1>6. ArenaStart[b] \in Nat /\ ArenaStart[b - 1] <= ArenaStart[b]
  BY <1>3, <1>4, <1>5, ArenaFacts
<1>7. ASSUME NEW a \in Arena, a < b PROVE ArenaEnd(a) <= ArenaStart[b]
  <2>1. a \in Nat /\ (a < b - 1 \/ a = b - 1)
    BY <1>3, <1>7, ArenaFacts
  <2>2. CASE a < b - 1
    <3>1. ArenaStart[a] + Elements * ElementSize(a) <= ArenaStart[b - 1]
      BY <1>4, <2>2 DEF ArenaEnd
    <3>2. a \in 1 .. Len(ArenaSizes) + 1 /\ ~(b <= a)
      BY <1>7, ArenaFacts DEF Arena
    <3>3. ArenaStart[a] \in Nat
      BY <3>2, <1>1
    <3>4. Elements * ElementSize(a) \in Nat
      BY ArenaFacts
    <3> QED BY <3>1, <3>3, <3>4, <1>6, <1>4 DEF ArenaEnd
  <2>3. CASE a = b - 1
    BY <2>3, <1>3, <1>5, <1>6 DEF ArenaEnd
  <2> QED BY <2>1, <2>2, <2>3
<1>8. HeapStart <= ArenaStart[b]
  BY <1>4, <1>6, ArenaFacts
<1>9. Ok(b)
  BY <1>6, <1>7, <1>8
<1> QED BY <1>1, <1>9

SlotStart(a, e) == ArenaStart[a] + e * ElementSize(a) + 1

\* The buffer of an element is within its arena.
LEMMA SlotInArena ==
  ASSUME NEW a \in Arena, NEW e \in Element
  PROVE  /\ ArenaStart[a] \in Nat /\ SlotStart(a, e) \in Nat
         /\ ArenaStart[a] <= SlotStart(a, e)
         /\ SlotStart(a, e) + ArenaSizes[a] <= ArenaEnd(a)
         /\ ArenaEnd(a) \in Nat
<1>1. e \in Nat /\ e + 1 \in Nat /\ e + 1 <= Elements
  BY ArenaFacts DEF Element
<1>2. (e + 1) * ElementSize(a) <= Elements * ElementSize(a)
  BY <1>1, ArenaFacts, TimesMonotonic
<1>3. /\ (e + 1) * ElementSize(a) = e * ElementSize(a) + ElementSize(a)
      /\ e * ElementSize(a) \in Nat
  BY <1>1, ArenaFacts, SMT
<1>4. ArenaStart[a] \in Nat
  BY ArenasOrdered, ArenaFacts DEF Arena
<1> DEFINE es == e * ElementSize(a)
           nes == Elements * ElementSize(a)
<1>5. /\ es \in Nat /\ nes \in Nat /\ es + ElementSize(a) <= nes
      /\ SlotStart(a, e) = ArenaStart[a] + es + 1
      /\ ArenaEnd(a) = ArenaStart[a] + nes
  BY <1>2, <1>3, ArenaFacts DEF SlotStart, ArenaEnd
<1>6. ElementSize(a) = ArenaSizes[a] + 1 /\ ArenaSizes[a] \in Nat
  BY ArenaFacts DEF ElementSize
<1> HIDE DEF es, nes
<1> QED BY <1>4, <1>5, <1>6

\* The buffers of two elements do not overlap.
LEMMA SlotsApart ==
  ASSUME NEW a \in Arena, NEW e \in Element, NEW b \in Arena, NEW f \in Element,
         a # b \/ e # f
  PROVE  \/ SlotStart(a, e) + ArenaSizes[a] <= SlotStart(b, f)
         \/ SlotStart(b, f) + ArenaSizes[b] <= SlotStart(a, e)
<1>1. ASSUME NEW c \in Arena, NEW d \in Arena, c < d,
             NEW x \in Element, NEW y \in Element
      PROVE  SlotStart(c, x) + ArenaSizes[c] <= SlotStart(d, y)
  <2>1. ArenaEnd(c) <= ArenaStart[d]
    <3>1. d \in 1 .. Len(ArenaSizes) + 1
      BY ArenaFacts DEF Arena
    <3> QED BY <1>1, <3>1, ArenasOrdered
  <2>2. ArenaSizes[c] \in Nat
    BY ArenaFacts
  <2>3. /\ SlotStart(c, x) \in Nat /\ SlotStart(d, y) \in Nat
        /\ ArenaEnd(c) \in Nat /\ ArenaStart[d] \in Nat
        /\ SlotStart(c, x) + ArenaSizes[c] <= ArenaEnd(c)
        /\ ArenaStart[d] <= SlotStart(d, y)
    BY SlotInArena
  <2> QED BY <2>1, <2>2, <2>3
<1>2. ASSUME NEW x \in Element, NEW y \in Element, x < y
      PROVE  SlotStart(a, x) + ArenaSizes[a] <= SlotStart(a, y)
  <2>1. x \in Nat /\ y \in Nat /\ x + 1 \in Nat /\ x + 1 <= y
    BY <1>2 DEF Element
  <2>2. (x + 1) * ElementSize(a) <= y * ElementSize(a)
    BY <2>1, ArenaFacts, TimesMonotonic
  <2>3. /\ (x + 1) * ElementSize(a) = x * ElementSize(a) + ElementSize(a)
        /\ x * ElementSize(a) \in Nat /\ y * ElementSize(a) \in Nat
    <3>1. \A z \in Nat : /\ (x + 1) * z = x * z + z
                         /\ x * z \in Nat /\ y * z \in Nat
      BY <2>1, SMT
    <3> QED BY <3>1, ArenaFacts
  <2>4. ElementSize(a) = ArenaSizes[a] + 1 /\ ArenaSizes[a] \in Nat
    BY ArenaFacts DEF ElementSize
  <2>5. ArenaStart[a] \in Nat
    BY SlotInArena
  <2> DEFINE xs == x * ElementSize(a)
             ys == y * ElementSize(a)
  <2>6. xs \in Nat /\ ys \in Nat /\ xs + ArenaSizes[a] + 1 <= ys
    BY <2>2, <2>3, <2>4
  <2>7. SlotStart(a, x) = ArenaStart[a] + xs + 1
        /\ SlotStart(a, y) = ArenaStart[a] + ys + 1
    BY DEF SlotStart
  <2> HIDE DEF xs, ys
  <2> QED BY <2>4, <2>5, <2>6, <2>7
<1>3. a \in Nat /\ b \in Nat /\ e \in Int /\ f \in Int
  BY ArenaFacts DEF Element
<1>4. CASE a < b
  BY <1>1, <1>4
<1>5. CASE b < a
  BY <1>1, <1>5
<1>6. CASE a = b
  <2>1. e < f \/ f < e
    BY <1>3, <1>6
  <2> QED BY <1>2, <1>6, <2>1
<1> QED BY <1>3, <1>4, <1>5, <1>6

-----------------------------------------------------------------------------
(* What was given out.                                                     *)

BlockType == [start : Nat, size : Nat, heap : BOOLEAN]

\* A block from the heap is in an element in use, one from the permanent
\* storage below the frontier.
InElement(b) ==
  \E a \in Arena : \E e \in used[a] :
    b.start = SlotStart(a, e) /\ b.size <= ArenaSizes[a]
BelowFrontier(b) == ForeverStart <= b.start /\ b.start + b.size <= frontier

MemInv ==
  /\ used \in [Arena -> SUBSET Element]
  /\ frontier \in ForeverStart .. ForeverStop
  /\ blocks \in Seq(BlockType)
  /\ \A i \in DOMAIN blocks :
       IF blocks[i].heap THEN ArenasFit /\ InElement(blocks[i])
                         ELSE BelowFrontier(blocks[i])
  /\ \A i, j \in DOMAIN blocks : i # j => Apart(blocks[i], blocks[j])

\* The heap is set up.
HeapUp == ArenasFit /\ arena_start = [a \in Arena |-> ArenaStart[a]]

\* The elements of a sequence after Append.
LEMMA Appended ==
  ASSUME NEW S, NEW s \in Seq(S), NEW x \in S
  PROVE  /\ Append(s, x) \in Seq(S)
         /\ \A i \in DOMAIN Append(s, x) :
              \/ i \in DOMAIN s /\ Append(s, x)[i] = s[i]
              \/ i = Len(s) + 1 /\ Append(s, x)[i] = x
         /\ Len(s) + 1 \notin DOMAIN s
<1>1. Len(s) \in Nat /\ DOMAIN s = 1 .. Len(s)
  OBVIOUS
<1>2. /\ Append(s, x) \in Seq(S) /\ Len(Append(s, x)) = Len(s) + 1
      /\ Append(s, x)[Len(s) + 1] = x
      /\ \A i \in 1 .. Len(s) : Append(s, x)[i] = s[i]
  OBVIOUS
<1>3. DOMAIN Append(s, x) = 1 .. Len(s) + 1
  BY <1>1, <1>2
<1>4. ASSUME NEW i \in DOMAIN Append(s, x)
      PROVE  \/ i \in DOMAIN s /\ Append(s, x)[i] = s[i]
             \/ i = Len(s) + 1 /\ Append(s, x)[i] = x
  <2>1. i \in 1 .. Len(s) \/ i = Len(s) + 1
    BY <1>1, <1>3, <1>4
  <2>2. CASE i \in 1 .. Len(s)
    <3>1. i \in DOMAIN s
      BY <1>1, <2>2
    <3>2. Append(s, x)[i] = s[i]
      BY <1>2, <2>2
    <3> QED BY <3>1, <3>2
  <2>3. CASE i = Len(s) + 1
    BY <1>2, <2>3
  <2> QED BY <2>1, <2>2, <2>3
<1>5. Len(s) + 1 \notin DOMAIN s
  BY <1>1
<1> QED BY <1>2, <1>4, <1>5

\* Where the arenas fit, the buffers are in the heap.
LEMMA ElementInHeap ==
  ASSUME NEW a \in Arena, NEW e \in Element, ArenasFit
  PROVE  /\ HeapStart <= SlotStart(a, e)
         /\ SlotStart(a, e) + ArenaSizes[a] <= HeapEnd
<1>1. /\ a \in 1 .. Len(ArenaSizes) + 1 /\ a < Len(ArenaSizes) + 1
      /\ Len(ArenaSizes) + 1 \in 1 .. Len(ArenaSizes) + 1
  BY ArenaFacts DEF Arena
<1>2. /\ HeapStart <= ArenaStart[a]
      /\ ArenaEnd(a) <= ArenaStart[Len(ArenaSizes) + 1]
      /\ ArenaStart[Len(ArenaSizes) + 1] \in Nat
  BY <1>1, ArenasOrdered
<1>3. ArenaStart[Len(ArenaSizes) + 1] <= HeapEnd /\ HeapEnd \in Nat
  BY MemoryAssumption DEF ArenasFit
<1>4. ArenaSizes[a] \in Nat /\ HeapStart \in Nat
  BY ArenaFacts
<1> QED BY <1>2, <1>3, <1>4, SlotInArena

\* BlocksApart follows from MemInv.
LEMMA MemInvBlocksApart ==
  ASSUME MemInv PROVE BlocksApart
<1> USE DEF MemInv
<1>1. ASSUME NEW i \in DOMAIN blocks, blocks[i].heap
      PROVE  HeapStart <= blocks[i].start
             /\ blocks[i].start + blocks[i].size <= HeapEnd
  <2>0. PICK a \in Arena : \E e \in used[a] :
          blocks[i].start = SlotStart(a, e) /\ blocks[i].size <= ArenaSizes[a]
    BY <1>1 DEF InElement
  <2>1. PICK e \in used[a] :
          blocks[i].start = SlotStart(a, e) /\ blocks[i].size <= ArenaSizes[a]
    BY <2>0
  <2>2. e \in Element /\ ArenasFit
    BY <1>1
  <2>3. blocks[i] \in BlockType /\ ArenaSizes[a] \in Nat
    BY ArenaFacts
  <2>4. SlotStart(a, e) \in Nat
    BY <2>2, SlotInArena
  <2>5. HeapStart <= SlotStart(a, e) /\ SlotStart(a, e) + ArenaSizes[a] <= HeapEnd
    BY <2>2, ElementInHeap
  <2> QED BY <2>1, <2>3, <2>4, <2>5, MemoryAssumption DEF BlockType
<1>2. ASSUME NEW i \in DOMAIN blocks, ~blocks[i].heap
      PROVE  ForeverStart <= blocks[i].start
             /\ blocks[i].start + blocks[i].size <= ForeverStop
  <2>1. BelowFrontier(blocks[i]) /\ blocks[i] \in BlockType
    BY <1>2
  <2> QED BY <2>1, MemoryAssumption DEF BelowFrontier, BlockType
<1> QED BY <1>1, <1>2 DEF BlocksApart

\* One more block, apart from all others, leaves the blocks apart.
LEMMA GivenBlock ==
  ASSUME NEW b \in BlockType, blocks \in Seq(BlockType), blocks' = Append(blocks, b),
         \A i, j \in DOMAIN blocks : i # j => Apart(blocks[i], blocks[j]),
         \A i \in DOMAIN blocks : Apart(blocks[i], b)
  PROVE  \A i, j \in DOMAIN blocks' : i # j => Apart(blocks'[i], blocks'[j])
<1>1. \A i \in DOMAIN blocks' :
        \/ i \in DOMAIN blocks /\ blocks'[i] = blocks[i]
        \/ i = Len(blocks) + 1 /\ blocks'[i] = b
  BY Appended
<1>2. \A c, d : Apart(c, d) <=> Apart(d, c)
  BY DEF Apart
<1>3. TAKE i, j \in DOMAIN blocks'
<1>4. CASE i \in DOMAIN blocks /\ j \in DOMAIN blocks
  BY <1>1, <1>4, Appended
<1> HIDE DEF Apart
<1> QED BY <1>1, <1>2, <1>4, Appended

\* malloc marks the element it takes: its block is apart from the earlier
\* ones.
LEMMA MallocMemInv ==
  ASSUME MemInv, HeapUp, NEW size \in Nat, malloc(size)
  PROVE  MemInv'
<1>0. PICK a, e : a = MallocArena(size) /\ e = MallocElement(size)
  OBVIOUS
<1>1. a \in Arena /\ size < ArenaSizes[a] /\ used[a] # Element
  <2>1. Fitting(size) \in SUBSET Nat /\ Fitting(size) # {}
    BY ArenaFacts DEF malloc, CanMalloc, Fitting
  <2>2. a \in Fitting(size)
    BY <1>0, <2>1, MinIsLeast DEF MallocArena
  <2> QED BY <2>2 DEF Fitting
<1>2. e \in Element /\ e \notin used[a]
  <2>1. Element \ used[a] \in SUBSET Nat
    BY DEF Element
  <2>2. Element \ used[a] # {}
    BY <1>1 DEF MemInv
  <2> QED BY <1>0, <2>1, <2>2, MinIsLeast DEF MallocElement
<1>3. MallocAddress(size) = SlotStart(a, e)
  BY <1>0, <1>1 DEF HeapUp, MallocAddress, SlotStart
<1> DEFINE b == [start |-> SlotStart(a, e), size |-> size, heap |-> TRUE]
<1>4. b \in BlockType /\ b.start = SlotStart(a, e) /\ b.size = size /\ b.heap
  BY <1>1, <1>2, SlotInArena DEF BlockType
<1>5. /\ blocks' = Append(blocks, b)
      /\ used' = [used EXCEPT ![a] = @ \cup {e}]
      /\ frontier' = frontier
  BY <1>0, <1>3 DEF malloc, Given
<1> HIDE DEF b
<1>6. used' \in [Arena -> SUBSET Element]
  BY <1>2, <1>5 DEF MemInv
<1>7. \A x \in Arena : used[x] \subseteq used'[x]
  BY <1>5 DEF MemInv
<1>8. e \in used'[a]
  BY <1>1, <1>5 DEF MemInv
<1>9. \A c : InElement(c) => InElement(c)'
  BY <1>7 DEF InElement
<1>10. \A c : BelowFrontier(c) => BelowFrontier(c)'
  BY <1>5 DEF BelowFrontier
<1>11. InElement(b)'
  BY <1>1, <1>4, <1>8, ArenaFacts DEF InElement
<1>12. ASSUME NEW i \in DOMAIN blocks PROVE Apart(blocks[i], b)
  <2>0. blocks[i] \in BlockType
    BY DEF MemInv
  <2>1. CASE blocks[i].heap
    <3>0. PICK x \in Arena : \E y \in used[x] :
            blocks[i].start = SlotStart(x, y) /\ blocks[i].size <= ArenaSizes[x]
      BY <2>1 DEF MemInv, InElement
    <3>1. PICK y \in used[x] :
            blocks[i].start = SlotStart(x, y) /\ blocks[i].size <= ArenaSizes[x]
      BY <3>0
    <3>2. y \in Element /\ (x # a \/ y # e)
      BY <1>2 DEF MemInv
    <3>3. \/ SlotStart(x, y) + ArenaSizes[x] <= SlotStart(a, e)
          \/ SlotStart(a, e) + ArenaSizes[a] <= SlotStart(x, y)
      BY <1>1, <1>2, <3>2, SlotsApart
    <3>4. SlotStart(a, e) \in Nat /\ SlotStart(x, y) \in Nat
          /\ ArenaSizes[a] \in Nat /\ ArenaSizes[x] \in Nat
      BY <1>1, <1>2, <3>2, SlotInArena, ArenaFacts
    <3>5. blocks[i].size \in Nat
      BY <2>0 DEF BlockType
    <3> QED BY <1>1, <1>4, <3>1, <3>3, <3>4, <3>5 DEF Apart
  <2>2. CASE ~blocks[i].heap
    <3>1. BelowFrontier(blocks[i]) /\ frontier \in ForeverStart .. ForeverStop
      BY <2>2 DEF MemInv
    <3>2. HeapStart <= SlotStart(a, e)
      BY <1>1, <1>2, ElementInHeap DEF HeapUp
    <3>3. blocks[i].start \in Nat /\ blocks[i].size \in Nat /\ SlotStart(a, e) \in Nat
      BY <2>0, <1>1, <1>2, SlotInArena DEF BlockType
    <3> QED BY <1>4, <3>1, <3>2, <3>3, MemoryAssumption DEF Apart, BelowFrontier
  <2> QED BY <2>1, <2>2
<1>13. \A i, j \in DOMAIN blocks' : i # j => Apart(blocks'[i], blocks'[j])
  BY <1>4, <1>5, <1>12, GivenBlock DEF MemInv
<1>14. \A i \in DOMAIN blocks' :
         IF blocks'[i].heap THEN ArenasFit /\ InElement(blocks[i])'
                            ELSE BelowFrontier(blocks[i])'
  <2>1. TAKE i \in DOMAIN blocks'
  <2>2. (i \in DOMAIN blocks /\ blocks'[i] = blocks[i]) \/ blocks'[i] = b
    BY <1>4, <1>5, Appended DEF MemInv
  <2> QED BY <2>2, <1>4, <1>9, <1>10, <1>11 DEF MemInv, HeapUp
<1>15. blocks' \in Seq(BlockType)
  BY <1>4, <1>5, Appended DEF MemInv
<1> QED BY <1>5, <1>6, <1>13, <1>14, <1>15 DEF MemInv

\* Quotient and remainder.
LEMMA Division ==
  ASSUME NEW y \in Nat, NEW p \in Nat \ {0}
  PROVE  /\ y % p \in 0 .. p - 1 /\ y \div p \in Nat
         /\ (y \div p) * p = y - (y % p)
<1>1. y \div p \in Nat /\ y % p \in 0 .. p - 1
  BY SMT
<1>2. y % p = y - (y \div p) * p
  BY SMT
<1>3. \A m, n \in Int : n = y - m => m = y - n
  BY SMT
<1>4. \A q \in Nat : q * p \in Int
  BY SMT
<1>5. (y \div p) * p \in Int /\ y % p \in Int
  BY <1>1, <1>4
<1> QED BY <1>1, <1>2, <1>3, <1>5, Zenon

\* ALIGN_UP does not lower an address.
LEMMA AlignUp ==
  ASSUME NEW x \in Nat, NEW p \in Nat \ {0}
  PROVE  ALIGN_UP(x, p) \in Nat /\ x <= ALIGN_UP(x, p)
<1>1. PICK y \in Nat : y = x + p - 1
  OBVIOUS
<1>2. PICK r \in 0 .. p - 1 : (y \div p) * p = y - r
  BY Division
<1>3. ALIGN_UP(x, p) = (y \div p) * p
  BY <1>1, Zenon DEF ALIGN_UP
<1>4. ALIGN_UP(x, p) = y - r
  BY <1>2, <1>3, Zenon
<1> QED BY <1>1, <1>4

\* Two multiples of p less than p apart are the same.
LEMMA SameMultiple ==
  ASSUME NEW p \in Nat \ {0}, NEW a \in Int, NEW b \in Int,
         a * p - b * p < p, b * p - a * p < p
  PROVE  a = b
<1>1. \A c \in Int : c >= 1 => c * p >= p
  OBVIOUS
<1>2. (a - b) * p = a * p - b * p /\ (b - a) * p = b * p - a * p
  OBVIOUS
<1>3. a * p \in Int /\ b * p \in Int
  OBVIOUS
<1>4. ASSUME a > b PROVE FALSE
  <2>1. a - b \in Int /\ a - b >= 1
    BY <1>4
  <2>2. (a - b) * p >= p
    BY <1>1, <2>1
  <2> QED BY <1>2, <1>3, <2>2
<1>5. ASSUME b > a PROVE FALSE
  <2>1. b - a \in Int /\ b - a >= 1
    BY <1>5
  <2>2. (b - a) * p >= p
    BY <1>1, <2>1
  <2> QED BY <1>2, <1>3, <2>2
<1> QED BY <1>4, <1>5

\* A multiple of p is its quotient's multiple.
LEMMA MultipleDivides ==
  ASSUME NEW p \in Nat \ {0}, NEW q \in Nat
  PROVE  (q * p) % p = 0 /\ (q * p) \div p = q
<1>1. PICK y \in Nat : y = q * p
  OBVIOUS
<1>2. PICK m \in Nat, r \in 0 .. p - 1 : m = y \div p /\ r = y % p
  BY Division
<1>3. m * p = y - r
  BY <1>2, Division, Zenon
<1>4. m = q
  <2>1. m * p - q * p < p /\ q * p - m * p < p
    BY <1>1, <1>3
  <2> QED BY <2>1, SameMultiple
<1>5. r = 0
  BY <1>1, <1>3, <1>4
<1> QED BY <1>1, <1>2, <1>4, <1>5, Zenon

\* Rounding up moves with multiples of the alignment.
LEMMA AlignMoves ==
  ASSUME NEW p \in Nat \ {0}, NEW d \in Nat, d % p = 0, NEW x \in Nat
  PROVE  ALIGN_UP(d + x, p) = d + ALIGN_UP(x, p)
<1>1. PICK y \in Nat, z \in Nat : y = x + p - 1 /\ z = d + x + p - 1
  OBVIOUS
<1>2. PICK k \in Nat : k * p = d
  <2>1. d \div p \in Nat /\ (d \div p) * p = d - 0
    BY Division
  <2> QED BY <2>1
<1>3. PICK m \in Nat, r \in 0 .. p - 1 : m = y \div p /\ m * p = y - r
  BY Division
<1>4. PICK n \in Nat, s \in 0 .. p - 1 : n = z \div p /\ n * p = z - s
  BY Division
<1>5. (k + m) * p = k * p + m * p /\ (k + m) * p \in Int /\ n * p \in Int
  OBVIOUS
<1>6. n = k + m
  <2>1. n * p - (k + m) * p < p /\ (k + m) * p - n * p < p
    BY <1>1, <1>2, <1>3, <1>4, <1>5
  <2> QED BY <2>1, SameMultiple
<1>7. n * p = d + m * p
  BY <1>2, <1>5, <1>6
<1>8. ALIGN_UP(d + x, p) = n * p /\ ALIGN_UP(x, p) = m * p
  BY <1>1, <1>3, <1>4, Zenon DEF ALIGN_UP
<1> QED BY <1>7, <1>8, Zenon
\* forever_alloc_aligned moves the frontier past the piece it cuts.
LEMMA ForeverMemInv ==
  ASSUME MemInv, NEW size \in Nat, NEW p \in Nat \ {0},
         forever_alloc_aligned(size, p)
  PROVE  MemInv'
<1>1. PICK f : f = ForeverAddress(p)
  OBVIOUS
<1>2. f \in Nat /\ frontier <= f /\ ForeverStart <= f /\ f + size <= ForeverStop
  <2>1. frontier \in Nat /\ ForeverStart <= frontier
    BY MemoryAssumption DEF MemInv
  <2>2. f \in Nat /\ frontier <= f
    BY <1>1, <2>1, AlignUp DEF ForeverAddress
  <2>3. f + size <= ForeverStop
    BY <1>1 DEF forever_alloc_aligned, CanForever
  <2> QED BY <2>1, <2>2, <2>3, MemoryAssumption
<1> DEFINE b == [start |-> f, size |-> size, heap |-> FALSE]
<1>3. b \in BlockType /\ b.start = f /\ b.size = size /\ ~b.heap
  BY <1>2 DEF BlockType
<1>4. /\ blocks' = Append(blocks, b) /\ frontier' = f + size /\ used' = used
  BY <1>1 DEF forever_alloc_aligned, Given
<1> HIDE DEF b
<1>5. \A c : InElement(c) => InElement(c)'
  BY <1>4 DEF InElement
<1>6. \A c \in BlockType : BelowFrontier(c) => BelowFrontier(c)'
  BY <1>2, <1>4, MemoryAssumption DEF BelowFrontier, MemInv, BlockType
<1>7. BelowFrontier(b)'
  BY <1>2, <1>3, <1>4 DEF BelowFrontier
<1>8. ASSUME NEW i \in DOMAIN blocks PROVE Apart(blocks[i], b)
  <2>0. blocks[i] \in BlockType
    BY DEF MemInv
  <2>1. CASE blocks[i].heap
    <3>0. PICK x \in Arena : \E y \in used[x] :
            blocks[i].start = SlotStart(x, y) /\ blocks[i].size <= ArenaSizes[x]
      BY <2>1 DEF MemInv, InElement
    <3>1. PICK y \in used[x] :
            blocks[i].start = SlotStart(x, y) /\ blocks[i].size <= ArenaSizes[x]
      BY <3>0
    <3>2. y \in Element /\ ArenasFit
      BY <2>1 DEF MemInv
    <3>3. HeapStart <= SlotStart(x, y) /\ SlotStart(x, y) \in Nat
      BY <3>2, ElementInHeap, SlotInArena
    <3> QED BY <1>2, <1>3, <3>1, <3>3, MemoryAssumption DEF Apart
  <2>2. CASE ~blocks[i].heap
    <3>1. BelowFrontier(blocks[i]) /\ frontier \in ForeverStart .. ForeverStop
      BY <2>2 DEF MemInv
    <3> QED
      BY <1>2, <1>3, <2>0, <3>1, MemoryAssumption
      DEF Apart, BelowFrontier, BlockType
  <2> QED BY <2>1, <2>2
<1>9. \A i, j \in DOMAIN blocks' : i # j => Apart(blocks'[i], blocks'[j])
  BY <1>3, <1>4, <1>8, GivenBlock DEF MemInv
<1>10. \A i \in DOMAIN blocks' :
         IF blocks'[i].heap THEN ArenasFit /\ InElement(blocks[i])'
                            ELSE BelowFrontier(blocks[i])'
  <2>1. TAKE i \in DOMAIN blocks'
  <2>2. \/ i \in DOMAIN blocks /\ blocks'[i] = blocks[i] /\ blocks[i] \in BlockType
        \/ blocks'[i] = b
    BY <1>3, <1>4, Appended DEF MemInv
  <2> QED BY <2>2, <1>3, <1>5, <1>6, <1>7 DEF MemInv
<1>11. blocks' \in Seq(BlockType)
  BY <1>3, <1>4, Appended DEF MemInv
<1>12. frontier' \in ForeverStart .. ForeverStop
  BY <1>2, <1>4, MemoryAssumption
<1> QED BY <1>4, <1>9, <1>10, <1>11, <1>12 DEF MemInv

\* MemInv does not depend on arena_start.
LEMMA MemUnchanged ==
  ASSUME MemInv, used' = used, frontier' = frontier, blocks' = blocks
  PROVE  MemInv'
BY DEF MemInv, InElement, BelowFrontier

-----------------------------------------------------------------------------
(* Traps.                                                                  *)

\* What the trap entry saves of the caller.
UserFrame ==
  [regs |-> [caller.regs EXCEPT !.sp = @ - 1], code |-> caller.code,
   sepc |-> caller.pc]

\* What it saves of the kernel's own code, interrupted at a place.
InterruptFrame(f, place) ==
  f.code = TimerCode /\ f.sepc = place /\ f.regs \in [Reg -> Int]

\* ft is not saved: a call that waits may find it changed.
CallerWaits ==
  caller.code = CallCode /\ syscall_handlers[caller.regs.a7] \in Waiting
FtKept == regs.ft = caller.regs.ft \/ CallerWaits

\* User code runs on with the registers it had.
Same ==
  /\ pc = ReturnPlace(caller.pc, caller.code)
  /\ \A r \in Reg :
       \/ regs[r] = caller.regs[r]
       \/ caller.code = CallCode /\ r \in {"a0", "a1"}
       \/ r = "ft" /\ CallerWaits

\* The machine stops, or is about to.
Stopping ==
  pc[1] \in {"off", "overrun", "null", "software_interrupt_handler"}
\* The places the code can be in, with what the trap stack holds there.
InBoot ==
  pc[1] = "boot" /\ frames = <<>> /\ mode = "S" /\ caller.pc[1] = "boot"
InUser ==
  /\ pc[1] = "user" /\ pc[2] \in Nat /\ frames = <<>> /\ mode = "U"
  /\ caller.pc[1] = "boot" \/ (caller.pc[1] = "user" /\ Same)
\* A load access fault of the boot, taken for the timer.
BootTrap ==
  /\ pc[1] \in {"timer_interrupt_handler", "exit"}
  /\ mode = "S" /\ spp = "S" /\ caller.pc[1] = "boot"
  /\ frames = <<frames[1]>>
  /\ InterruptFrame(frames[1], <<"boot", "driver">>)
\* A trap from user code, and the timer's interrupt of a call that waits.
UserTrap ==
  /\ caller.pc[1] = "user" /\ mode = "S" /\ spp = "U"
  /\ frames = <<UserFrame>> /\ FtKept
  /\ \/ pc[1] = "timer_interrupt_handler" /\ caller.code = TimerCode
     \/ pc[1] = "system_call_dispatcher" /\ caller.code = CallCode
     \/ pc = <<"yield", 0>> /\ CallerWaits
     \/ pc[1] = "exit"
YieldTrap ==
  /\ pc[1] \in {"timer_interrupt_handler", "exit"}
  /\ caller.pc[1] = "user" /\ CallerWaits /\ mode = "S" /\ spp = "S"
  /\ frames = <<UserFrame, frames[2]>>
  /\ InterruptFrame(frames[2], <<"yield", 0>>)

TrapInv ==
  /\ regs \in [Reg -> Int] /\ caller.regs \in [Reg -> Int]
  /\ caller.pc[1] = "user" => caller.pc[2] \in Nat
  /\ Stopping \/ InBoot \/ InUser \/ BootTrap \/ UserTrap \/ YieldTrap

-----------------------------------------------------------------------------
(* The boot.                                                               *)

\* The heap is up unless the boot has not come so far or failed.
HeapInv ==
  \/ pc[1] = "off" \/ pc \in {<<"boot", "brk">>, <<"boot", "heap">>}
  \/ HeapUp

RingRecord == [num : Nat, desc : Nat, avail : Nat, used : Nat, size : Nat]
DriverRecord ==
  [init_f : {"null", "entropy", "console", "blk"}, initialized : BOOLEAN,
   window : Int, conf : SUBSET Int, vring : Seq(RingRecord)]
DeviceRecord(o) ==
  [bar0 : Int, ok : BOOLEAN, pfn : [DOMAIN machine[o].queues -> Int]]

BootType ==
  /\ machine \in Machines /\ todo \in SUBSET (DOMAIN machine) /\ base \in Nat
  /\ virtio_drivers \in [1 .. 9 -> DriverRecord]
  /\ DOMAIN dev = DOMAIN machine
  /\ \A o \in DOMAIN machine : dev[o] \in DeviceRecord(o)
  /\ \A t \in 1 .. 9 :
       LET f == virtio_drivers[t].init_f IN f = "null" \/ <<t, f>> \in Drivers

TypeOf(o) == DriverType(machine[o].id)

\* Before configure_pci.
Unscanned == pc \in {<<"boot", s>> : s \in {"brk", "heap", "drivers"}}

\* Devices are passed in the order of their offsets; at is the last of them.
ScanInv ==
  /\ Unscanned => todo = DOMAIN machine
  /\ \A o \in DOMAIN machine \ todo : \A p \in todo : Position(o) <= Position(p)
  /\ \/ at = {} /\ type = 0 /\ todo = DOMAIN machine
     \/ /\ at \in DOMAIN machine \ todo
        /\ type = DriverType(IdAt(DeviceConf(at)))
        /\ \A o \in DOMAIN machine \ todo : Position(o) <= Position(at)

\* The window of the device at hand is reserved and not in use, also while a
\* load fault is taken for the timer.
AtDriver == pc = <<"boot", "driver">> \/ BootTrap

\* No two devices have the same window.
WindowInv ==
  /\ \A o \in DOMAIN dev :
       \/ dev[o].bar0 = None
       \/ dev[o].bar0 \in Nat /\ dev[o].bar0 < base
          /\ (AtDriver => dev[o].bar0 < base - Page)
  /\ \A o, c \in DOMAIN dev : dev[o].bar0 = dev[c].bar0 => o = c \/ dev[o].bar0 = None
  /\ AtDriver => base >= Page

RingCount(t) == IF t = 3 THEN 2 ELSE 1
RingLength(t, o) == IF t = 1 THEN 256 ELSE machine[o].queues[1]

\* The driver has a device of its type, and the device the driver's window.
Started(t) ==
  LET d == virtio_drivers[t]
  IN  /\ d.conf \in DOMAIN machine /\ TypeOf(d.conf) = t
      /\ d.window \in Nat /\ dev[d.conf].bar0 = d.window
      /\ d.init_f # "null"

\* A ring is laid out at a page, in a block of its own, or is at zero.
RingOk(t, q) ==
  LET d == virtio_drivers[t]
      r == d.vring[q]
  IN  r.desc # NULL =>
        /\ r = Vring(r.desc, RingLength(t, d.conf), machine[d.conf].queues[1])
        /\ r.desc % Page = 0
        /\ \E i \in DOMAIN blocks :
             blocks[i] = [start |-> r.desc, size |-> r.size, heap |-> FALSE]

\* A driver that is initialised, and whose device was not started again,
\* has told the device the pages of all its rings.
DriverOk(t) ==
  LET d == virtio_drivers[t]
  IN  /\ d.initialized => Started(t)
      /\ d.vring # <<>> => Started(t)
      /\ \A q \in DOMAIN d.vring : RingOk(t, q)
      /\ d.initialized /\ dev[d.conf].ok =>
           /\ Len(d.vring) = RingCount(t)
           /\ \A q \in DOMAIN d.vring \cap DOMAIN machine[d.conf].queues :
                dev[d.conf].pfn[q] = d.vring[q].desc \div Page

DriverInv == \A t \in 1 .. 9 : DriverOk(t)

\* Between the two parts of an init function.
RingStage ==
  pc = <<"boot", "ring">> =>
    /\ type \in 1 .. 9 /\ Started(type) /\ Driver.conf = Conf
    /\ ~dev[Conf].ok /\ Len(Driver.vring) <= RingCount(type)

BootInv == BootType /\ ScanInv /\ WindowInv /\ DriverInv /\ RingStage

ProcType == process \in [brk : Int, clear_child_tid : Int]

MachineInv ==
  /\ TrapInv /\ ProcType /\ HeapInv /\ MemInv /\ BootInv
  /\ DrivesScannedDevice

-----------------------------------------------------------------------------
(* TrapInv is inductive.                                                   *)

\* Pushing a frame and popping it, for the depths that occur.
LEMMA Stack ==
  /\ \A x : Append(<<>>, x) = <<x>>
  /\ \A x, y : Append(<<x>>, y) = <<x, y>>
  /\ \A x : SubSeq(<<x>>, 1, Len(<<x>>) - 1) = <<>>
  /\ \A x, y : SubSeq(<<x, y>>, 1, Len(<<x, y>>) - 1) = <<x>>
<1>1. \A x : Append(<<>>, x) = <<x>>
  OBVIOUS
<1>2. \A x, y : Append(<<x>>, y) = <<x, y>>
  <2> TAKE x, y
  <2> DEFINE S == {x, y}
  <2>1. <<x>> \in Seq(S) /\ <<x, y>> \in Seq(S) /\ Append(<<x>>, y) \in Seq(S)
    OBVIOUS
  <2>2. Len(<<x, y>>) = 2 /\ <<x, y>>[1] = x /\ <<x, y>>[2] = y
    OBVIOUS
  <2>3. /\ Len(Append(<<x>>, y)) = 2
        /\ Append(<<x>>, y)[1] = x /\ Append(<<x>>, y)[2] = y
    BY <2>1, AppendProperties
  <2>4. \A i \in 1 .. 2 : Append(<<x>>, y)[i] = <<x, y>>[i]
    BY <2>2, <2>3
  <2> QED BY <2>1, <2>2, <2>3, <2>4, SeqEqual
<1>3. \A x : SubSeq(<<x>>, 1, Len(<<x>>) - 1) = <<>>
  OBVIOUS
<1>4. \A x, y : SubSeq(<<x, y>>, 1, Len(<<x, y>>) - 1) = <<x>>
  <2> TAKE x, y
  <2> DEFINE S == {x, y}
             t == SubSeq(<<x, y>>, 1, 1)
  <2>1. <<x>> \in Seq(S) /\ <<x, y>> \in Seq(S) /\ Len(<<x, y>>) - 1 = 1
    OBVIOUS
  <2>2. t \in Seq(S) /\ Len(t) = 1 /\ t[1] = x
    BY <2>1, SubSeqProperties
  <2>3. \A i \in 1 .. 1 : t[i] = <<x>>[i]
    BY <2>2
  <2>4. t = <<x>>
    BY <2>1, <2>2, <2>3, SeqEqual
  <2> QED BY <2>1, <2>4, Zenon
<1> QED BY <1>1, <1>2, <1>3, <1>4

\* The trap table: three handlers, and null elsewhere.
LEMMA Handlers ==
  /\ TrapHandler(1) = "software_interrupt_handler"
  /\ TrapHandler(TimerCode) = "timer_interrupt_handler"
  /\ TrapHandler(CallCode) = "system_call_dispatcher"
  /\ \A c : c \notin {1, TimerCode, CallCode} => TrapHandler(c) = "null"
  /\ 1 # TimerCode /\ 1 # CallCode /\ TimerCode # CallCode
<1>1. 1 # TimerCode /\ 1 # CallCode /\ TimerCode # CallCode
  BY DEF TimerCode, CallCode
<1> QED BY <1>1, Zenon DEF TrapHandler

\* TrapInv holds at power on.
LEMMA InitTrapInv ==
  ASSUME TrapInit PROVE TrapInv
BY DEF TrapInit, TrapInv, InBoot, Reg

\* The boot runs in supervisor mode with an empty trap stack.
LEMMA BootPlace ==
  ASSUME TrapInv, pc[1] = "boot" PROVE InBoot
BY DEF TrapInv, Stopping, InBoot, InUser, BootTrap, UserTrap, YieldTrap

\* A step to the next stage of the boot keeps TrapInv ...
LEMMA GoTrapInv ==
  ASSUME TrapInv, pc[1] = "boot", NEW s, Go(s) PROVE TrapInv'
BY BootPlace DEF TrapInv, InBoot, Go

\* ... and so does turning the machine off.
LEMMA StopTrapInv ==
  ASSUME TrapInv, Stop PROVE TrapInv'
BY DEF TrapInv, Stopping, Stop, Off

\* The trap entry saves the registers in a frame and jumps to the handler, or
\* the stack overruns.
LEMMA EntryFacts ==
  ASSUME NEW code, NEW with, with \in [Reg -> Int], Entry(code, with),
         regs \in [Reg -> Int]
  PROVE  /\ regs' \in [Reg -> Int] /\ mode' = "S" /\ spp' = mode
         /\ \/ pc' = <<"overrun", 0>>
            \/ /\ pc' = <<TrapHandler(code), code>>
               /\ regs' = [with EXCEPT !.sp = @ - 1]
               /\ frames' = Append(frames,
                              [regs |-> regs', code |-> code, sepc |-> pc])
<1>1. with.sp \in Int /\ "sp" \in Reg
  BY DEF Reg
<1>2. [with EXCEPT !.sp = @ - 1] \in [Reg -> Int]
  BY <1>1
<1> QED BY <1>2 DEF Entry

\* The faults of the boot keep TrapInv.
LEMMA BootFaultTrapInv ==
  ASSUME TrapInv, pc[1] = "boot", UNCHANGED caller,
         NEW code, Fault(code),
         (code = TimerCode /\ pc = <<"boot", "driver">>) \/ code \in {1, 2, 7}
  PROVE  TrapInv'
<1>1. InBoot /\ regs \in [Reg -> Int]
  BY BootPlace DEF TrapInv
<1>2. CASE code \in {1, 2, 7}
  <2>1. pc' = <<"overrun", 0>> \/ pc' = <<TrapHandler(code), code>>
    BY <1>1, EntryFacts DEF Fault
  <2>2. TrapHandler(code) \in {"null", "software_interrupt_handler"}
    BY <1>2, Handlers DEF TimerCode, CallCode
  <2>3. Stopping'
    BY <2>1, <2>2 DEF Stopping
  <2> QED BY <1>1, <2>3, EntryFacts DEF Fault, TrapInv
<1>3. CASE code = TimerCode /\ pc = <<"boot", "driver">>
  <2>1. CASE pc' = <<"overrun", 0>>
    BY <1>1, <2>1, EntryFacts DEF Fault, TrapInv, Stopping
  <2>2. CASE /\ pc' = <<TrapHandler(code), code>>
             /\ regs' = [regs EXCEPT !.sp = @ - 1]
             /\ frames' = Append(frames,
                            [regs |-> regs', code |-> code, sepc |-> pc])
    <3>1. frames' = <<[regs |-> regs', code |-> code, sepc |-> pc]>>
      BY <1>1, <2>2, Stack DEF InBoot
    <3>2. mode' = "S" /\ spp' = "S" /\ regs' \in [Reg -> Int]
      BY <1>1, EntryFacts DEF Fault, InBoot
    <3>3. pc'[1] = "timer_interrupt_handler"
      BY <1>3, <2>2, Handlers
    <3>4. frames' = <<frames'[1]>> /\ InterruptFrame(frames[1], <<"boot", "driver">>)'
      BY <1>3, <3>1, <3>2 DEF InterruptFrame
    <3>5. BootTrap'
      BY <1>1, <3>2, <3>3, <3>4 DEF BootTrap, InBoot
    <3> QED BY <1>1, <3>2, <3>5 DEF TrapInv
  <2> QED BY <1>1, <2>1, <2>2, EntryFacts DEF Fault
<1> QED BY <1>2, <1>3

\* The sret that ends the boot keeps TrapInv.
LEMMA BootEndsTrapInv ==
  ASSUME TrapInv, BootEnds PROVE TrapInv'
<1>1. InBoot
  BY BootPlace DEF BootEnds, Stage
<1>2. /\ pc' = <<"user", 0>> /\ mode' = "U" /\ frames' = frames
      /\ caller' = caller
      /\ regs' = [regs EXCEPT !.a0 = 0, !.a1 = 0, !.a2 = 0, !.a7 = 0]
  BY DEF BootEnds
<1>3. regs' \in [Reg -> Int]
  <2>1. {"a0", "a1", "a2", "a7"} \subseteq Reg
    BY DEF Reg
  <2>2. regs \in [Reg -> Int]
    BY DEF TrapInv
  <2>3. ASSUME NEW f \in [Reg -> Int], NEW r \in Reg
        PROVE  [f EXCEPT ![r] = 0] \in [Reg -> Int]
    OBVIOUS
  <2>4. [regs EXCEPT !["a0"] = 0] \in [Reg -> Int]
    BY <2>1, <2>2, <2>3
  <2>5. [regs EXCEPT !["a0"] = 0, !["a1"] = 0] \in [Reg -> Int]
    BY <2>1, <2>3, <2>4
  <2>6. [regs EXCEPT !["a0"] = 0, !["a1"] = 0, !["a2"] = 0] \in [Reg -> Int]
    BY <2>1, <2>3, <2>5
  <2> QED BY <1>2, <2>1, <2>3, <2>6
<1>4. InUser'
  BY <1>1, <1>2 DEF InUser, InBoot
<1> QED BY <1>2, <1>3, <1>4 DEF TrapInv

\* Every step of the boot keeps TrapInv.
LEMMA BootTrapInv ==
  ASSUME TrapInv, BootStep PROVE TrapInv'
<1>1. BootBrk => TrapInv'
  BY GoTrapInv DEF BootBrk, Stage
<1>2. BootHeap => TrapInv'
  BY GoTrapInv, StopTrapInv DEF BootHeap, Stage
<1>3. load_drivers => TrapInv'
  BY GoTrapInv DEF load_drivers, Stage
<1>4. ScanFinds => TrapInv'
  BY GoTrapInv DEF ScanFinds, Stage
<1>5. ScanEnds => TrapInv'
  BY GoTrapInv DEF ScanEnds, Stage
<1>6. DriverMissing => TrapInv'
  BY BootFaultTrapInv DEF DriverMissing, Stage
<1>7. DriverNotLoaded => TrapInv'
  BY BootFaultTrapInv DEF DriverNotLoaded, Stage
<1>8. InitStart => TrapInv'
  BY GoTrapInv, StopTrapInv DEF InitStart, Stage
<1>9. vring_init => TrapInv'
  BY GoTrapInv DEF vring_init, Stage
<1>10. VringNoSpace => TrapInv'
  BY GoTrapInv, BootFaultTrapInv DEF VringNoSpace, Stage
<1>11. InitEnd => TrapInv'
  <2>1. InitEnd => Stage("ring") /\ Go("scan")
    BY Zenon DEF InitEnd
  <2> QED BY <2>1, GoTrapInv DEF Stage
<1>12. BootIo => TrapInv'
  BY GoTrapInv DEF BootIo, Stage
<1>13. BootCalls => TrapInv'
  BY GoTrapInv DEF BootCalls, Stage
<1>14. configure_dl_random => TrapInv'
  BY GoTrapInv, StopTrapInv DEF configure_dl_random, Stage
<1>15. BootEnds => TrapInv'
  BY BootEndsTrapInv
<1> QED
  BY <1>1, <1>2, <1>3, <1>4, <1>5, <1>6, <1>7, <1>8, <1>9, <1>10, <1>11, <1>12,
     <1>13, <1>14, <1>15 DEF BootStep

\* C code changes scratch registers and leaves ft alone.
LEMMA ClobberFacts ==
  ASSUME regs \in [Reg -> Int], NEW kept \in [Scratch -> Int]
  PROVE  Clobber(kept) \in [Reg -> Int] /\ Clobber(kept)["ft"] = regs["ft"]
BY DEF Clobber, Scratch, Reg

\* In a trap from user code the frame holds the caller's registers.
LEMMA UserFrameFacts ==
  ASSUME UserTrap, TrapInv
  PROVE  /\ Frame = UserFrame /\ frames[1] = UserFrame
         /\ UserFrame.code = caller.code /\ UserFrame.sepc = caller.pc
         /\ UserFrame.regs \in [Reg -> Int]
         /\ UserFrame.regs.sp + 1 = caller.regs.sp
         /\ \A r \in Reg : r # "sp" => UserFrame.regs[r] = caller.regs[r]
<1>1. Frame = UserFrame /\ frames[1] = UserFrame
  BY DEF UserTrap, Frame
<1>2. /\ UserFrame.code = caller.code /\ UserFrame.sepc = caller.pc
      /\ UserFrame.regs = [caller.regs EXCEPT !["sp"] = @ - 1]
  BY DEF UserFrame
<1>3. caller.regs \in [Reg -> Int] /\ "sp" \in Reg
  BY DEF TrapInv, Reg
<1>4. /\ [caller.regs EXCEPT !["sp"] = @ - 1] \in [Reg -> Int]
      /\ [caller.regs EXCEPT !["sp"] = @ - 1]["sp"] = caller.regs["sp"] - 1
      /\ \A r \in Reg : r # "sp" =>
           [caller.regs EXCEPT !["sp"] = @ - 1][r] = caller.regs[r]
  BY <1>3
<1>5. caller.regs.sp \in Int
  BY <1>3
<1>6. UserFrame.regs.sp + 1 = caller.regs.sp
  BY <1>2, <1>4, <1>5
<1> QED BY <1>1, <1>2, <1>4, <1>6

\* The dispatcher finds the number and the arguments of the call in the
\* frame.
LEMMA CalledFacts ==
  ASSUME TrapInv, pc[1] = "system_call_dispatcher"
  PROVE  /\ UserTrap /\ caller.code = CallCode
         /\ \A h : Called(h) => syscall_handlers[caller.regs.a7] = h
         /\ DispatcherArgs[1] \in Int
<1>1. UserTrap /\ caller.code = CallCode
  BY DEF TrapInv, Stopping, InBoot, InUser, BootTrap, UserTrap, YieldTrap
<1>2. Frame.regs["a7"] = caller.regs["a7"] /\ Frame.regs["a0"] \in Int
  BY <1>1, UserFrameFacts DEF Reg
<1> QED BY <1>1, <1>2 DEF Called, DispatcherArgs

\* Who yields is in a call that waits.
LEMMA YieldPlace ==
  ASSUME TrapInv, pc[1] = "yield" PROVE UserTrap /\ CallerWaits /\ pc = <<"yield", 0>>
BY DEF TrapInv, Stopping, InBoot, InUser, BootTrap, UserTrap, YieldTrap

\* User code runs in user mode with an empty trap stack.
LEMMA UserPlace ==
  ASSUME TrapInv, pc[1] = "user" PROVE InUser
BY DEF TrapInv, Stopping, InBoot, InUser, BootTrap, UserTrap, YieldTrap

\* The end of a system call keeps TrapInv.
LEMMA ResultTrapInv ==
  ASSUME TrapInv, NEW n \in Int, Result(n),
         pc[1] \in {"system_call_dispatcher", "yield"}
  PROVE  TrapInv'
<1> DEFINE kept == [r \in Scratch |-> IF r = "a0" THEN n ELSE Clobbered]
<1>1. UserTrap
  BY CalledFacts, YieldPlace
<1>2. kept \in [Scratch -> Int]
  BY DEF Clobbered
<1>3. regs' = Clobber(kept) /\ pc' = <<"exit", 0>>
      /\ UNCHANGED <<mode, frames, sepc, spp, syscall_handlers, caller>>
  BY DEF Result
<1> HIDE DEF kept
<1>4. regs' \in [Reg -> Int] /\ regs'["ft"] = regs["ft"]
  BY <1>2, <1>3, ClobberFacts DEF TrapInv
<1>5. UserTrap'
  BY <1>1, <1>3, <1>4 DEF UserTrap, FtKept, CallerWaits, UserFrame
<1> QED BY <1>3, <1>4, <1>5 DEF TrapInv

\* Turning the machine off in a trap keeps TrapInv.
LEMMA OffTrapInv ==
  ASSUME TrapInv, Off, UNCHANGED <<regs, caller>> PROVE TrapInv'
BY DEF TrapInv, Off, Stopping

\* The registers after a handler that returns.
LEMMA AfterCFacts ==
  ASSUME regs \in [Reg -> Int]
  PROVE  AfterC \in [Reg -> Int] /\ AfterC["ft"] = regs["ft"]
<1>1. [r \in Scratch |-> Clobbered] \in [Scratch -> Int]
  BY DEF Clobbered
<1> QED BY <1>1, ClobberFacts DEF AfterC

\* timer_interrupt_handler keeps TrapInv.
LEMMA TimerHandlerTrapInv ==
  ASSUME TrapInv, timer_interrupt_handler PROVE TrapInv'
<1>1. /\ regs' = AfterC /\ pc' = <<"exit", 0>>
      /\ UNCHANGED <<mode, frames, sepc, spp, memVars, procVars, caller>>
      /\ pc[1] = "timer_interrupt_handler"
  BY DEF timer_interrupt_handler
<1>2. regs' \in [Reg -> Int] /\ regs'["ft"] = regs["ft"]
  BY <1>1, AfterCFacts DEF TrapInv
<1>3. UNCHANGED syscall_handlers
  BY <1>1 DEF procVars
<1>4. BootTrap \/ UserTrap \/ YieldTrap
  BY <1>1 DEF TrapInv, Stopping, InBoot, InUser
<1>5. BootTrap => BootTrap'
  BY <1>1 DEF BootTrap, InterruptFrame
<1>6. UserTrap => UserTrap'
  BY <1>1, <1>2, <1>3 DEF UserTrap, FtKept, CallerWaits, UserFrame
<1>7. YieldTrap => YieldTrap'
  BY <1>1, <1>2, <1>3 DEF YieldTrap, InterruptFrame, CallerWaits, UserFrame
<1> QED BY <1>1, <1>2, <1>4, <1>5, <1>6, <1>7 DEF TrapInv

\* A call that begins to wait keeps TrapInv.
LEMMA YieldsTrapInv ==
  ASSUME TrapInv, Yields PROVE TrapInv'
<1>1. /\ regs' = [AfterC EXCEPT !["ft"] = Clobbered] /\ pc' = <<"yield", 0>>
      /\ UNCHANGED <<mode, frames, spp, syscall_handlers, caller>>
      /\ pc[1] = "system_call_dispatcher"
  BY DEF Yields, Called, procVars
<1>2. UserTrap /\ CallerWaits
  BY <1>1, CalledFacts DEF Yields, CallerWaits
<1>3. regs' \in [Reg -> Int]
  <2>1. AfterC \in [Reg -> Int] /\ Clobbered \in Int
    BY AfterCFacts DEF TrapInv, Clobbered
  <2> QED BY <1>1, <2>1
<1>4. UserTrap'
  BY <1>1, <1>2 DEF UserTrap, FtKept, CallerWaits, UserFrame
<1> QED BY <1>1, <1>3, <1>4 DEF TrapInv

\* The trap exit restores what the frame holds and keeps TrapInv, whether it
\* leads to user code, to a call that waits or to the boot.
LEMMA ExitTrapInv ==
  ASSUME TrapInv, ExitTrap PROVE TrapInv'
<1>1. /\ pc[1] = "exit"
      /\ regs' = [r \in Reg |->
                IF r = "ft" \/ (Frame.code = CallCode /\ r \in {"a0", "a1"})
                  THEN regs[r]
                  ELSE IF r = "sp" THEN Frame.regs.sp + 1 ELSE Frame.regs[r]]
      /\ frames' = SubSeq(frames, 1, Len(frames) - 1)
      /\ pc' = ReturnPlace(Frame.sepc, Frame.code)
      /\ mode' = spp /\ spp' = "U" /\ caller' = caller
      /\ syscall_handlers' = syscall_handlers
  BY DEF ExitTrap, Exit, procVars
<1>2. BootTrap \/ UserTrap \/ YieldTrap
  BY <1>1 DEF TrapInv, Stopping, InBoot, InUser
<1>3. ASSUME Frame.regs \in [Reg -> Int] PROVE regs' \in [Reg -> Int]
  <2>1. "sp" \in Reg /\ regs \in [Reg -> Int]
    BY DEF TrapInv, Reg
  <2>2. Frame.regs["sp"] + 1 \in Int
    BY <1>3, <2>1
  <2> QED BY <1>1, <1>3, <2>1, <2>2
<1>4. CASE BootTrap
  <2>1. Frame = frames[1] /\ frames = <<frames[1]>>
    BY <1>4 DEF BootTrap, Frame
  <2>2. Frame.regs \in [Reg -> Int] /\ pc' = <<"boot", "driver">>
    BY <1>1, <1>4, <2>1, Handlers DEF BootTrap, InterruptFrame, ReturnPlace
  <2>3. frames' = <<>>
    BY <1>1, <2>1, Stack
  <2>4. InBoot'
    BY <1>1, <1>4, <2>2, <2>3 DEF InBoot, BootTrap
  <2> QED BY <1>1, <1>3, <2>2, <2>4 DEF TrapInv
<1>5. CASE UserTrap
  <2>1. Frame = UserFrame /\ Frame.code = caller.code /\ Frame.sepc = caller.pc
    BY <1>5, UserFrameFacts
  <2>2. regs' \in [Reg -> Int]
    BY <1>3, <1>5, UserFrameFacts
  <2>3. frames' = <<>>
    BY <1>1, <1>5, Stack DEF UserTrap
  <2>4. pc' = ReturnPlace(caller.pc, caller.code) /\ mode' = "U"
    BY <1>1, <1>5, <2>1 DEF UserTrap
  <2>5. caller.pc[1] = "user" /\ caller.pc[2] \in Nat
    BY <1>5 DEF UserTrap, TrapInv
  <2>6. pc'[1] = "user" /\ pc'[2] \in Nat
    BY <2>4, <2>5 DEF ReturnPlace
  <2>7. ASSUME NEW r \in Reg
        PROVE  \/ regs'[r] = caller.regs[r]
               \/ caller.code = CallCode /\ r \in {"a0", "a1"}
               \/ r = "ft" /\ CallerWaits
    <3>1. CASE r = "ft"
      BY <1>1, <1>5, <3>1 DEF UserTrap, FtKept
    <3>2. CASE r = "sp"
      <4>1. regs'[r] = Frame.regs.sp + 1
        BY <1>1, <3>2
      <4> QED BY <4>1, <1>5, <3>2, UserFrameFacts
    <3>3. CASE r \notin {"ft", "sp"} /\ ~(caller.code = CallCode /\ r \in {"a0", "a1"})
      <4>1. regs'[r] = Frame.regs[r]
        BY <1>1, <2>1, <3>3
      <4> QED BY <4>1, <1>5, <3>3, UserFrameFacts
    <3> QED BY <3>1, <3>2, <3>3
  <2>8. Same'
    BY <1>1, <2>4, <2>7 DEF Same, CallerWaits
  <2>9. InUser'
    BY <1>1, <2>3, <2>4, <2>5, <2>6, <2>8 DEF InUser
  <2> QED BY <1>1, <2>2, <2>9 DEF TrapInv
<1>6. CASE YieldTrap
  <2>1. Frame = frames[2] /\ frames = <<UserFrame, frames[2]>>
    BY <1>6 DEF YieldTrap, Frame
  <2>2. Frame.regs \in [Reg -> Int] /\ pc' = <<"yield", 0>>
    BY <1>1, <1>6, <2>1, Handlers DEF YieldTrap, InterruptFrame, ReturnPlace
  <2>3. frames' = <<UserFrame>>
    BY <1>1, <2>1, Stack
  <2>4. UserTrap'
    BY <1>1, <1>6, <2>2, <2>3
    DEF UserTrap, YieldTrap, FtKept, CallerWaits, UserFrame
  <2> QED BY <1>1, <1>3, <2>2, <2>4 DEF TrapInv
<1> QED BY <1>2, <1>4, <1>5, <1>6

\* The jump through a null entry of the trap table keeps TrapInv.
LEMMA NullTrapInv ==
  ASSUME TrapInv, JumpToNull PROVE TrapInv'
<1>1. /\ pc' = <<"overrun", 0>> \/ pc' = <<TrapHandler(1), 1>>
      /\ regs' \in [Reg -> Int] /\ caller' = caller
  BY EntryFacts DEF JumpToNull, Fault, TrapInv
<1>2. Stopping'
  BY <1>1, Handlers DEF Stopping
<1> QED BY <1>1, <1>2 DEF TrapInv

\* A trap of user code, with what it had in its registers.
LEMMA UserEntryTrapInv ==
  ASSUME TrapInv, pc[1] = "user", NEW code, NEW r \in [Reg -> Int],
         code = CallCode \/ r = regs,
         caller' = [pc |-> pc, regs |-> r, code |-> code], Entry(code, r),
         UNCHANGED procVars
  PROVE  TrapInv'
<1>1. InUser /\ regs \in [Reg -> Int]
  BY UserPlace DEF TrapInv
<1>2. /\ caller'.pc = pc /\ caller'.regs = r /\ caller'.code = code
  OBVIOUS
<1>3. regs' \in [Reg -> Int] /\ mode' = "S" /\ spp' = "U"
  BY <1>1, EntryFacts DEF InUser
<1>4. caller'.regs \in [Reg -> Int] /\ caller'.pc[1] = "user" /\ caller'.pc[2] \in Nat
  BY <1>1, <1>2 DEF InUser
<1>5. CASE pc' = <<"overrun", 0>>
  <2>1. Stopping'
    BY <1>5 DEF Stopping
  <2> QED BY <1>3, <1>4, <2>1 DEF TrapInv
<1>6. CASE /\ pc' = <<TrapHandler(code), code>>
           /\ regs' = [r EXCEPT !.sp = @ - 1]
           /\ frames' = Append(frames,
                          [regs |-> regs', code |-> code, sepc |-> pc])
  <2>1. CASE code \notin {TimerCode, CallCode}
    <3>1. Stopping'
      BY <1>6, <2>1, Handlers DEF Stopping
    <3> QED BY <1>3, <1>4, <3>1 DEF TrapInv
  <2>2. CASE code \in {TimerCode, CallCode}
    <3>1. frames' = <<[regs |-> regs', code |-> code, sepc |-> pc]>>
      BY <1>1, <1>6, Stack DEF InUser
    <3>2. frames' = <<UserFrame'>>
      BY <1>2, <1>6, <3>1 DEF UserFrame
    <3>3. regs'["ft"] = r["ft"]
      BY <1>6 DEF Reg
    <3>4. FtKept'
      BY <1>2, <3>3 DEF FtKept
    <3>5. \/ pc'[1] = "timer_interrupt_handler" /\ caller'.code = TimerCode
          \/ pc'[1] = "system_call_dispatcher" /\ caller'.code = CallCode
      BY <1>2, <1>6, <2>2, Handlers
    <3>6. UserTrap'
      BY <1>3, <1>4, <3>2, <3>4, <3>5 DEF UserTrap
    <3> QED BY <1>3, <1>4, <3>6 DEF TrapInv
  <2> QED BY <2>1, <2>2
<1> QED BY <1>5, <1>6, EntryFacts, <1>1

\* Every step of user code keeps TrapInv.
LEMMA UserTrapInv ==
  ASSUME TrapInv, User PROVE TrapInv'
<1>1. ASSUME NEW n \in Number, NEW v \in Value, UserCall(n, v) PROVE TrapInv'
  <2> DEFINE r == [x \in Reg |->
              CASE x = "a7" -> n [] x = "sp" -> 0 [] x = "a0" -> v
                [] OTHER -> pc[2]]
  <2>1. pc[1] = "user" /\ pc[2] \in Nat
    BY <1>1, UserPlace DEF UserCall, InUser
  <2>2. n \in Int /\ v \in Int
    BY TrapAssumption
  <2>3. r \in [Reg -> Int]
    BY <2>1, <2>2
  <2>4. /\ caller' = [pc |-> pc, regs |-> r, code |-> CallCode]
        /\ Entry(CallCode, r) /\ UNCHANGED procVars
    BY <1>1 DEF UserCall
  <2> HIDE DEF r
  <2> QED BY <2>1, <2>3, <2>4, UserEntryTrapInv
<1>2. ASSUME NEW c \in Faults, UserFault(c) PROVE TrapInv'
  <2>1. regs \in [Reg -> Int]
    BY DEF TrapInv
  <2> QED BY <1>2, <2>1, UserEntryTrapInv DEF UserFault, Fault
<1> QED BY <1>1, <1>2 DEF User

\* An interrupt of user code or of a call that waits keeps TrapInv.
LEMMA InterruptTrapInv ==
  ASSUME TrapInv, TimerInterrupt PROVE TrapInv'
<1>0. regs \in [Reg -> Int]
  BY DEF TrapInv
<1>1. CASE pc[1] = "user"
  BY <1>0, <1>1, UserEntryTrapInv DEF TimerInterrupt, Fault
<1>2. CASE pc[1] = "yield"
  <2>1. UserTrap /\ CallerWaits /\ pc = <<"yield", 0>>
    BY <1>2, YieldPlace
  <2>2. /\ caller' = caller /\ syscall_handlers' = syscall_handlers
        /\ Entry(TimerCode, regs)
    BY <1>2 DEF TimerInterrupt, Fault, procVars
  <2>3. regs' \in [Reg -> Int] /\ mode' = "S" /\ spp' = "S"
    BY <1>0, <2>1, <2>2, EntryFacts DEF UserTrap
  <2>4. CASE pc' = <<"overrun", 0>>
    <3>1. Stopping'
      BY <2>4 DEF Stopping
    <3> QED BY <2>2, <2>3, <3>1 DEF TrapInv
  <2>5. CASE /\ pc' = <<TrapHandler(TimerCode), TimerCode>>
             /\ frames' = Append(frames,
                            [regs |-> regs', code |-> TimerCode, sepc |-> pc])
    <3> DEFINE f == [regs |-> regs', code |-> TimerCode, sepc |-> pc]
    <3>1. frames' = <<UserFrame, f>> /\ frames'[2] = f
      BY <2>1, <2>5, Stack DEF UserTrap
    <3>2. InterruptFrame(frames[2], <<"yield", 0>>)'
      BY <2>1, <2>3, <3>1 DEF InterruptFrame
    <3>3. UserFrame' = UserFrame /\ CallerWaits'
      BY <2>1, <2>2 DEF UserFrame, CallerWaits
    <3>4. YieldTrap'
      BY <2>1, <2>2, <2>3, <2>5, <3>1, <3>2, <3>3, Handlers DEF YieldTrap, UserTrap
    <3> QED BY <2>2, <2>3, <3>4 DEF TrapInv
  <2> QED BY <1>0, <2>2, <2>4, <2>5, EntryFacts
<1> QED BY <1>1, <1>2 DEF TimerInterrupt

\* TrapInv is about the trap state and the process only.
LEMMA StutterTrapInv ==
  ASSUME TrapInv, UNCHANGED <<trapVars, procVars, caller>> PROVE TrapInv'
BY DEF TrapInv, trapVars, procVars, Stopping, InBoot, InUser, BootTrap, UserTrap,
       YieldTrap, InterruptFrame, UserFrame, FtKept, CallerWaits, Same

\* set_brk_s keeps the type of the process.
LEMMA SetBrkType ==
  ASSUME ProcType, NEW n \in Int, set_brk_s(n) PROVE ProcType'
BY DEF ProcType, set_brk_s

\* The calls that return at once keep TrapInv.
LEMMA CallTrapInv ==
  ASSUME TrapInv, ProcType,
         SetBrk \/ set_child_tid \/ ReturnsZero \/ CalledElsewhere \/ mount_hd_s
  PROVE  TrapInv' /\ ProcType'
<1>1. CASE SetBrk
  <2>1. pc[1] = "system_call_dispatcher" /\ ProcType'
    BY <1>1, CalledFacts, SetBrkType DEF SetBrk, Called
  <2>2. process'.brk \in Int /\ Result(process'.brk)
    BY <1>1, <2>1 DEF ProcType, SetBrk
  <2> QED BY <2>1, <2>2, ResultTrapInv
<1>2. CASE set_child_tid
  <2>1. pc[1] = "system_call_dispatcher" /\ Result(1)
    BY <1>2 DEF set_child_tid, Called
  <2>2. DispatcherArgs[1] \in Int
    BY <2>1, CalledFacts
  <2>3. ProcType'
    BY <1>2, <2>2 DEF set_child_tid, ProcType
  <2> QED BY <2>1, <2>3, ResultTrapInv
<1>3. CASE ReturnsZero
  <2>1. pc[1] = "system_call_dispatcher" /\ Result(0) /\ process' = process
    BY <1>3 DEF ReturnsZero, Called
  <2> QED BY <2>1, ResultTrapInv DEF ProcType
<1>4. CASE CalledElsewhere
  <2>1. PICK n \in Value : Result(n)
    BY <1>4 DEF CalledElsewhere
  <2>2. n \in Int /\ pc[1] = "system_call_dispatcher" /\ process' = process
    BY <1>4, TrapAssumption DEF CalledElsewhere, Called
  <2> QED BY <2>1, <2>2, ResultTrapInv DEF ProcType
<1>5. CASE mount_hd_s
  <2>1. pc[1] = "system_call_dispatcher" /\ process' = process
    BY <1>5 DEF mount_hd_s, Called
  <2>2. ASSUME NEW n \in {0, -1}, Result(n) PROVE TrapInv'
    BY <2>1, <2>2, ResultTrapInv
  <2>3. TrapInv'
    BY <1>5, <2>2, OffTrapInv DEF mount_hd_s
  <2> QED BY <2>1, <2>3 DEF ProcType
<1> QED BY <1>1, <1>2, <1>3, <1>4, <1>5

\* Every step of the kernel keeps TrapInv.
LEMMA KernelTrapInv ==
  ASSUME TrapInv, ProcType, Kernel PROVE TrapInv' /\ ProcType'
<1> USE DEF ProcType
<1>1. CASE ExitTrap
  BY <1>1, ExitTrapInv DEF ExitTrap, procVars
<1>2. CASE JumpToNull
  BY <1>2, NullTrapInv DEF JumpToNull, procVars
<1>3. CASE software_interrupt_handler
  BY <1>3, OffTrapInv DEF software_interrupt_handler, procVars
<1>4. CASE timer_interrupt_handler
  BY <1>4, TimerHandlerTrapInv DEF timer_interrupt_handler, procVars
<1>5. CASE SetBrk \/ set_child_tid \/ ReturnsZero \/ CalledElsewhere \/ mount_hd_s
  BY <1>5, CallTrapInv
<1>6. CASE PowersOff
  BY <1>6, OffTrapInv DEF PowersOff, procVars
<1>7. CASE Yields
  BY <1>7, YieldsTrapInv DEF Yields, procVars
<1>8. CASE YieldEnds
  <2>1. WAIT_TIMEOUT \in Int
    BY DEF WAIT_TIMEOUT
  <2>2. TrapInv'
    BY <1>8, <2>1, ResultTrapInv, OffTrapInv DEF YieldEnds
  <2> QED BY <1>8, <2>2 DEF YieldEnds
<1> QED BY <1>1, <1>2, <1>3, <1>4, <1>5, <1>6, <1>7, <1>8 DEF Kernel

\* The boot keeps the type of the process.
LEMMA BootProcType ==
  ASSUME ProcType, BootStep PROVE ProcType'
<1>1. BootBrk => ProcType'
  BY SetBrkType, TrapAssumption DEF BootBrk
<1>2. BootStep /\ ~BootBrk => process' = process
  BY DEF BootStep, BootHeap, load_drivers, ScanFinds, ScanEnds, DriverMissing,
         DriverNotLoaded, InitStart, vring_init, VringNoSpace, InitEnd, BootIo,
         BootCalls, configure_dl_random, BootEnds, procVars
<1> QED BY <1>1, <1>2 DEF ProcType

\* TrapInv is inductive.
LEMMA NextTrapInv ==
  ASSUME TrapInv, ProcType, [Next]_vars PROVE TrapInv' /\ ProcType'
<1>1. CASE BootStep
  BY <1>1, BootTrapInv, BootProcType
<1>2. CASE KernelStep
  BY <1>2, KernelTrapInv DEF KernelStep
<1>3. CASE User
  BY <1>3, UserTrapInv DEF User, UserCall, UserFault, procVars, ProcType
<1>4. CASE TimerInterrupt
  BY <1>4, InterruptTrapInv DEF TimerInterrupt, procVars, ProcType
<1>5. CASE UNCHANGED vars
  BY <1>5, StutterTrapInv DEF vars, procVars, ProcType
<1> QED BY <1>1, <1>2, <1>3, <1>4, <1>5 DEF Next

\* UserContextKept follows from TrapInv.
LEMMA TrapInvUserContext ==
  ASSUME TrapInv PROVE UserContextKept
BY UserPlace DEF UserContextKept, InUser, Same, CallerWaits

-----------------------------------------------------------------------------
(* The heap is set up before anything is taken from it.                    *)

\* Steps that change the kernel's memory.
LEMMA MemorySteps ==
  ASSUME [Next]_vars
  PROVE  \/ UNCHANGED memVars
         \/ BootHeap
         \/ InitStart /\ malloc(VringsSize)
         \/ vring_init
         \/ mount_hd_s /\ malloc(500)
<1>1. CASE BootStep
  <2>1. BootBrk => UNCHANGED memVars
    BY DEF BootBrk
  <2>2. load_drivers => UNCHANGED memVars
    BY DEF load_drivers
  <2>3. ScanFinds => UNCHANGED memVars
    BY DEF ScanFinds
  <2>4. ScanEnds => UNCHANGED memVars
    BY DEF ScanEnds
  <2>5. DriverMissing => UNCHANGED memVars
    BY DEF DriverMissing
  <2>6. DriverNotLoaded => UNCHANGED memVars
    BY DEF DriverNotLoaded
  <2>7. VringNoSpace => UNCHANGED memVars
    BY DEF VringNoSpace
  <2>8. InitEnd => UNCHANGED memVars
    BY DEF InitEnd
  <2>9. BootIo => UNCHANGED memVars
    BY DEF BootIo
  <2>10. BootCalls => UNCHANGED memVars
    BY DEF BootCalls
  <2>11. configure_dl_random => UNCHANGED memVars
    BY DEF configure_dl_random
  <2>12. BootEnds => UNCHANGED memVars
    BY DEF BootEnds
  <2>13. InitStart => malloc(VringsSize) \/ UNCHANGED memVars
    BY DEF InitStart
  <2> QED
    BY <1>1, <2>1, <2>2, <2>3, <2>4, <2>5, <2>6, <2>7, <2>8,
       <2>9, <2>10, <2>11, <2>12, <2>13 DEF BootStep
<1>2. CASE KernelStep
  BY <1>2 DEF KernelStep, Kernel, ExitTrap, JumpToNull, software_interrupt_handler,
       timer_interrupt_handler, SetBrk, set_child_tid, ReturnsZero,
       CalledElsewhere, mount_hd_s, PowersOff, Yields, YieldEnds
<1>3. CASE User \/ TimerInterrupt
  BY <1>3 DEF User, UserCall, UserFault, TimerInterrupt
<1>4. CASE UNCHANGED vars
  BY <1>4 DEF vars
<1> QED BY <1>1, <1>2, <1>3, <1>4 DEF Next

\* Before the heap is set up, and when the machine is off.
Early == pc[1] = "off" \/ pc \in {<<"boot", "brk">>, <<"boot", "heap">>}

\* Before the heap is up only the first two steps of the boot can be taken.
LEMMA EarlySteps ==
  ASSUME [Next]_vars, Early
  PROVE  BootBrk \/ BootHeap \/ UNCHANGED vars
<1>1. CASE BootStep
  <2>1. \A s : Stage(s) => s \in {"brk", "heap"}
    BY DEF Early, Stage
  <2>2. load_drivers => Stage("drivers")
    BY DEF load_drivers
  <2>3. ScanFinds => Stage("scan")
    BY DEF ScanFinds
  <2>4. ScanEnds => Stage("scan")
    BY DEF ScanEnds
  <2>5. DriverMissing => Stage("driver")
    BY DEF DriverMissing
  <2>6. DriverNotLoaded => Stage("driver")
    BY DEF DriverNotLoaded
  <2>7. InitStart => Stage("driver")
    BY DEF InitStart
  <2>8. vring_init => Stage("ring")
    BY DEF vring_init
  <2>9. VringNoSpace => Stage("ring")
    BY DEF VringNoSpace
  <2>10. InitEnd => Stage("ring")
    BY DEF InitEnd
  <2>11. BootIo => Stage("io")
    BY DEF BootIo
  <2>12. BootCalls => Stage("calls")
    BY DEF BootCalls
  <2>13. configure_dl_random => Stage("random")
    BY DEF configure_dl_random
  <2>14. BootEnds => Stage("sret")
    BY DEF BootEnds
  <2> QED
    BY <1>1, <2>1, <2>2, <2>3, <2>4, <2>5, <2>6, <2>7, <2>8,
       <2>9, <2>10, <2>11, <2>12, <2>13, <2>14 DEF BootStep
<1>2. CASE KernelStep
  <2>1. pc[1] \in {"off", "boot"}
    BY DEF Early
  <2> QED
    BY <1>2, <2>1 DEF KernelStep, Kernel, ExitTrap, Exit, JumpToNull,
       software_interrupt_handler, timer_interrupt_handler, SetBrk,
       set_child_tid, ReturnsZero, CalledElsewhere, mount_hd_s, PowersOff,
       Yields, YieldEnds, Called
<1>3. CASE User \/ TimerInterrupt
  <2>1. \A n, v : UserCall(n, v) => pc[1] = "user"
    BY DEF UserCall
  <2>2. pc[1] \in {"user", "yield"}
    BY <1>3, <2>1 DEF User, UserFault, TimerInterrupt
  <2> QED BY <2>2 DEF Early
<1> QED BY <1>1, <1>2, <1>3 DEF Next

\* HeapInv is inductive: after initialize_heap nothing changes where the
\* arenas start.
LEMMA NextHeapInv ==
  ASSUME HeapInv, [Next]_vars PROVE HeapInv'
<1>1. CASE BootHeap
  <2>1. arena_start' = [a \in Arena |-> ArenaStart[a]]
    BY <1>1 DEF BootHeap, initialize_heap
  <2>2. ArenasFit \/ pc'[1] = "off"
    BY <1>1 DEF BootHeap, Stop, Off
  <2> QED BY <2>1, <2>2 DEF HeapInv, HeapUp
<1>2. CASE BootBrk
  BY <1>2 DEF BootBrk, Go, HeapInv
<1>3. CASE UNCHANGED vars
  BY <1>3 DEF vars, memVars, trapVars, HeapInv, HeapUp
<1>4. CASE ~Early /\ ~BootHeap
  <2>1. HeapUp
    BY <1>4 DEF HeapInv, Early
  <2>2. arena_start' = arena_start
    BY <1>4, MemorySteps DEF memVars, malloc, vring_init, forever_alloc_aligned
  <2> QED BY <2>1, <2>2 DEF HeapInv, HeapUp
<1> QED BY <1>1, <1>2, <1>3, <1>4, EarlySteps

\* The records of the rings have a size.
LEMMA VringsSizeNat == VringsSize \in Nat
BY DEF VringsSize, Rings

\* MemInv is inductive.
LEMMA NextMemInv ==
  ASSUME MemInv, HeapInv, [Next]_vars,
         vring_init => virtq_size(InitSize) \in Nat
  PROVE  MemInv'
<1>1. CASE UNCHANGED memVars
  BY <1>1, MemUnchanged DEF memVars
<1>2. CASE BootHeap
  BY <1>2, MemUnchanged DEF BootHeap, initialize_heap
<1>3. CASE InitStart /\ malloc(VringsSize)
  <2>1. HeapUp
    <3>1. Stage("driver")
      BY <1>3, SMT DEF InitStart
    <3> QED BY <3>1 DEF Stage, HeapInv
  <2> QED BY <1>3, <2>1, VringsSizeNat, MallocMemInv
<1>4. CASE vring_init
  <2>1. forever_alloc_aligned(virtq_size(InitSize), Page)
    BY <1>4 DEF vring_init
  <2>2. Page \in Nat \ {0} /\ virtq_size(InitSize) \in Nat
    BY <1>4, PageAssumption
  <2> QED BY <2>1, <2>2, ForeverMemInv
<1>5. CASE mount_hd_s /\ malloc(500)
  <2>1. HeapUp
    BY <1>5 DEF mount_hd_s, Called, HeapInv
  <2> QED BY <1>5, <2>1, MallocMemInv
<1> QED BY <1>1, <1>2, <1>3, <1>4, <1>5, MemorySteps

-----------------------------------------------------------------------------
(* BootInv and DrivesScannedDevice are inductive.                          *)

\* What was given out stays given out.
BlocksKept ==
  \A i \in DOMAIN blocks : i \in DOMAIN blocks' /\ blocks'[i] = blocks[i]

\* No step takes back or changes a block.
LEMMA NextBlocksKept ==
  ASSUME MemInv, [Next]_vars PROVE BlocksKept
<1>1. ASSUME NEW x, blocks' = Append(blocks, x) PROVE BlocksKept
  <2>1. blocks \in Seq(BlockType \cup {x})
    BY SeqMonotonic DEF MemInv
  <2>2. /\ Len(blocks') = Len(blocks) + 1 /\ blocks' \in Seq(BlockType \cup {x})
        /\ \A i \in 1 .. Len(blocks) : blocks'[i] = blocks[i]
    BY <1>1, <2>1, AppendProperties
  <2> QED BY <2>1, <2>2 DEF BlocksKept
<1>2. \/ blocks' = blocks
      \/ \E x : blocks' = Append(blocks, x)
  BY MemorySteps DEF memVars, BootHeap, initialize_heap, malloc, Given, vring_init,
     forever_alloc_aligned
<1> QED BY <1>1, <1>2 DEF BlocksKept

\* A ring stays as it is while its driver's record and the blocks do.
LEMMA RingOkKept ==
  ASSUME BlocksKept, machine' = machine, NEW t, NEW q,
         virtio_drivers'[t].vring[q] = virtio_drivers[t].vring[q],
         virtio_drivers'[t].conf = virtio_drivers[t].conf,
         RingOk(t, q)
  PROVE  RingOk(t, q)'
BY DEF RingOk, BlocksKept, RingLength

\* BootInv in a step that leaves the boot's variables alone.
LEMMA BootFrame ==
  ASSUME BootInv, BlocksKept, UNCHANGED bootVars, AtDriver' => AtDriver,
         Unscanned' => Unscanned,
         pc' = <<"boot", "ring">> => pc = <<"boot", "ring">>
  PROVE  BootInv'
<1> USE DEF BootInv, bootVars
<1>1. BootType'
  BY DEF BootType, DeviceRecord
<1>2. ScanInv'
  BY DEF ScanInv, IdAt
<1>3. WindowInv'
  BY DEF WindowInv
<1>4. \A t : Started(t)' <=> Started(t)
  BY DEF Started, TypeOf
<1>5. DriverInv'
  BY <1>4, RingOkKept DEF DriverInv, DriverOk
<1>6. RingStage'
  BY <1>4 DEF RingStage, Driver, Conf
<1> QED BY <1>1, <1>2, <1>3, <1>5, <1>6

\* DrivesScannedDevice in such a step.
LEMMA DrivesFrame ==
  ASSUME DrivesScannedDevice, UNCHANGED bootVars, Settled' => Settled
  PROVE  DrivesScannedDevice'
<1>1. \A o : Passed(o)' => Passed(o)
  BY DEF Passed, bootVars
<1> QED BY <1>1 DEF DrivesScannedDevice, bootVars

\* Where each step of the boot is taken.
LEMMA BootStages ==
  /\ BootBrk => Stage("brk")
  /\ BootHeap => Stage("heap")
  /\ load_drivers => Stage("drivers")
  /\ ScanFinds \/ ScanEnds => Stage("scan")
  /\ DriverMissing \/ DriverNotLoaded \/ InitStart => Stage("driver")
  /\ vring_init \/ VringNoSpace \/ InitEnd => Stage("ring")
  /\ BootIo => Stage("io")
  /\ BootCalls => Stage("calls")
  /\ configure_dl_random => Stage("random")
  /\ BootEnds => Stage("sret")
<1>1. BootBrk => Stage("brk")
  BY DEF BootBrk
<1>2. BootHeap => Stage("heap")
  BY DEF BootHeap
<1>3. load_drivers => Stage("drivers")
  BY DEF load_drivers
<1>4. ScanFinds \/ ScanEnds => Stage("scan")
  BY DEF ScanFinds, ScanEnds
<1>5. DriverMissing \/ DriverNotLoaded => Stage("driver")
  BY DEF DriverMissing, DriverNotLoaded
<1>6. InitStart => Stage("driver")
  BY DEF InitStart
<1>7. vring_init \/ VringNoSpace => Stage("ring")
  BY DEF vring_init, VringNoSpace
<1>8. InitEnd => Stage("ring")
  BY DEF InitEnd
<1>9. BootIo => Stage("io")
  BY DEF BootIo
<1>10. BootCalls => Stage("calls")
  BY DEF BootCalls
<1>11. configure_dl_random => Stage("random")
  BY DEF configure_dl_random
<1>12. BootEnds => Stage("sret")
  BY DEF BootEnds
<1> QED
  BY <1>1, <1>2, <1>3, <1>4, <1>5, <1>6, <1>7, <1>8, <1>9, <1>10, <1>11, <1>12

\* A step of the boot that does not touch drivers and devices.
PlainBootStep ==
  \/ BootBrk \/ BootHeap \/ ScanEnds \/ DriverMissing \/ DriverNotLoaded
  \/ BootIo \/ BootCalls \/ configure_dl_random \/ BootEnds

\* A fault leads to a handler, to null or to the end of the trap stack.
LEMMA FaultPlace ==
  ASSUME TrapInv, NEW code, Fault(code)
  PROVE  pc'[1] \in {"overrun", "null", "software_interrupt_handler",
                     "timer_interrupt_handler", "system_call_dispatcher"}
<1>1. pc' = <<"overrun", 0>> \/ pc' = <<TrapHandler(code), code>>
  BY EntryFacts DEF Fault, TrapInv
<1>2. TrapHandler(code) \in {"null", "software_interrupt_handler",
                     "timer_interrupt_handler", "system_call_dispatcher"}
  BY Handlers, Zenon
<1> QED BY <1>1, <1>2

\* The steps of the boot that touch neither drivers nor devices.
LEMMA PlainBoot ==
  ASSUME TrapInv, BootInv, DrivesScannedDevice, BlocksKept, PlainBootStep
  PROVE  BootInv' /\ DrivesScannedDevice'
<1>1. UNCHANGED bootVars /\ pc[1] = "boot" /\ InBoot
  <2>1. UNCHANGED bootVars
    BY DEF PlainBootStep, BootBrk, BootHeap, ScanEnds, DriverMissing,
       DriverNotLoaded, BootIo, BootCalls, configure_dl_random, BootEnds
  <2>2. pc[1] = "boot"
    BY BootStages DEF PlainBootStep, Stage
  <2> QED BY <2>1, <2>2, BootPlace
<1>2. CASE DriverMissing \/ DriverNotLoaded
  <2>1. AtDriver /\ caller' = caller
    BY <1>2, BootStages DEF AtDriver, Stage, DriverMissing, DriverNotLoaded
  <2>2. pc'[1] \notin {"boot", "user"}
    BY <1>2, FaultPlace DEF DriverMissing, DriverNotLoaded
  <2>3. ~Unscanned' /\ pc' # <<"boot", "ring">> /\ ~Settled'
    BY <1>1, <2>1, <2>2 DEF Unscanned, Settled, InBoot
  <2> QED BY <1>1, <2>1, <2>3, BootFrame, DrivesFrame
<1>3. CASE BootBrk \/ BootHeap
  <2>1. pc' \in {<<"boot", "heap">>, <<"boot", "drivers">>, <<"off", 0>>}
        /\ caller' = caller /\ Unscanned
    BY <1>3, BootStages DEF BootBrk, BootHeap, Go, Stop, Off, Unscanned, Stage
  <2>2. ~AtDriver' /\ pc' # <<"boot", "ring">> /\ ~Settled'
    BY <1>1, <2>1 DEF AtDriver, BootTrap, Settled, InBoot
  <2> QED BY <1>1, <2>1, <2>2, BootFrame, DrivesFrame
<1>4. CASE ScanEnds \/ BootIo \/ BootCalls \/ configure_dl_random \/ BootEnds
  <2>1. pc' \in {<<"boot", "io">>, <<"boot", "calls">>, <<"boot", "random">>,
                 <<"boot", "sret">>, <<"off", 0>>, <<"user", 0>>}
    BY <1>4 DEF ScanEnds, BootIo, BootCalls, configure_dl_random, BootEnds, Go,
       Stop, Off
  <2>2. Settled
    BY <1>4, BootStages DEF Settled, Stage
  <2>3. ~AtDriver' /\ pc' # <<"boot", "ring">> /\ ~Unscanned'
    BY <2>1 DEF AtDriver, BootTrap, Unscanned
  <2> QED BY <1>1, <2>2, <2>3, BootFrame, DrivesFrame
<1> QED BY <1>2, <1>3, <1>4 DEF PlainBootStep

\* Kernel steps are taken in traps and lead to the boot only from its own.
LEMMA KernelPlaces ==
  ASSUME TrapInv, Kernel
  PROVE  /\ caller' = caller
         /\ \/ caller.pc[1] = "user"
            \/ BootTrap
            \/ pc'[1] \in {"off", "overrun", "null", "software_interrupt_handler",
                           "timer_interrupt_handler", "system_call_dispatcher"}
               /\ ~BootTrap'
<1>1. caller' = caller
  BY DEF Kernel, ExitTrap, JumpToNull, software_interrupt_handler,
     timer_interrupt_handler, SetBrk, set_child_tid, ReturnsZero,
     CalledElsewhere, mount_hd_s, PowersOff, Yields, YieldEnds, Result
<1>2. CASE pc[1] \in {"null", "software_interrupt_handler"}
  <2>1. CASE JumpToNull
    <3>1. pc' = <<"overrun", 0>> \/ pc' = <<TrapHandler(1), 1>>
      BY <2>1, EntryFacts DEF JumpToNull, Fault, TrapInv
    <3> QED BY <1>1, <3>1, Handlers DEF BootTrap
  <2>2. CASE software_interrupt_handler
    BY <1>1, <2>2 DEF software_interrupt_handler, Off, BootTrap
  <2> QED
    BY <1>2, <2>1, <2>2 DEF Kernel, ExitTrap, Exit, timer_interrupt_handler, SetBrk,
       set_child_tid, ReturnsZero, CalledElsewhere, mount_hd_s, PowersOff, Yields,
       YieldEnds, Called
<1>3. CASE pc[1] \notin {"null", "software_interrupt_handler"}
  <2>1. pc[1] \in {"exit", "timer_interrupt_handler", "system_call_dispatcher",
                   "yield"}
    BY <1>3 DEF Kernel, ExitTrap, Exit, JumpToNull, software_interrupt_handler,
       timer_interrupt_handler, SetBrk, set_child_tid, ReturnsZero,
       CalledElsewhere, mount_hd_s, PowersOff, Yields, YieldEnds, Called
  <2>2. UserTrap \/ YieldTrap \/ BootTrap
    BY <2>1 DEF TrapInv, Stopping, InBoot, InUser
  <2> QED BY <1>1, <2>2 DEF UserTrap, YieldTrap
<1> QED BY <1>2, <1>3

\* Steps outside the boot lead into it only where they were called from it.
LEMMA OutsideBoot ==
  ASSUME TrapInv, TrapInv',
         Kernel \/ User \/ TimerInterrupt
  PROVE  /\ AtDriver' => AtDriver
         /\ ~Unscanned' /\ pc' # <<"boot", "ring">>
         /\ Settled' => Settled
<1>1. pc'[1] = "boot" => caller'.pc[1] = "boot"
  BY DEF TrapInv, Stopping, InBoot, InUser, BootTrap, UserTrap, YieldTrap
<1>2. CASE caller'.pc[1] = "user" /\ (caller.pc[1] = "user" \/ pc[1] = "user")
  BY <1>1, <1>2 DEF AtDriver, BootTrap, Unscanned, Settled
<1>3. User \/ TimerInterrupt => caller'.pc[1] = "user" /\ (caller.pc[1] = "user" \/ pc[1] = "user")
  <2>1. \A n, v : UserCall(n, v) => caller'.pc = pc /\ pc[1] = "user"
    BY DEF UserCall
  <2>2. \A c : UserFault(c) => caller'.pc = pc /\ pc[1] = "user"
    BY DEF UserFault
  <2>3. TimerInterrupt => caller'.pc[1] = "user" /\ (caller.pc[1] = "user" \/ pc[1] = "user")
    <3>1. pc[1] = "yield" => caller.pc[1] = "user"
      BY YieldPlace DEF UserTrap
    <3> QED BY <3>1 DEF TimerInterrupt
  <2> QED BY <2>1, <2>2, <2>3 DEF User
<1>4. CASE Kernel /\ caller.pc[1] # "user"
  <2>1. CASE BootTrap
    <3>1. ExitTrap \/ timer_interrupt_handler
      BY <1>4, <2>1 DEF BootTrap, Kernel, JumpToNull, software_interrupt_handler,
         SetBrk, set_child_tid, ReturnsZero, CalledElsewhere, mount_hd_s,
         PowersOff, Yields, YieldEnds, Called
    <3>2. timer_interrupt_handler => pc'[1] = "exit"
      BY DEF timer_interrupt_handler
    <3>3. ExitTrap => pc' = <<"boot", "driver">>
      <4>1. Frame = frames[1]
        BY <2>1 DEF BootTrap, Frame
      <4>2. ReturnPlace(Frame.sepc, Frame.code) = <<"boot", "driver">>
        BY <2>1, <4>1, Handlers DEF BootTrap, InterruptFrame, ReturnPlace
      <4>3. ExitTrap => pc' = ReturnPlace(Frame.sepc, Frame.code)
        BY DEF ExitTrap, Exit
      <4> QED BY <4>2, <4>3
    <3>4. caller'.pc[1] = "boot"
      BY <2>1, <1>4, KernelPlaces DEF BootTrap
    <3> QED BY <2>1, <3>1, <3>2, <3>3, <3>4 DEF AtDriver, Unscanned, Settled
  <2>2. CASE ~BootTrap
    <3>1. pc'[1] \notin {"boot", "user"} /\ ~BootTrap' /\ caller' = caller
      BY <1>4, <2>2, KernelPlaces
    <3> QED BY <1>4, <3>1 DEF AtDriver, Unscanned, Settled
  <2> QED BY <2>1, <2>2
<1>5. Kernel => caller' = caller
  BY KernelPlaces
<1> QED BY <1>2, <1>3, <1>4, <1>5

\* Traps, user code and interrupts keep BootInv and DrivesScannedDevice.
LEMMA OutsideBootInv ==
  ASSUME TrapInv, TrapInv', BootInv, DrivesScannedDevice, BlocksKept,
         KernelStep \/ ((User \/ TimerInterrupt) /\ UNCHANGED bootVars)
  PROVE  BootInv' /\ DrivesScannedDevice'
<1>1. UNCHANGED bootVars /\ (Kernel \/ User \/ TimerInterrupt)
  BY DEF KernelStep
<1> QED BY <1>1, OutsideBoot, BootFrame, DrivesFrame

\* So does a step that changes nothing.
LEMMA StutterBootInv ==
  ASSUME BootInv, DrivesScannedDevice, UNCHANGED vars
  PROVE  BootInv' /\ DrivesScannedDevice'
<1>1. UNCHANGED <<bootVars, memVars, trapVars, caller>>
  BY DEF vars
<1>2. BlocksKept /\ (AtDriver' <=> AtDriver) /\ (Unscanned' <=> Unscanned)
      /\ (Settled' <=> Settled) /\ pc' = pc
  BY <1>1 DEF BlocksKept, AtDriver, Unscanned, Settled, BootTrap, InterruptFrame,
     memVars, trapVars
<1> QED BY <1>1, <1>2, BootFrame, DrivesFrame

\* BootInv and DrivesScannedDevice hold at power on.
LEMMA InitBootInv ==
  ASSUME Init PROVE BootInv /\ DrivesScannedDevice
<1> USE DEF Init
<1>1. /\ machine \in Machines /\ todo = DOMAIN machine /\ at = {} /\ type = 0
      /\ base = 0 /\ virtio_drivers = [t \in 1 .. 9 |-> NoDriver]
      /\ pc = <<"boot", "brk">>
  BY DEF TrapInit
<1>2. ASSUME NEW o \in DOMAIN machine
      PROVE  dev[o] \in DeviceRecord(o) /\ dev[o].bar0 = None
  BY DEF DeviceRecord, None
<1>3. DOMAIN dev = DOMAIN machine
  OBVIOUS
<1>4. NoDriver \in DriverRecord
  BY DEF NoDriver, DriverRecord, None
<1>5. BootType
  <2>1. \A t \in 1 .. 9 : virtio_drivers[t].init_f = "null"
    BY <1>1 DEF NoDriver
  <2>2. virtio_drivers \in [1 .. 9 -> DriverRecord]
    BY <1>1, <1>4
  <2>3. base \in Nat /\ todo \in SUBSET (DOMAIN machine)
    BY <1>1
  <2> QED BY <1>1, <1>2, <1>3, <2>1, <2>2, <2>3, Zenon DEF BootType
<1>6. ScanInv
  BY <1>1 DEF ScanInv
<1>7. ~AtDriver
  BY <1>1 DEF AtDriver, BootTrap
<1>8. WindowInv
  BY <1>2, <1>3, <1>7 DEF WindowInv
<1>9. \A t \in 1 .. 9 : virtio_drivers[t].vring = <<>> /\ ~virtio_drivers[t].initialized
  BY <1>1 DEF NoDriver
<1>10. DriverInv
  BY <1>9 DEF DriverInv, DriverOk
<1>11. RingStage
  BY <1>1 DEF RingStage
<1>12. DrivesScannedDevice
  BY <1>1 DEF DrivesScannedDevice, Passed
<1> QED BY <1>5, <1>6, <1>8, <1>10, <1>11, <1>12 DEF BootInv

\* load_drivers fills the table; the scan has not begun.
LEMMA DriversBootInv ==
  ASSUME TrapInv, BootInv, BlocksKept, load_drivers
  PROVE  BootInv' /\ DrivesScannedDevice'
<1> USE DEF BootInv
<1>1. /\ pc = <<"boot", "drivers">> /\ pc' = <<"boot", "scan">>
      /\ UNCHANGED <<machine, todo, at, type, base, dev, caller>>
  BY DEF load_drivers, Stage, Go
<1>2. ASSUME NEW t \in 1 .. 9
      PROVE  /\ virtio_drivers'[t] \in DriverRecord
             /\ virtio_drivers'[t].vring = <<>> /\ ~virtio_drivers'[t].initialized
             /\ \/ virtio_drivers'[t].init_f = "null"
                \/ <<t, virtio_drivers'[t].init_f>> \in Drivers
  <2>1. NoDriver \in DriverRecord /\ NoDriver.vring = <<>> /\ ~NoDriver.initialized
        /\ NoDriver.init_f = "null"
    BY DEF NoDriver, DriverRecord, None
  <2>2. CASE \E d \in Drivers : d[1] = t
    <3> DEFINE d == CHOOSE x \in Drivers : x[1] = t
    <3>1. d \in Drivers /\ d[1] = t
      BY <2>2
    <3>2. virtio_drivers'[t] = [NoDriver EXCEPT !.init_f = d[2]]
      BY <2>2 DEF load_drivers
    <3> HIDE DEF d
    <3>3. d = <<t, d[2]>> /\ d[2] \in {"entropy", "console", "blk"}
      BY <3>1 DEF Drivers
    <3> QED BY <2>1, <3>1, <3>2, <3>3 DEF DriverRecord
  <2>3. CASE ~\E d \in Drivers : d[1] = t
    BY <2>1, <2>3 DEF load_drivers
  <2> QED BY <2>2, <2>3
<1>3. BootType'
  <2>1. virtio_drivers' = [t \in 1 .. 9 |-> virtio_drivers'[t]]
    BY DEF load_drivers
  <2>2. virtio_drivers' \in [1 .. 9 -> DriverRecord]
    BY <1>2, <2>1, Zenon
  <2> QED BY <1>1, <1>2, <2>2, Zenon DEF BootType, DeviceRecord
<1>4. ~AtDriver' /\ ~Unscanned' /\ Unscanned
  BY <1>1 DEF AtDriver, BootTrap, Unscanned
<1>5. ScanInv'
  BY <1>1, <1>4 DEF ScanInv, IdAt
<1>6. WindowInv'
  BY <1>1, <1>4 DEF WindowInv
<1>7. DriverInv'
  BY <1>2 DEF DriverInv, DriverOk
<1>8. RingStage'
  BY <1>1 DEF RingStage
<1>9. DrivesScannedDevice'
  BY <1>1, <1>4 DEF DrivesScannedDevice, Passed, ScanInv
<1> QED BY <1>3, <1>5, <1>6, <1>7, <1>8, <1>9

\* pci_scan comes to the next device and reserves a window no other device
\* has.
LEMMA ScanFindsBootInv ==
  ASSUME TrapInv, BootInv, DrivesScannedDevice, BlocksKept, ScanFinds
  PROVE  BootInv' /\ DrivesScannedDevice'
<1> USE DEF BootInv
<1>1. /\ pc = <<"boot", "scan">> /\ pc' = <<"boot", "driver">>
      /\ UNCHANGED <<machine, dev, virtio_drivers, caller>>
      /\ base' = base + Page
  BY DEF ScanFinds, Stage, Go
<1>2. PICK off \in todo :
        /\ \A o \in todo : Position(off) <= Position(o)
        /\ todo' = todo \ {off} /\ at' = off
        /\ type' = DriverType(IdAt(DeviceConf(off)))
  BY DEF ScanFinds
<1>3. base \in Nat /\ Page \in Nat /\ Page > 0 /\ off \in DOMAIN machine
  BY PageAssumption DEF BootType
<1>4. BootType'
  BY <1>1, <1>2, <1>3 DEF BootType, DeviceRecord
<1>5. ScanInv'
  <2>1. ASSUME NEW o \in DOMAIN machine \ todo'
        PROVE  Position(o) <= Position(off) /\ \A p \in todo' : Position(o) <= Position(p)
    BY <1>2 DEF ScanInv
  <2>2. ~Unscanned'
    BY <1>1 DEF Unscanned
  <2>3. off \in DOMAIN machine \ todo'
    BY <1>2, <1>3
  <2>4. IdAt(DeviceConf(off))' = IdAt(DeviceConf(off))
    BY <1>1 DEF IdAt
  <2> QED BY <1>1, <1>2, <2>1, <2>2, <2>3, <2>4 DEF ScanInv
<1>6. WindowInv'
  BY <1>1, <1>3 DEF WindowInv, AtDriver, BootTrap
<1>7. \A t : Started(t)' <=> Started(t)
  BY <1>1 DEF Started, TypeOf
<1>8. DriverInv'
  BY <1>1, <1>7, RingOkKept DEF DriverInv, DriverOk
<1>9. RingStage'
  BY <1>1 DEF RingStage
<1>10. DrivesScannedDevice'
  <2>1. caller.pc[1] = "boot" /\ Settled
    BY <1>1, BootPlace DEF InBoot, Settled
  <2>2. ~Settled'
    BY <1>1, <2>1 DEF Settled
  <2>3. \A o \in DOMAIN machine : Passed(o)' => Passed(o)
    BY <1>1, <1>2, <2>1, <2>2 DEF Passed
  <2>4. \A c : c \in DOMAIN machine \ todo => c \in DOMAIN machine \ todo'
    BY <1>2
  <2> QED BY <1>1, <2>3, <2>4 DEF DrivesScannedDevice
<1> QED BY <1>4, <1>5, <1>6, <1>8, <1>9, <1>10

\* Where the function is 0 or 4 configure_pci_device puts the offset together
\* again: the masks lose none of its bits.
LEMMA DistinctConf ==
  ASSUME BootInv, NEW o \in DOMAIN machine, Distinct(o) PROVE DeviceConf(o) = o
<1>1. o \subseteq 12 .. 21
  BY MachineAssumption DEF BootInv, BootType
<1>2. ASSUME NEW b \in o PROVE b \in DeviceConf(o)
  <2>1. b \in 14 .. 21
    BY <1>1 DEF Distinct
  <2> QED BY <2>1 DEF DeviceConf, PCI_OFF, PCI_BUS, PCI_DEV, PCI_FUN
<1>3. DeviceConf(o) \subseteq o
  BY DEF DeviceConf, PCI_OFF, PCI_BUS, PCI_DEV, PCI_FUN
<1> QED BY <1>2, <1>3

\* Where no device is there is no driver either: the number is out of range.
LEMMA DriverFound ==
  ASSUME BootInv, type \in 1 .. 9
  PROVE  /\ Conf \in DOMAIN machine /\ TypeOf(Conf) = type
         /\ at \in DOMAIN machine \ todo
         /\ \A o \in DOMAIN machine \ todo : Position(o) <= Position(at)
         /\ Driver.init_f # "null" =>
              /\ type \in {1, 3, 5}
              /\ Driver.init_f = "blk" <=> type = 1
              /\ Driver.init_f = "console" <=> type = 3
<1>1. /\ at \in DOMAIN machine \ todo
      /\ type = DriverType(IdAt(Conf))
      /\ \A o \in DOMAIN machine \ todo : Position(o) <= Position(at)
  BY DEF BootInv, ScanInv, Conf
<1>2. DriverType(65535) = 61375
  BY DEF DriverType
<1>3. IdAt(Conf) # 65535
  BY <1>1, <1>2
<1>4. Driver.init_f = "null" \/ <<type, Driver.init_f>> \in Drivers
  BY DEF BootInv, BootType, Driver
<1> QED BY <1>1, <1>3, <1>4 DEF IdAt, TypeOf, Drivers

\* The record of a device, and that of a driver, after an assignment.
DeviceRecords(I, B, P) == [bar0 : I, ok : B, pfn : P]

\* BAR and status are set: the other registers stay.
LEMMA DeviceStarted ==
  ASSUME NEW o, NEW w \in Int, NEW r \in DeviceRecord(o)
  PROVE  LET x == [r EXCEPT !.bar0 = w, !.ok = FALSE]
         IN  x \in DeviceRecord(o) /\ x.bar0 = w /\ ~x.ok
<1>1. PICK I, B, P, b :
        /\ I = Int /\ B = BOOLEAN /\ P = [DOMAIN machine[o].queues -> Int]
        /\ b = FALSE
  OBVIOUS
<1>2. DeviceRecord(o) = DeviceRecords(I, B, P)
  BY <1>1 DEF DeviceRecord, DeviceRecords
<1>3. b \in B /\ w \in I
  BY <1>1
<1>4. r \in DeviceRecords(I, B, P)
  BY <1>2
<1>5. LET x == [r EXCEPT !.bar0 = w, !.ok = b]
      IN  x \in DeviceRecords(I, B, P) /\ x.bar0 = w /\ x.ok = b
  BY <1>3, <1>4 DEF DeviceRecords
<1> QED BY <1>1, <1>2, <1>5, Zenon

PageNumbers(o) == [DOMAIN machine[o].queues -> Int]

\* The device is told that the driver is ready.
LEMMA DeviceReady ==
  ASSUME NEW o, NEW p \in PageNumbers(o), NEW r \in DeviceRecord(o),
         NEW y, y = [r EXCEPT !.ok = TRUE, !.pfn = p]
  PROVE  y \in DeviceRecord(o) /\ y.bar0 = r.bar0 /\ y.ok /\ y.pfn = p
<1>1. PICK I, B, P, b :
        /\ I = Int /\ B = BOOLEAN /\ P = [DOMAIN machine[o].queues -> Int]
        /\ b = TRUE
  OBVIOUS
<1>2. DeviceRecord(o) = DeviceRecords(I, B, P)
  BY <1>1 DEF DeviceRecord, DeviceRecords
<1>3. b \in B /\ p \in P
  BY <1>1 DEF PageNumbers
<1>4. r \in DeviceRecords(I, B, P)
  BY <1>2
<1>5. LET x == [r EXCEPT !.ok = b, !.pfn = p]
      IN  /\ x \in DeviceRecords(I, B, P)
          /\ x.bar0 = r.bar0 /\ x.ok = b /\ x.pfn = p
  BY <1>3, <1>4 DEF DeviceRecords
<1> QED BY <1>1, <1>2, <1>5, Zenon

DriverRecords(F, B, I, C, S) ==
  [init_f : F, initialized : B, window : I, conf : C, vring : S]

\* The driver takes the device and its window.
LEMMA DriverStarted ==
  ASSUME NEW F, NEW B, NEW I, NEW C, NEW S, NEW w \in I, NEW c \in C, NEW v \in S,
         NEW r \in DriverRecords(F, B, I, C, S)
  PROVE  LET x == [r EXCEPT !.window = w, !.conf = c, !.vring = v]
         IN  /\ x \in DriverRecords(F, B, I, C, S)
             /\ x.init_f = r.init_f /\ x.initialized = r.initialized
             /\ x.window = w /\ x.conf = c /\ x.vring = v
BY DEF DriverRecords

\* The driver gets a ring.
LEMMA DriverRing ==
  ASSUME NEW F, NEW B, NEW I, NEW C, NEW S, NEW v \in S,
         NEW r \in DriverRecords(F, B, I, C, S)
  PROVE  LET x == [r EXCEPT !.vring = v]
         IN  /\ x \in DriverRecords(F, B, I, C, S)
             /\ x.init_f = r.init_f /\ x.initialized = r.initialized
             /\ x.window = r.window /\ x.conf = r.conf /\ x.vring = v
BY DEF DriverRecords

\* The driver is initialised.
LEMMA DriverReady ==
  ASSUME NEW r \in DriverRecord
  PROVE  LET x == [r EXCEPT !.initialized = TRUE]
         IN  /\ x \in DriverRecord /\ x.init_f = r.init_f /\ x.initialized
             /\ x.window = r.window /\ x.conf = r.conf /\ x.vring = r.vring
<1>1. PICK F, B, I, C, S, b :
        /\ F = {"null", "entropy", "console", "blk"} /\ B = BOOLEAN /\ I = Int
        /\ C = SUBSET Int /\ S = Seq(RingRecord) /\ b = TRUE
  OBVIOUS
<1>2. DriverRecord = DriverRecords(F, B, I, C, S)
  BY <1>1 DEF DriverRecord, DriverRecords
<1>3. b \in B /\ r \in DriverRecords(F, B, I, C, S)
  BY <1>1, <1>2
<1>4. LET x == [r EXCEPT !.initialized = b]
      IN  /\ x \in DriverRecords(F, B, I, C, S)
          /\ x.init_f = r.init_f /\ x.initialized = b
          /\ x.window = r.window /\ x.conf = r.conf /\ x.vring = r.vring
  BY <1>3 DEF DriverRecords
<1> QED BY <1>1, <1>2, <1>4, Zenon

\* The first part of an init function: the device gets the window that was
\* reserved for it and no other device has that one.
LEMMA InitStartBootInv ==
  ASSUME TrapInv, BootInv, DrivesScannedDevice, BlocksKept, InitStart
  PROVE  BootInv' /\ DrivesScannedDevice'
<1> USE DEF BootInv
<1>1. /\ pc = <<"boot", "driver">> /\ type \in 1 .. 9 /\ Driver.init_f # "null"
      /\ pc' \in {<<"boot", "ring">>, <<"off", 0>>} /\ caller' = caller
      /\ UNCHANGED <<machine, todo, at, type, base>>
  BY DEF InitStart, Stage, Go, Stop, Off
<1>2. /\ dev' = [dev EXCEPT ![Conf] = [@ EXCEPT !.bar0 = Window, !.ok = FALSE]]
      /\ virtio_drivers' = [virtio_drivers EXCEPT
           ![type] = [@ EXCEPT !.window = Window, !.conf = Conf, !.vring = <<>>]]
  BY DEF InitStart
<1>3. PICK w, c : w = Window /\ c = Conf
  OBVIOUS
<1>4. /\ c \in DOMAIN machine /\ TypeOf(c) = type /\ at \in DOMAIN machine \ todo
      /\ \A o \in DOMAIN machine \ todo : Position(o) <= Position(at)
      /\ type \in {1, 3, 5}
  BY <1>1, <1>3, DriverFound
<1>5. w \in Nat /\ w < base /\ \A o \in DOMAIN dev : dev[o].bar0 < w
  <2>1. AtDriver /\ base \in Nat /\ Page \in Nat /\ Page > 0
    BY <1>1, PageAssumption DEF AtDriver, BootType
  <2>2. w = base - Page /\ w \in Nat /\ w < base
    BY <1>3, <2>1 DEF Window, WindowInv
  <2> QED BY <2>1, <2>2 DEF WindowInv, None
<1>6. ASSUME NEW o \in DOMAIN machine
      PROVE  /\ dev'[o] \in DeviceRecord(o)
             /\ o # c => dev'[o] = dev[o]
             /\ o = c => dev'[o].bar0 = w /\ ~dev'[o].ok
  <2>1. dev[o] \in DeviceRecord(o) /\ o \in DOMAIN dev
    BY DEF BootType
  <2>2. o # c => dev'[o] = dev[o]
    BY <1>2, <1>3, <2>1
  <2>3. o = c => dev'[o] = [dev[o] EXCEPT !.bar0 = w, !.ok = FALSE]
    BY <1>2, <1>3, <2>1
  <2>4. LET x == [dev[o] EXCEPT !.bar0 = w, !.ok = FALSE]
        IN  x \in DeviceRecord(o) /\ x.bar0 = w /\ ~x.ok
    <3>1. w \in Int
      BY <1>5
    <3> QED BY <2>1, <3>1, DeviceStarted, Zenon
  <2> QED BY <2>1, <2>2, <2>3, <2>4
<1>7. DOMAIN dev' = DOMAIN machine
  BY <1>2 DEF BootType
<1>8. ASSUME NEW t \in 1 .. 9
      PROVE  /\ virtio_drivers'[t] \in DriverRecord
             /\ virtio_drivers'[t].init_f = virtio_drivers[t].init_f
             /\ virtio_drivers'[t].initialized = virtio_drivers[t].initialized
             /\ t # type => virtio_drivers'[t] = virtio_drivers[t]
             /\ t = type => /\ virtio_drivers'[t].window = w
                            /\ virtio_drivers'[t].conf = c
                            /\ virtio_drivers'[t].vring = <<>>
  <2> DEFINE d == virtio_drivers[t]
             n == [d EXCEPT !.window = w, !.conf = c, !.vring = <<>>]
  <2>1. d \in DriverRecord /\ virtio_drivers \in [1 .. 9 -> DriverRecord]
    BY DEF BootType
  <2>2. t # type => virtio_drivers'[t] = d
    BY <1>2, <2>1
  <2>3. t = type => virtio_drivers'[t] = n
    BY <1>2, <1>3, <2>1
  <2>4. c \in SUBSET Int
    <3>1. c \subseteq 12 .. 21
      BY <1>4, MachineAssumption DEF BootType
    <3> QED BY <3>1
  <2>5. /\ n \in DriverRecord /\ n.init_f = d.init_f
        /\ n.initialized = d.initialized /\ n.window = w /\ n.conf = c
        /\ n.vring = <<>>
    <3>1. <<>> \in Seq(RingRecord) /\ w \in Int
      BY <1>5
    <3> HIDE DEF d
    <3> QED BY <2>1, <2>4, <3>1, DriverStarted DEF DriverRecord, DriverRecords
  <2> HIDE DEF d, n
  <2> QED BY <2>1, <2>2, <2>3, <2>5 DEF d
<1>9. BootType'
  <2>1. virtio_drivers' \in [1 .. 9 -> DriverRecord]
    BY <1>2, <1>8 DEF BootType
  <2>2. machine' \in Machines /\ todo' \in SUBSET (DOMAIN machine') /\ base' \in Nat
    BY <1>1 DEF BootType
  <2>3. \A o \in DOMAIN machine' : dev'[o] \in DeviceRecord(o)'
    BY <1>1, <1>6 DEF DeviceRecord
  <2>4. \A t \in 1 .. 9 : \/ virtio_drivers'[t].init_f = "null"
                          \/ <<t, virtio_drivers'[t].init_f>> \in Drivers
    BY <1>8 DEF BootType
  <2> QED BY <1>1, <1>7, <2>1, <2>2, <2>3, <2>4, Zenon DEF BootType
<1>10. ~AtDriver' /\ ~Unscanned' /\ ~Settled' /\ caller.pc[1] = "boot"
  BY <1>1, BootPlace DEF AtDriver, BootTrap, Unscanned, Settled, InBoot
<1>11. ScanInv'
  BY <1>1, <1>10 DEF ScanInv, IdAt
<1>12. WindowInv'
  <2>1. ASSUME NEW o \in DOMAIN machine
        PROVE  \/ dev'[o].bar0 = None
               \/ dev'[o].bar0 \in Nat /\ dev'[o].bar0 < base
    BY <1>5, <1>6 DEF WindowInv, BootType
  <2>2. ASSUME NEW o \in DOMAIN machine, NEW p \in DOMAIN machine,
               dev'[o].bar0 = dev'[p].bar0
        PROVE  o = p \/ dev'[o].bar0 = None
    <3>1. \A x \in DOMAIN machine : dev[x].bar0 # w
      BY <1>5 DEF BootType, DeviceRecord
    <3> QED BY <1>6, <2>2, <3>1 DEF WindowInv, BootType
  <2> QED BY <1>1, <1>7, <1>10, <2>1, <2>2 DEF WindowInv
<1>13. Started(type)'
  BY <1>1, <1>4, <1>5, <1>6, <1>8 DEF Started, TypeOf, Driver
<1>14. ASSUME NEW t \in 1 .. 9, t # type, Started(t)
       PROVE  Started(t)' /\ virtio_drivers[t].conf # c
              /\ dev'[virtio_drivers[t].conf] = dev[virtio_drivers[t].conf]
  <2>1. virtio_drivers[t].conf # c /\ virtio_drivers[t].conf \in DOMAIN machine
    BY <1>4, <1>14 DEF Started
  <2>2. dev'[virtio_drivers[t].conf] = dev[virtio_drivers[t].conf]
    BY <1>6, <2>1
  <2>3. virtio_drivers'[t] = virtio_drivers[t]
    BY <1>8, <1>14
  <2> QED BY <1>1, <1>14, <2>1, <2>2, <2>3 DEF Started, TypeOf
<1>15. DriverInv'
  <2>1. ASSUME NEW t \in 1 .. 9, t # type PROVE DriverOk(t)'
    <3>1. virtio_drivers'[t] = virtio_drivers[t] /\ DriverOk(t)
      BY <1>8, <2>1 DEF DriverInv
    <3>2. \A q : RingOk(t, q) => RingOk(t, q)'
      BY <1>1, <3>1, RingOkKept
    <3>3. CASE ~virtio_drivers[t].initialized /\ virtio_drivers[t].vring = <<>>
      BY <3>1, <3>3 DEF DriverOk
    <3>4. CASE Started(t)
      <4>1. /\ Started(t)'
            /\ dev'[virtio_drivers[t].conf] = dev[virtio_drivers[t].conf]
        BY <1>14, <2>1, <3>4
      <4> QED BY <1>1, <3>1, <3>2, <4>1 DEF DriverOk
    <3> QED BY <3>1, <3>3, <3>4 DEF DriverOk
  <2>2. /\ virtio_drivers'[type].vring = <<>>
        /\ ~dev'[virtio_drivers'[type].conf].ok
    BY <1>1, <1>4, <1>6, <1>8
  <2>3. DriverOk(type)'
    BY <1>1, <1>13, <2>2 DEF DriverOk
  <2> QED BY <1>1, <2>1, <2>3 DEF DriverInv
<1>16. RingStage'
  <2>1. Conf' = c /\ Driver'.conf = c /\ Driver'.vring = <<>>
    BY <1>1, <1>3, <1>8 DEF Conf, Driver
  <2>2. ~dev'[c].ok
    BY <1>4, <1>6
  <2> QED BY <1>1, <1>13, <2>1, <2>2 DEF RingStage, RingCount
<1>17. DrivesScannedDevice'
  <2> SUFFICES ASSUME \A o \in DOMAIN machine : Distinct(o),
                      NEW o \in DOMAIN machine, Passed(o)',
                      TypeOf(o) \in {1, 3, 5}
               PROVE  LET t == TypeOf(o)
                          d == virtio_drivers'[t]
                      IN  /\ dev'[o].ok /\ d.initialized
                          /\ d.conf \in DOMAIN machine \ todo
                          /\ TypeOf(d.conf) = t
                          /\ Position(o) <= Position(d.conf)
                          /\ {x \in DOMAIN dev' : dev'[x].bar0 = d.window} = {d.conf}
    BY <1>1 DEF DrivesScannedDevice, TypeOf
  <2>1. c = at
    BY <1>3, <1>4, DistinctConf DEF Conf
  <2>2. o # at /\ o \in DOMAIN machine \ todo /\ Passed(o)
    BY <1>1, <1>10 DEF Passed
  <2> DEFINE t == TypeOf(o)
             e == virtio_drivers[t]
  <2>3. /\ dev[o].ok /\ e.initialized
        /\ e.conf \in DOMAIN machine \ todo /\ TypeOf(e.conf) = t
        /\ Position(o) <= Position(e.conf)
        /\ {x \in DOMAIN dev : dev[x].bar0 = e.window} = {e.conf}
    BY <2>2 DEF DrivesScannedDevice, TypeOf
  <2>4. dev'[o].ok
    BY <1>6, <2>1, <2>2, <2>3
  <2>5. t \in 1 .. 9
    OBVIOUS
  <2> HIDE DEF t, e
  <2>6. CASE t = type
    <3>1. {x \in DOMAIN dev' : dev'[x].bar0 = w} = {c}
      <4>1. \A x \in DOMAIN machine : dev[x].bar0 # w
        BY <1>5 DEF BootType, DeviceRecord
      <4> QED BY <1>4, <1>6, <1>7, <4>1
    <3>2. Position(o) <= Position(c)
      BY <1>4, <2>1, <2>2
    <3>3. virtio_drivers'[t].initialized
      BY <1>8, <2>3, <2>5 DEF e
    <3>4. virtio_drivers'[t].conf = c /\ virtio_drivers'[t].window = w
      BY <1>8, <2>5, <2>6
    <3> QED BY <1>4, <2>1, <2>4, <2>6, <3>1, <3>2, <3>3, <3>4 DEF t
  <2>7. CASE t # type
    <3>1. virtio_drivers'[t] = e
      BY <1>8, <2>5, <2>7 DEF e
    <3>2. Started(t) /\ e.conf # c /\ e.window # w
      <4>1. Started(t)
        BY <2>3, <2>5 DEF DriverInv, DriverOk, e
      <4>2. dev[e.conf].bar0 = e.window /\ e.window \in Nat /\ e.conf \in DOMAIN dev
        BY <4>1 DEF Started, e, BootType
      <4> QED BY <1>4, <1>5, <2>3, <2>7, <4>1, <4>2
    <3>3. {x \in DOMAIN dev' : dev'[x].bar0 = e.window} = {e.conf}
      <4>1. \A x \in DOMAIN machine : dev'[x].bar0 = e.window <=> dev[x].bar0 = e.window
        <5>1. dev[c].bar0 # e.window
          BY <1>4, <2>3, <3>2 DEF BootType
        <5> QED BY <1>6, <3>2, <5>1
      <4>2. DOMAIN dev = DOMAIN machine
        BY DEF BootType
      <4> QED BY <1>7, <2>3, <4>1, <4>2
    <3> QED BY <2>3, <2>4, <3>1, <3>3 DEF t
  <2> QED BY <2>6, <2>7
<1> QED BY <1>9, <1>11, <1>12, <1>15, <1>16, <1>17
-----------------------------------------------------------------------------
(* The rings.                                                              *)

\* The parts of a virtqueue have a size.
LEMMA RingSizes ==
  ASSUME NEW n \in Nat
  PROVE  /\ virtq_descr_size(n) \in Nat /\ virtq_avail_size(n) \in Nat
         /\ virtq_used_size(n) \in Nat /\ virtq_size(n) \in Nat
         /\ \A desc \in Nat : UsedAt(desc, n) \in Nat
<1>1. /\ virtq_descr_size(n) \in Nat /\ virtq_avail_size(n) \in Nat
      /\ virtq_used_size(n) \in Nat
  BY DEF virtq_descr_size, virtq_avail_size, virtq_used_size
<1>2. virtq_size(n) \in Nat
  <2>1. /\ ALIGN_UP(virtq_descr_size(n) + virtq_avail_size(n), Page) \in Nat
        /\ ALIGN_UP(virtq_used_size(n), Page) \in Nat
    <3>1. virtq_descr_size(n) + virtq_avail_size(n) \in Nat
      BY <1>1
    <3> QED BY <1>1, <3>1, AlignUp, PageAssumption
  <2> QED BY <2>1 DEF virtq_size
<1>3. ASSUME NEW desc \in Nat PROVE UsedAt(desc, n) \in Nat
  <2>1. desc + virtq_descr_size(n) + virtq_avail_size(n) \in Nat
    BY <1>1
  <2> QED BY <2>1, AlignUp, PageAssumption DEF UsedAt
<1> QED BY <1>1, <1>2, <1>3

\* vring_init fills in the record of a ring.
LEMMA VringType ==
  ASSUME NEW desc \in Nat, NEW n \in Nat, NEW num \in Nat
  PROVE  Vring(desc, n, num) \in RingRecord /\ Vring(desc, n, num).desc = desc
         /\ Vring(desc, n, num).size = virtq_size(n)
<1>1. PICK u, z, a : u = UsedAt(desc, n) /\ z = virtq_size(n)
                     /\ a = desc + virtq_descr_size(n)
  OBVIOUS
<1>2. u \in Nat /\ z \in Nat /\ a \in Nat
  <2>1. u \in Nat /\ z \in Nat
    BY <1>1, RingSizes, Zenon
  <2>2. virtq_descr_size(n) \in Nat
    BY RingSizes
  <2> QED BY <1>1, <2>1, <2>2
<1>3. Vring(desc, n, num) =
        [num |-> num, desc |-> desc, avail |-> a, used |-> u, size |-> z]
  BY <1>1, Zenon DEF Vring
<1> QED BY <1>1, <1>2, <1>3 DEF RingRecord

\* What is known while the rings of a device are set up.
LEMMA RingFacts ==
  ASSUME BootInv, Stage("ring")
  PROVE  /\ type \in {1, 3, 5} /\ Driver.init_f # "null"
         /\ Rings = RingCount(type)
         /\ InitSize = RingLength(type, Conf) /\ InitSize \in Nat
         /\ QLen(1) = machine[Conf].queues[1] /\ QLen(1) \in Nat
         /\ Driver.conf = Conf /\ Conf \in DOMAIN machine /\ Started(type)
         /\ ~dev[Conf].ok /\ at \in DOMAIN machine \ todo
         /\ \A o \in DOMAIN machine \ todo : Position(o) <= Position(at)
<1>1. /\ type \in 1 .. 9 /\ Started(type) /\ Driver.conf = Conf
      /\ ~dev[Conf].ok
  BY DEF BootInv, RingStage, Stage
<1>2. Driver.init_f # "null"
  BY <1>1 DEF Started, Driver
<1>3. /\ type \in {1, 3, 5} /\ Conf \in DOMAIN machine
      /\ Driver.init_f = "blk" <=> type = 1
      /\ Driver.init_f = "console" <=> type = 3
      /\ at \in DOMAIN machine \ todo
      /\ \A o \in DOMAIN machine \ todo : Position(o) <= Position(at)
  BY <1>1, <1>2, DriverFound
<1>4. QLen(1) = machine[Conf].queues[1] /\ QLen(1) \in Nat
  <2>1. machine[Conf].queues \in Seq(Nat) /\ machine[Conf].queues # <<>>
    BY <1>3, MachineAssumption DEF BootInv, BootType
  <2> QED BY <2>1 DEF QLen
<1>5. Rings = RingCount(type) /\ InitSize = RingLength(type, Conf)
  BY <1>3, <1>4 DEF Rings, RingCount, InitSize, RingLength
<1> QED BY <1>1, <1>2, <1>3, <1>4, <1>5 DEF RingLength

\* What vring_init asks for is a size.
LEMMA RingSizeNat ==
  ASSUME BootInv, vring_init PROVE virtq_size(InitSize) \in Nat
<1>1. Stage("ring")
  BY BootStages
<1> QED BY <1>1, RingFacts, RingSizes

\* While rings are made the devices passed earlier stay driven.
LEMMA DrivesRings ==
  ASSUME TrapInv, BootInv, DrivesScannedDevice, Stage("ring"),
         pc' \in {<<"boot", "ring">>, <<"off", 0>>}, 
         UNCHANGED <<machine, todo, at, dev, caller>>,
         \A t \in 1 .. 9 :
           /\ virtio_drivers'[t].initialized = virtio_drivers[t].initialized
           /\ virtio_drivers'[t].conf = virtio_drivers[t].conf
           /\ virtio_drivers'[t].window = virtio_drivers[t].window
  PROVE  DrivesScannedDevice'
<1>1. caller.pc[1] = "boot" /\ ~Settled'
  BY BootPlace DEF Stage, InBoot, Settled
<1>2. \A o : Passed(o)' => Passed(o)
  BY <1>1 DEF Passed
<1>3. {1, 3, 5} \subseteq 1 .. 9
  OBVIOUS
<1> QED BY <1>2, <1>3 DEF DrivesScannedDevice
\* A ring is added, at a page of its own or at zero.
LEMMA RingAtBootInv ==
  ASSUME TrapInv, BootInv, DrivesScannedDevice, BlocksKept,
         Stage("ring"), Len(Driver.vring) < Rings, NEW desc \in Nat,
         RingAt(desc), Go("ring"),
         UNCHANGED <<machine, todo, at, type, base, dev>>,
         desc # NULL =>
           /\ desc % Page = 0
           /\ \E i \in DOMAIN blocks' :
                blocks'[i] = [start |-> desc, size |-> virtq_size(InitSize),
                              heap |-> FALSE]
  PROVE  BootInv' /\ DrivesScannedDevice'
<1> USE DEF BootInv
<1>1. /\ pc = <<"boot", "ring">> /\ pc' = <<"boot", "ring">> /\ caller' = caller
      /\ UNCHANGED <<machine, todo, at, type, base, dev>>
  BY DEF Stage, Go
<1>2. /\ type \in {1, 3, 5} /\ type \in 1 .. 9 /\ Rings = RingCount(type)
      /\ InitSize = RingLength(type, Conf) /\ InitSize \in Nat
      /\ QLen(1) = machine[Conf].queues[1] /\ QLen(1) \in Nat
      /\ Driver.conf = Conf /\ Conf \in DOMAIN machine /\ Started(type)
      /\ ~dev[Conf].ok /\ Driver.init_f # "null"
  BY RingFacts
<1>3. PICK r : r = Vring(desc, InitSize, QLen(1))
  OBVIOUS
<1>4. r \in RingRecord /\ r.desc = desc /\ r.size = virtq_size(InitSize)
  BY <1>2, <1>3, VringType
<1>5. ASSUME NEW t \in 1 .. 9
      PROVE  /\ virtio_drivers'[t] \in DriverRecord
             /\ virtio_drivers'[t].init_f = virtio_drivers[t].init_f
             /\ virtio_drivers'[t].initialized = virtio_drivers[t].initialized
             /\ virtio_drivers'[t].window = virtio_drivers[t].window
             /\ virtio_drivers'[t].conf = virtio_drivers[t].conf
             /\ t # type => virtio_drivers'[t] = virtio_drivers[t]
             /\ t = type => virtio_drivers'[t].vring = Append(Driver.vring, r)
  <2>1. virtio_drivers[t] \in DriverRecord
        /\ virtio_drivers \in [1 .. 9 -> DriverRecord]
    BY DEF BootType
  <2>2. t # type => virtio_drivers'[t] = virtio_drivers[t]
    BY <2>1 DEF RingAt
  <2>3. t = type => virtio_drivers'[t] =
          [virtio_drivers[t] EXCEPT !.vring = Append(Driver.vring, r)]
    BY <1>3, <2>1 DEF RingAt, Driver
  <2>4. t = type => Append(Driver.vring, r) \in Seq(RingRecord)
    BY <1>4, <2>1 DEF Driver, DriverRecord
  <2>5. ASSUME NEW d \in DriverRecord, NEW v \in Seq(RingRecord)
        PROVE  LET x == [d EXCEPT !.vring = v]
               IN  /\ x \in DriverRecord
                   /\ x.init_f = d.init_f /\ x.initialized = d.initialized
                   /\ x.window = d.window /\ x.conf = d.conf /\ x.vring = v
    BY DriverRing DEF DriverRecord, DriverRecords
  <2>6. CASE t = type
    <3>1. PICK d, v : d = virtio_drivers[t] /\ v = Append(Driver.vring, r)
      OBVIOUS
    <3>2. PICK x : x = [d EXCEPT !.vring = v]
      OBVIOUS
    <3>3. d \in DriverRecord /\ v \in Seq(RingRecord) /\ virtio_drivers'[t] = x
      BY <2>1, <2>3, <2>4, <2>6, <3>1, <3>2, Zenon
    <3>4. /\ x \in DriverRecord
          /\ x.init_f = d.init_f /\ x.initialized = d.initialized
          /\ x.window = d.window /\ x.conf = d.conf /\ x.vring = v
      <4>1. LET y == [d EXCEPT !.vring = v]
            IN  /\ y \in DriverRecord
                /\ y.init_f = d.init_f /\ y.initialized = d.initialized
                /\ y.window = d.window /\ y.conf = d.conf /\ y.vring = v
        BY <2>5, <3>3
      <4> QED BY <3>2, <4>1, Zenon
    <3> QED BY <2>6, <3>1, <3>3, <3>4, Zenon
  <2> QED BY <2>1, <2>2, <2>6, Zenon
<1>6. BootType'
  <2>1. virtio_drivers' \in [1 .. 9 -> DriverRecord]
    BY <1>5 DEF BootType, RingAt
  <2> QED BY <1>1, <1>5, <2>1, Zenon DEF BootType, DeviceRecord
<1>7. (AtDriver' <=> AtDriver) /\ ~Unscanned'
  BY <1>1 DEF AtDriver, BootTrap, Unscanned
<1>8. ScanInv'
  BY <1>1, <1>7 DEF ScanInv, IdAt
<1>9. WindowInv'
  BY <1>1, <1>7 DEF WindowInv
<1>10. \A t \in 1 .. 9 : Started(t)' <=> Started(t)
  BY <1>1, <1>5 DEF Started, TypeOf
<1>11. DriverInv'
  <2>1. ASSUME NEW t \in 1 .. 9, t # type PROVE DriverOk(t)'
    <3>1. virtio_drivers'[t] = virtio_drivers[t] /\ DriverOk(t)
      BY <1>5, <2>1 DEF DriverInv
    <3>2. \A q : RingOk(t, q) => RingOk(t, q)'
      BY <1>1, <3>1, RingOkKept
    <3> QED BY <1>1, <1>10, <3>1, <3>2 DEF DriverOk
  <2>2. Driver.vring \in Seq(RingRecord)
    BY <1>2 DEF BootType, Driver, DriverRecord
  <2>3. ASSUME NEW q \in DOMAIN Append(Driver.vring, r) PROVE RingOk(type, q)'
    <3>1. CASE q \in DOMAIN Driver.vring /\ Append(Driver.vring, r)[q] = Driver.vring[q]
      <4>1. RingOk(type, q)
        BY <1>2, <3>1 DEF DriverInv, DriverOk, Driver
      <4>2. virtio_drivers'[type].vring[q] = virtio_drivers[type].vring[q]
        BY <1>2, <1>5, <3>1 DEF Driver
      <4>3. RingOk(type, q)'
        BY <1>1, <1>2, <1>5, <4>1, <4>2, RingOkKept
      <4> QED BY <4>3
    <3>2. CASE Append(Driver.vring, r)[q] = r
      <4>1. virtio_drivers'[type].vring[q] = r /\ virtio_drivers'[type].conf = Conf
        BY <1>2, <1>5, <3>2 DEF Driver
      <4>2. r = Vring(r.desc, RingLength(type, Conf), machine[Conf].queues[1])
        BY <1>2, <1>3, <1>4, Zenon
      <4>3. RingLength(type, Conf)' = RingLength(type, Conf) /\ Conf' = Conf
        BY <1>1 DEF RingLength, Conf
      <4> QED BY <1>1, <1>2, <1>4, <4>1, <4>2, <4>3 DEF RingOk
    <3> QED BY <1>4, <2>2, <3>1, <3>2, Appended
  <2>4. virtio_drivers'[type].conf = Conf /\ ~dev'[virtio_drivers'[type].conf].ok
        /\ virtio_drivers'[type].vring = Append(Driver.vring, r)
    BY <1>1, <1>2, <1>5 DEF Driver
  <2>5. DriverOk(type)'
    BY <1>1, <1>2, <1>10, <2>3, <2>4 DEF DriverOk
  <2> QED BY <1>1, <2>1, <2>5 DEF DriverInv
<1>12. RingStage'
  <2>1. Len(Append(Driver.vring, r)) = Len(Driver.vring) + 1
        /\ Len(Driver.vring) \in Nat
    <3>1. Driver \in DriverRecord
      BY <1>2 DEF BootType, Driver
    <3>2. Driver.vring \in Seq(RingRecord)
      BY <3>1 DEF DriverRecord
    <3> QED BY <1>4, <3>2
  <2>2. Len(Append(Driver.vring, r)) <= RingCount(type)
    BY <1>2, <2>1 DEF RingCount
  <2>3. Driver'.vring = Append(Driver.vring, r) /\ Driver'.conf = Conf /\ Conf' = Conf
    BY <1>1, <1>2, <1>5 DEF Driver, Conf
  <2> QED BY <1>1, <1>2, <1>10, <2>2, <2>3 DEF RingStage, RingCount
<1>13. DrivesScannedDevice'
  BY <1>1, <1>5, DrivesRings
<1> QED BY <1>6, <1>8, <1>9, <1>11, <1>12, <1>13
\* The storage for a ring starts at a page.
LEMMA ForeverAligned ==
  ASSUME MemInv
  PROVE  ForeverAddress(Page) \in Nat /\ ForeverAddress(Page) % Page = 0
<1>1. frontier \in Nat /\ Page \in Nat \ {0}
  BY PageAssumption, MemoryAssumption DEF MemInv
<1>2. PICK q : q = (frontier + Page - 1) \div Page
  OBVIOUS
<1>3. q \in Nat
  <2>1. frontier + Page - 1 \in Nat
    BY <1>1
  <2> QED BY <1>1, <1>2, <2>1, Division, Zenon
<1>4. ForeverAddress(Page) = q * Page
  BY <1>2, Zenon DEF ForeverAddress, ALIGN_UP
<1>5. (q * Page) % Page = 0
  BY <1>1, <1>3, MultipleDivides
<1> QED BY <1>1, <1>4, <1>5, AlignUp DEF ForeverAddress

\* vring_init keeps BootInv, with and without storage for the ring.
LEMMA VringBootInv ==
  ASSUME TrapInv, MemInv, BootInv, DrivesScannedDevice, BlocksKept,
         vring_init \/ VringNoSpace
  PROVE  BootInv' /\ DrivesScannedDevice'
<1>1. Stage("ring")
  BY BootStages
<1>2. CASE vring_init
  <2>1. PICK a : a = ForeverAddress(Page)
    OBVIOUS
  <2>2. a \in Nat /\ a % Page = 0
    BY <2>1, ForeverAligned
  <2>3. PICK z : z = virtq_size(InitSize)
    OBVIOUS
  <2>4. z \in Nat
    BY <1>2, <2>3, RingSizeNat
  <2>5. blocks' = Append(blocks, [start |-> a, size |-> z, heap |-> FALSE])
    BY <1>2, <2>1, <2>3, Zenon DEF vring_init, forever_alloc_aligned, Given
  <2>6. \E i \in DOMAIN blocks' :
          blocks'[i] = [start |-> a, size |-> z, heap |-> FALSE]
    <3>1. blocks \in Seq(BlockType)
      BY DEF MemInv
    <3>2. PICK x : x = [start |-> a, size |-> z, heap |-> FALSE]
      OBVIOUS
    <3>3. blocks' = Append(blocks, x) /\ x \in BlockType
      BY <2>2, <2>4, <2>5, <3>2 DEF BlockType
    <3>4. Len(blocks) + 1 \in DOMAIN blocks' /\ blocks'[Len(blocks) + 1] = x
      BY <3>1, <3>3
    <3> QED BY <3>2, <3>4
  <2>7. /\ Len(Driver.vring) < Rings /\ RingAt(a) /\ Go("ring")
        /\ UNCHANGED <<machine, todo, at, type, base, dev>>
    BY <1>2, <2>1, Zenon DEF vring_init
  <2> QED BY <1>1, <2>2, <2>3, <2>6, <2>7, RingAtBootInv
<1>3. CASE VringNoSpace
  <2>1. /\ Len(Driver.vring) < Rings
        /\ UNCHANGED <<machine, todo, at, type, base, dev>>
    BY <1>3 DEF VringNoSpace
  <2>2. CASE RingAt(NULL) /\ Go("ring")
    <3>1. NULL \in Nat
      BY DEF NULL
    <3> QED BY <1>1, <2>1, <2>2, <3>1, RingAtBootInv
  <2>3. CASE Fault(7) /\ UNCHANGED <<caller, virtio_drivers>>
    <3>1. UNCHANGED bootVars
      BY <2>1, <2>3 DEF bootVars
    <3>2. ~AtDriver'
      <4>1. pc'[1] # "boot" /\ ~BootTrap'
        <5>1. pc' = <<"overrun", 0>> \/ pc' = <<TrapHandler(7), 7>>
          BY <2>3, EntryFacts DEF Fault, TrapInv
        <5>2. TrapHandler(7) = "null"
          BY Handlers DEF TimerCode, CallCode
        <5> QED BY <5>1, <5>2 DEF BootTrap
      <4> QED BY <4>1 DEF AtDriver
    <3>3. pc'[1] \notin {"boot", "user"}
      BY <2>3, FaultPlace
    <3>4. caller'.pc[1] = "boot"
      BY <1>1, <2>3, BootPlace DEF Stage, InBoot
    <3>5. ~Unscanned' /\ pc' # <<"boot", "ring">> /\ ~Settled'
      BY <3>3, <3>4 DEF Unscanned, Settled
    <3> QED BY <3>1, <3>2, <3>5, BootFrame, DrivesFrame
  <2> QED BY <1>3, <2>2, <2>3 DEF VringNoSpace
<1> QED BY <1>2, <1>3
\* The last part of an init function: page numbers and status go through the
\* window to the driver's device and to no other.
LEMMA InitEndBootInv ==
  ASSUME TrapInv, BootInv, DrivesScannedDevice, BlocksKept, InitEnd
  PROVE  BootInv' /\ DrivesScannedDevice'
<1> USE DEF BootInv
<1>1. /\ pc = <<"boot", "ring">> /\ pc' = <<"boot", "scan">> /\ caller' = caller
      /\ UNCHANGED <<machine, todo, at, type, base>> /\ Len(Driver.vring) = Rings
  BY DEF InitEnd, Stage, Go
<1>2. /\ type \in {1, 3, 5} /\ type \in 1 .. 9 /\ Rings = RingCount(type)
      /\ Driver.conf = Conf /\ Conf \in DOMAIN machine /\ Started(type)
      /\ Driver.init_f # "null" /\ at \in DOMAIN machine \ todo
      /\ \A o \in DOMAIN machine \ todo : Position(o) <= Position(at)
  BY <1>1, RingFacts DEF Stage
<1>3. PICK c, d, n : c = Conf /\ d = Driver /\ n = Rings
  OBVIOUS
<1>4. /\ c \in DOMAIN machine /\ TypeOf(c) = type
      /\ d = virtio_drivers[type] /\ d.conf = c /\ d.window \in Nat
      /\ dev[c].bar0 = d.window /\ n = RingCount(type) /\ Len(d.vring) = n
      /\ d.vring \in Seq(RingRecord) /\ d \in DriverRecord
  <2>1. d \in DriverRecord
    BY <1>2, <1>3 DEF BootType, Driver
  <2>2. d.vring \in Seq(RingRecord)
    BY <2>1 DEF DriverRecord
  <2> QED BY <1>1, <1>2, <1>3, <2>1, <2>2 DEF Started, Driver
<1>5. \A o \in DOMAIN machine : dev[o].bar0 = d.window => o = c
  BY <1>4 DEF WindowInv, BootType, None
<1>6. ASSUME NEW o \in DOMAIN machine
      PROVE  /\ dev'[o] \in DeviceRecord(o) /\ dev'[o].bar0 = dev[o].bar0
             /\ o # c => dev'[o] = dev[o]
             /\ o = c => /\ dev'[o].ok
                         /\ \A q \in DOMAIN machine[o].queues :
                              q <= n => dev'[o].pfn[q] = d.vring[q].desc \div Page
  <2>1. dev[o] \in DeviceRecord(o) /\ o \in DOMAIN dev
    BY DEF BootType
  <2>2. o # c => dev'[o] = dev[o]
    BY <1>3, <1>5, <2>1 DEF InitEnd
  <2>3. PICK p : p = [q \in DOMAIN dev[o].pfn |->
                       IF q <= n THEN d.vring[q].desc \div Page ELSE dev[o].pfn[q]]
    OBVIOUS
  <2>4. o = c => dev'[o] = [dev[o] EXCEPT !.ok = TRUE, !.pfn = p]
    BY <1>3, <1>4, <2>1, <2>3 DEF InitEnd
  <2>5. dev[o].pfn \in [DOMAIN machine[o].queues -> Int]
    BY <2>1 DEF DeviceRecord
  <2>6. p \in [DOMAIN machine[o].queues -> Int]
    <3>1. ASSUME NEW q \in DOMAIN machine[o].queues, q <= n
          PROVE  d.vring[q].desc \div Page \in Int
      <4>1. q \in Nat /\ q >= 1
        <5>1. machine[o].queues \in Seq(Nat)
          BY MachineAssumption DEF BootType
        <5> QED BY <3>1, <5>1
      <4>2. d.vring[q] \in RingRecord
        BY <1>4, <3>1, <4>1 DEF RingCount
      <4>3. PICK x \in Nat : x = d.vring[q].desc
        BY <4>2 DEF RingRecord
      <4>4. x \div Page \in Nat
        BY Division, PageAssumption
      <4> QED BY <4>3, <4>4
    <3> QED BY <2>3, <2>5, <3>1
  <2>7. \A q \in DOMAIN machine[o].queues : q <= n => p[q] = d.vring[q].desc \div Page
    BY <2>3, <2>5
  <2>8. ASSUME o = c
        PROVE  /\ dev'[o] \in DeviceRecord(o) /\ dev'[o].bar0 = dev[o].bar0
               /\ dev'[o].ok /\ dev'[o].pfn = p
    <3>1. p \in PageNumbers(o)
      BY <2>6 DEF PageNumbers
    <3>2. PICK r, y : r = dev[o] /\ y = dev'[o]
      OBVIOUS
    <3>3. r \in DeviceRecord(o)
      BY <2>1, <3>2, Zenon
    <3>4. y = [r EXCEPT !.ok = TRUE, !.pfn = p]
      BY <2>4, <2>8, <3>2, Zenon
    <3>5. y \in DeviceRecord(o) /\ y.bar0 = r.bar0 /\ y.ok /\ y.pfn = p
      <4>1. y \in DeviceRecord(o)
        BY <3>1, <3>3, <3>4, DeviceReady
      <4>2. y.bar0 = r.bar0
        BY <3>3, <3>4 DEF DeviceRecord
      <4>3. y.ok
        BY <3>1, <3>3, <3>4, DeviceReady
      <4>4. y.pfn = p
        BY <3>3, <3>4 DEF DeviceRecord
      <4> QED BY <4>1, <4>2, <4>3, <4>4
    <3> QED BY <3>2, <3>5, Zenon
  <2>9. CASE o = c
    BY <2>7, <2>8, <2>9, Zenon
  <2>10. CASE o # c
    BY <2>1, <2>2, <2>10
  <2> QED BY <2>9, <2>10
<1>7. DOMAIN dev' = DOMAIN machine
  BY DEF InitEnd, BootType
<1>8. ASSUME NEW t \in 1 .. 9
      PROVE  /\ virtio_drivers'[t] \in DriverRecord
             /\ virtio_drivers'[t].init_f = virtio_drivers[t].init_f
             /\ virtio_drivers'[t].window = virtio_drivers[t].window
             /\ virtio_drivers'[t].conf = virtio_drivers[t].conf
             /\ virtio_drivers'[t].vring = virtio_drivers[t].vring
             /\ t # type => virtio_drivers'[t] = virtio_drivers[t]
             /\ t = type => virtio_drivers'[t].initialized
  <2>1. virtio_drivers[t] \in DriverRecord
        /\ virtio_drivers \in [1 .. 9 -> DriverRecord]
    BY DEF BootType
  <2>2. t # type => virtio_drivers'[t] = virtio_drivers[t]
    BY <2>1 DEF InitEnd
  <2>3. t = type => virtio_drivers'[t] = [virtio_drivers[t] EXCEPT !.initialized = TRUE]
    BY <2>1 DEF InitEnd
  <2>4. CASE t = type
    <3>1. PICK e : e = virtio_drivers[t]
      OBVIOUS
    <3>2. e \in DriverRecord /\ virtio_drivers'[t] = [e EXCEPT !.initialized = TRUE]
      BY <2>1, <2>3, <2>4, <3>1, Zenon
    <3>3. LET x == [e EXCEPT !.initialized = TRUE]
          IN  /\ x \in DriverRecord /\ x.init_f = e.init_f /\ x.initialized
              /\ x.window = e.window /\ x.conf = e.conf /\ x.vring = e.vring
      BY <3>2, DriverReady, Zenon
    <3> QED BY <2>4, <3>1, <3>2, <3>3
  <2> QED BY <2>1, <2>2, <2>4, Zenon
<1>9. BootType'
  <2>1. virtio_drivers' \in [1 .. 9 -> DriverRecord]
    BY <1>8 DEF BootType, InitEnd
  <2>2. machine' \in Machines /\ todo' \in SUBSET (DOMAIN machine') /\ base' \in Nat
    BY <1>1 DEF BootType
  <2>3. \A o \in DOMAIN machine' : dev'[o] \in DeviceRecord(o)'
    BY <1>1, <1>6 DEF DeviceRecord
  <2>4. \A t \in 1 .. 9 : \/ virtio_drivers'[t].init_f = "null"
                          \/ <<t, virtio_drivers'[t].init_f>> \in Drivers
    BY <1>8 DEF BootType
  <2> QED BY <1>1, <1>7, <2>1, <2>2, <2>3, <2>4, Zenon DEF BootType
<1>10. ~AtDriver' /\ ~Unscanned' /\ Settled'
  BY <1>1 DEF AtDriver, BootTrap, Unscanned, Settled
<1>11. ScanInv'
  BY <1>1, <1>10 DEF ScanInv, IdAt
<1>12. WindowInv'
  <2>1. DOMAIN dev = DOMAIN machine
    BY DEF BootType
  <2> QED BY <1>1, <1>6, <1>7, <1>10, <2>1 DEF WindowInv
<1>13. \A t \in 1 .. 9 : Started(t) => Started(t)'
  BY <1>1, <1>6, <1>8 DEF Started, TypeOf
<1>14. DriverInv'
  <2>1. ASSUME NEW t \in 1 .. 9, t # type PROVE DriverOk(t)'
    <3>1. virtio_drivers'[t] = virtio_drivers[t] /\ DriverOk(t)
      BY <1>8, <2>1 DEF DriverInv
    <3>2. \A q : RingOk(t, q) => RingOk(t, q)'
      BY <1>1, <3>1, RingOkKept
    <3>3. CASE ~virtio_drivers[t].initialized /\ virtio_drivers[t].vring = <<>>
      BY <3>1, <3>3 DEF DriverOk
    <3>4. CASE Started(t)
      <4>1. Started(t)'
        BY <1>13, <3>4
      <4>2. dev'[virtio_drivers[t].conf] = dev[virtio_drivers[t].conf]
        BY <1>4, <1>6, <2>1, <3>4 DEF Started
      <4> QED BY <1>1, <3>1, <3>2, <4>1, <4>2 DEF DriverOk
    <3> QED BY <3>1, <3>3, <3>4 DEF DriverOk
  <2>2. DriverOk(type)'
    <3>1. Started(type)'
      BY <1>1, <1>2, <1>13
    <3>2. ASSUME NEW q \in DOMAIN d.vring PROVE RingOk(type, q)'
      <4>1. RingOk(type, q)
        BY <1>2, <1>4, <3>2 DEF DriverInv, DriverOk
      <4> QED BY <1>1, <1>2, <1>8, <4>1, RingOkKept
    <3>3. virtio_drivers'[type].vring = d.vring /\ virtio_drivers'[type].conf = c
      BY <1>2, <1>4, <1>8
    <3>4. \A q \in DOMAIN d.vring \cap DOMAIN machine[c].queues :
            dev'[c].pfn[q] = d.vring[q].desc \div Page
      <4>1. DOMAIN d.vring = 1 .. n
        BY <1>4
      <4>2. \A q \in 1 .. n : q <= n
        BY <1>4 DEF RingCount
      <4> QED BY <1>4, <1>6, <4>1, <4>2
    <3> QED BY <1>1, <1>4, <3>1, <3>2, <3>3, <3>4 DEF DriverOk, RingCount
  <2> QED BY <1>1, <2>1, <2>2 DEF DriverInv
<1>15. RingStage'
  BY <1>1 DEF RingStage
<1>16. DrivesScannedDevice'
  <2> SUFFICES ASSUME \A o \in DOMAIN machine : Distinct(o),
                      NEW o \in DOMAIN machine, o \notin todo,
                      TypeOf(o) \in {1, 3, 5}
               PROVE  LET t == TypeOf(o)
                          x == virtio_drivers'[t]
                      IN  /\ dev'[o].ok /\ x.initialized
                          /\ x.conf \in DOMAIN machine \ todo
                          /\ TypeOf(x.conf) = t
                          /\ Position(o) <= Position(x.conf)
                          /\ {y \in DOMAIN dev' : dev'[y].bar0 = x.window} = {x.conf}
    BY <1>1 DEF DrivesScannedDevice, TypeOf, Passed
  <2>1. c = at
    BY <1>2, <1>3, DistinctConf DEF Conf
  <2>2. CASE o = at
    <3>1. TypeOf(o) = type /\ dev'[o].ok /\ virtio_drivers'[type].initialized
          /\ virtio_drivers'[type].conf = c /\ virtio_drivers'[type].window = d.window
      BY <1>2, <1>4, <1>6, <1>8, <2>1, <2>2
    <3>2. {y \in DOMAIN dev' : dev'[y].bar0 = d.window} = {c}
      BY <1>4, <1>5, <1>6, <1>7
    <3> QED BY <1>2, <2>1, <2>2, <3>1, <3>2
  <2>3. CASE o # at
    <3> DEFINE t == TypeOf(o)
               e == virtio_drivers[t]
    <3>1. /\ dev[o].ok /\ e.initialized
          /\ e.conf \in DOMAIN machine \ todo /\ TypeOf(e.conf) = t
          /\ Position(o) <= Position(e.conf)
          /\ {y \in DOMAIN dev : dev[y].bar0 = e.window} = {e.conf}
      BY <2>3 DEF DrivesScannedDevice, TypeOf, Passed
    <3>2. dev'[o].ok
      BY <1>6, <2>1, <2>3, <3>1
    <3>3. {y \in DOMAIN dev' : dev'[y].bar0 = e.window} = {e.conf}
      <4>1. DOMAIN dev = DOMAIN machine
        BY DEF BootType
      <4> QED BY <1>6, <1>7, <3>1, <4>1
    <3>4. t \in 1 .. 9
      OBVIOUS
    <3> HIDE DEF t
    <3>5. virtio_drivers'[t].conf = e.conf /\ virtio_drivers'[t].window = e.window
          /\ virtio_drivers'[t].initialized
      BY <1>8, <3>1, <3>4
    <3> QED BY <3>1, <3>2, <3>3, <3>5 DEF t
  <2> QED BY <2>2, <2>3
<1> QED BY <1>9, <1>11, <1>12, <1>14, <1>15, <1>16
-----------------------------------------------------------------------------
(* What the device finds at the page it was given.                         *)

\* A device that is given the page of a ring laid out for its length finds
\* both rings where the driver put them, inside the piece of storage.
LEMMA ViewAgrees ==
  ASSUME NEW desc \in Nat, desc % Page = 0, NEW n \in Nat, NEW page,
         page = desc \div Page
  PROVE  LET r == Vring(desc, n, n)
             v == DeviceView(page, n)
         IN  /\ r.num = n
             /\ v = [desc |-> r.desc, avail |-> r.avail, used |-> r.used]
             /\ v.used + 6 + 8 * n <= r.desc + r.size
<1>1. Page \in Nat \ {0}
  BY PageAssumption
<1>2. page * Page = desc
  <2>1. (desc \div Page) * Page = desc - 0
    BY <1>1, Division
  <2> QED BY <2>1
<1>3. PICK x \in Nat, y \in Nat : x = 16 * n + (6 + 2 * n) /\ y = 6 + 8 * n
  OBVIOUS
<1>4. PICK a \in Nat, b \in Nat :
        a = ALIGN_UP(x, Page) /\ b = ALIGN_UP(y, Page) /\ y <= b
  BY <1>1, AlignUp
<1>5. ALIGN_UP(desc + x, Page) = desc + a
  BY <1>1, <1>4, AlignMoves
<1>6. desc + 16 * n + 2 * (3 + n) = desc + x
      /\ desc + 16 * n + (6 + 2 * n) = desc + x
  BY <1>3
<1>7. UsedAt(desc, n) = desc + a
  BY <1>5, <1>6, Zenon DEF UsedAt, virtq_descr_size, virtq_avail_size
<1>8. virtq_size(n) = a + b
  BY <1>3, <1>4, Zenon DEF virtq_size, virtq_descr_size, virtq_avail_size,
     virtq_used_size
<1>9. Vring(desc, n, n) = [num |-> n, desc |-> desc, avail |-> desc + 16 * n,
                           used |-> desc + a, size |-> a + b]
  BY <1>7, <1>8, Zenon DEF Vring, virtq_descr_size
<1>10. DeviceView(page, n) =
         [desc |-> desc, avail |-> desc + 16 * n, used |-> desc + a]
  BY <1>2, <1>5, <1>6, Zenon DEF DeviceView
<1> QED BY <1>3, <1>4, <1>9, <1>10

\* RingsAgree follows from BootInv.
LEMMA BootInvRingsAgree ==
  ASSUME BootInv PROVE RingsAgree
<1> SUFFICES ASSUME NEW t \in {1, 3, 5},
                    virtio_drivers[t].initialized,
                    dev[virtio_drivers[t].conf].ok,
                    Expected(virtio_drivers[t].conf),
                    NEW q \in DOMAIN virtio_drivers[t].vring,
                    virtio_drivers[t].vring[q].desc # NULL
             PROVE  LET d == virtio_drivers[t]
                        r == d.vring[q]
                        n == machine[d.conf].queues[q]
                        v == DeviceView(dev[d.conf].pfn[q], n)
                    IN  /\ r.num = n
                        /\ v = [desc |-> r.desc, avail |-> r.avail, used |-> r.used]
                        /\ v.used + 6 + 8 * n <= r.desc + r.size
                        /\ \E i \in DOMAIN blocks :
                             blocks[i] = [start |-> r.desc, size |-> r.size,
                                          heap |-> FALSE]
  BY DEF RingsAgree
<1>1. PICK c, s, r : /\ c = virtio_drivers[t].conf /\ s = virtio_drivers[t].vring
                     /\ r = s[q]
  OBVIOUS
<1>2. t \in 1 .. 9 /\ DriverOk(t) /\ virtio_drivers[t] \in DriverRecord
  BY DEF BootInv, BootType, DriverInv
<1>3. /\ c \in DOMAIN machine /\ TypeOf(c) = t /\ Len(s) = RingCount(t)
      /\ RingOk(t, q)
      /\ q \in DOMAIN machine[c].queues => dev[c].pfn[q] = r.desc \div Page
  BY <1>1, <1>2 DEF DriverOk, Started
<1>4. s \in Seq(RingRecord) /\ q \in DOMAIN s
  BY <1>1, <1>2 DEF DriverRecord
<1>5. q \in 1 .. RingCount(t) /\ r.desc \in Nat
  <2>1. r \in RingRecord
    BY <1>1, <1>4
  <2> QED BY <1>3, <1>4, <2>1 DEF RingRecord
<1>6. machine[c].queues \in Seq(Nat) /\ machine[c].queues # <<>>
  BY <1>3, MachineAssumption DEF BootInv, BootType
<1>7. PICK n : n = machine[c].queues[q]
  OBVIOUS
<1>8. /\ q \in DOMAIN machine[c].queues /\ n \in Nat
      /\ machine[c].queues[1] = n /\ RingLength(t, c) = n
  <2>1. CASE t = 3
    <3>1. Len(machine[c].queues) >= 2 /\ machine[c].queues[1] = machine[c].queues[2]
      BY <1>1, <1>3, <2>1 DEF Expected, TypeOf
    <3>2. q = 1 \/ q = 2
      BY <1>5, <2>1 DEF RingCount
    <3> QED BY <1>6, <1>7, <2>1, <3>1, <3>2 DEF RingLength
  <2>2. CASE t # 3
    <3>1. q = 1
      BY <1>5, <2>2 DEF RingCount
    <3>2. t = 1 => machine[c].queues[1] = 256
      BY <1>1, <1>3 DEF Expected, TypeOf
    <3> QED BY <1>6, <1>7, <3>1, <3>2 DEF RingLength
  <2> QED BY <2>1, <2>2
<1>9. /\ r = Vring(r.desc, RingLength(t, c), machine[c].queues[1])
      /\ r.desc % Page = 0
      /\ \E i \in DOMAIN blocks :
           blocks[i] = [start |-> r.desc, size |-> r.size, heap |-> FALSE]
  BY <1>1, <1>3, Zenon DEF RingOk
<1>10. r = Vring(r.desc, n, n)
  BY <1>8, <1>9, Zenon
<1>11. PICK desc \in Nat : desc = r.desc
  BY <1>5
<1>12. PICK page : page = dev[c].pfn[q]
  OBVIOUS
<1>13. page = desc \div Page /\ desc % Page = 0
  BY <1>3, <1>8, <1>9, <1>11, <1>12, Zenon
<1>14. LET v == DeviceView(page, n)
       IN  /\ r.num = n
           /\ v = [desc |-> r.desc, avail |-> r.avail, used |-> r.used]
           /\ v.used + 6 + 8 * n <= r.desc + r.size
  <2>1. r = Vring(desc, n, n)
    BY <1>10, <1>11, Zenon
  <2>2. LET w == Vring(desc, n, n)
            v == DeviceView(page, n)
        IN  /\ w.num = n
            /\ v = [desc |-> w.desc, avail |-> w.avail, used |-> w.used]
            /\ v.used + 6 + 8 * n <= w.desc + w.size
    BY <1>8, <1>13, ViewAgrees
  <2> QED BY <2>1, <2>2, Zenon
<1> QED BY <1>1, <1>7, <1>9, <1>11, <1>12, <1>14, Zenon

-----------------------------------------------------------------------------
(* The theorems.                                                           *)

(***************************************************************************)
(* From power on to user code, for every machine and every size of the     *)
(* memory's parts, the whole of the state is consistent: the trap stack,   *)
(* the heap, what was allocated, the scan, the windows of the devices, the *)
(* drivers and their rings.                                                *)
(***************************************************************************)
THEOREM MachineInductive == Spec => []MachineInv
<1>1. ASSUME Init PROVE MachineInv
  <2>1. TrapInv /\ ProcType
    BY <1>1, InitTrapInv, TrapAssumption DEF Init, TrapInit, ProcType
  <2>2. MemInv
    <3>1. /\ used = [a \in Arena |-> {}] /\ frontier = ForeverStart /\ blocks = <<>>
      BY <1>1 DEF Init, MemoryInit
    <3> QED BY <3>1, MemoryAssumption DEF MemInv
  <2>3. HeapInv
    BY <1>1 DEF Init, TrapInit, HeapInv
  <2> QED BY <1>1, <2>1, <2>2, <2>3, InitBootInv DEF MachineInv
<1>2. ASSUME MachineInv, [Next]_vars PROVE MachineInv'
  <2> USE DEF MachineInv
  <2>1. TrapInv' /\ ProcType'
    BY <1>2, NextTrapInv
  <2>2. HeapInv'
    BY <1>2, NextHeapInv
  <2>3. MemInv'
    BY <1>2, NextMemInv, RingSizeNat
  <2>4. BlocksKept
    BY <1>2, NextBlocksKept
  <2>5. BootInv' /\ DrivesScannedDevice'
    <3>1. CASE PlainBootStep
      BY <1>2, <2>4, <3>1, PlainBoot
    <3>2. CASE load_drivers
      BY <1>2, <2>4, <3>2, DriversBootInv
    <3>3. CASE ScanFinds
      BY <1>2, <2>4, <3>3, ScanFindsBootInv
    <3>4. CASE InitStart
      BY <1>2, <2>4, <3>4, InitStartBootInv
    <3>5. CASE vring_init \/ VringNoSpace
      BY <1>2, <2>4, <3>5, VringBootInv
    <3>6. CASE InitEnd
      BY <1>2, <2>4, <3>6, InitEndBootInv
    <3>7. CASE KernelStep \/ ((User \/ TimerInterrupt) /\ UNCHANGED bootVars)
      BY <1>2, <2>1, <2>4, <3>7, OutsideBootInv
    <3>8. CASE UNCHANGED vars
      BY <1>2, <3>8, StutterBootInv
    <3> QED
      BY <1>2, <3>1, <3>2, <3>3, <3>4, <3>5, <3>6, <3>7, <3>8
      DEF Next, BootStep, PlainBootStep
  <2> QED BY <2>1, <2>2, <2>3, <2>5
<1> QED BY <1>1, <1>2, PTL DEF Spec

(***************************************************************************)
(* What malloc and forever_alloc_aligned give out never overlaps and lies  *)
(* in its region, for any arenas, however often the kernel allocates       *)
(* (src/memory.c).                                                         *)
(***************************************************************************)
THEOREM AllocationsApart == Spec => []BlocksApart
<1>1. MachineInv => BlocksApart
  BY MemInvBlocksApart DEF MachineInv
<1> QED BY <1>1, MachineInductive, PTL

(***************************************************************************)
(* A trap gives user code back what it had: the place after the call or    *)
(* the place of the interrupt, and every register but those the call may   *)
(* change (src/strap.S, src/strap_handler.c), also when an interrupt comes *)
(* while a call waits.                                                     *)
(***************************************************************************)
THEOREM UserResumes == Spec => []UserContextKept
<1>1. MachineInv => UserContextKept
  BY TrapInvUserContext DEF MachineInv
<1> QED BY <1>1, MachineInductive, PTL

(***************************************************************************)
(* Every device with a driver that pci_scan has passed is set up, and each *)
(* driver writes to the window of the last device of its type and of no    *)
(* other, for any machine whose devices are at functions that              *)
(* configure_pci_device tells apart.                                       *)
(***************************************************************************)
THEOREM DevicesDriven == Spec => []DrivesScannedDevice
<1>1. MachineInv => DrivesScannedDevice
  BY DEF MachineInv
<1> QED BY <1>1, MachineInductive, PTL

(***************************************************************************)
(* Driver and device agree on the layout of each ring and the ring has its *)
(* storage to itself, for any page size and queue length (vring_init and   *)
(* the init functions of src/virtio_driver.c).                             *)
(***************************************************************************)
THEOREM DevicesFindRings == Spec => []RingsAgree
<1>1. MachineInv => RingsAgree
  BY BootInvRingsAgree DEF MachineInv
<1> QED BY <1>1, MachineInductive, PTL
=============================================================================
