----------------------------- MODULE OpenProofs -----------------------------
(***************************************************************************)
(* From a path to an open file: proofs about the walk along a path         *)
(* (Ext2Lookup), about the table of descriptors (FdTable), and about the   *)
(* two together.  They hold for every tree and layout of its directories,  *)
(* every size of the table and any offsets and sizes.                      *)
(***************************************************************************)
EXTENDS FdTable, Ext2Lookup, WellFoundedInduction, TLAPS

-----------------------------------------------------------------------------
(* The walk: the inductive invariant.                                      *)

\* What is left of the path, and how much of it is done.
Done == Len(path) - Len(parts)
PathLeft ==
  /\ path \in Paths \cup {<<>>} /\ parts \in Seq(Seq(Char))
  /\ Len(parts) <= Len(path)
  /\ \A k \in 1 .. Len(parts) : parts[k] = path[Done + k]
  /\ pc \in {"block", "scan"} => parts # <<>>

\* Whatever the cells of the buffer hold, their lengths are not negative.
Numbers(cells) ==
  \A k \in Cell : cells[k].inode \in Nat /\ cells[k].rec_len \in Nat

BufferCells ==
  /\ Numbers(buffer)
  /\ pc = "scan" => o < MaxBlocks /\ o < Len(traverse)

\* A scan that has not gone astray is at an entry of a directory block.
OnEntry ==
  pc = "scan" /\ ~astray =>
    LET b == traverse[o + 1]
    IN  /\ b \in DirBlock /\ block0 = BlockCells(b)
        /\ dirent_idx \in DOMAIN Entries[b] \cup {BlockLen}

ScanInv ==
  /\ WalkTypeOK /\ PathLeft /\ BufferCells /\ RestIntact /\ OnEntry
  /\ pc = "lost" => astray

\* The directory, or file, that the parts done lead to.
Here == Reached(path)[Done]

NotIn(b, part) == \A s \in DOMAIN Entries[b] : Entries[b][s].name # part

\* The walk is where the path leads, as long as no read has failed.
AtHere ==
  /\ pc = "inode" => want = Here /\ (ptr /\ Done > 0 => ino = want)
  /\ pc \in {"part", "block", "scan"} =>
       traverse = Inode[Here] /\ (ptr /\ Done > 0 => ino = Here)

\* No entry looked at so far has the name sought.
NotSeen ==
  /\ pc \in {"block", "scan"} => \A j \in 1 .. o : NotIn(traverse[j], Head(parts))
  /\ pc = "scan" =>
       LET b == traverse[o + 1]
       IN  \A s \in DOMAIN Entries[b] :
             s < dirent_idx => Entries[b][s].name # Head(parts)

WalkInv ==
  /\ pc # "idle" /\ ~failed /\ Unambiguous(path) =>
       path \in Paths /\ Here \in Inodes /\ ~astray /\ AtHere /\ NotSeen
  /\ ResolvesExactly

-----------------------------------------------------------------------------
(* Where a path leads.                                                     *)

\* A set of numbers has a least one.
LEMMA LeastNumber ==
  ASSUME NEW S \in SUBSET Nat, S # {}
  PROVE  \E x \in S : \A y \in S : x <= y
<1>1. PICK x \in S : \A y \in S : ~(<<y, x>> \in OpToRel(<, Nat))
  BY WFMin, NatLessThanWellFounded
<1>2. \A y \in S : ~(y < x)
  BY <1>1 DEF OpToRel
<1> QED
  BY <1>2

\* The files that the first n parts of p lead through.
Leads(f, p, n) ==
  f = [k \in 0 .. n |-> IF k = 0 THEN Root ELSE InDir(f[k - 1], p[k])]

\* Up to every part there is such a function ...
LEMMA LeadsExists ==
  ASSUME NEW p
  PROVE  \A n \in Nat : \E f : Leads(f, p, n)
<1> DEFINE Bad == {n \in Nat : ~\E f : Leads(f, p, n)}
<1> SUFFICES ASSUME Bad # {} PROVE FALSE
  OBVIOUS
<1>1. PICK m \in Bad : \A k \in Bad : m <= k
  BY LeastNumber
<1>2. CASE m = 0
  <2> DEFINE g == [k \in 0 .. 0 |-> Root]
  <2>1. Leads(g, p, 0)
    BY DEF Leads
  <2> QED BY <1>2, <2>1
<1>3. CASE m # 0
  <2>1. m \in Nat /\ m - 1 \in Nat /\ m - 1 \notin Bad
    BY <1>1, <1>3
  <2>2. PICK f : Leads(f, p, m - 1)
    BY <2>1
  <2> DEFINE step(h, k) == IF k = 0 THEN Root ELSE InDir(h[k - 1], p[k])
             g == [k \in 0 .. m |-> step(f, k)]
  <2>3. \A k \in 0 .. m - 1 : f[k] = step(f, k)
    BY <2>2 DEF Leads
  <2>4. \A k \in 0 .. m - 1 : g[k] = f[k]
    BY <2>1, <2>3
  <2>5. \A k \in 0 .. m : step(g, k) = step(f, k)
    <3>1. \A k \in 0 .. m : k = 0 \/ k - 1 \in 0 .. m - 1
      BY <2>1
    <3> HIDE DEF g
    <3> QED BY <2>4, <3>1
  <2>6. g = [k \in 0 .. m |-> step(g, k)]
    BY <2>5
  <2>7. Leads(g, p, m)
    BY <2>6 DEF Leads
  <2> QED BY <2>7
<1> QED BY <1>2, <1>3

\* ... and so Reached obeys its definition: each part is looked up in the
\* directory that the parts before it lead to.
LEMMA ReachedStep ==
  ASSUME NEW p \in Seq(Seq(Char))
  PROVE  /\ Reached(p)[0] = Root
         /\ \A n \in 1 .. Len(p) : Reached(p)[n] = InDir(Reached(p)[n - 1], p[n])
<1>1. Len(p) \in Nat
  OBVIOUS
<1>2. Leads(Reached(p), p, Len(p))
  <2>1. \E f : Leads(f, p, Len(p))
    BY <1>1, LeadsExists
  <2>2. Reached(p) = CHOOSE f : Leads(f, p, Len(p))
    BY Zenon DEF Reached, Leads
  <2> QED BY <2>1, <2>2, Zenon
<1> HIDE DEF Reached
<1>3. PICK f : f = Reached(p)
  OBVIOUS
<1>4. f = [k \in 0 .. Len(p) |-> IF k = 0 THEN Root ELSE InDir(f[k - 1], p[k])]
  BY <1>2, <1>3 DEF Leads
<1>5. f[0] = Root
  BY <1>1, <1>4
<1>6. \A n \in 1 .. Len(p) : f[n] = InDir(f[n - 1], p[n])
  BY <1>1, <1>4
<1> QED BY <1>3, <1>5, <1>6

\* A part that is missing leaves nothing that the rest could name.
LEMMA MissingStays ==
  ASSUME NEW p \in Seq(Seq(Char)), NEW m \in 0 .. Len(p),
         Reached(p)[m] = NoInode
  PROVE  Resolve(p) = NoInode
<1>1. PICK f : f = Reached(p)
  OBVIOUS
<1> DEFINE Bad == {n \in m .. Len(p) : f[n] # NoInode}
<1>2. Len(p) \in Nat /\ m \in Nat
  OBVIOUS
<1>3. Bad = {}
  <2> SUFFICES ASSUME Bad # {} PROVE FALSE
    OBVIOUS
  <2>1. Bad \in SUBSET Nat
    BY <1>2
  <2>2. PICK n \in Bad : \A k \in Bad : n <= k
    BY <2>1, LeastNumber
  <2>3. n \in 1 .. Len(p) /\ n - 1 \in m .. Len(p) /\ n - 1 \notin Bad
    BY <1>1, <1>2, <2>2
  <2>4. f[n - 1] = NoInode
    BY <2>3
  <2>5. f[n] = InDir(f[n - 1], p[n])
    BY <1>1, <2>3, ReachedStep
  <2>6. NoInode \notin Dir
    BY LookupAssumption
  <2>7. f[n] = NoInode
    BY <2>4, <2>5, <2>6 DEF InDir
  <2> QED BY <2>2, <2>7
<1>4. Len(p) \in m .. Len(p)
  BY <1>2
<1> QED BY <1>1, <1>3, <1>4 DEF Resolve

-----------------------------------------------------------------------------
(* The cells of a block.                                                   *)

\* The entry that starts at a cell.
LEMMA EntryFacts ==
  ASSUME NEW b \in DirBlock, NEW s \in DOMAIN Entries[b]
  PROVE  /\ s \in Cell /\ s \in Nat
         /\ Entries[b][s].inode \in Nat /\ Entries[b][s].rec_len \in Nat
         /\ Entries[b][s].name \in Seq(Char) /\ Len(Entries[b][s].name) \in Nat
         /\ Entries[b][s].rec_len > Len(Entries[b][s].name)
         /\ s + Entries[b][s].rec_len \in DOMAIN Entries[b] \cup {BlockLen}
         /\ s + Entries[b][s].rec_len <= BlockLen
         /\ \A m \in DOMAIN Entries[b] : m <= s \/ m >= s + Entries[b][s].rec_len
<1>1. Filled(b) /\ BlockLen \in Nat
  BY LookupAssumption
<1>2. DOMAIN Entries[b] \subseteq Cell /\ s \in Cell /\ s \in Nat
  BY <1>1 DEF Filled, Cell
<1>3. /\ Entries[b][s].inode \in Nat /\ Entries[b][s].rec_len \in Nat
      /\ Entries[b][s].name \in Seq(Char)
      /\ Entries[b][s].rec_len > Len(Entries[b][s].name)
      /\ s + Entries[b][s].rec_len \in DOMAIN Entries[b] \cup {BlockLen}
      /\ \A m \in DOMAIN Entries[b] : m <= s \/ m >= s + Entries[b][s].rec_len
  BY <1>1, Zenon DEF Filled
<1>4. s + Entries[b][s].rec_len <= BlockLen
  BY <1>1, <1>2, <1>3 DEF Cell
<1>5. Len(Entries[b][s].name) \in Nat
  BY <1>3
<1> QED BY <1>2, <1>3, <1>4, <1>5

\* The cells behind the header of an entry hold its name, and then nothing.
LEMMA EntryCells ==
  ASSUME NEW b \in DirBlock, NEW s \in DOMAIN Entries[b],
         NEW j \in 1 .. Entries[b][s].rec_len - 1
  PROVE  /\ s + j \in Cell
         /\ BlockCells(b)[s + j] = Plain(CharAt(Entries[b][s].name, j))
<1>1. PICK r \in Nat : r = Entries[b][s].rec_len
  BY EntryFacts
<1>2. /\ s \in Nat /\ s + r <= BlockLen /\ BlockLen \in Nat /\ j \in 1 .. r - 1
      /\ \A m \in DOMAIN Entries[b] : m \in Nat /\ (m <= s \/ m >= s + r)
  BY <1>1, EntryFacts, LookupAssumption
<1>3. PICK c : c = s + j
  OBVIOUS
<1>4. c \in Cell /\ c \in Nat /\ c \notin DOMAIN Entries[b] /\ c - s = j
  BY <1>2, <1>3 DEF Cell
<1> DEFINE Covers(m) == c \in m .. m + Entries[b][m].rec_len - 1
<1>5. Covers(s)
  BY <1>1, <1>2, <1>3
<1>6. ASSUME NEW m \in DOMAIN Entries[b], Covers(m) PROVE m = s
  <2>1. PICK q \in Nat : q = Entries[b][m].rec_len
    BY EntryFacts
  <2>2. m \in Nat /\ c \in m .. m + q - 1 /\ (s <= m \/ s >= m + q)
    BY <1>6, <2>1, EntryFacts
  <2> QED BY <1>2, <1>3, <2>2
<1> HIDE DEF Covers
<1>7. (CHOOSE m \in DOMAIN Entries[b] : Covers(m)) = s
  BY <1>5, <1>6
<1>8. StartOf(b, c) = s
  BY <1>7, Zenon DEF StartOf, Covers
<1>9. BlockCells(b)[c] = Plain(CharAt(Entries[b][s].name, c - s))
  BY <1>4, <1>8 DEF BlockCells, DirCells
<1> QED BY <1>3, <1>4, <1>9

\* The headers in a directory block are those of its entries.
LEMMA HeaderCells ==
  ASSUME NEW b \in DirBlock
  PROVE  \A s \in DOMAIN Entries[b] : BlockCells(b)[s] = Header(Entries[b][s])
<1> SUFFICES ASSUME NEW s \in DOMAIN Entries[b]
             PROVE  BlockCells(b)[s] = Header(Entries[b][s])
  OBVIOUS
<1>1. s \in Cell
  BY EntryFacts
<1> QED BY <1>1 DEF BlockCells, DirCells

\* What can be read from the disk, and what the stack may hold, are cells.
LEMMA CellsRead ==
  /\ \A b \in Block : Numbers(BlockCells(b)) /\ DOMAIN BlockCells(b) = Cell
  /\ \A g \in Stack : Numbers(g) /\ DOMAIN g = Cell
<1>1. ASSUME NEW g \in [Cell -> CellType] PROVE Numbers(g) /\ DOMAIN g = Cell
  BY DEF Numbers, CellType
<1>2. ASSUME NEW b \in Block PROVE Numbers(BlockCells(b)) /\ DOMAIN BlockCells(b) = Cell
  <2>1. CASE b \in DirBlock
    <3>1. ASSUME NEW k \in Cell
          PROVE  BlockCells(b)[k].inode \in Nat /\ BlockCells(b)[k].rec_len \in Nat
      <4>1. CASE k \in DOMAIN Entries[b]
        <5>1. BlockCells(b)[k] = Header(Entries[b][k])
          BY <2>1, <4>1, HeaderCells
        <5> QED BY <2>1, <4>1, <5>1, EntryFacts DEF Header
      <4>2. CASE k \notin DOMAIN Entries[b]
        <5>1. PICK c : BlockCells(b)[k] = Plain(c)
          BY <2>1, <4>2 DEF BlockCells, DirCells
        <5> QED BY <5>1 DEF Plain, NoInode
      <4> QED BY <4>1, <4>2
    <3>2. DOMAIN BlockCells(b) = Cell
      BY <2>1 DEF BlockCells, DirCells
    <3> QED BY <3>1, <3>2 DEF Numbers
  <2>2. CASE b \notin DirBlock
    <3>1. BlockCells(b) = FileData[b] /\ b \in DOMAIN FileData
      BY <2>2 DEF BlockCells, Block
    <3>2. FileData[b] \in [Cell -> CellType]
      BY <3>1, LookupAssumption
    <3> QED BY <1>1, <3>1, <3>2
  <2> QED BY <2>1, <2>2
<1>3. Stack \subseteq [Cell -> CellType]
  BY LookupAssumption
<1> QED BY <1>1, <1>2, <1>3

\* What is taken for i_block is a sequence; an inode's is one of blocks.
LEMMA InodeBlocks ==
  ASSUME NEW t \in Range(Inode) \cup Misread \cup {<<>>}
  PROVE  Len(t) \in Nat
<1>1. CASE t = <<>>
  BY <1>1
<1>2. CASE t \in Misread
  BY <1>2, LookupAssumption
<1>3. CASE t \in Range(Inode)
  <2>1. PICK i \in Inodes : t = Inode[i]
    BY <1>3 DEF Range, Inodes
  <2>2. t \in Seq(Block)
    BY <2>1, LookupAssumption
  <2> QED BY <2>2
<1> QED BY <1>1, <1>2, <1>3

-----------------------------------------------------------------------------
(* The steps of the scan.                                                  *)

\* Copying an entry to the front: the header arrives, and what is behind the
\* entry stays.
LEMMA CopyFacts ==
  ASSUME ScanInv, dirent_idx < BlockLen, ~TooLong, NEW past \in Stack
  PROVE  /\ dirent_idx \in Cell /\ 0 \in Cell
         /\ CopiedToFront(past)[0] = buffer[dirent_idx]
         /\ DOMAIN CopiedToFront(past) = Cell
         /\ Numbers(CopiedToFront(past))
         /\ dirent_idx + SkipEntry(CopiedToFront(past)) \in 0 .. 2 * BlockLen
         /\ \A k \in dirent_idx + SkipEntry(CopiedToFront(past)) .. BlockLen - 1 :
              CopiedToFront(past)[k] = buffer[k]
<1>1. PICK d : d = dirent_idx
  OBVIOUS
<1>2. BlockLen \in Nat /\ d \in Nat /\ d < BlockLen /\ d \in Cell /\ 0 \in Cell
  BY <1>1, LookupAssumption DEF ScanInv, WalkTypeOK, Cell
<1>3. Numbers(buffer) /\ Numbers(past)
  BY CellsRead DEF ScanInv, BufferCells
<1>4. PICK r \in Nat : r = buffer[d].rec_len /\ r <= BlockLen
  BY <1>1, <1>2, <1>3 DEF Numbers, TooLong
<1>5. PICK c : c = CopiedToFront(past)
  OBVIOUS
<1>6. c = [k \in Cell |-> IF k = 0 \/ k < r THEN CellAt(past, d + k) ELSE buffer[k]]
  BY <1>1, <1>4, <1>5 DEF CopiedToFront
<1>7. c[0] = buffer[d] /\ DOMAIN c = Cell
  BY <1>2, <1>6 DEF CellAt
<1>8. ASSUME NEW k \in Cell PROVE c[k].inode \in Nat /\ c[k].rec_len \in Nat
  <2>1. CASE k = 0 \/ k < r
    <3>1. PICK m : m = d + k
      OBVIOUS
    <3>2. m \in Nat /\ (m < BlockLen => m \in Cell)
          /\ (~(m < BlockLen) => m - BlockLen \in Cell)
      BY <1>2, <1>4, <2>1, <3>1 DEF Cell
    <3>3. c[k] = CellAt(past, m)
      BY <1>6, <2>1, <3>1
    <3>4. CASE m < BlockLen
      BY <1>3, <3>2, <3>3, <3>4, <1>2 DEF CellAt, Numbers, Cell
    <3>5. CASE ~(m < BlockLen)
      BY <1>2, <1>3, <3>2, <3>3, <3>5 DEF CellAt, Numbers, Cell
    <3> QED BY <3>4, <3>5
  <2>2. CASE ~(k = 0 \/ k < r)
    BY <1>3, <1>6, <2>2 DEF Numbers
  <2> QED BY <2>1, <2>2
<1>9. SkipEntry(c) = r
  BY <1>4, <1>7 DEF SkipEntry
<1>10. d + r \in 0 .. 2 * BlockLen
  BY <1>2, <1>4
<1>11. ASSUME NEW k \in d + r .. BlockLen - 1 PROVE c[k] = buffer[k]
  <2>1. k \in Cell /\ (k = 0 => d = 0) /\ ~(k < r)
    BY <1>2, <1>4 DEF Cell
  <2> QED BY <1>2, <1>6, <2>1 DEF CellAt
<1>12. \A k \in d + SkipEntry(c) .. BlockLen - 1 : c[k] = buffer[k]
  BY <1>9, <1>11
<1>13. d + SkipEntry(c) \in 0 .. 2 * BlockLen
  BY <1>9, <1>10
<1> QED BY <1>1, <1>2, <1>5, <1>7, <1>8, <1>12, <1>13, Zenon DEF Numbers

\* The rest of the path is a sequence of parts.
LEMMA PathParts ==
  ASSUME NEW p \in Paths \cup {<<>>}
  PROVE  p \in Seq(Seq(Char)) /\ Len(p) \in Nat
<1>1. p \in Seq(Seq(Char))
  <2>1. CASE p \in Paths
    BY <2>1, LookupAssumption
  <2>2. CASE p = <<>>
    BY <2>2
  <2> QED BY <2>1, <2>2
<1> QED BY <1>1

\* A part found is one part less to find.
LEMMA PartDone ==
  ASSUME ScanInv, parts # <<>>
  PROVE  /\ Tail(parts) \in Seq(Seq(Char)) /\ Len(Tail(parts)) = Len(parts) - 1
         /\ Len(parts) \in Nat \ {0} /\ Len(path) \in Nat
         /\ Len(parts) <= Len(path)
         /\ Head(parts) = path[Done + 1] /\ Done \in Nat
         /\ \A k \in 1 .. Len(Tail(parts)) :
              Tail(parts)[k] = path[(Len(path) - Len(Tail(parts))) + k]
<1>1. /\ parts \in Seq(Seq(Char)) /\ Len(path) \in Nat /\ Len(parts) <= Len(path)
      /\ \A k \in 1 .. Len(parts) : parts[k] = path[(Len(path) - Len(parts)) + k]
  BY PathParts DEF ScanInv, PathLeft, Done
<1>2. /\ Tail(parts) \in Seq(Seq(Char)) /\ Len(Tail(parts)) = Len(parts) - 1
      /\ Len(parts) \in Nat \ {0} /\ Head(parts) = parts[1]
      /\ \A k \in 1 .. Len(parts) - 1 : Tail(parts)[k] = parts[k + 1]
  BY <1>1
<1>3. PICK l \in Nat, n \in Nat : l = Len(parts) /\ n = Len(path)
  BY <1>1, <1>2
<1>4. ASSUME NEW k \in 1 .. l - 1 PROVE Tail(parts)[k] = path[(n - (l - 1)) + k]
  <2>1. k + 1 \in 1 .. l /\ (n - l) + (k + 1) = (n - (l - 1)) + k
    BY <1>3
  <2>2. parts[k + 1] = path[(n - l) + (k + 1)]
    BY <1>1, <1>3, <2>1
  <2> QED BY <1>2, <1>3, <2>1, <2>2
<1>5. Head(parts) = path[Done + 1] /\ Done \in Nat
  BY <1>1, <1>2 DEF Done
<1> QED BY <1>1, <1>2, <1>3, <1>4, <1>5

-----------------------------------------------------------------------------
(* The entry that the scan looks at.                                       *)

\* Up to here the buffer is the directory block as it is on the disk, so the
\* entry lies inside it and is not empty.
LEMMA EntryInBlock ==
  ASSUME ScanInv, pc = "scan", NEW b \in DirBlock, block0 = BlockCells(b),
         dirent_idx \in DOMAIN Entries[b]
  PROVE  /\ buffer[dirent_idx] = Header(Entries[b][dirent_idx])
         /\ buffer[dirent_idx].rec_len = Entries[b][dirent_idx].rec_len
         /\ buffer[dirent_idx].rec_len > 0
         /\ dirent_idx + buffer[dirent_idx].rec_len <= BlockLen
         /\ dirent_idx < BlockLen /\ ~TooLong
<1>1. PICK d : d = dirent_idx
  OBVIOUS
<1>2. PICK e : e = Entries[b][d]
  OBVIOUS
<1>3. /\ d \in Nat /\ d \in Cell /\ d \in DOMAIN Entries[b]
      /\ Len(e.name) \in Nat /\ e.rec_len \in Nat
      /\ e.rec_len > Len(e.name) /\ d + e.rec_len <= BlockLen
  BY <1>1, <1>2, EntryFacts
<1>4. BlockLen \in Nat /\ d < BlockLen /\ d \in d .. BlockLen - 1
  BY <1>3, LookupAssumption DEF Cell
<1>5. buffer[d] = Header(e)
  BY <1>1, <1>2, <1>3, <1>4, HeaderCells DEF ScanInv, RestIntact
<1>6. buffer[d].rec_len = e.rec_len
  BY <1>5 DEF Header
<1>7. e.rec_len > 0 /\ ~(e.rec_len > BlockLen)
  BY <1>3, <1>4
<1> QED BY <1>1, <1>2, <1>3, <1>4, <1>5, <1>6, <1>7 DEF TooLong

\* The comparison is with the entry as it is on the disk, although it was
\* copied within the buffer, and asks whether its name begins the part.
LEMMA EntryAtFront ==
  ASSUME ScanInv, pc = "scan", NEW b \in DirBlock, block0 = BlockCells(b),
         dirent_idx \in DOMAIN Entries[b], NEW part \in Seq(Char),
         NEW past \in Stack
  PROVE  /\ CopiedToFront(past)[0] = Header(Entries[b][dirent_idx])
         /\ NameMatches(CopiedToFront(past), part)
              <=> Begins(Entries[b][dirent_idx].name, part)
<1>1. PICK d : d = dirent_idx
  OBVIOUS
<1>2. PICK e : e = Entries[b][d]
  OBVIOUS
<1>3. /\ d \in Nat /\ d \in Cell /\ d \in DOMAIN Entries[b]
      /\ e.name \in Seq(Char) /\ Len(e.name) \in Nat /\ e.rec_len \in Nat
      /\ e.rec_len > Len(e.name) /\ d + e.rec_len <= BlockLen
  BY <1>1, <1>2, EntryFacts
<1>4. BlockLen \in Nat /\ dirent_idx < BlockLen /\ ~TooLong
  BY EntryInBlock, LookupAssumption
<1>5. \A k \in d .. BlockLen - 1 : buffer[k] = BlockCells(b)[k]
  BY <1>1 DEF ScanInv, RestIntact
<1>6. buffer[d] = Header(e)
  BY <1>1, <1>2, EntryInBlock
<1>7. buffer[d].rec_len = e.rec_len /\ buffer[d].name_len = Len(e.name)
  BY <1>6 DEF Header
<1>8. PICK c : c = CopiedToFront(past)
  OBVIOUS
<1>9. c[0] = Header(e) /\ c[0].name_len = Len(e.name)
  BY <1>1, <1>4, <1>6, <1>7, <1>8, CopyFacts
<1>10. ASSUME NEW k \in 1 .. Len(e.name) PROVE c[k].ch = e.name[k]
  <2>1. PICK m : m = d + k
    OBVIOUS
  <2>2. k \in 1 .. e.rec_len - 1 /\ k \in Cell /\ k < e.rec_len /\ k <= Len(e.name)
        /\ m \in d .. BlockLen - 1 /\ m < BlockLen
    BY <1>3, <1>4, <2>1 DEF Cell
  <2>3. c[k] = buffer[m]
    BY <1>1, <1>7, <1>8, <2>1, <2>2 DEF CopiedToFront, CellAt
  <2>4. BlockCells(b)[m] = Plain(CharAt(e.name, k))
    BY <1>2, <1>3, <2>1, <2>2, EntryCells
  <2>5. c[k] = Plain(CharAt(e.name, k))
    BY <1>5, <2>2, <2>3, <2>4
  <2> QED BY <2>2, <2>5 DEF Plain, CharAt
<1>11. \A k \in 1 .. Len(e.name) : c[k].ch \in Char /\ c[k].ch # Nul
  BY <1>3, <1>10, LookupAssumption
<1>12. ASSUME NEW k \in 1 .. Len(e.name)
       PROVE  (c[k].ch = CharAt(part, k) \/ \E j \in 1 .. k - 1 : c[j].ch = Nul)
                <=> (k <= Len(part) /\ e.name[k] = part[k])
  <2>1. \A j \in 1 .. k - 1 : c[j].ch # Nul
    BY <1>3, <1>11
  <2>2. c[k].ch = e.name[k] /\ c[k].ch # Nul
    BY <1>10, <1>11
  <2> QED BY <2>1, <2>2 DEF CharAt
<1>13. NameMatches(c, part) <=> Begins(e.name, part)
  BY <1>9, <1>12 DEF NameMatches, Begins
<1> QED BY <1>1, <1>2, <1>8, <1>9, <1>13

-----------------------------------------------------------------------------
(* ScanInv is inductive.                                                   *)

\* Nothing is scanned before the first call.
LEMMA InitScanInv == WalkInit => ScanInv
<1> SUFFICES ASSUME WalkInit PROVE ScanInv
  OBVIOUS
<1>1. BlockLen \in Nat /\ MaxBlocks \in Nat
  BY LookupAssumption
<1>2. buffer \in Stack /\ block0 = buffer /\ pc = "idle"
  BY DEF WalkInit
<1>3. Numbers(buffer) /\ DOMAIN buffer = Cell
  BY <1>2, CellsRead
<1>4. WalkTypeOK
  <2>1. ptr \in BOOLEAN /\ found \in BOOLEAN /\ failed \in BOOLEAN
        /\ astray \in BOOLEAN
    BY DEF WalkInit
  <2>2. /\ Len(parts) <= Len(path) /\ path \in Paths \cup {<<>>}
        /\ traverse \in Range(Inode) \cup Misread \cup {<<>>}
    BY DEF WalkInit
  <2>3. /\ o \in 0 .. MaxBlocks /\ dirent_idx \in 0 .. 2 * BlockLen
        /\ want \in Nat /\ ino \in Nat
    BY <1>1 DEF WalkInit, NoInode
  <2> QED BY <1>2, <1>3, <2>1, <2>2, <2>3 DEF WalkTypeOK
<1>5. PathLeft
  BY DEF WalkInit, PathLeft, Done
<1>6. BufferCells /\ RestIntact /\ OnEntry
  BY <1>2, <1>3 DEF BufferCells, RestIntact, OnEntry
<1> QED BY <1>2, <1>4, <1>5, <1>6 DEF ScanInv

\* A call keeps the buffer and has the whole path to go.
LEMMA WalkScan ==
  ASSUME ScanInv, NEW p \in Paths, NEW asks \in BOOLEAN, Walk(p, asks)
  PROVE  ScanInv'
<1>1. p \in Seq(Seq(Char)) /\ Len(p) \in Nat
  BY PathParts
<1>2. Root \in Nat /\ MaxBlocks \in Nat /\ BlockLen \in Nat
  BY LookupAssumption
<1>3. WalkTypeOK'
  <2>1. ptr' \in BOOLEAN /\ found' \in BOOLEAN /\ failed' \in BOOLEAN
        /\ astray' \in BOOLEAN
    BY DEF Walk
  <2>2. /\ Len(parts') <= Len(path') /\ path' \in Paths \cup {<<>>}
        /\ want' \in Nat /\ ino' \in Nat /\ pc' = "inode"
    BY <1>1, <1>2 DEF Walk, NoInode
  <2>3. /\ buffer' = buffer /\ block0' = buffer /\ traverse' = <<>>
        /\ o' \in 0 .. MaxBlocks /\ dirent_idx' \in 0 .. 2 * BlockLen
    BY <1>2 DEF Walk
  <2> QED BY <2>1, <2>2, <2>3 DEF ScanInv, WalkTypeOK
<1>4. PathLeft'
  BY <1>1 DEF Walk, PathLeft, Done
<1>5. BufferCells' /\ RestIntact' /\ OnEntry' /\ pc' = "inode"
  BY DEF ScanInv, BufferCells, RestIntact, OnEntry, Numbers, Walk
<1> QED BY <1>3, <1>4, <1>5 DEF ScanInv

\* Reading an inode, and what follows the last and any other part, keep the
\* buffer and the rest of the path.
LEMMA QuietScan ==
  ASSUME ScanInv,
         \/ InodeRead \/ InodeMisplaced \/ InodeNotRead \/ PathEnds \/ NextPart
         \/ PartMissing \/ BlockEnds
  PROVE  ScanInv'
<1>1. /\ UNCHANGED <<parts, ptr, path, buffer, dirent_idx, block0, want, ino, astray>>
      /\ pc' = "block" => parts # <<>>
      /\ pc' \in {"idle", "part", "block"} /\ found' \in BOOLEAN
  BY DEF ScanInv, WalkTypeOK, PathLeft, InodeRead, InodeMisplaced, InodeNotRead,
         PathEnds, NextPart, PartMissing, BlockEnds, walkVars, scanVars, resVars,
         histVars
<1>2. failed' \in BOOLEAN
  BY DEF ScanInv, WalkTypeOK, InodeRead, InodeMisplaced, InodeNotRead, PathEnds,
         NextPart, PartMissing, BlockEnds, histVars
<1>3. traverse' \in Range(Inode) \cup Misread \cup {<<>>}
  BY DEF ScanInv, WalkTypeOK, InodeRead, InodeMisplaced, InodeNotRead, PathEnds,
         NextPart, PartMissing, BlockEnds, walkVars, Range, Inodes
<1>4. o' \in 0 .. MaxBlocks
  BY LookupAssumption
     DEF ScanInv, WalkTypeOK, BufferCells, InodeRead, InodeMisplaced, InodeNotRead,
         PathEnds, NextPart, PartMissing, BlockEnds, scanVars
<1>5. WalkTypeOK'
  BY <1>1, <1>2, <1>3, <1>4 DEF ScanInv, WalkTypeOK
<1>6. PathLeft'
  BY <1>1 DEF ScanInv, PathLeft, Done
<1>7. BufferCells' /\ RestIntact' /\ OnEntry'
  BY <1>1 DEF ScanInv, BufferCells, Numbers, RestIntact, OnEntry
<1> QED BY <1>1, <1>5, <1>6, <1>7 DEF ScanInv

\* A block that is read, or that is not, is scanned from its first cell; if
\* it is read and a directory's, that is its first entry's.
LEMMA BlockScan ==
  ASSUME ScanInv, BlockRead \/ BlockNotRead
  PROVE  ScanInv'
<1>1. /\ UNCHANGED <<parts, ptr, path, traverse, o, want, ino, found>>
      /\ pc = "block" /\ pc' = "scan" /\ dirent_idx' = 0 /\ block0' = buffer'
      /\ ~NoMoreBlocks
  BY DEF ScanInv, WalkTypeOK, BlockRead, BlockNotRead, walkVars, resVars
<1>2. failed' \in BOOLEAN /\ astray' \in BOOLEAN
  BY DEF ScanInv, WalkTypeOK, BlockRead, BlockNotRead
<1>3. o \in Nat /\ Len(traverse) \in Nat /\ MaxBlocks \in Nat /\ BlockLen \in Nat
      /\ o < MaxBlocks /\ o < Len(traverse)
  BY <1>1, LookupAssumption, InodeBlocks DEF ScanInv, WalkTypeOK, NoMoreBlocks
<1>4. Numbers(buffer') /\ DOMAIN buffer' = Cell
  <2>1. CASE BlockRead
    BY <2>1, CellsRead DEF BlockRead
  <2>2. CASE BlockNotRead
    <3>1. PICK b : b = traverse[o + 1]
      OBVIOUS
    <3>2. PICK n \in Cell, old \in Stack \cup {buffer} :
            /\ b \in Block \/ n = 0
            /\ buffer' = PartlyRead(b, n, old)
      BY <2>2, <3>1 DEF BlockNotRead
    <3>3. Numbers(old) /\ (b \in Block => Numbers(BlockCells(b)))
      BY CellsRead DEF ScanInv, BufferCells
    <3>4. PICK c : c = BlockCells(b)
      OBVIOUS
    <3>5. buffer' = [k \in Cell |-> IF k < n THEN c[k] ELSE old[k]]
      BY <3>2, <3>4 DEF PartlyRead
    <3>6. ASSUME NEW k \in Cell
          PROVE  buffer'[k].inode \in Nat /\ buffer'[k].rec_len \in Nat
      <4>1. CASE k < n
        <5>1. b \in Block
          BY <1>3, <3>2, <4>1 DEF Cell
        <5> QED BY <3>3, <3>4, <3>5, <4>1, <5>1 DEF Numbers
      <4>2. CASE ~(k < n)
        BY <3>3, <3>5, <4>2 DEF Numbers
      <4> QED BY <4>1, <4>2
    <3> QED BY <3>5, <3>6 DEF Numbers
  <2> QED BY <2>1, <2>2
<1>5. WalkTypeOK'
  BY <1>1, <1>2, <1>3, <1>4 DEF ScanInv, WalkTypeOK
<1>6. PathLeft'
  BY <1>1 DEF ScanInv, PathLeft, Done
<1>7. BufferCells' /\ RestIntact'
  BY <1>1, <1>3, <1>4 DEF BufferCells, RestIntact, Numbers
<1>8. OnEntry'
  <2> SUFFICES ASSUME ~astray'
               PROVE  /\ traverse[o + 1] \in DirBlock
                      /\ block0' = BlockCells(traverse[o + 1])
                      /\ 0 \in DOMAIN Entries[traverse[o + 1]]
    BY <1>1 DEF OnEntry
  <2>1. BlockRead
    BY DEF BlockNotRead
  <2>2. traverse[o + 1] \in DirBlock /\ block0' = BlockCells(traverse[o + 1])
    BY <2>1 DEF BlockRead
  <2> QED BY <2>2, LookupAssumption DEF Filled
<1> QED BY <1>1, <1>5, <1>6, <1>7, <1>8 DEF ScanInv

\* The name is found: a part less to go.
LEMMA MatchScan ==
  ASSUME ScanInv, EntryMatches
  PROVE  ScanInv'
<1>1. /\ UNCHANGED <<ptr, path, traverse, o, dirent_idx, block0, found, failed, astray>>
      /\ pc = "scan" /\ pc' = "inode" /\ dirent_idx < BlockLen /\ ~TooLong
      /\ parts' = Tail(parts)
      /\ want' = buffer'[0].inode
      /\ ino' = IF ptr THEN buffer'[0].inode ELSE ino
  BY DEF EntryMatches, histVars
<1>2. PICK past \in Stack : buffer' = CopiedToFront(past)
  BY DEF EntryMatches
<1>3. Numbers(buffer') /\ DOMAIN buffer' = Cell /\ 0 \in Cell
  BY <1>1, <1>2, CopyFacts
<1>4. buffer'[0].inode \in Nat
  BY <1>3 DEF Numbers
<1>5. parts # <<>>
  BY <1>1 DEF ScanInv, PathLeft
<1>6. /\ parts' \in Seq(Seq(Char)) /\ Len(parts') = Len(parts) - 1
      /\ Len(parts) \in Nat /\ Len(path) \in Nat /\ Len(parts) <= Len(path)
      /\ \A k \in 1 .. Len(parts') : parts'[k] = path[(Len(path) - Len(parts')) + k]
  BY <1>1, <1>5, PartDone
<1>7. WalkTypeOK'
  BY <1>1, <1>3, <1>4, <1>6 DEF ScanInv, WalkTypeOK
<1>8. PathLeft'
  <2>1. path' \in Paths \cup {<<>>} /\ Len(parts') <= Len(path')
    BY <1>1, <1>6 DEF ScanInv, PathLeft
  <2> QED BY <1>1, <1>6, <2>1 DEF PathLeft, Done
<1>9. BufferCells' /\ RestIntact' /\ OnEntry'
  BY <1>1, <1>3 DEF BufferCells, RestIntact, OnEntry, Numbers
<1> QED BY <1>1, <1>7, <1>8, <1>9 DEF ScanInv

\* It is not: the scan goes on behind an entry, and what is left is as it was
\* read.  In a directory block that is where the next entry starts.
LEMMA DifferScan ==
  ASSUME ScanInv, EntryDiffers
  PROVE  ScanInv'
<1>1. /\ UNCHANGED <<pc, parts, ptr, path, traverse, o, block0, want, ino, found,
                     failed, astray>>
      /\ pc = "scan" /\ dirent_idx < BlockLen /\ ~TooLong
      /\ dirent_idx' = dirent_idx + SkipEntry(buffer')
  BY DEF EntryDiffers, walkVars, resVars, histVars
<1>2. PICK past \in Stack : buffer' = CopiedToFront(past)
  BY DEF EntryDiffers
<1>3. /\ Numbers(buffer') /\ DOMAIN buffer' = Cell
      /\ dirent_idx' \in 0 .. 2 * BlockLen
      /\ dirent_idx \in Cell /\ buffer'[0] = buffer[dirent_idx]
      /\ \A k \in dirent_idx' .. BlockLen - 1 : buffer'[k] = buffer[k]
  BY <1>1, <1>2, CopyFacts
<1>4. buffer[dirent_idx].rec_len \in Nat
  BY <1>3 DEF ScanInv, BufferCells, Numbers
<1>5. /\ dirent_idx' >= dirent_idx /\ dirent_idx \in Nat /\ dirent_idx' \in Nat
      /\ dirent_idx' = dirent_idx + buffer[dirent_idx].rec_len
  BY <1>1, <1>3, <1>4, LookupAssumption DEF SkipEntry, Cell
<1>6. WalkTypeOK'
  BY <1>1, <1>3 DEF ScanInv, WalkTypeOK
<1>7. PathLeft'
  BY <1>1 DEF ScanInv, PathLeft, Done
<1>8. BufferCells'
  BY <1>1, <1>3 DEF ScanInv, BufferCells, Numbers
<1>9. RestIntact'
  <2> SUFFICES ASSUME NEW k \in dirent_idx' .. BlockLen - 1
               PROVE  buffer'[k] = block0[k]
    BY <1>1 DEF RestIntact
  <2>1. k \in dirent_idx .. BlockLen - 1
    BY <1>5, LookupAssumption
  <2> QED BY <1>1, <1>3, <2>1 DEF ScanInv, RestIntact
<1>10. OnEntry'
  <2> SUFFICES ASSUME ~astray
               PROVE  /\ traverse[o + 1] \in DirBlock
                      /\ block0 = BlockCells(traverse[o + 1])
                      /\ dirent_idx' \in DOMAIN Entries[traverse[o + 1]] \cup {BlockLen}
    BY <1>1 DEF OnEntry
  <2>1. PICK b : b = traverse[o + 1]
    OBVIOUS
  <2>2. /\ b \in DirBlock /\ block0 = BlockCells(b)
        /\ dirent_idx \in DOMAIN Entries[b] \cup {BlockLen}
    BY <1>1, <2>1 DEF ScanInv, OnEntry
  <2>3. dirent_idx \in DOMAIN Entries[b]
    BY <1>1, <2>2, LookupAssumption
  <2>4. dirent_idx' = dirent_idx + Entries[b][dirent_idx].rec_len
    BY <1>1, <1>5, <2>2, <2>3, EntryInBlock
  <2> QED BY <2>1, <2>2, <2>3, <2>4, EntryFacts
<1> QED BY <1>1, <1>6, <1>7, <1>8, <1>9, <1>10 DEF ScanInv

\* Only a scan that has gone astray meets an entry longer than the buffer.
LEMMA OverrunScan ==
  ASSUME ScanInv, EntryOverruns
  PROVE  ScanInv'
<1>1. /\ UNCHANGED <<parts, ptr, path, traverse, o, buffer, dirent_idx, block0,
                     want, ino, found, failed, astray>>
      /\ pc = "scan" /\ pc' = "lost" /\ dirent_idx < BlockLen /\ TooLong
  BY DEF EntryOverruns, walkVars, scanVars, resVars, histVars
<1>2. astray
  <2> SUFFICES ASSUME ~astray PROVE FALSE
    OBVIOUS
  <2>1. PICK b : b = traverse[o + 1]
    OBVIOUS
  <2>2. /\ b \in DirBlock /\ block0 = BlockCells(b)
        /\ dirent_idx \in DOMAIN Entries[b] \cup {BlockLen}
    BY <1>1, <2>1 DEF ScanInv, OnEntry
  <2>3. dirent_idx \in DOMAIN Entries[b]
    BY <1>1, <2>2, LookupAssumption
  <2> QED BY <1>1, <2>2, <2>3, EntryInBlock
<1>3. WalkTypeOK'
  BY <1>1 DEF ScanInv, WalkTypeOK
<1>4. PathLeft'
  BY <1>1 DEF ScanInv, PathLeft, Done
<1>5. BufferCells' /\ RestIntact' /\ OnEntry'
  BY <1>1 DEF ScanInv, BufferCells, RestIntact, OnEntry, Numbers
<1> QED BY <1>1, <1>2, <1>3, <1>4, <1>5 DEF ScanInv

\* One step of any walk.
LEMMA NextScanInv == ScanInv /\ [WalkNext]_lookupVars => ScanInv'
<1> SUFFICES ASSUME ScanInv, [WalkNext]_lookupVars PROVE ScanInv'
  OBVIOUS
<1>1. CASE WalkStep
  BY <1>1, QuietScan, BlockScan, MatchScan, DifferScan, OverrunScan DEF WalkStep
<1>2. ASSUME NEW p \in Paths, ino_from_path(p) \/ inode_from_path(p)
      PROVE  ScanInv'
  BY <1>2, WalkScan DEF ino_from_path, inode_from_path
<1>3. CASE UNCHANGED lookupVars
  <2>1. UNCHANGED <<pc, parts, ptr, path, traverse, o, buffer, dirent_idx, block0,
                    want, ino, found, failed, astray>>
    BY <1>3 DEF lookupVars, walkVars, scanVars, resVars, histVars
  <2> QED BY <2>1 DEF ScanInv, WalkTypeOK, PathLeft, Done, BufferCells, Numbers,
                      RestIntact, OnEntry
<1> QED BY <1>1, <1>2, <1>3 DEF WalkNext

\* The scan's invariant holds in every reachable state.
LEMMA ScanInductive == WalkSpec => []ScanInv
  BY InitScanInv, NextScanInv, PTL DEF WalkSpec

(***************************************************************************)
(* Of a walk that has scanned nothing but directory blocks as they are on  *)
(* the disk: every entry it looks at lies inside the buffer and is not     *)
(* empty, and nothing is copied beyond the buffer.                         *)
(***************************************************************************)
StaysInBuffer ==
  ~astray =>
    /\ pc # "lost"
    /\ pc = "scan" /\ dirent_idx < BlockLen =>
         /\ buffer[dirent_idx].rec_len > 0
         /\ dirent_idx + buffer[dirent_idx].rec_len <= BlockLen

(***************************************************************************)
(* inode_from_dir checks no rec_len it finds (src/ext2.c:199, 220).  As    *)
(* long as every block a walk scanned is a directory's and was read, none  *)
(* takes it beyond its buffer or keeps it where it is, although the        *)
(* entries are copied over one another: only a block that was not read, or *)
(* the data of a file, can do that, and the model allows any such data.    *)
(***************************************************************************)
THEOREM ScanStaysInBuffer == WalkSpec => []StaysInBuffer
<1>1. ScanInv => StaysInBuffer
  <2> SUFFICES ASSUME ScanInv, ~astray
               PROVE  /\ pc # "lost"
                      /\ pc = "scan" /\ dirent_idx < BlockLen =>
                           /\ buffer[dirent_idx].rec_len > 0
                           /\ dirent_idx + buffer[dirent_idx].rec_len <= BlockLen
    BY DEF StaysInBuffer
  <2>1. pc # "lost"
    BY DEF ScanInv
  <2>2. ASSUME pc = "scan", dirent_idx < BlockLen
        PROVE  /\ buffer[dirent_idx].rec_len > 0
               /\ dirent_idx + buffer[dirent_idx].rec_len <= BlockLen
    <3>1. PICK b : b = traverse[o + 1]
      OBVIOUS
    <3>2. /\ b \in DirBlock /\ block0 = BlockCells(b)
          /\ dirent_idx \in DOMAIN Entries[b] \cup {BlockLen}
      BY <2>2, <3>1 DEF ScanInv, OnEntry
    <3>3. dirent_idx \in DOMAIN Entries[b]
      BY <2>2, <3>2, LookupAssumption
    <3> QED BY <2>2, <3>2, <3>3, EntryInBlock
  <2> QED BY <2>1, <2>2
<1> QED BY <1>1, ScanInductive, PTL

(***************************************************************************)
(* inode_from_dir copies each entry to the front of the buffer it scans    *)
(* (src/ext2.c:197), and no entry that is still to be looked at is damaged *)
(* by it, for blocks of any size and entries of any length that has room   *)
(* for a header, also where an entry is copied over itself, and whatever   *)
(* else the buffer holds.                                                  *)
(***************************************************************************)
THEOREM EntriesSurvive == WalkSpec => []RestIntact
<1>1. ScanInv => RestIntact
  BY DEF ScanInv
<1> QED BY <1>1, ScanInductive, PTL

-----------------------------------------------------------------------------
(* The entries of a directory and the parts of a path.                     *)

\* A name begins itself.
LEMMA BeginsItself ==
  ASSUME NEW part \in Seq(Char) PROVE Begins(part, part)
BY DEF Begins

\* The entries of a directory are those of its blocks.
LEMMA EntryOf ==
  ASSUME NEW d \in Inodes, NEW j \in 1 .. Len(Inode[d]),
         Inode[d][j] \in DirBlock, NEW s \in DOMAIN Entries[Inode[d][j]]
  PROVE  Entries[Inode[d][j]][s] \in EntriesOf(d)
<1>1. Inode[d] \in Seq(Block)
  BY LookupAssumption
<1>2. Inode[d][j] \in Range(Inode[d])
  BY <1>1 DEF Range
<1>3. Entries[Inode[d][j]][s] \in Range(Entries[Inode[d][j]])
  BY DEF Range
<1> QED BY <1>2, <1>3 DEF EntriesOf

\* A directory none of whose blocks has the name lacks the file.
LEMMA NotInDir ==
  ASSUME NEW d \in Inodes, NEW part,
         \A j \in 1 .. Len(Inode[d]) : NotIn(Inode[d][j], part)
  PROVE  InDir(d, part) = NoInode
<1>1. Inode[d] \in Seq(Block)
  BY LookupAssumption
<1>2. \A e \in EntriesOf(d) : e.name # part
  <2> SUFFICES ASSUME NEW e \in EntriesOf(d) PROVE e.name # part
    OBVIOUS
  <2>1. PICK b \in Range(Inode[d]) \cap DirBlock : e \in Range(Entries[b])
    BY DEF EntriesOf
  <2>2. PICK j \in 1 .. Len(Inode[d]) : b = Inode[d][j]
    BY <1>1, <2>1 DEF Range
  <2>3. PICK s \in DOMAIN Entries[b] : e = Entries[b][s]
    BY <2>1 DEF Range
  <2> QED BY <2>2, <2>3 DEF NotIn
<1>3. {e \in EntriesOf(d) : e.inode # NoInode /\ e.name = part} = {}
  BY <1>2
<1> QED BY <1>3, Zenon DEF InDir

\* One that has it, for one file, gives that file.
LEMMA IsInDir ==
  ASSUME NEW d \in Dir, NEW e \in EntriesOf(d), e.inode # NoInode,
         \A f \in EntriesOf(d) : e.name = f.name => e.inode = f.inode
  PROVE  InDir(d, e.name) = e.inode
<1> DEFINE same == {f \in EntriesOf(d) : f.inode # NoInode /\ f.name = e.name}
<1>1. e \in same
  OBVIOUS
<1>2. \A f \in same : f.inode = e.inode
  OBVIOUS
<1>3. InDir(d, e.name) = (CHOOSE f \in same : TRUE).inode
  BY <1>1, Zenon DEF InDir
<1> HIDE DEF same
<1>4. (CHOOSE f \in same : TRUE) \in same
  BY <1>1, Zenon
<1> QED BY <1>2, <1>3, <1>4

\* While a part is sought: it is the next part of the path, sought where the
\* parts before it lead, and what it names is where the path goes on.
LEMMA NextOnPath ==
  ASSUME Unambiguous(path), ScanInv, path \in Paths, Here \in Inodes,
         parts # <<>>
  PROVE  /\ Head(parts) \in Seq(Char)
         /\ Done + 1 \in 1 .. Len(path) /\ path \in Seq(Seq(Char))
         /\ Reached(path)[Done + 1] = InDir(Here, Head(parts))
         /\ Here \in Dir /\ Inode[Here] \in Seq(DirBlock)
         /\ Len(Inode[Here]) <= MaxBlocks
         /\ \A e \in EntriesOf(Here) : Begins(e.name, Head(parts)) =>
              e.name = Head(parts) /\ e.inode \in Inodes
         /\ \A e, f \in EntriesOf(Here) : e.name = f.name => e.inode = f.inode
<1>1. /\ path \in Seq(Seq(Char)) /\ Len(path) \in Nat
      /\ Len(parts) \in Nat \ {0} /\ Len(parts) <= Len(path)
      /\ Done \in Nat /\ Head(parts) = path[Done + 1]
  BY PathParts, PartDone
<1>2. PICK n : n = Done + 1
  OBVIOUS
<1>3. n \in 1 .. Len(path) /\ n - 1 = Done /\ n \in DOMAIN path
  BY <1>1, <1>2 DEF Done
<1>4. Reached(path)[n] = InDir(Reached(path)[n - 1], path[n])
  BY <1>1, <1>3, ReachedStep
<1>5. path[n] \in Seq(Char)
  BY <1>1, <1>3
<1>6. Reached(path)[n - 1] = Here /\ path[n] = Head(parts)
  BY <1>1, <1>2, <1>3 DEF Here
<1>7. Here # NoInode
  BY LookupAssumption
<1>8. LET d == Reached(path)[n - 1]
      IN  d # NoInode =>
          /\ d \in Dir /\ Inode[d] \in Seq(DirBlock)
          /\ Len(Inode[d]) <= MaxBlocks
          /\ \A e \in EntriesOf(d) :
               Begins(e.name, path[n]) => e.name = path[n] /\ e.inode \in Inodes
          /\ \A e, f \in EntriesOf(d) : e.name = f.name => e.inode = f.inode
  BY <1>3, Zenon DEF Unambiguous
<1>9. /\ Here \in Dir /\ Inode[Here] \in Seq(DirBlock)
      /\ Len(Inode[Here]) <= MaxBlocks
      /\ \A e \in EntriesOf(Here) : Begins(e.name, Head(parts)) =>
           e.name = Head(parts) /\ e.inode \in Inodes
      /\ \A e, f \in EntriesOf(Here) : e.name = f.name => e.inode = f.inode
  BY <1>6, <1>7, <1>8, Zenon
<1> QED BY <1>1, <1>2, <1>3, <1>4, <1>5, <1>6, <1>9, Zenon

-----------------------------------------------------------------------------
(* WalkInv is inductive.                                                   *)

\* A call starts at the root.
LEMMA WalkStarts ==
  ASSUME NEW p \in Paths, NEW asks \in BOOLEAN, Walk(p, asks)
  PROVE  WalkInv'
<1>1. /\ path' = p /\ parts' = p /\ pc' = "inode" /\ want' = Root /\ ~astray'
      /\ p \in Seq(Seq(Char)) /\ Len(p) \in Nat /\ Root \in Inodes
  BY PathParts, LookupAssumption DEF Walk
<1>2. Done' = 0
  BY <1>1 DEF Done
<1>3. Here' = Root
  BY <1>1, <1>2, ReachedStep DEF Here
<1>4. AtHere' /\ NotSeen'
  BY <1>1, <1>2, <1>3 DEF AtHere, NotSeen
<1>5. ResolvesExactly'
  BY <1>1 DEF ResolvesExactly
<1> QED BY <1>1, <1>3, <1>4, <1>5 DEF WalkInv

\* An inode that is read is that of the file reached; the other outcomes of
\* reading it do not happen unless a read fails.
LEMMA WalkReads ==
  ASSUME WalkInv, InodeRead \/ InodeMisplaced \/ InodeNotRead
  PROVE  WalkInv'
<1>1. pc = "inode" /\ UNCHANGED <<path, parts, ptr, ino, want, astray>>
  BY DEF InodeRead, InodeMisplaced, InodeNotRead, walkVars, resVars, histVars
<1>2. Here' = Here /\ Done' = Done
  BY <1>1 DEF Here, Done
<1>3. CASE failed \/ ~Unambiguous(path)
  <2>1. Unambiguous(path)' = Unambiguous(path)
    BY <1>1
  <2>2. failed => failed'
    BY DEF InodeRead, InodeMisplaced, InodeNotRead, histVars
  <2> QED BY <1>3, <2>1, <2>2 DEF WalkInv, ResolvesExactly
<1>4. CASE ~failed /\ Unambiguous(path)
  <2>1. path \in Paths /\ Here \in Inodes /\ ~astray /\ want = Here
        /\ (ptr /\ Done > 0 => ino = want)
    BY <1>1, <1>4 DEF WalkInv, AtHere
  <2>2. CASE InodeRead
    <3>1. pc' = "part" /\ traverse' = Inode[Here]
      BY <2>1, <2>2 DEF InodeRead
    <3>2. AtHere' /\ NotSeen'
      BY <1>1, <1>2, <2>1, <3>1 DEF AtHere, NotSeen
    <3> QED BY <1>1, <1>2, <2>1, <3>1, <3>2 DEF WalkInv, ResolvesExactly
  <2>3. CASE InodeMisplaced \/ InodeNotRead
    <3>1. failed'
      BY <2>1, <2>3 DEF InodeMisplaced, InodeNotRead
    <3> QED BY <3>1 DEF WalkInv, ResolvesExactly
  <2> QED BY <2>2, <2>3
<1> QED BY <1>3, <1>4

\* With no part left the walk is at the file that the path names.
LEMMA WalkArrives ==
  ASSUME ScanInv, WalkInv, PathEnds
  PROVE  WalkInv'
<1>1. /\ pc = "part" /\ pc' = "idle" /\ parts = <<>> /\ found' = TRUE
      /\ UNCHANGED <<path, parts, ptr, ino, traverse, failed>>
  BY DEF PathEnds, walkVars, histVars
<1>2. ASSUME ~failed, Unambiguous(path), path # <<>>
      PROVE  /\ Resolve(path) # NoInode /\ traverse = Inode[Resolve(path)]
             /\ ptr => ino = Resolve(path)
  <2>1. Here \in Inodes /\ AtHere
    BY <1>1, <1>2 DEF WalkInv
  <2>2. path \in Seq(Seq(Char)) /\ Len(path) \in Nat
    BY PathParts DEF ScanInv, PathLeft
  <2>3. Len(path) > 0
    BY <1>2, <2>2
  <2>4. Done = Len(path)
    BY <1>1, <2>2 DEF Done
  <2>5. Here = Resolve(path)
    BY <2>4, Zenon DEF Here, Resolve
  <2>6. Here # NoInode
    BY <2>1, LookupAssumption
  <2>7. traverse = Inode[Here] /\ (ptr => ino = Here)
    BY <1>1, <2>1, <2>3, <2>4 DEF AtHere
  <2> QED BY <2>5, <2>6, <2>7
<1> QED BY <1>1, <1>2 DEF WalkInv, ResolvesExactly

\* The scan of a directory starts with its first block, that of a block with
\* its first entry: nothing is skipped.
LEMMA WalkScans ==
  ASSUME ScanInv, WalkInv, NextPart \/ BlockRead \/ BlockNotRead
  PROVE  WalkInv'
<1>1. /\ pc \in {"part", "block"} /\ pc' \in {"block", "scan"}
      /\ UNCHANGED <<path, parts, ptr, ino, traverse>>
  BY DEF NextPart, BlockRead, BlockNotRead, walkVars, resVars
<1>2. Here' = Here /\ Done' = Done /\ Unambiguous(path)' = Unambiguous(path)
  BY <1>1 DEF Here, Done
<1>3. CASE failed' \/ ~Unambiguous(path)
  BY <1>1, <1>2, <1>3 DEF WalkInv, ResolvesExactly
<1>4. CASE ~failed' /\ Unambiguous(path)
  <2>1. ~failed /\ ~BlockNotRead
    BY <1>4 DEF NextPart, BlockRead, BlockNotRead, histVars
  <2>2. path \in Paths /\ Here \in Inodes /\ ~astray /\ AtHere /\ NotSeen
    BY <1>1, <1>4, <2>1 DEF WalkInv
  <2>3. AtHere'
    BY <1>1, <1>2, <2>2 DEF AtHere
  <2>4. NotSeen' /\ ~astray'
    <3>1. CASE NextPart
      BY <2>2, <3>1 DEF NextPart, NotSeen, histVars
    <3>2. CASE BlockRead
      <4>1. /\ pc = "block" /\ ~NoMoreBlocks /\ o' = o /\ dirent_idx' = 0
            /\ astray' = (astray \/ traverse[o + 1] \notin DirBlock)
        BY <3>2 DEF BlockRead
      <4>2. parts # <<>>
        BY <4>1 DEF ScanInv, PathLeft
      <4>3. traverse = Inode[Here] /\ Inode[Here] \in Seq(DirBlock)
        BY <1>4, <2>2, <4>1, <4>2, NextOnPath DEF AtHere
      <4>4. o \in Nat /\ o + 1 \in 1 .. Len(traverse)
        BY <4>1, LookupAssumption, InodeBlocks
           DEF ScanInv, WalkTypeOK, NoMoreBlocks
      <4>5. traverse[o + 1] \in DirBlock
        BY <4>3, <4>4
      <4>6. \A s \in DOMAIN Entries[traverse[o + 1]] : ~(s < 0)
        <5>1. PICK b \in DirBlock : b = traverse[o + 1]
          BY <4>5
        <5>2. \A s \in DOMAIN Entries[b] : s \in Nat
          BY EntryFacts
        <5>3. \A n \in Nat : ~(n < 0)
          OBVIOUS
        <5> QED BY <5>1, <5>2, <5>3, Zenon
      <4> QED BY <1>1, <2>2, <4>1, <4>5, <4>6 DEF NotSeen
    <3> QED BY <2>1, <3>1, <3>2
  <2> QED BY <1>1, <1>2, <2>2, <2>3, <2>4 DEF WalkInv, ResolvesExactly
<1> QED BY <1>3, <1>4

\* When the blocks have been searched the directory lacks the part, and the
\* path names nothing.
LEMMA WalkMisses ==
  ASSUME ScanInv, WalkInv, PartMissing
  PROVE  WalkInv'
<1>1. /\ pc = "block" /\ NoMoreBlocks /\ pc' = "idle" /\ found' = FALSE
      /\ UNCHANGED <<path, parts, ptr, ino, traverse, failed>>
  BY DEF PartMissing, walkVars, histVars
<1>2. ASSUME ~failed, Unambiguous(path) PROVE Resolve(path) = NoInode
  <2>1. path \in Paths /\ Here \in Inodes /\ traverse = Inode[Here]
        /\ \A j \in 1 .. o : NotIn(traverse[j], Head(parts))
    BY <1>1, <1>2 DEF WalkInv, AtHere, NotSeen
  <2>2. parts # <<>>
    BY <1>1 DEF ScanInv, PathLeft
  <2>3. /\ Done + 1 \in 1 .. Len(path) /\ path \in Seq(Seq(Char))
        /\ Reached(path)[Done + 1] = InDir(Here, Head(parts))
        /\ Len(Inode[Here]) <= MaxBlocks
    BY <1>2, <2>1, <2>2, NextOnPath
  <2>4. Len(traverse) \in Nat /\ Len(traverse) <= o /\ o \in Nat
    BY <1>1, <2>1, <2>3, LookupAssumption, InodeBlocks
       DEF ScanInv, WalkTypeOK, NoMoreBlocks
  <2>5. \A j \in 1 .. Len(Inode[Here]) : NotIn(Inode[Here][j], Head(parts))
    BY <2>1, <2>4
  <2>6. InDir(Here, Head(parts)) = NoInode
    BY <2>1, <2>5, NotInDir
  <2>7. PICK m : m = Done + 1
    OBVIOUS
  <2>8. m \in 0 .. Len(path) /\ Reached(path)[m] = NoInode
    BY <2>3, <2>6, <2>7
  <2> QED BY <2>3, <2>8, MissingStays
<1> QED BY <1>1, <1>2 DEF WalkInv, ResolvesExactly

\* The entry the scan stops at is the one sought, and the file it names is
\* the next on the path.
LEMMA WalkMatches ==
  ASSUME ScanInv, WalkInv, EntryMatches
  PROVE  WalkInv'
<1>1. /\ pc = "scan" /\ pc' = "inode" /\ dirent_idx < BlockLen
      /\ UNCHANGED <<path, ptr, failed, astray>>
      /\ parts' = Tail(parts)
      /\ want' = buffer'[0].inode
      /\ ino' = IF ptr THEN buffer'[0].inode ELSE ino
  BY DEF EntryMatches, histVars
<1>2. PICK past \in Stack : /\ buffer' = CopiedToFront(past)
                            /\ NameMatches(CopiedToFront(past), Head(parts))
  BY DEF EntryMatches
<1>3. ASSUME ~failed, Unambiguous(path)
      PROVE  path' \in Paths /\ Here' \in Inodes /\ ~astray' /\ AtHere' /\ NotSeen'
  <2>1. path \in Paths /\ Here \in Inodes /\ ~astray /\ AtHere /\ NotSeen
    BY <1>1, <1>3 DEF WalkInv
  <2>2. parts # <<>>
    BY <1>1 DEF ScanInv, PathLeft
  <2>3. PICK j : j = o + 1
    OBVIOUS
  <2>4. j \in 1 .. Len(traverse) /\ traverse = Inode[Here]
    BY <1>1, <2>1, <2>3, InodeBlocks DEF ScanInv, WalkTypeOK, BufferCells, AtHere
  <2>5. PICK b : b = traverse[j]
    OBVIOUS
  <2>6. /\ b \in DirBlock /\ block0 = BlockCells(b)
        /\ dirent_idx \in DOMAIN Entries[b] \cup {BlockLen}
    BY <1>1, <2>1, <2>3, <2>5 DEF ScanInv, OnEntry
  <2>7. dirent_idx \in DOMAIN Entries[b]
    BY <1>1, <2>6, LookupAssumption
  <2>8. PICK e : e = Entries[b][dirent_idx]
    OBVIOUS
  <2>9. Head(parts) \in Seq(Char)
    BY <1>3, <2>1, <2>2, NextOnPath
  <2>10. CopiedToFront(past)[0] = Header(e) /\ Begins(e.name, Head(parts))
    BY <1>1, <1>2, <2>6, <2>7, <2>8, <2>9, EntryAtFront
  <2>11. e \in EntriesOf(Here)
    BY <2>1, <2>4, <2>5, <2>6, <2>7, <2>8, EntryOf
  <2>12. /\ Done + 1 \in 1 .. Len(path)
         /\ Reached(path)[Done + 1] = InDir(Here, Head(parts))
         /\ Here \in Dir /\ e.name = Head(parts) /\ e.inode \in Inodes
         /\ \A f \in EntriesOf(Here) : e.name = f.name => e.inode = f.inode
    BY <1>3, <2>1, <2>2, <2>10, <2>11, NextOnPath
  <2>13. e.inode # NoInode
    BY <2>12, LookupAssumption
  <2>14. InDir(Here, Head(parts)) = e.inode
    BY <2>11, <2>12, <2>13, IsInDir
  <2>15. Done' = Done + 1
    BY <1>1, <2>2, PartDone DEF Done
  <2>16. Here' = e.inode
    <3>1. PICK m : m = Done + 1
      OBVIOUS
    <3>2. Here' = Reached(path)[m]
      BY <1>1, <2>15, <3>1 DEF Here
    <3> QED BY <2>12, <2>14, <3>1, <3>2
  <2>17. buffer'[0].inode = e.inode
    BY <1>2, <2>10 DEF Header
  <2>18. AtHere' /\ NotSeen'
    BY <1>1, <2>16, <2>17 DEF AtHere, NotSeen
  <2> QED BY <1>1, <2>1, <2>12, <2>16, <2>18
<1>4. ResolvesExactly'
  BY <1>1 DEF ResolvesExactly
<1> QED BY <1>1, <1>3, <1>4 DEF WalkInv

\* An entry that is passed over does not have the name, and the next one
\* looked at is the one that follows it.
LEMMA WalkPasses ==
  ASSUME ScanInv, WalkInv, EntryDiffers
  PROVE  WalkInv'
<1>1. /\ pc = "scan" /\ pc' = "scan" /\ dirent_idx < BlockLen
      /\ UNCHANGED <<path, parts, ptr, ino, failed, astray, traverse, o, block0>>
      /\ dirent_idx' = dirent_idx + SkipEntry(buffer')
  BY DEF EntryDiffers, walkVars, resVars, histVars
<1>2. PICK past \in Stack : /\ buffer' = CopiedToFront(past)
                            /\ ~NameMatches(CopiedToFront(past), Head(parts))
  BY DEF EntryDiffers
<1>3. ASSUME ~failed, Unambiguous(path)
      PROVE  path' \in Paths /\ Here' \in Inodes /\ ~astray' /\ AtHere' /\ NotSeen'
  <2>0. Here' = Here /\ Done' = Done
    BY <1>1 DEF Here, Done
  <2>1. path \in Paths /\ Here \in Inodes /\ ~astray /\ AtHere /\ NotSeen
    BY <1>1, <1>3 DEF WalkInv
  <2>2. parts # <<>>
    BY <1>1 DEF ScanInv, PathLeft
  <2>3. PICK b : b = traverse[o + 1]
    OBVIOUS
  <2>4. /\ b \in DirBlock /\ block0 = BlockCells(b)
        /\ dirent_idx \in DOMAIN Entries[b] \cup {BlockLen}
    BY <1>1, <2>1, <2>3 DEF ScanInv, OnEntry
  <2>5. \A s \in DOMAIN Entries[b] :
          s < dirent_idx => Entries[b][s].name # Head(parts)
    BY <1>1, <2>1, <2>3 DEF NotSeen
  <2>6. PICK d : d = dirent_idx
    OBVIOUS
  <2>7. d \in DOMAIN Entries[b]
    BY <1>1, <2>4, <2>6, LookupAssumption
  <2>8. Head(parts) \in Seq(Char)
    BY <1>3, <2>1, <2>2, NextOnPath
  <2>9. CopiedToFront(past)[0] = Header(Entries[b][d])
        /\ ~Begins(Entries[b][d].name, Head(parts))
    BY <1>1, <1>2, <2>4, <2>6, <2>7, <2>8, EntryAtFront
  <2>10. Entries[b][d].name # Head(parts)
    BY <2>8, <2>9, BeginsItself
  <2>11. dirent_idx' = d + Entries[b][d].rec_len
    BY <1>1, <1>2, <2>6, <2>9 DEF SkipEntry, Header
  <2>12. ASSUME NEW s \in DOMAIN Entries[b], s < dirent_idx'
         PROVE  Entries[b][s].name # Head(parts)
    <3>1. /\ s \in Nat /\ d \in Nat /\ Entries[b][d].rec_len \in Nat
          /\ s <= d \/ s >= d + Entries[b][d].rec_len
      BY <2>4, <2>7, EntryFacts
    <3>2. s < d \/ s = d
      BY <2>11, <2>12, <3>1
    <3> QED BY <2>5, <2>6, <2>10, <3>2
  <2>13. NotSeen'
    BY <1>1, <2>1, <2>3, <2>12 DEF NotSeen
  <2>14. AtHere'
    BY <1>1, <2>0, <2>1 DEF AtHere
  <2> QED BY <1>1, <2>0, <2>1, <2>13, <2>14
<1>4. ResolvesExactly'
  BY <1>1 DEF ResolvesExactly
<1> QED BY <1>1, <1>3, <1>4 DEF WalkInv

\* At the end of a block all its entries have been passed over.
LEMMA WalkGoesOn ==
  ASSUME ScanInv, WalkInv, BlockEnds
  PROVE  WalkInv'
<1>1. /\ pc = "scan" /\ pc' = "block" /\ ~(dirent_idx < BlockLen) /\ o' = o + 1
      /\ UNCHANGED <<path, parts, ptr, ino, failed, astray, traverse>>
  BY DEF BlockEnds, walkVars, resVars, histVars
<1>2. Here' = Here /\ Done' = Done
  BY <1>1 DEF Here, Done
<1>3. ASSUME ~failed, Unambiguous(path)
      PROVE  path' \in Paths /\ Here' \in Inodes /\ ~astray' /\ AtHere' /\ NotSeen'
  <2>1. path \in Paths /\ Here \in Inodes /\ ~astray /\ AtHere /\ NotSeen
    BY <1>1, <1>3 DEF WalkInv
  <2>2. PICK b : b = traverse[o + 1]
    OBVIOUS
  <2>3. b \in DirBlock
    BY <1>1, <2>1, <2>2 DEF ScanInv, OnEntry
  <2>4. \A s \in DOMAIN Entries[b] : s < dirent_idx
    <3>1. dirent_idx >= BlockLen /\ BlockLen \in Nat /\ dirent_idx \in Nat
      BY <1>1, LookupAssumption DEF ScanInv, WalkTypeOK
    <3>2. \A s \in DOMAIN Entries[b] : s \in Cell
      BY <2>3, EntryFacts
    <3> QED BY <3>1, <3>2 DEF Cell
  <2>5. NotIn(b, Head(parts))
    BY <1>1, <2>1, <2>2, <2>4 DEF NotSeen, NotIn
  <2>6. o \in Nat
    BY LookupAssumption DEF ScanInv, WalkTypeOK
  <2>7. \A j \in 1 .. o + 1 : NotIn(traverse[j], Head(parts))
    <3>1. \A j \in 1 .. o : NotIn(traverse[j], Head(parts))
      BY <1>1, <2>1 DEF NotSeen
    <3>2. \A j \in 1 .. o + 1 : j \in 1 .. o \/ j = o + 1
      BY <2>6
    <3> QED BY <2>2, <2>5, <3>1, <3>2
  <2>8. NotSeen'
    BY <1>1, <2>7 DEF NotSeen
  <2>9. AtHere'
    BY <1>1, <1>2, <2>1 DEF AtHere
  <2> QED BY <1>1, <1>2, <2>1, <2>8, <2>9
<1>4. ResolvesExactly'
  BY <1>1 DEF ResolvesExactly
<1> QED BY <1>1, <1>3, <1>4 DEF WalkInv

\* A walk without failed reads on an unambiguous path is never lost.
LEMMA WalkNotLost ==
  ASSUME ScanInv, WalkInv, EntryOverruns
  PROVE  WalkInv'
<1>1. /\ pc = "scan" /\ pc' = "lost" /\ UNCHANGED <<path, failed, astray>>
  BY DEF EntryOverruns, walkVars, histVars
<1>2. astray'
  BY OverrunScan, <1>1 DEF ScanInv
<1>3. failed \/ ~Unambiguous(path)
  BY <1>1, <1>2 DEF WalkInv
<1> QED BY <1>1, <1>3 DEF WalkInv, ResolvesExactly

\* One step of any walk.
LEMMA NextWalkInv ==
  ASSUME ScanInv, WalkInv, [WalkNext]_lookupVars
  PROVE  WalkInv'
<1>1. CASE WalkStep
  BY <1>1, WalkReads, WalkArrives, WalkScans, WalkMisses, WalkMatches, WalkPasses,
     WalkGoesOn, WalkNotLost DEF WalkStep
<1>2. ASSUME NEW p \in Paths, ino_from_path(p) \/ inode_from_path(p)
      PROVE  WalkInv'
  BY <1>2, WalkStarts DEF ino_from_path, inode_from_path
<1>3. CASE UNCHANGED lookupVars
  <2>1. UNCHANGED <<pc, parts, ptr, path, traverse, o, buffer, dirent_idx, block0,
                    want, ino, found, failed, astray>>
    BY <1>3 DEF lookupVars, walkVars, scanVars, resVars, histVars
  <2> QED BY <2>1 DEF WalkInv, ResolvesExactly, Here, Done, AtHere, NotSeen
<1> QED BY <1>1, <1>2, <1>3 DEF WalkNext

(***************************************************************************)
(* Where no entry's name is the beginning of a part that is sought in its  *)
(* directory, a walk without failed reads ends at the inode, and the       *)
(* number, of the file that the path names by whole names, or fails if it  *)
(* names none: for every tree, every layout of entries in blocks and paths *)
(* of any length.  The run on /eve shows that the condition is needed:     *)
(* strncmp compares as far as the entry's name goes (src/ext2.c:214).      *)
(***************************************************************************)
THEOREM WalksExactly == WalkSpec => []ResolvesExactly
<1>1. WalkInit => WalkInv
  BY DEF WalkInit, WalkInv, ResolvesExactly
<1>2. ScanInv /\ WalkInv /\ [WalkNext]_lookupVars => WalkInv'
  BY NextWalkInv
<1>3. WalkInv => ResolvesExactly
  BY DEF WalkInv
<1> QED BY <1>1, <1>2, <1>3, ScanInductive, PTL DEF WalkSpec

-----------------------------------------------------------------------------
(* The table of descriptors.                                               *)

\* A position computed modulo 2^64 is a position, negative offsets included.
LEMMA MovedInRange ==
  ASSUME NEW pos \in 0 .. PosMod - 1, NEW off \in Offset, NEW whence
  PROVE  Moved(pos, off, whence) \in 0 .. PosMod - 1
<1>1. PosMod \in Nat /\ PosMod > 0 /\ off \in Int /\ pos \in Int
  BY FdAssumption
<1>2. \A i \in Int : i % PosMod \in 0 .. PosMod - 1
  BY <1>1
<1> QED BY <1>1, <1>2 DEF Moved

\* The result of a seek is an integer.
LEMMA AsIntIsInt ==
  ASSUME NEW v \in Int
  PROVE  AsInt(v) \in Int
<1>1. IntMod \in Nat /\ IntMod > 0
  BY FdAssumption
<1>2. v % IntMod \in Int
  BY <1>1
<1> QED BY <1>1, <1>2 DEF AsInt

\* Opening and closing make a descriptor of a descriptor.
LEMMA DescriptorUpdates ==
  ASSUME NEW d \in Descriptor, NEW i \in Ino \cup {NoIno}
  PROVE  /\ Opened(d, i) \in Descriptor
         /\ Opened(d, i).open /\ Opened(d, i).handlers = "disk"
         /\ Opened(d, i).ino = i
         /\ Closed(d) \in Descriptor /\ ~Closed(d).open
<1>1. Opened(d, i) \in Descriptor /\ Closed(d) \in Descriptor
  BY DEF Opened, Closed, Descriptor, Handlers
<1> QED BY <1>1 DEF Opened, Closed, Descriptor

-----------------------------------------------------------------------------
(* The table: the inductive invariant.                                     *)

\* An open descriptor has handlers, and only slot 1 can have the console's.
HandlersMatch ==
  \A f \in Fd :
    fds[f].open =>
      /\ fds[f].handlers # "none"
      /\ fds[f].handlers = "console" => f = 1

\* An open descriptor holds the inode number of the file it was opened for.
OpenNamesFile ==
  \A f \in Fd :
    fds[f].open /\ named[f] # NoPath => fds[f].ino = FileOf[named[f]]

\* The history names a path for open descriptors only.
ClosedUnnamed == \A f \in Fd : ~fds[f].open => named[f] = NoPath

NamesInv == OpenNamesFile /\ ClosedUnnamed /\ AccessesNamedFile

TableInv == TypeOK /\ HandlersMatch /\ NullOnlyOnStdout

\* Initially only standard output is open, with the console's handlers.
LEMMA InitTable == Init => TableInv
<1> SUFFICES ASSUME Init PROVE TableInv
  OBVIOUS
<1>0. 0 \in 0 .. PosMod - 1
  BY FdAssumption
<1>1. fds \in [Fd -> Descriptor]
  BY <1>0 DEF Init, configure_stdio, Descriptor, Handlers
<1>2. elements \in 0 .. Elements /\ ret \in Int
  BY FdAssumption DEF Init
<1>3. /\ access \in [ino : Ino \cup {NoIno}, path : Path \cup {NoPath}]
      /\ jump \in [fd : AnyFd, op : {"none", "seek", "read", "write"}]
  BY FdAssumption DEF Init, NoAccess, NoJump, AnyFd
<1>4. named \in [Fd -> Path \cup {NoPath}]
  BY DEF Init
<1>5. TypeOK
  BY <1>1, <1>2, <1>3, <1>4, Zenon DEF Init, TypeOK
<1>6. HandlersMatch
  BY DEF Init, configure_stdio, HandlersMatch
<1>7. NullOnlyOnStdout
  BY DEF Init, NullOnlyOnStdout
<1> QED BY <1>5, <1>6, <1>7 DEF TableInv

\* A call that only returns, or stops with the power off, disturbs nothing.
LEMMA ReturnsKeepsTable ==
  ASSUME TableInv, machine = "on", NEW r \in Int, Returns(r)
  PROVE  TableInv'
<1>1. TypeOK'
  BY Zenon DEF TableInv, TypeOK, Returns, sysVars, hwVars
<1>2. HandlersMatch'
  BY DEF TableInv, HandlersMatch, Returns
<1>3. NullOnlyOnStdout'
  BY DEF NullOnlyOnStdout, Returns
<1> QED BY <1>1, <1>2, <1>3 DEF TableInv

\* A jump through a null pointer happens on standard output only, and not
\* for a write: the handlers of any other open descriptor are the disk's.
LEMMA NullHandlerKeepsTable ==
  ASSUME TableInv, machine = "on", NEW fd \in AnyFd,
         NEW kind \in {"seek", "read", "write"}, NullHandler(fd, kind)
  PROVE  TableInv'
<1>0. jump' = [fd |-> fd, op |-> kind]
      /\ jump' \in [fd : AnyFd, op : {"none", "seek", "read", "write"}]
  BY DEF NullHandler
<1>1. TypeOK'
  BY <1>0, Zenon DEF TableInv, TypeOK, NullHandler, Stops, sysVars, hwVars
<1>2. HandlersMatch'
  BY DEF TableInv, HandlersMatch, NullHandler, Stops
<1>3. fd = 1 /\ fds[1].open /\ fds[1].handlers = "console" /\ kind # "write"
  BY DEF TableInv, HandlersMatch, NullHandler, is_fd_open, is_fd_valid
<1>4. NullOnlyOnStdout'
  BY <1>0, <1>3 DEF NullOnlyOnStdout, NullHandler, Stops
<1> QED BY <1>1, <1>2, <1>4 DEF TableInv

\* Mounting does not touch the table.
LEMMA MountKeepsTable ==
  ASSUME TableInv, mount_hd_s
  PROVE  TableInv'
<1>1. HandlersMatch'
  BY DEF TableInv, HandlersMatch, mount_hd_s, MountNoMemory, MountNoDisk,
         MountDisk, Stops
<1>2. NullOnlyOnStdout'
  BY DEF NullOnlyOnStdout, mount_hd_s, MountNoMemory, MountNoDisk, MountDisk,
         Stops
<1>3. CASE MountNoMemory
  BY <1>1, <1>2, <1>3, Zenon
  DEF TableInv, TypeOK, MountNoMemory, Stops, sysVars, hwVars
<1>4. CASE MountNoDisk \/ MountDisk
  <2>1. elements' \in 0 .. Elements /\ ret' \in Int
    BY <1>4, FdAssumption DEF TableInv, TypeOK, MountNoDisk, MountDisk
  <2>2. _superblock' \in {"zero"} \cup Image
    BY <1>4 DEF TableInv, TypeOK, MountNoDisk, MountDisk, read_superblock
  <2>3. _superblock_mounted' \in BOOLEAN
    BY <1>4, Zenon DEF TableInv, TypeOK, MountNoDisk, MountDisk
  <2>4. TypeOK'
    BY <1>4, <2>1, <2>2, <2>3, Zenon
    DEF TableInv, TypeOK, MountNoDisk, MountDisk, hwVars
  <2> QED BY <1>1, <1>2, <2>4 DEF TableInv
<1> QED BY <1>3, <1>4 DEF mount_hd_s

\* Opening puts the disk's handlers into a free slot.
LEMMA OpenKeepsTable ==
  ASSUME TableInv, NEW p \in Path, openat_s(p)
  PROVE  TableInv'
<1> USE DEF TableInv
<1>1. CASE OpenNoDisk \/ OpenTableFull
  BY <1>1, ReturnsKeepsTable DEF OpenNoDisk, OpenTableFull, openat_s
<1>2. ASSUME NEW fd \in Fd, OpenNotMounted(fd)
      PROVE  TableInv'
  <2>1. fds' \in [Fd -> Descriptor]
    <3>1. fds[fd] \in Descriptor /\ fds[fd].ino \in Ino \cup {NoIno}
      BY DEF TypeOK, Descriptor
    <3>2. Opened(fds[fd], fds[fd].ino) \in Descriptor
      BY <3>1, DescriptorUpdates
    <3> QED BY <1>2, <3>2 DEF TypeOK, OpenNotMounted
  <2>2. TypeOK'
    BY <1>2, <2>1, Zenon DEF TypeOK, OpenNotMounted, sysVars, hwVars
  <2>3. HandlersMatch'
    BY <1>2 DEF TypeOK, Descriptor, HandlersMatch, OpenNotMounted, Opened
  <2>4. NullOnlyOnStdout'
    BY <1>2 DEF NullOnlyOnStdout, OpenNotMounted
  <2> QED BY <2>2, <2>3, <2>4
<1>3. ASSUME NEW fd \in Fd, NEW walk \in Lookup[p], OpenMounted(p, fd, walk)
      PROVE  TableInv'
  <2>1. walk \in [ino : Ino \cup {NoIno}, found : BOOLEAN]
    BY FdAssumption
  <2>2. fds' \in [Fd -> Descriptor]
    <3>1. fds[fd] \in Descriptor /\ fds[fd].ino \in Ino \cup {NoIno}
      BY DEF TypeOK, Descriptor
    <3>2. (IF walk.ino = NoIno THEN fds[fd].ino ELSE walk.ino)
             \in Ino \cup {NoIno}
      BY <2>1, <3>1
    <3>3. Opened(fds[fd], IF walk.ino = NoIno THEN fds[fd].ino ELSE walk.ino)
             \in Descriptor
      BY <3>1, <3>2, DescriptorUpdates
    <3> QED BY <1>3, <3>3 DEF TypeOK, OpenMounted
  <2>3. named' \in [Fd -> Path \cup {NoPath}]
    BY <1>3 DEF TypeOK, OpenMounted
  <2>4. ret' \in Int
    BY <1>3, FdAssumption DEF OpenMounted, Fd
  <2>5. TypeOK'
    BY <1>3, <2>2, <2>3, <2>4, Zenon DEF TypeOK, OpenMounted, sysVars, hwVars
  <2>6. HandlersMatch'
    BY <1>3 DEF TypeOK, Descriptor, HandlersMatch, OpenMounted, Opened
  <2>7. NullOnlyOnStdout'
    BY <1>3 DEF NullOnlyOnStdout, OpenMounted, openat_s
  <2> QED BY <2>5, <2>6, <2>7
<1> QED BY <1>1, <1>2, <1>3, Zenon DEF openat_s

\* Closing clears the handlers together with the open flag.
LEMMA CloseKeepsTable ==
  ASSUME TableInv, NEW fd \in AnyFd, close_s(fd)
  PROVE  TableInv'
<1> USE DEF TableInv
<1>1. CASE BadFd(fd)
  BY <1>1, ReturnsKeepsTable DEF BadFd, close_s
<1>2. CASE CloseOpen(fd)
  <2>0. fd \in Fd
    BY <1>2 DEF CloseOpen, is_fd_open, is_fd_valid
  <2>1. fds' \in [Fd -> Descriptor]
    <3>1. fds[fd] \in Descriptor /\ NoIno \in Ino \cup {NoIno}
      BY <2>0 DEF TypeOK
    <3>2. Closed(fds[fd]) \in Descriptor
      BY <3>1, DescriptorUpdates
    <3> QED BY <1>2, <2>0, <3>2 DEF TypeOK, CloseOpen
  <2>2. named' \in [Fd -> Path \cup {NoPath}] /\ ret' \in Int
    BY <1>2, <2>0 DEF TypeOK, CloseOpen
  <2>3. TypeOK'
    BY <1>2, <2>1, <2>2, Zenon DEF TypeOK, CloseOpen, sysVars, hwVars
  <2>4. HandlersMatch'
    BY <1>2, <2>0 DEF TypeOK, Descriptor, HandlersMatch, CloseOpen, Closed
  <2>5. NullOnlyOnStdout'
    BY <1>2 DEF NullOnlyOnStdout, CloseOpen, close_s
  <2> QED BY <2>3, <2>4, <2>5
<1> QED BY <1>1, <1>2 DEF close_s

\* Seeking moves the position of an open descriptor and nothing else.
LEMMA SeekKeepsTable ==
  ASSUME TableInv, NEW fd \in AnyFd, NEW off \in Offset, NEW whence \in Whence,
         seek_s(fd, off, whence)
  PROVE  TableInv'
<1> USE DEF TableInv
<1>1. CASE BadFd(fd)
  BY <1>1, ReturnsKeepsTable DEF BadFd, seek_s
<1>2. CASE NullHandler(fd, "seek")
  BY <1>2, NullHandlerKeepsTable DEF seek_s
<1>3. CASE DiskSeek(fd, off, whence)
  <2>0. fd \in Fd /\ fds[fd].pos \in 0 .. PosMod - 1
    BY <1>3 DEF DiskSeek, is_fd_open, is_fd_valid, TypeOK, Descriptor
  <2>1. Moved(fds[fd].pos, off, whence) \in 0 .. PosMod - 1
    BY <2>0, MovedInRange
  <2>2. fds' \in [Fd -> Descriptor]
    BY <1>3, <2>0, <2>1 DEF TypeOK, DiskSeek, Descriptor
  <2>3. Moved(fds[fd].pos, off, whence) \in Int
    BY <2>1, FdAssumption
  <2>4. ret' \in Int
    BY <1>3, <2>3, AsIntIsInt DEF DiskSeek
  <2>5. TypeOK'
    BY <1>3, <2>2, <2>4, Zenon DEF TypeOK, DiskSeek, sysVars, hwVars
  <2>6. HandlersMatch'
    BY <1>3, <2>0 DEF TypeOK, Descriptor, HandlersMatch, DiskSeek
  <2>7. NullOnlyOnStdout'
    BY <1>3 DEF NullOnlyOnStdout, DiskSeek, seek_s
  <2> QED BY <2>5, <2>6, <2>7
<1> QED BY <1>1, <1>2, <1>3 DEF seek_s

\* Reading and writing leave the table alone.
LEMMA TransferKeepsTable ==
  ASSUME TableInv, NEW fd \in AnyFd, NEW size \in Size,
         read_s(fd, size) \/ write_s(fd, size)
  PROVE  TableInv'
<1> USE DEF TableInv
<1>0. machine = "on" /\ size \in Nat
  BY FdAssumption DEF read_s, write_s
<1>1. CASE BadFd(fd) \/ DiskReadNothing(fd) \/ ConsoleWrite(fd, size)
  BY <1>0, <1>1, ReturnsKeepsTable DEF BadFd, DiskReadNothing, ConsoleWrite
<1>2. CASE NullHandler(fd, "read") \/ NullHandler(fd, "write")
  BY <1>0, <1>2, NullHandlerKeepsTable
<1>3. CASE DiskTransfer(fd, size)
  <2>0. fd \in Fd /\ fds[fd] \in Descriptor /\ named[fd] \in Path \cup {NoPath}
    BY <1>3 DEF DiskTransfer, is_fd_open, is_fd_valid, TypeOK
  <2>1. access' \in [ino : Ino \cup {NoIno}, path : Path \cup {NoPath}]
    BY <1>3, <2>0 DEF DiskTransfer, TypeOK, Descriptor
  <2>2. ret' \in Int
    BY <1>0, <1>3 DEF DiskTransfer
  <2>3. TypeOK'
    BY <1>3, <2>1, <2>2, Zenon DEF TypeOK, DiskTransfer, sysVars, hwVars
  <2>4. HandlersMatch'
    BY <1>3 DEF HandlersMatch, DiskTransfer
  <2>5. NullOnlyOnStdout'
    BY <1>0, <1>3 DEF NullOnlyOnStdout, DiskTransfer
  <2> QED BY <2>3, <2>4, <2>5
<1> QED BY <1>1, <1>2, <1>3 DEF read_s, write_s

\* One step of any system call.
LEMMA TableStep == TableInv /\ [Next]_vars => TableInv'
<1> SUFFICES ASSUME TableInv, [Next]_vars PROVE TableInv'
  OBVIOUS
<1>1. CASE UNCHANGED vars
  <2>1. TypeOK'
    BY <1>1, Zenon DEF TableInv, TypeOK, vars, sysVars, hwVars
  <2>2. HandlersMatch' /\ NullOnlyOnStdout'
    BY <1>1 DEF TableInv, HandlersMatch, NullOnlyOnStdout, vars
  <2> QED BY <2>1, <2>2 DEF TableInv
<1>2. CASE Next
  BY <1>2, MountKeepsTable, OpenKeepsTable, CloseKeepsTable, SeekKeepsTable,
     TransferKeepsTable, Zenon DEF Next
<1> QED BY <1>1, <1>2

\* The table's invariant holds in every reachable state.
LEMMA TableInvariant == Spec => []TableInv
  BY InitTable, TableStep, PTL DEF Spec

-----------------------------------------------------------------------------
(* The theorems about the table.                                           *)

(***************************************************************************)
(* Type correctness of the descriptor table, whose positions wrap at 64    *)
(* bits, and of everything the system calls return.                        *)
(***************************************************************************)
THEOREM FdTypeCorrect == Spec => []TypeOK
<1>1. TableInv => TypeOK
  BY DEF TableInv
<1> QED BY <1>1, TableInvariant, PTL

(***************************************************************************)
(* Whatever sequence of system calls leads to a jump through a null        *)
(* pointer, the jump is that of a read or a seek on descriptor 1, which is *)
(* the standard output the kernel opened (src/io.c:142): the handlers of a *)
(* closed descriptor are never called.                                     *)
(***************************************************************************)
THEOREM NullReached == Spec => []NullOnlyOnStdout
<1>1. TableInv => NullOnlyOnStdout
  BY DEF TableInv
<1> QED BY <1>1, TableInvariant, PTL

\* The steps that change the table: one slot, free before open and taken
\* before close; a seek changes a position.
LEMMA TableChanges ==
  ASSUME TableInv, Next
  PROVE  \/ fds' = fds /\ named' = named
         \/ \E fd \in Fd, i \in Ino \cup {NoIno} :
              /\ ~fds[fd].open
              /\ fds' = [fds EXCEPT ![fd] = Opened(@, i)]
              /\ machine' = "off" /\ named' = named
         \/ \E fd \in Fd, p \in Path : \E walk \in Lookup[p] :
              ~fds[fd].open /\ OpenMounted(p, fd, walk)
         \/ \E fd \in Fd :
              /\ fds' = [fds EXCEPT ![fd] = Closed(@)]
              /\ named' = [named EXCEPT ![fd] = NoPath]
         \/ \E fd \in Fd, q \in 0 .. PosMod - 1 :
              /\ fds' = [fds EXCEPT ![fd].pos = q]
              /\ named' = named
<1>1. CASE mount_hd_s
  BY <1>1 DEF mount_hd_s, MountNoMemory, MountNoDisk, MountDisk, Stops
<1>2. ASSUME NEW p \in Path, openat_s(p)
      PROVE  \/ fds' = fds /\ named' = named
             \/ \E fd \in Fd, i \in Ino \cup {NoIno} :
                  /\ ~fds[fd].open
                  /\ fds' = [fds EXCEPT ![fd] = Opened(@, i)]
                  /\ machine' = "off" /\ named' = named
             \/ \E fd \in Fd : \E walk \in Lookup[p] :
                  ~fds[fd].open /\ OpenMounted(p, fd, walk)
  <2>1. CASE OpenNoDisk \/ OpenTableFull
    BY <2>1 DEF OpenNoDisk, OpenTableFull, Returns
  <2>2. ASSUME NEW fd \in Fd, OpenNotMounted(fd)
        PROVE  \E i \in Ino \cup {NoIno} :
                 /\ ~fds[fd].open
                 /\ fds' = [fds EXCEPT ![fd] = Opened(@, i)]
                 /\ machine' = "off" /\ named' = named
    <3>1. fds[fd].ino \in Ino \cup {NoIno}
      BY DEF TableInv, TypeOK, Descriptor
    <3> QED BY <2>2, <3>1 DEF OpenNotMounted, next_fd
  <2>3. ASSUME NEW fd \in Fd, NEW walk \in Lookup[p], OpenMounted(p, fd, walk)
        PROVE  ~fds[fd].open
    BY <2>3 DEF OpenMounted, next_fd
  <2> QED BY <1>2, <2>1, <2>2, <2>3, Zenon DEF openat_s
<1>3. ASSUME NEW fd \in AnyFd, close_s(fd)
      PROVE  \/ fds' = fds /\ named' = named
             \/ \E g \in Fd : /\ fds' = [fds EXCEPT ![g] = Closed(@)]
                              /\ named' = [named EXCEPT ![g] = NoPath]
  BY <1>3 DEF close_s, BadFd, Returns, CloseOpen, is_fd_open, is_fd_valid
<1>4. ASSUME NEW fd \in AnyFd, NEW off \in Offset, NEW whence \in Whence,
             seek_s(fd, off, whence)
      PROVE  \/ fds' = fds /\ named' = named
             \/ \E g \in Fd, q \in 0 .. PosMod - 1 :
                  fds' = [fds EXCEPT ![g].pos = q] /\ named' = named
  <2>1. CASE BadFd(fd) \/ NullHandler(fd, "seek")
    BY <2>1 DEF BadFd, Returns, NullHandler, Stops
  <2>2. CASE DiskSeek(fd, off, whence)
    <3>1. fd \in Fd /\ fds[fd].pos \in 0 .. PosMod - 1
      BY <2>2 DEF DiskSeek, is_fd_open, is_fd_valid, TableInv, TypeOK, Descriptor
    <3>2. Moved(fds[fd].pos, off, whence) \in 0 .. PosMod - 1
      BY <3>1, MovedInRange
    <3> QED BY <2>2, <3>1, <3>2 DEF DiskSeek
  <2> QED BY <1>4, <2>1, <2>2 DEF seek_s
<1>5. ASSUME NEW fd \in AnyFd, NEW size \in Size,
             read_s(fd, size) \/ write_s(fd, size)
      PROVE  fds' = fds /\ named' = named
  BY <1>5 DEF read_s, write_s, BadFd, Returns, NullHandler, Stops,
              DiskReadNothing, ConsoleWrite, DiskTransfer
<1> QED BY <1>1, <1>2, <1>3, <1>4, <1>5, Zenon DEF Next

(***************************************************************************)
(* A descriptor in use is never given to another file and keeps its        *)
(* handlers until it is closed, whatever the other descriptors do: next_fd *)
(* hands out free slots only (src/io.c:22).                                *)
(***************************************************************************)
THEOREM DescriptorsKept == Spec => KeepsItsFile
<1>1. ASSUME TableInv, [Next]_vars
      PROVE  [\A f \in Fd : StaysWhatItIs(f)]_vars
  <2> SUFFICES ASSUME Next, NEW f \in Fd PROVE StaysWhatItIs(f)
    BY <1>1
  <2>0. /\ fds \in [Fd -> Descriptor] /\ named \in [Fd -> Path \cup {NoPath}]
        /\ fds[f] \in Descriptor
    BY <1>1 DEF TableInv, TypeOK
  <2>1. CASE fds' = fds /\ named' = named
    BY <2>1 DEF StaysWhatItIs
  <2>2. ASSUME NEW fd \in Fd, NEW i, ~fds[fd].open,
               fds' = [fds EXCEPT ![fd] = Opened(@, i)], named' = named
        PROVE  StaysWhatItIs(f)
    BY <2>0, <2>2 DEF StaysWhatItIs
  <2>3. ASSUME NEW fd \in Fd, NEW p \in Path, NEW walk \in Lookup[p],
               ~fds[fd].open, OpenMounted(p, fd, walk)
        PROVE  StaysWhatItIs(f)
    BY <2>0, <2>3 DEF StaysWhatItIs, OpenMounted
  <2>4. ASSUME NEW fd \in Fd, fds' = [fds EXCEPT ![fd] = Closed(@)],
               named' = [named EXCEPT ![fd] = NoPath]
        PROVE  StaysWhatItIs(f)
    <3>1. ~Closed(fds[f]).open
      BY <2>0, DescriptorUpdates
    <3> QED BY <2>0, <2>4, <3>1 DEF StaysWhatItIs
  <2>5. ASSUME NEW fd \in Fd, NEW q \in 0 .. PosMod - 1,
               fds' = [fds EXCEPT ![fd].pos = q], named' = named
        PROVE  StaysWhatItIs(f)
    BY <2>0, <2>5 DEF StaysWhatItIs, Descriptor
  <2> QED BY <1>1, <2>1, <2>2, <2>3, <2>4, <2>5, TableChanges, Zenon
<1> QED BY <1>1, TableInvariant, PTL DEF Spec, KeepsItsFile

\* A step keeps every open descriptor on the file it was opened for.
LEMMA NamesStep ==
  ASSUME LookupsSucceed, TableInv, NamesInv, [Next]_vars
  PROVE  OpenNamesFile' /\ ClosedUnnamed'
<1>0. /\ fds \in [Fd -> Descriptor] /\ named \in [Fd -> Path \cup {NoPath}]
      /\ OpenNamesFile /\ ClosedUnnamed /\ NoIno \in Ino \cup {NoIno}
  BY DEF TableInv, TypeOK, NamesInv
<1>1. CASE fds' = fds /\ named' = named
  BY <1>0, <1>1 DEF OpenNamesFile, ClosedUnnamed
<1>2. ASSUME NEW fd \in Fd, NEW i \in Ino \cup {NoIno}, ~fds[fd].open,
             fds' = [fds EXCEPT ![fd] = Opened(@, i)], named' = named
      PROVE  OpenNamesFile' /\ ClosedUnnamed'
  <2>1. fds'[fd].open /\ named'[fd] = NoPath
    BY <1>0, <1>2, DescriptorUpdates DEF ClosedUnnamed
  <2>2. \A f \in Fd : f # fd => fds'[f] = fds[f] /\ named'[f] = named[f]
    BY <1>0, <1>2
  <2> QED BY <1>0, <2>1, <2>2 DEF OpenNamesFile, ClosedUnnamed
<1>3. ASSUME NEW fd \in Fd, NEW p \in Path, NEW walk \in Lookup[p],
             OpenMounted(p, fd, walk)
      PROVE  OpenNamesFile' /\ ClosedUnnamed'
  <2>1. walk.ino = FileOf[p] /\ FileOf[p] \in Ino /\ walk.ino # NoIno
    BY FdAssumption DEF LookupsSucceed
  <2>2. fds' = [fds EXCEPT ![fd] = Opened(@, walk.ino)]
    BY <1>3, <2>1 DEF OpenMounted
  <2>3. fds'[fd].open /\ fds'[fd].ino = FileOf[p]
    BY <1>0, <2>1, <2>2, DescriptorUpdates
  <2>4. named'[fd] = p
    BY <1>0, <1>3 DEF OpenMounted
  <2>5. \A f \in Fd : f # fd => fds'[f] = fds[f] /\ named'[f] = named[f]
    BY <1>0, <1>3, <2>2 DEF OpenMounted
  <2> QED BY <1>0, <2>3, <2>4, <2>5 DEF OpenNamesFile, ClosedUnnamed
<1>4. ASSUME NEW fd \in Fd, fds' = [fds EXCEPT ![fd] = Closed(@)],
             named' = [named EXCEPT ![fd] = NoPath]
      PROVE  OpenNamesFile' /\ ClosedUnnamed'
  <2>1. named'[fd] = NoPath
    BY <1>0, <1>4
  <2>2. \A f \in Fd : f # fd => fds'[f] = fds[f] /\ named'[f] = named[f]
    BY <1>0, <1>4
  <2> QED BY <1>0, <2>1, <2>2 DEF OpenNamesFile, ClosedUnnamed
<1>5. ASSUME NEW fd \in Fd, NEW q \in 0 .. PosMod - 1,
             fds' = [fds EXCEPT ![fd].pos = q], named' = named
      PROVE  OpenNamesFile' /\ ClosedUnnamed'
  <2>1. \A f \in Fd : fds'[f].open = fds[f].open /\ fds'[f].ino = fds[f].ino
    BY <1>0, <1>5 DEF Descriptor
  <2> QED BY <1>0, <1>5, <2>1 DEF OpenNamesFile, ClosedUnnamed
<1>6. CASE UNCHANGED vars
  BY <1>1, <1>6 DEF vars
<1>7. CASE Next
  BY <1>1, <1>2, <1>3, <1>4, <1>5, <1>7, TableChanges, Zenon
<1> QED BY <1>6, <1>7

\* The access a step makes is one of an open descriptor.
LEMMA AccessStep ==
  ASSUME TableInv, NamesInv, [Next]_vars
  PROVE  AccessesNamedFile'
<1>1. CASE access' = access
  BY <1>1 DEF NamesInv, AccessesNamedFile
<1>2. ASSUME NEW fd \in AnyFd, NEW size \in Size, DiskTransfer(fd, size)
      PROVE  AccessesNamedFile'
  <2>1. fd \in Fd /\ fds[fd].open
    BY <1>2 DEF DiskTransfer, is_fd_open, is_fd_valid
  <2>2. CASE access' = [ino |-> fds[fd].ino, path |-> named[fd]]
    BY <2>1, <2>2 DEF NamesInv, OpenNamesFile, AccessesNamedFile
  <2> QED BY <1>1, <1>2, <2>2 DEF DiskTransfer
<1>3. CASE mount_hd_s
  BY <1>1, <1>3 DEF mount_hd_s, MountNoMemory, MountNoDisk, MountDisk, Stops
<1>4. ASSUME NEW p \in Path, openat_s(p) PROVE access' = access
  BY <1>4 DEF openat_s, OpenNoDisk, OpenTableFull, OpenNotMounted, OpenMounted,
              Returns
<1>5. ASSUME NEW fd \in AnyFd, close_s(fd) PROVE access' = access
  BY <1>5 DEF close_s, BadFd, Returns, CloseOpen
<1>6. ASSUME NEW fd \in AnyFd, NEW off \in Offset, NEW whence \in Whence,
             seek_s(fd, off, whence)
      PROVE  access' = access
  BY <1>6 DEF seek_s, BadFd, Returns, NullHandler, Stops, DiskSeek
<1>7. ASSUME NEW fd \in AnyFd, NEW size \in Size,
             read_s(fd, size) \/ write_s(fd, size)
      PROVE  access' = access \/ DiskTransfer(fd, size)
  BY <1>7 DEF read_s, write_s, BadFd, Returns, NullHandler, Stops,
              DiskReadNothing, ConsoleWrite
<1>8. CASE UNCHANGED vars
  BY <1>1, <1>8 DEF vars
<1>9. CASE Next
  BY <1>1, <1>2, <1>3, <1>4, <1>5, <1>6, <1>7, <1>9, Zenon DEF Next
<1> QED BY <1>8, <1>9

(***************************************************************************)
(* If every path names a file and every walk arrives there, each read and  *)
(* write goes to the file of the path its descriptor was opened with,      *)
(* although close_fd leaves the inode number in the slot.  The runs on     *)
(* missing paths show that the hypothesis is needed.                       *)
(***************************************************************************)
THEOREM AccessesNamed ==
  ASSUME LookupsSucceed
  PROVE  Spec => []AccessesNamedFile
<1>1. Init => NamesInv
  BY DEF Init, configure_stdio, NamesInv, OpenNamesFile, ClosedUnnamed,
         AccessesNamedFile, NoAccess
<1>2. TableInv /\ NamesInv /\ [Next]_vars => NamesInv'
  BY NamesStep, AccessStep DEF NamesInv
<1>3. NamesInv => AccessesNamedFile
  BY DEF NamesInv
<1> QED BY <1>1, <1>2, <1>3, TableInvariant, PTL DEF Spec

-----------------------------------------------------------------------------
(* The walk and the table together.                                        *)

\* The end of a call of ino_from_path, as openat_s sees it.
WalkEnd == [ino |-> ino, found |-> found]

\* The file that FdTable takes a path to name is the one it names in the tree.
SameFiles ==
  /\ Ino = Inodes /\ NoIno = NoInode
  /\ Path \subseteq Paths \ {<<>>}
  /\ \A p \in Path : FileOf[p] = Resolve(p)

\* A call of ino_from_path without failed reads ends in a way that the table
\* counts on.
WalkAnswers ==
  pc = "idle" /\ path \in Path /\ ptr /\ ~failed => WalkEnd \in Lookup[path]

\* Every disk access is to the file that its path names in the tree.
AccessesTree == access.path # NoPath => access.ino = Resolve(access.path)

(***************************************************************************)
(* open_fd calls ino_from_path and trusts its result (src/io.c:205).  On a *)
(* tree with unambiguous names, in which the paths opened name files, the  *)
(* walk does end as the table's theorem assumes, and so every read and     *)
(* write goes to the file that the path given to open names in the tree.   *)
(***************************************************************************)
THEOREM OpensWhatItNames ==
  ASSUME \A p \in Path : Unambiguous(p), SameFiles, LookupsSucceed
  PROVE  /\ WalkSpec => []WalkAnswers
         /\ Spec => []AccessesTree
<1>1. ResolvesExactly => WalkAnswers
  <2> SUFFICES ASSUME ResolvesExactly, pc = "idle", path \in Path, ptr, ~failed
               PROVE  WalkEnd \in Lookup[path]
    BY DEF WalkAnswers
  <2>1. path # <<>> /\ FileOf[path] = Resolve(path) /\ FileOf[path] # NoInode
        /\ Lookup[path] = {[ino |-> FileOf[path], found |-> TRUE]}
    BY FdAssumption DEF SameFiles, LookupsSucceed
  <2>2. found = TRUE /\ ino = Resolve(path)
    BY <2>1 DEF ResolvesExactly
  <2> QED BY <2>1, <2>2 DEF WalkEnd
<1>2. TypeOK /\ AccessesNamedFile => AccessesTree
  BY DEF TypeOK, AccessesNamedFile, AccessesTree, SameFiles
<1>3. WalkSpec => []ResolvesExactly
  BY WalksExactly
<1>4. Spec => []AccessesNamedFile
  BY AccessesNamed
<1> QED BY <1>1, <1>2, <1>3, <1>4, FdTypeCorrect, PTL
=============================================================================
