---------------------------- MODULE BlkIoProofs ----------------------------
(***************************************************************************)
(* Proofs about BlkIo, for every sector size, disk size and length of      *)
(* ranges, any contents and any number of calls.                           *)
(***************************************************************************)
EXTENDS BlkIo, TLAPS

-----------------------------------------------------------------------------
(* Positions, sectors and offsets.  The provers see the two operators the  *)
(* code has for them; that they divide is used in the first lemma only.    *)

Sec(p) == virtio_blk_sector_from_pos(p)
Off(p) == virtio_blk_sector_offset_from_pos(p)

\* A position is its sector and its offset in the sector.
LEMMA SecOff ==
  ASSUME NEW p \in Nat
  PROVE  /\ Sec(p) \in Nat /\ Off(p) \in 0 .. BlkSize - 1
         /\ p = BlkSize * Sec(p) + Off(p)
<1>1. BlkSize \in Nat /\ BlkSize > 0
  BY BlkIoAssumption
<1>2. p \div BlkSize \in Nat /\ p % BlkSize \in 0 .. BlkSize - 1
  BY <1>1, SMT
<1>3. p % BlkSize = p - (p \div BlkSize) * BlkSize
  BY <1>1, SMT
<1>4. /\ Sec(p) \in Nat /\ Off(p) \in 0 .. BlkSize - 1
      /\ Off(p) = p - Sec(p) * BlkSize
  BY <1>2, <1>3, Zenon
  DEF Sec, Off, virtio_blk_sector_from_pos, virtio_blk_sector_offset_from_pos
<1>5. \A q \in Nat : q * BlkSize = BlkSize * q /\ BlkSize * q \in Nat
  BY <1>1, SMT
<1> QED BY <1>1, <1>4, <1>5

\* Multiplication is monotonic.
LEMMA TimesMonotonic ==
  ASSUME NEW b \in Nat, NEW x \in Nat, NEW y \in Nat, x <= y
  PROVE  b * x <= b * y
<1>1. PICK z \in Nat : y = x + z
  BY SMT
<1>2. b * y = b * x + b * z /\ b * x \in Nat /\ b * z \in Nat /\ b * y \in Nat
  BY <1>1, SMT
<1> QED BY <1>2

\* No two pairs of a sector and an offset are the same position.
LEMMA PositionUnique ==
  ASSUME NEW q \in Nat, NEW r \in 0 .. BlkSize - 1,
         NEW u \in Nat, NEW v \in 0 .. BlkSize - 1,
         BlkSize * q + r = BlkSize * u + v
  PROVE  q = u /\ r = v
<1>1. BlkSize \in Nat
  BY BlkIoAssumption
<1>2. BlkSize * q \in Nat /\ BlkSize * u \in Nat
  BY <1>1, SMT
<1>3. CASE q < u
  <2>1. BlkSize * (q + 1) <= BlkSize * u
    BY <1>1, <1>3, TimesMonotonic
  <2>2. BlkSize * (q + 1) = BlkSize * q + BlkSize
    BY <1>1, SMT
  <2> QED BY <1>1, <1>2, <2>1, <2>2
<1>4. CASE u < q
  <2>1. BlkSize * (u + 1) <= BlkSize * q
    BY <1>1, <1>4, TimesMonotonic
  <2>2. BlkSize * (u + 1) = BlkSize * u + BlkSize
    BY <1>1, SMT
  <2> QED BY <1>1, <1>2, <2>1, <2>2
<1>5. CASE q = u
  BY <1>1, <1>2, <1>5
<1> QED BY <1>3, <1>4, <1>5

\* A position on the disk is in one of its sectors.
LEMMA SectorInRange ==
  ASSUME NEW p \in Nat, p < Sectors * BlkSize
  PROVE  Sec(p) \in 0 .. Sectors - 1
<1>1. /\ Sec(p) \in Nat /\ Off(p) \in 0 .. BlkSize - 1
      /\ p = BlkSize * Sec(p) + Off(p)
  BY SecOff
<1>2. BlkSize \in Nat /\ Sectors \in Nat
  BY BlkIoAssumption
<1>3. ~(Sectors <= Sec(p))
  <2> SUFFICES ASSUME Sectors <= Sec(p) PROVE FALSE
    OBVIOUS
  <2>1. BlkSize * Sectors <= BlkSize * Sec(p)
    BY <1>1, <1>2, TimesMonotonic
  <2>2. /\ BlkSize * Sectors = Sectors * BlkSize
        /\ Sectors * BlkSize \in Nat /\ BlkSize * Sec(p) \in Nat
    BY <1>1, <1>2, SMT
  <2> QED BY <1>1, <1>2, <2>1, <2>2
<1> QED BY <1>1, <1>2, <1>3

\* A range that begins at s and ends in the same sector: its positions are
\* those of the sector whose offsets are in the range.
LEMMA PartOfSector ==
  ASSUME NEW s \in Nat, NEW p \in Nat, NEW n \in Nat, n <= BlkSize - Off(s)
  PROVE  /\ p \in s .. s + n - 1 <=>
              Sec(p) = Sec(s) /\ Off(p) \in Off(s) .. Off(s) + n - 1
         /\ Sec(p) = Sec(s) => p - s = Off(p) - Off(s)
<1>1. /\ Sec(s) \in Nat /\ Off(s) \in 0 .. BlkSize - 1
      /\ s = BlkSize * Sec(s) + Off(s)
  BY SecOff
<1>2. /\ Sec(p) \in Nat /\ Off(p) \in 0 .. BlkSize - 1
      /\ p = BlkSize * Sec(p) + Off(p)
  BY SecOff
<1>3. BlkSize \in Nat
  BY BlkIoAssumption
<1>4. BlkSize * Sec(s) \in Nat
  BY <1>1, <1>3, SMT
<1>5. ASSUME p \in s .. s + n - 1
      PROVE  Sec(p) = Sec(s) /\ Off(p) \in Off(s) .. Off(s) + n - 1
  <2>1. PICK w \in 0 .. BlkSize - 1 :
          w = Off(s) + (p - s) /\ w \in Off(s) .. Off(s) + n - 1
    BY <1>1, <1>3, <1>5
  <2>2. p = BlkSize * Sec(s) + w
    BY <1>1, <1>4, <2>1
  <2> QED BY <1>1, <1>2, <2>1, <2>2, PositionUnique
<1>6. ASSUME Sec(p) = Sec(s)
      PROVE  p - s = Off(p) - Off(s)
  BY <1>1, <1>2, <1>3, <1>4, <1>6
<1>7. ASSUME Sec(p) = Sec(s), Off(p) \in Off(s) .. Off(s) + n - 1
      PROVE  p \in s .. s + n - 1
  BY <1>1, <1>2, <1>3, <1>4, <1>7
<1> QED BY <1>5, <1>6, <1>7
\* Contents of a disk at a position, by sector and offset.
LEMMA ByteAtSec ==
  ASSUME NEW d, NEW p
  PROVE  ByteAt(d, p) = d[Sec(p)][Off(p)]
  BY Zenon DEF ByteAt, Sec, Off, virtio_blk_sector_from_pos,
               virtio_blk_sector_offset_from_pos

-----------------------------------------------------------------------------
(* The inductive invariant.                                                *)

Blk == [0 .. BlkSize - 1 -> Byte]

\* On disk d the first n bytes of the range are the caller's and all others
\* those from before the call.
Holds(d, n) ==
  \A p \in DiskBytes :
    ByteAt(d, p) = IF p \in offset .. offset + n - 1 THEN input[p - offset]
                                                     ELSE ByteAt(disk0, p)

\* The sector on the disk with its part of the range replaced.
Merged ==
  [b \in 0 .. BlkSize - 1 |->
     IF b \in SectorOffset .. SectorOffset + LastAmt - 1
       THEN input[amt + b - SectorOffset]
       ELSE disk[CurrentSector][b]]

RangeInv ==
  /\ offset + size <= Sectors * BlkSize
  /\ amt <= size
  /\ pc \in {"reading", "merge", "writing"} => amt < size
  /\ pc = "idle" => ret = amt

\* The sector operation in progress is the one the walk over the range is at,
\* and the sector written back was read before.
StoreInv ==
  /\ pc \in {"idle", "loop", "merge"} <=> phase = "idle"
  /\ pc = "reading" => /\ op = "read" /\ sector = CurrentSector
                       /\ phase = "done" /\ status = 0 => data = disk[sector]
  /\ pc = "merge" => data = disk[CurrentSector]
  /\ pc = "writing" => /\ op = "write" /\ sector = CurrentSector
                       /\ phase = "busy" => data = Merged
  /\ pc \in {"merge", "writing"} => kind = "write"

ReadInv ==
  kind = "read" =>
    /\ disk = disk0
    /\ \A i \in 0 .. MaxSize - 1 :
         output[i] = IF i < amt THEN ByteAt(disk, offset + i) ELSE None

\* The disk is ahead of the count by one sector at most, when the write of that
\* sector has been served.
WriteInv ==
  kind = "write" =>
    /\ \/ Holds(disk, amt)
       \/ /\ pc = "idle" \/ (pc = "writing" /\ phase = "done")
          /\ amt < size /\ Holds(disk, amt + LastAmt)
    /\ pc = "writing" /\ phase = "done" /\ status = 0 =>
         Holds(disk, amt + LastAmt)

RangesInv == TypeOK /\ RangeInv /\ StoreInv /\ ReadInv /\ WriteInv

-----------------------------------------------------------------------------
(* Lemmas.                                                                 *)

\* A position of the range is on the disk, and what LastAmt takes of the range
\* stays inside the range and inside the sector.
LEMMA PartBounds ==
  ASSUME TypeOK, RangeInv, amt < size
  PROVE  /\ CurrentSector = Sec(offset + amt)
         /\ SectorOffset = Off(offset + amt)
         /\ offset \in Nat /\ amt \in Nat /\ size \in Nat /\ MaxSize \in Nat
         /\ BlkSize \in Nat
         /\ CurrentSector \in 0 .. Sectors - 1
         /\ SectorOffset \in 0 .. BlkSize - 1
         /\ LastAmt \in Nat /\ LastAmt > 0
         /\ LastAmt <= BlkSize - SectorOffset
         /\ amt + LastAmt <= size /\ size <= MaxSize
<1>1. /\ Sectors * BlkSize \in Nat /\ MaxSize \in Nat
      /\ BlkSize \in Nat /\ Sectors \in Nat
  BY BlkIoAssumption, SMT
<1>2. /\ offset \in Nat /\ amt \in Nat /\ size \in Nat /\ size <= MaxSize
  BY <1>1 DEF TypeOK
<1>3. /\ CurrentSector = Sec(offset + amt) /\ SectorOffset = Off(offset + amt)
  BY Zenon DEF CurrentSector, SectorOffset, Sec, Off
<1>4. offset + amt < Sectors * BlkSize
  BY <1>1, <1>2 DEF RangeInv
<1>5. CurrentSector \in 0 .. Sectors - 1
  BY <1>2, <1>3, <1>4, SectorInRange
<1>6. SectorOffset \in 0 .. BlkSize - 1
  BY <1>2, <1>3, SecOff
<1>7. LastAmt = IF size - amt < BlkSize - SectorOffset
                  THEN size - amt ELSE BlkSize - SectorOffset
  BY DEF LastAmt
<1> QED BY <1>1, <1>2, <1>3, <1>5, <1>6, <1>7

\* Every position of the disk has its sector and its offset.
LEMMA DiskPosition ==
  ASSUME NEW p \in DiskBytes
  PROVE  p \in Nat /\ Sec(p) \in 0 .. Sectors - 1 /\ Off(p) \in 0 .. BlkSize - 1
<1>1. Sectors * BlkSize \in Nat
  BY BlkIoAssumption, SMT
<1>2. p \in Nat /\ p < Sectors * BlkSize
  BY <1>1 DEF DiskBytes
<1> QED BY <1>2, SectorInRange, SecOff

\* Writing the merged sector makes the next part of the range the caller's and
\* changes no other byte.
LEMMA MergedHolds ==
  ASSUME TypeOK, RangeInv, amt < size, Holds(disk, amt)
  PROVE  Holds([disk EXCEPT ![CurrentSector] = Merged], amt + LastAmt)
<1> DEFINE d == [disk EXCEPT ![CurrentSector] = Merged]
           s == offset + amt
           n == LastAmt
<1>1. /\ CurrentSector = Sec(s) /\ SectorOffset = Off(s)
      /\ offset \in Nat /\ amt \in Nat /\ s \in Nat /\ n \in Nat /\ n > 0
      /\ n <= BlkSize - Off(s) /\ CurrentSector \in 0 .. Sectors - 1
      /\ BlkSize \in Nat /\ Off(s) \in 0 .. BlkSize - 1
  BY PartBounds
<1> SUFFICES ASSUME NEW p \in DiskBytes
             PROVE  ByteAt(d, p) = IF p \in offset .. offset + (amt + n) - 1
                                     THEN input[p - offset]
                                     ELSE ByteAt(disk0, p)
  BY DEF Holds
<1> HIDE DEF n
<1>2. p \in Nat /\ Sec(p) \in 0 .. Sectors - 1 /\ Off(p) \in 0 .. BlkSize - 1
  BY DiskPosition
<1>3. disk \in [0 .. Sectors - 1 -> Blk]
  BY DEF TypeOK, Blk
<1>4. ByteAt(d, p) = IF Sec(p) = Sec(s) THEN Merged[Off(p)] ELSE ByteAt(disk, p)
  BY <1>1, <1>2, <1>3, ByteAtSec
<1>5. Merged[Off(p)] = IF Off(p) \in Off(s) .. Off(s) + n - 1
                         THEN input[amt + Off(p) - Off(s)]
                         ELSE disk[Sec(s)][Off(p)]
  BY <1>1, <1>2 DEF Merged, n
<1>6. /\ p \in s .. s + n - 1 <=>
           Sec(p) = Sec(s) /\ Off(p) \in Off(s) .. Off(s) + n - 1
      /\ Sec(p) = Sec(s) => p - s = Off(p) - Off(s)
  BY <1>1, <1>2, PartOfSector
<1>7. ByteAt(disk, p) = IF p \in offset .. offset + amt - 1
                          THEN input[p - offset] ELSE ByteAt(disk0, p)
  BY DEF Holds
<1>8. CASE p \in s .. s + n - 1
  <2>1. ByteAt(d, p) = input[amt + Off(p) - Off(s)]
    BY <1>4, <1>5, <1>6, <1>8
  <2>2. amt + Off(p) - Off(s) = p - offset
    BY <1>1, <1>2, <1>6, <1>8
  <2>3. p \in offset .. offset + (amt + n) - 1
    BY <1>1, <1>2, <1>8
  <2> QED BY <2>1, <2>2, <2>3
<1>9. CASE p \notin s .. s + n - 1
  <2>1. ByteAt(d, p) = ByteAt(disk, p)
    <3>1. CASE Sec(p) = Sec(s)
      <4>1. ByteAt(d, p) = disk[Sec(s)][Off(p)]
        BY <1>4, <1>5, <1>6, <1>9, <3>1
      <4> QED BY <3>1, <4>1, ByteAtSec
    <3>2. CASE Sec(p) # Sec(s)
      BY <1>4, <3>2
    <3> QED BY <3>1, <3>2
  <2>2. p \in offset .. offset + (amt + n) - 1 <=> p \in offset .. offset + amt - 1
    BY <1>1, <1>2, <1>9
  <2> QED BY <1>7, <2>1, <2>2
<1> QED BY <1>8, <1>9

\* Copying the sector's part out stores the bytes of the disk, in place.
LEMMA CopyOutHolds ==
  ASSUME TypeOK, RangeInv, amt < size, data = disk[CurrentSector],
         NEW i \in 0 .. MaxSize - 1,
         output[i] = IF i < amt THEN ByteAt(disk, offset + i) ELSE None
  PROVE  CopyOut[i] = IF i < amt + LastAmt THEN ByteAt(disk, offset + i)
                                           ELSE None
<1> DEFINE s == offset + amt
           p == offset + i
           n == LastAmt
<1>1. /\ CurrentSector = Sec(s) /\ SectorOffset = Off(s)
      /\ offset \in Nat /\ amt \in Nat /\ s \in Nat /\ n \in Nat
      /\ n <= BlkSize - Off(s) /\ i \in Nat /\ p \in Nat
      /\ BlkSize \in Nat /\ Off(s) \in 0 .. BlkSize - 1
  BY PartBounds
<1>2. CopyOut[i] = IF i \in amt .. amt + n - 1 THEN data[Off(s) + i - amt]
                                               ELSE output[i]
  BY <1>1 DEF CopyOut
<1>3. /\ p \in s .. s + n - 1 <=>
           Sec(p) = Sec(s) /\ Off(p) \in Off(s) .. Off(s) + n - 1
      /\ Sec(p) = Sec(s) => p - s = Off(p) - Off(s)
  BY <1>1, PartOfSector
<1>4. Off(p) \in 0 .. BlkSize - 1
  BY <1>1, SecOff
<1> HIDE DEF n
<1>5. CASE i \in amt .. amt + n - 1
  <2>1. p \in s .. s + n - 1
    BY <1>1, <1>5
  <2>2. Sec(p) = Sec(s) /\ Off(s) + i - amt = Off(p)
    BY <1>1, <1>3, <1>4, <2>1
  <2>3. data[Off(s) + i - amt] = ByteAt(disk, p)
    BY <1>1, <2>2, ByteAtSec
  <2>4. i < amt + n
    BY <1>1, <1>5
  <2> QED BY <1>2, <1>5, <2>3, <2>4 DEF n
<1>6. CASE i \notin amt .. amt + n - 1
  <2>1. i < amt <=> i < amt + n
    BY <1>1, <1>6
  <2> QED BY <1>2, <1>6, <2>1 DEF n
<1> QED BY <1>5, <1>6
-----------------------------------------------------------------------------
(* Every step keeps the invariant.                                         *)

\* Before the first call, nothing was read or written.
LEMMA InitRangesInv == Init => RangesInv
<1> SUFFICES ASSUME Init PROVE RangesInv
  OBVIOUS
<1>1. /\ Sectors * BlkSize \in Nat /\ MaxSize \in Nat /\ MaxCalls \in Nat
      /\ 0 \in 0 .. Sectors - 1 /\ 0 \in Byte
      /\ disk \in [0 .. Sectors - 1 -> [0 .. BlkSize - 1 -> Byte]]
  BY BlkIoAssumption, SMT DEF Init
<1>2. ZeroBlk \in [0 .. BlkSize - 1 -> Byte]
  BY <1>1 DEF ZeroBlk
<1>3. TypeOK
  BY <1>1, <1>2 DEF Init, TypeOK, Store!NotServed
<1>4. RangeInv /\ StoreInv /\ ReadInv /\ WriteInv
  BY <1>1 DEF Init, RangeInv, StoreInv, ReadInv, WriteInv
<1> QED BY <1>3, <1>4 DEF RangesInv

\* A call starts: nothing of its range is done.
LEMMA StartRangesInv ==
  ASSUME RangesInv, NEW k \in {"read", "write"}, NEW off \in DiskBytes,
         NEW sz \in 0 .. MaxSize, off + sz <= Sectors * BlkSize,
         NEW in \in [0 .. MaxSize - 1 -> Byte], Start(k, off, sz, in)
  PROVE  RangesInv'
<1> USE DEF RangesInv, Start, storeVars
<1>1. /\ Sectors * BlkSize \in Nat /\ MaxSize \in Nat /\ MaxCalls \in Nat
      /\ off \in 0 .. Sectors * BlkSize /\ calls + 1 \in 0 .. MaxCalls
  BY BlkIoAssumption, SMT DEF DiskBytes, TypeOK
<1>2. TypeOK'
  BY <1>1 DEF TypeOK
<1>3. RangeInv' /\ StoreInv'
  BY <1>1 DEF RangeInv, StoreInv
<1>4. ReadInv'
  BY DEF ReadInv
<1>5. WriteInv'
  BY <1>1 DEF WriteInv, Holds
<1> QED BY <1>2, <1>3, <1>4, <1>5

\* The range is done, or a sector operation failed: the count is returned.
LEMMA EndRangesInv ==
  ASSUME RangesInv, Finish \/ ReadFailed \/ WriteFailed
  PROVE  RangesInv'
<1>1. /\ pc \in {"loop", "reading", "writing"} /\ pc' = "idle" /\ ret' = amt
      /\ UNCHANGED <<argVars, output, amt, disk, op, sector, data, status>>
      /\ phase' = "idle"
      /\ pc = "writing" => phase = "done"
  BY DEF RangesInv, StoreInv, Finish, ReadFailed, WriteFailed, Fail,
         Store!Return, storeVars
<1> USE DEF RangesInv, argVars
<1>2. TypeOK'
  BY <1>1 DEF TypeOK
<1>3. RangeInv' /\ StoreInv' /\ ReadInv'
  BY <1>1 DEF RangeInv, StoreInv, ReadInv
<1>4. WriteInv'
  BY <1>1 DEF WriteInv, Holds, LastAmt, SectorOffset
<1> QED BY <1>2, <1>3, <1>4

\* A sector operation is called for the sector the walk is at.
LEMMA CallRangesInv ==
  ASSUME RangesInv, ReadSector \/ WriteSector
  PROVE  RangesInv'
<1> USE DEF RangesInv, argVars
<1>1. amt < size
  BY DEF ReadSector, WriteSector, RangeInv
<1>2. /\ CurrentSector \in 0 .. Sectors - 1
      /\ SectorOffset \in 0 .. BlkSize - 1 /\ amt \in Nat /\ MaxSize \in Nat
      /\ LastAmt \in Nat /\ amt + LastAmt <= MaxSize /\ BlkSize \in Nat
  BY <1>1, PartBounds
<1>3. CASE ReadSector
  <2>1. /\ pc = "loop" /\ pc' = "reading" /\ phase' = "busy" /\ op' = "read"
        /\ sector' = CurrentSector /\ data' = ZeroBlk
        /\ status' = Store!NotServed
        /\ UNCHANGED <<argVars, output, amt, ret, disk>>
    BY <1>3 DEF ReadSector, Store!Call
  <2>2. ZeroBlk \in [0 .. BlkSize - 1 -> Byte]
    BY BlkIoAssumption DEF ZeroBlk
  <2>3. TypeOK'
    BY <1>2, <2>1, <2>2 DEF TypeOK
  <2>4. RangeInv' /\ StoreInv' /\ ReadInv'
    BY <1>1, <2>1 DEF RangeInv, StoreInv, ReadInv, CurrentSector
  <2>5. WriteInv'
    BY <2>1 DEF WriteInv, Holds
  <2> QED BY <2>3, <2>4, <2>5
<1>4. CASE WriteSector
  <2>1. /\ pc = "merge" /\ pc' = "writing" /\ phase' = "busy" /\ op' = "write"
        /\ sector' = CurrentSector /\ data' = CopyIn
        /\ status' = Store!NotServed
        /\ UNCHANGED <<argVars, output, amt, ret, disk>>
    BY <1>4 DEF WriteSector, Store!Call
  <2>2. CopyIn = Merged
    BY <2>1 DEF StoreInv, CopyIn, Merged
  <2>3. CopyIn \in [0 .. BlkSize - 1 -> Byte]
    <3> SUFFICES ASSUME NEW b \in 0 .. BlkSize - 1
                 PROVE  CopyIn[b] \in Byte
      BY DEF CopyIn
    <3>1. CASE b \in SectorOffset .. SectorOffset + LastAmt - 1
      <4>1. amt + b - SectorOffset \in 0 .. MaxSize - 1
        BY <1>2, <3>1
      <4> QED BY <3>1, <4>1 DEF CopyIn, TypeOK
    <3>2. CASE b \notin SectorOffset .. SectorOffset + LastAmt - 1
      BY <3>2 DEF CopyIn, TypeOK
    <3> QED BY <3>1, <3>2
  <2>4. TypeOK'
    BY <1>2, <2>1, <2>3 DEF TypeOK
  <2>5. RangeInv' /\ ReadInv'
    BY <1>1, <2>1 DEF RangeInv, ReadInv
  <2>6. StoreInv'
    BY <2>1, <2>2
    DEF StoreInv, Merged, CurrentSector, SectorOffset, LastAmt
  <2>7. WriteInv'
    BY <2>1 DEF WriteInv, Holds
  <2> QED BY <2>4, <2>5, <2>6, <2>7
<1> QED BY <1>3, <1>4

\* A sector was read or written: the walk goes on behind it, or to the write.
LEMMA DoneRangesInv ==
  ASSUME RangesInv, ReadSectorDone \/ ReadBeforeWriteDone \/ WriteSectorDone
  PROVE  RangesInv'
<1> USE DEF RangesInv, argVars
<1>1. pc \in {"reading", "writing"} /\ amt < size
  BY DEF ReadSectorDone, ReadBeforeWriteDone, WriteSectorDone, RangeInv
<1>2. /\ LastAmt \in Nat /\ amt \in Nat /\ size \in Nat /\ MaxSize \in Nat
      /\ amt + LastAmt <= size /\ size <= MaxSize
  BY <1>1, PartBounds
<1>3. /\ phase = "done" /\ phase' = "idle" /\ status = 0
      /\ UNCHANGED <<argVars, ret, disk, op, sector, data, status>>
  BY DEF ReadSectorDone, ReadBeforeWriteDone, WriteSectorDone, Store!Return
<1>4. CASE ReadSectorDone
  <2>1. /\ pc = "reading" /\ pc' = "loop" /\ kind = "read"
        /\ amt' = amt + LastAmt /\ output' = CopyOut
    BY <1>4 DEF ReadSectorDone
  <2>2. data = disk[CurrentSector]
    BY <1>3, <2>1 DEF StoreInv
  <2>3. \A i \in 0 .. MaxSize - 1 :
          CopyOut[i] = IF i < amt + LastAmt THEN ByteAt(disk, offset + i)
                                            ELSE None
    BY <1>1, <2>1, <2>2, CopyOutHolds DEF ReadInv
  <2>4. CopyOut \in [0 .. MaxSize - 1 -> Byte \cup {None}]
    <3> SUFFICES ASSUME NEW i \in 0 .. MaxSize - 1
                 PROVE  CopyOut[i] \in Byte \cup {None}
      BY DEF CopyOut
    <3>1. CASE i < amt + LastAmt
      <4>1. offset + i \in DiskBytes
        <5>1. Sectors * BlkSize \in Nat /\ offset \in Nat
          BY BlkIoAssumption, SMT DEF TypeOK
        <5> QED BY <1>2, <3>1, <5>1 DEF RangeInv, DiskBytes
      <4>2. /\ Sec(offset + i) \in 0 .. Sectors - 1
            /\ Off(offset + i) \in 0 .. BlkSize - 1
        BY <4>1, DiskPosition
      <4>3. ByteAt(disk, offset + i) \in Byte
        BY <4>2, ByteAtSec DEF TypeOK
      <4> QED BY <2>3, <3>1, <4>3
    <3>2. CASE ~(i < amt + LastAmt)
      BY <2>3, <3>2
    <3> QED BY <3>1, <3>2
  <2>5. TypeOK'
    BY <1>2, <1>3, <2>1, <2>4 DEF TypeOK
  <2>6. RangeInv' /\ StoreInv' /\ WriteInv'
    BY <1>2, <1>3, <2>1 DEF RangeInv, StoreInv, WriteInv
  <2>7. ReadInv'
    BY <1>3, <2>1, <2>3 DEF ReadInv
  <2> QED BY <2>5, <2>6, <2>7
<1>5. CASE ReadBeforeWriteDone
  <2>1. /\ pc = "reading" /\ pc' = "merge" /\ kind = "write"
        /\ UNCHANGED <<amt, output>>
    BY <1>5 DEF ReadBeforeWriteDone
  <2>2. TypeOK'
    BY <1>3, <2>1 DEF TypeOK
  <2>3. RangeInv' /\ StoreInv' /\ ReadInv'
    BY <1>1, <1>3, <2>1 DEF RangeInv, StoreInv, ReadInv, CurrentSector
  <2>4. WriteInv'
    BY <1>3, <2>1 DEF WriteInv, Holds
  <2> QED BY <2>2, <2>3, <2>4
<1>6. CASE WriteSectorDone
  <2>1. /\ pc = "writing" /\ pc' = "loop" /\ kind = "write"
        /\ amt' = amt + LastAmt /\ output' = output
    BY <1>6 DEF WriteSectorDone, StoreInv
  <2>2. Holds(disk, amt + LastAmt)
    BY <1>3, <2>1 DEF WriteInv
  <2>3. TypeOK'
    BY <1>2, <1>3, <2>1 DEF TypeOK
  <2>4. RangeInv' /\ StoreInv' /\ ReadInv'
    BY <1>2, <1>3, <2>1 DEF RangeInv, StoreInv, ReadInv
  <2>5. WriteInv'
    BY <1>3, <2>1, <2>2 DEF WriteInv, Holds
  <2> QED BY <2>3, <2>4, <2>5
<1> QED BY <1>4, <1>5, <1>6

\* The store serves the operation, well or not.
LEMMA ServeRangesInv ==
  ASSUME RangesInv, Serve
  PROVE  RangesInv'
<1> USE DEF RangesInv
<1>1. /\ phase = "busy" /\ phase' = "done" /\ status' \in {0, 1}
      /\ UNCHANGED <<callVars, op, sector>>
  BY DEF Serve, Store!ServeOK, Store!ServeError
<1>2. /\ disk' \in IF op = "write" THEN {disk, [disk EXCEPT ![sector] = data]}
                                   ELSE {disk}
      /\ status' = 0 /\ op = "write" => disk' = [disk EXCEPT ![sector] = data]
      /\ status' = 0 /\ op = "read" => data' = disk[sector]
      /\ data' \in [0 .. BlkSize - 1 -> Byte]
  <2>1. /\ disk \in [0 .. Sectors - 1 -> [0 .. BlkSize - 1 -> Byte]]
        /\ sector \in 0 .. Sectors - 1 /\ data \in [0 .. BlkSize - 1 -> Byte]
        /\ op \in {"read", "write"}
    BY DEF TypeOK
  <2> QED BY <2>1 DEF Serve, Store!ServeOK, Store!ServeError
<1>3. pc \in {"reading", "writing"} /\ amt < size
  BY <1>1 DEF StoreInv, RangeInv, TypeOK
<1>4. disk' \in [0 .. Sectors - 1 -> [0 .. BlkSize - 1 -> Byte]]
  BY <1>2 DEF TypeOK
<1>5. TypeOK'
  BY <1>1, <1>2, <1>4 DEF TypeOK, callVars
<1>6. RangeInv'
  BY <1>1 DEF RangeInv, callVars
<1>7. CASE pc = "reading"
  <2>1. op = "read" /\ disk' = disk
    BY <1>2, <1>7 DEF StoreInv
  <2>2. StoreInv' /\ ReadInv'
    BY <1>1, <1>2, <1>7, <2>1 DEF StoreInv, ReadInv, callVars, CurrentSector
  <2>3. WriteInv'
    BY <1>1, <1>7, <2>1 DEF WriteInv, callVars, Holds
  <2> QED BY <1>5, <1>6, <2>2, <2>3
<1>8. CASE pc = "writing"
  <2>1. /\ op = "write" /\ kind = "write" /\ sector = CurrentSector
        /\ data = Merged
    BY <1>1, <1>8 DEF StoreInv
  <2>2. Holds(disk, amt)
    BY <1>1, <1>8, <2>1 DEF WriteInv
  <2>3. Holds([disk EXCEPT ![CurrentSector] = Merged], amt + LastAmt)
    BY <1>3, <2>2, MergedHolds
  <2>4. /\ Holds(disk', amt) \/ Holds(disk', amt + LastAmt)
        /\ status' = 0 => Holds(disk', amt + LastAmt)
    BY <1>2, <2>1, <2>2, <2>3
  <2>5. StoreInv' /\ ReadInv'
    BY <1>1, <1>8, <2>1 DEF StoreInv, ReadInv, callVars, CurrentSector
  <2>6. WriteInv'
    BY <1>1, <1>3, <1>8, <2>4
    DEF WriteInv, callVars, Holds, LastAmt, SectorOffset
  <2> QED BY <1>5, <1>6, <2>5, <2>6
<1> QED BY <1>3, <1>7, <1>8

\* A step that changes no variable keeps the invariant.
LEMMA StutterRangesInv ==
  ASSUME RangesInv, UNCHANGED vars
  PROVE  RangesInv'
<1> USE DEF RangesInv, vars, callVars, storeVars
<1>1. TypeOK' /\ RangeInv' /\ ReadInv'
  BY DEF TypeOK, RangeInv, ReadInv
<1>2. StoreInv' /\ WriteInv'
  BY DEF StoreInv, WriteInv, Holds, Merged, CurrentSector, SectorOffset, LastAmt
<1> QED BY <1>1, <1>2

\* RangesInv is an invariant of both functions over a store that may fail.
THEOREM RangesInductive == Spec => []RangesInv
<1>1. RangesInv /\ [Next]_vars => RangesInv'
  <2> SUFFICES ASSUME RangesInv, [Next]_vars PROVE RangesInv'
    OBVIOUS
  <2>1. ASSUME NEW off \in DiskBytes, NEW sz \in 0 .. MaxSize,
               off + sz <= Sectors * BlkSize,
               \/ virtio_blk_read_sync(off, sz)
               \/ \E in \in Input : virtio_blk_write_sync(off, sz, in)
        PROVE  RangesInv'
    <3>1. input \in [0 .. MaxSize - 1 -> Byte]
      BY DEF RangesInv, TypeOK
    <3>2. Input \subseteq [0 .. MaxSize - 1 -> Byte]
      BY BlkIoAssumption
    <3> QED BY <2>1, <3>1, <3>2, StartRangesInv
            DEF virtio_blk_read_sync, virtio_blk_write_sync
  <2>2. CASE Step
    BY <2>2, EndRangesInv, CallRangesInv, DoneRangesInv DEF Step
  <2>3. CASE Serve
    BY <2>3, ServeRangesInv
  <2>4. CASE UNCHANGED vars
    BY <2>4, StutterRangesInv
  <2> QED BY <2>1, <2>2, <2>3, <2>4 DEF Next
<1> QED BY <1>1, InitRangesInv, PTL DEF Spec

(***************************************************************************)
(* Type correctness: sector numbers, offsets and counts stay in range and  *)
(* every sector that goes to the disk is one of bytes, wherever a range    *)
(* starts and ends and whatever fails.                                     *)
(***************************************************************************)
THEOREM RangesTypeCorrect == Spec => []TypeOK
<1>1. RangesInv => TypeOK
  BY DEF RangesInv
<1> QED BY <1>1, RangesInductive, PTL

-----------------------------------------------------------------------------
(* What follows from it.                                                   *)

\* At every moment of a write the bytes outside its range are what they were.
THEOREM NeighboursSafe == Spec => []NeighboursKept
<1>1. RangesInv => NeighboursKept
  <2> SUFFICES ASSUME RangesInv, NEW p \in DiskBytes,
                      p \notin offset .. offset + size - 1
               PROVE  ByteAt(disk, p) = ByteAt(disk0, p)
    BY DEF NeighboursKept
  <2>1. CASE kind = "read"
    BY <2>1 DEF RangesInv, ReadInv
  <2>2. CASE kind = "write"
    <3>1. PICK n \in Nat : n <= size /\ Holds(disk, n)
      <4>1. amt \in Nat /\ amt <= size
        BY BlkIoAssumption DEF RangesInv, TypeOK, RangeInv
      <4>2. amt < size => LastAmt \in Nat /\ amt + LastAmt <= size
        BY PartBounds DEF RangesInv
      <4> QED BY <2>2, <4>1, <4>2 DEF RangesInv, WriteInv
    <3>2. p \notin offset .. offset + n - 1
      <4>1. offset \in Nat /\ size \in Nat /\ p \in Nat
        BY BlkIoAssumption, DiskPosition DEF RangesInv, TypeOK
      <4> QED BY <3>1, <4>1
    <3> QED BY <3>1, <3>2 DEF Holds
  <2> QED BY <2>1, <2>2 DEF RangesInv, TypeOK
<1> QED BY <1>1, RangesInductive, PTL

\* The bytes a write counts are the caller's, and beyond them only the sector
\* that failed may have changed.
THEOREM WritesWhatItCounts == Spec => []WriteResult
<1>1. RangesInv => WriteResult
  <2> SUFFICES ASSUME RangesInv, pc = "idle", NEW p \in DiskBytes
               PROVE  /\ kind = "write" /\ p \in offset .. offset + ret - 1 =>
                           ByteAt(disk, p) = input[p - offset]
                      /\ p >= offset + ret /\ Sec(p) # Sec(offset + ret) =>
                           ByteAt(disk, p) = ByteAt(disk0, p)
                      /\ kind = "read" => ByteAt(disk, p) = ByteAt(disk0, p)
    BY Zenon DEF WriteResult, Sec, virtio_blk_sector_from_pos
  <2>1. /\ ret = amt /\ offset \in Nat /\ amt \in Nat /\ size \in Nat
        /\ p \in Nat
    BY BlkIoAssumption, DiskPosition DEF RangesInv, TypeOK, RangeInv
  <2>2. CASE kind = "read"
    BY <2>2 DEF RangesInv, ReadInv
  <2>3. CASE kind = "write" /\ Holds(disk, amt)
    <3>1. p >= offset + ret => p \notin offset .. offset + amt - 1
      BY <2>1
    <3> QED BY <2>1, <2>3, <3>1 DEF Holds
  <2>4. CASE kind = "write" /\ amt < size /\ Holds(disk, amt + LastAmt)
    <3>1. LastAmt \in Nat /\ LastAmt <= BlkSize - Off(offset + amt)
      BY <2>4, PartBounds DEF RangesInv
    <3>2. p \in offset + amt .. offset + amt + LastAmt - 1 =>
            Sec(p) = Sec(offset + amt)
      BY <2>1, <3>1, PartOfSector
    <3>3. ASSUME p >= offset + ret, Sec(p) # Sec(offset + ret)
          PROVE  p \notin offset .. offset + (amt + LastAmt) - 1
      BY <2>1, <3>1, <3>2, <3>3
    <3>4. ASSUME p \in offset .. offset + ret - 1
          PROVE  p \in offset .. offset + (amt + LastAmt) - 1
      BY <2>1, <3>1, <3>4
    <3> QED BY <2>4, <3>3, <3>4 DEF Holds
  <2> QED BY <2>2, <2>3, <2>4 DEF RangesInv, TypeOK, WriteInv
<1> QED BY <1>1, RangesInductive, PTL

\* The bytes a read counts are the disk's, in place, and nothing is stored
\* beyond them.
THEOREM ReadsWhatItCounts == Spec => []ReadResult
<1>1. RangesInv => ReadResult
  BY DEF RangesInv, RangeInv, ReadInv, ReadResult
<1> QED BY <1>1, RangesInductive, PTL

-----------------------------------------------------------------------------
(* Ranges of whole sectors, as the file system writes them.                *)

\* Where a sector starts, and how long a number of sectors is.
Bytes(q) == BlkSize * q

\* The call is for m sectors from sector f on.
AreSectors(f, m) == offset = Bytes(f) /\ size = Bytes(m)

\* The disk from before the call with n sectors of the input from sector f on.
SectorsStored(f, n) ==
  [s \in 0 .. Sectors - 1 |->
     IF s \in f .. f + n - 1
       THEN [b \in 0 .. BlkSize - 1 |-> input[Bytes(s - f) + b]]
       ELSE disk0[s]]

\* What a call has counted of such a range are whole sectors.
CountsSectors ==
  \A f, m \in Nat : AreSectors(f, m) => \E n \in 0 .. m : amt = Bytes(n)

(***************************************************************************)
(* What Ext2File takes a transfer of m sectors to do: it moves and counts  *)
(* all of them, or counts n, fewer than m, of which all are on the disk,   *)
(* and then perhaps, uncounted, the one that failed.                       *)
(***************************************************************************)
MovesSectors ==
  pc = "idle" => \A f, m \in Nat : AreSectors(f, m) =>
    \E n \in 0 .. m :
      /\ ret = Bytes(n)
      /\ kind = "write" =>
           \/ disk = SectorsStored(f, n)
           \/ n < m /\ disk = SectorsStored(f, n + 1)
      /\ kind = "read" => disk = disk0

\* Sums and differences of sectors are sums and differences of bytes.
LEMMA BytesAdd ==
  ASSUME NEW x \in Nat, NEW y \in Nat
  PROVE  /\ Bytes(x) \in Nat /\ Bytes(x + y) = Bytes(x) + Bytes(y)
         /\ Bytes(x + 1) = Bytes(x) + BlkSize /\ Bytes(0) = 0
         /\ x >= y => Bytes(x - y) = Bytes(x) - Bytes(y) /\ Bytes(x) >= Bytes(y)
<1>1. BlkSize \in Nat
  BY BlkIoAssumption
<1>2. /\ BlkSize * x \in Nat /\ BlkSize * (x + y) = BlkSize * x + BlkSize * y
      /\ BlkSize * (x + 1) = BlkSize * x + BlkSize /\ BlkSize * 0 = 0
  BY <1>1, SMT
<1>3. ASSUME x >= y
      PROVE  BlkSize * (x - y) = BlkSize * x - BlkSize * y
             /\ BlkSize * x >= BlkSize * y
  <2>1. BlkSize * (x - y) = BlkSize * x - BlkSize * y
    BY <1>1, SMT
  <2>2. BlkSize * y <= BlkSize * x /\ BlkSize * x \in Nat /\ BlkSize * y \in Nat
    BY <1>1, <1>2, <1>3, TimesMonotonic, SMT
  <2> QED BY <2>1, <2>2
<1> QED BY <1>2, <1>3 DEF Bytes

\* The position at an offset in a sector.
LEMMA PositionOf ==
  ASSUME NEW s \in Nat, NEW b \in 0 .. BlkSize - 1
  PROVE  /\ Bytes(s) + b \in Nat /\ Sec(Bytes(s) + b) = s
         /\ Off(Bytes(s) + b) = b
<1>1. BlkSize \in Nat /\ Bytes(s) \in Nat
  BY BlkIoAssumption, BytesAdd
<1>2. PICK p \in Nat : p = Bytes(s) + b
  BY <1>1
<1>3. /\ Sec(p) \in Nat /\ Off(p) \in 0 .. BlkSize - 1
      /\ BlkSize * Sec(p) + Off(p) = BlkSize * s + b
  BY <1>2, SecOff DEF Bytes
<1>4. Sec(p) = s /\ Off(p) = b
  BY <1>3, PositionUnique
<1> QED BY <1>2, <1>4

\* The positions of a range of whole sectors are those of its sectors.
LEMMA SectorsOfRange ==
  ASSUME NEW f \in Nat, NEW n \in Nat, NEW s \in Nat, NEW b \in 0 .. BlkSize - 1
  PROVE  /\ Bytes(s) + b \in Bytes(f) .. Bytes(f) + Bytes(n) - 1
              <=> s \in f .. f + n - 1
         /\ s >= f => (Bytes(s) + b) - Bytes(f) = Bytes(s - f) + b
<1>1. /\ BlkSize \in Nat /\ Bytes(s) \in Nat /\ Bytes(f) \in Nat /\ Bytes(n) \in Nat
      /\ Bytes(f + n) = Bytes(f) + Bytes(n) /\ Bytes(s + 1) = Bytes(s) + BlkSize
      /\ s >= f => Bytes(s - f) = Bytes(s) - Bytes(f)
  BY BlkIoAssumption, BytesAdd
<1>2. CASE s < f
  <2>1. Bytes(s + 1) <= Bytes(f)
    <3>1. s + 1 \in Nat /\ f >= s + 1
      BY <1>2
    <3> QED BY <1>1, <3>1, BytesAdd
  <2> QED BY <1>1, <1>2, <2>1
<1>3. CASE f <= s /\ s < f + n
  <2>1. Bytes(s + 1) <= Bytes(f + n) /\ Bytes(f) <= Bytes(s)
    <3>1. s + 1 \in Nat /\ f + n \in Nat /\ f + n >= s + 1 /\ s >= f
      BY <1>3
    <3> QED BY <1>1, <3>1, BytesAdd
  <2> QED BY <1>1, <1>3, <2>1
<1>4. CASE f + n <= s
  <2>1. Bytes(f + n) <= Bytes(s)
    <3>1. f + n \in Nat /\ s >= f + n
      BY <1>4
    <3> QED BY <1>1, <3>1, BytesAdd
  <2> QED BY <1>1, <1>4, <2>1
<1> QED BY <1>2, <1>3, <1>4

\* A round of the loop over whole sectors takes one of them.
LEMMA RoundTakesSector ==
  ASSUME TypeOK, RangeInv, amt < size, NEW f \in Nat, NEW m \in Nat,
         AreSectors(f, m), NEW n \in 0 .. m, amt = Bytes(n)
  PROVE  n < m /\ amt + LastAmt = Bytes(n + 1)
<1>1. BlkSize \in Nat /\ BlkSize > 0 /\ 0 \in 0 .. BlkSize - 1 /\ n \in Nat
  BY BlkIoAssumption
<1>2. n < m
  <2>1. Bytes(n) < Bytes(m) /\ Bytes(n) \in Nat
    BY <1>1, BytesAdd DEF AreSectors
  <2>2. n # m
    BY <2>1
  <2> QED BY <1>1, <2>2
<1>3. m >= n + 1 /\ n + 1 \in Nat /\ f + n \in Nat
  BY <1>1, <1>2
<1>4. /\ Bytes(n + 1) <= Bytes(m) /\ Bytes(n + 1) = Bytes(n) + BlkSize
      /\ Bytes(n) \in Nat /\ Bytes(m) \in Nat /\ Bytes(f) \in Nat
      /\ Bytes(f + n) = Bytes(f) + Bytes(n)
  BY <1>1, <1>3, BytesAdd
<1>5. offset + amt = Bytes(f + n) + 0
  BY <1>4 DEF AreSectors
<1>6. Off(Bytes(f + n) + 0) = 0
  BY <1>1, <1>3, PositionOf, Zenon
<1>7. SectorOffset = 0
  BY <1>5, <1>6, PartBounds
<1>8. LastAmt = BlkSize
  BY <1>1, <1>4, <1>7 DEF LastAmt, AreSectors
<1> QED BY <1>2, <1>4, <1>8

\* The bytes that Holds tells of, sector by sector.
LEMMA HoldsSectors ==
  ASSUME TypeOK, NEW f \in Nat, NEW n \in Nat, offset = Bytes(f),
         Holds(disk, Bytes(n))
  PROVE  disk = SectorsStored(f, n)
<1>1. BlkSize \in Nat /\ Sectors \in Nat
  BY BlkIoAssumption
<1>2. /\ disk \in [0 .. Sectors - 1 -> [0 .. BlkSize - 1 -> Byte]]
      /\ disk0 \in [0 .. Sectors - 1 -> [0 .. BlkSize - 1 -> Byte]]
  BY DEF TypeOK
<1>3. ASSUME NEW s \in 0 .. Sectors - 1, NEW b \in 0 .. BlkSize - 1
      PROVE  disk[s][b] = IF s \in f .. f + n - 1
                            THEN input[Bytes(s - f) + b] ELSE disk0[s][b]
  <2>1. PICK p : p = Bytes(s) + b
    OBVIOUS
  <2>2. s \in Nat
    BY <1>1
  <2>3. p \in Nat /\ Sec(p) = s /\ Off(p) = b
    BY <2>1, <2>2, PositionOf
  <2>4. /\ p \in offset .. offset + Bytes(n) - 1 <=> s \in f .. f + n - 1
        /\ s >= f => p - offset = Bytes(s - f) + b
    BY <2>1, <2>2, SectorsOfRange
  <2>5. p \in DiskBytes
    <3>1. s + 1 \in Nat /\ Sectors >= s + 1
      BY <1>1
    <3>2. /\ Bytes(Sectors) >= Bytes(s + 1) /\ Bytes(s + 1) = Bytes(s) + BlkSize
          /\ Bytes(s) \in Nat /\ Bytes(Sectors) \in Nat
      BY <1>1, <2>2, <3>1, BytesAdd
    <3>3. Sectors * BlkSize = Bytes(Sectors)
      BY <1>1, SMT DEF Bytes
    <3> QED BY <1>1, <2>1, <2>3, <3>2, <3>3 DEF DiskBytes
  <2>6. ByteAt(disk, p) = IF p \in offset .. offset + Bytes(n) - 1
                            THEN input[p - offset] ELSE ByteAt(disk0, p)
    BY <2>5 DEF Holds
  <2>7. ByteAt(disk, p) = disk[s][b] /\ ByteAt(disk0, p) = disk0[s][b]
    BY <2>3, ByteAtSec
  <2>8. s \in f .. f + n - 1 => s >= f
    BY <2>2
  <2> QED BY <2>4, <2>6, <2>7, <2>8
<1>4. ASSUME NEW s \in 0 .. Sectors - 1
      PROVE  disk[s] = SectorsStored(f, n)[s]
  <2>1. CASE s \in f .. f + n - 1
    BY <1>2, <1>3, <2>1 DEF SectorsStored
  <2>2. CASE s \notin f .. f + n - 1
    <3>1. \A b \in 0 .. BlkSize - 1 : disk[s][b] = disk0[s][b]
      BY <1>3, <2>2
    <3>2. /\ disk[s] \in [0 .. BlkSize - 1 -> Byte]
          /\ disk0[s] \in [0 .. BlkSize - 1 -> Byte]
      BY <1>2
    <3>3. disk[s] = disk0[s]
      <4>1. PICK g, h : g = disk[s] /\ h = disk0[s]
        OBVIOUS
      <4>2. /\ g = [b \in 0 .. BlkSize - 1 |-> g[b]]
            /\ h = [b \in 0 .. BlkSize - 1 |-> h[b]]
        BY <3>2, <4>1
      <4>3. \A b \in 0 .. BlkSize - 1 : g[b] = h[b]
        BY <3>1, <4>1
      <4> QED BY <4>1, <4>2, <4>3
    <3> QED BY <2>2, <3>3 DEF SectorsStored
  <2> QED BY <2>1, <2>2
<1>5. SectorsStored(f, n) = [s \in 0 .. Sectors - 1 |-> SectorsStored(f, n)[s]]
  BY DEF SectorsStored
<1> QED BY <1>2, <1>4, <1>5

\* No step ends between two sectors of such a range.
LEMMA NextCountsSectors ==
  ASSUME RangesInv, CountsSectors, [Next]_vars
  PROVE  CountsSectors'
<1>1. CASE UNCHANGED <<offset, size, amt>>
  BY <1>1 DEF CountsSectors, AreSectors
<1>2. ASSUME NEW k, NEW off, NEW sz, NEW in, Start(k, off, sz, in)
      PROVE  CountsSectors'
  <2>1. Bytes(0) = 0
    BY BytesAdd
  <2>2. amt' = 0
    BY <1>2 DEF Start
  <2> QED BY <2>1, <2>2 DEF CountsSectors
<1>3. CASE ReadSectorDone \/ WriteSectorDone
  <2>1. amt < size /\ amt' = amt + LastAmt /\ UNCHANGED <<offset, size>>
    BY <1>3 DEF RangesInv, RangeInv, ReadSectorDone, WriteSectorDone, argVars
  <2> SUFFICES ASSUME NEW f \in Nat, NEW m \in Nat, AreSectors(f, m)
               PROVE  \E n \in 0 .. m : amt' = Bytes(n)
    BY <2>1 DEF CountsSectors, AreSectors
  <2>2. PICK n \in 0 .. m : amt = Bytes(n)
    BY DEF CountsSectors
  <2>3. n < m /\ amt + LastAmt = Bytes(n + 1)
    BY <2>1, <2>2, RoundTakesSector DEF RangesInv
  <2>4. n + 1 \in 0 .. m
    BY <2>3
  <2> QED BY <2>1, <2>3, <2>4
<1>4. CASE Step
  <2>1. \/ ReadSectorDone \/ WriteSectorDone \/ UNCHANGED <<offset, size, amt>>
    BY <1>4 DEF Step, Finish, ReadSector, ReadFailed, WriteFailed, Fail,
                ReadBeforeWriteDone, WriteSector, argVars
  <2> QED BY <1>1, <1>3, <2>1
<1>5. CASE Serve \/ UNCHANGED vars
  BY <1>1, <1>5 DEF Serve, vars, callVars
<1> QED BY <1>2, <1>4, <1>5 DEF Next, virtio_blk_read_sync, virtio_blk_write_sync

(***************************************************************************)
(* Ext2File sees a range of the block driver as a transfer of whole cells  *)
(* that may stop after some of them.  A call of virtio_blk_read_sync or    *)
(* virtio_blk_write_sync on whole sectors does end like that, whichever    *)
(* sector operation fails (src/blk.c).                                     *)
(***************************************************************************)
THEOREM TransfersSectors == Spec => []MovesSectors
<1>1. Init => CountsSectors
  <2> SUFFICES ASSUME Init PROVE CountsSectors
    OBVIOUS
  <2>1. Bytes(0) = 0
    BY BytesAdd
  <2>2. amt = 0
    BY DEF Init
  <2> QED BY <2>1, <2>2 DEF CountsSectors
<1>2. RangesInv /\ CountsSectors /\ [Next]_vars => CountsSectors'
  BY NextCountsSectors
<1>3. RangesInv /\ CountsSectors => MovesSectors
  <2> SUFFICES ASSUME RangesInv, CountsSectors, pc = "idle",
                      NEW f \in Nat, NEW m \in Nat, AreSectors(f, m)
               PROVE  \E n \in 0 .. m :
                        /\ ret = Bytes(n)
                        /\ kind = "write" =>
                             \/ disk = SectorsStored(f, n)
                             \/ n < m /\ disk = SectorsStored(f, n + 1)
                        /\ kind = "read" => disk = disk0
    BY DEF MovesSectors
  <2>1. PICK n \in 0 .. m : amt = Bytes(n)
    BY DEF CountsSectors
  <2>2. ret = Bytes(n) /\ n \in Nat /\ n + 1 \in Nat /\ offset = Bytes(f)
    BY <2>1 DEF RangesInv, RangeInv, AreSectors
  <2>3. kind = "read" => disk = disk0
    BY DEF RangesInv, ReadInv
  <2>4. CASE kind = "write" /\ Holds(disk, amt)
    <3>1. disk = SectorsStored(f, n)
      BY <2>1, <2>2, <2>4, HoldsSectors DEF RangesInv
    <3> QED BY <2>1, <2>2, <2>3, <3>1
  <2>5. CASE kind = "write" /\ amt < size /\ Holds(disk, amt + LastAmt)
    <3>1. n < m /\ amt + LastAmt = Bytes(n + 1)
      BY <2>1, <2>5, RoundTakesSector DEF RangesInv
    <3>2. disk = SectorsStored(f, n + 1)
      BY <2>2, <2>5, <3>1, HoldsSectors DEF RangesInv
    <3> QED BY <2>1, <2>2, <2>3, <3>1, <3>2
  <2>6. kind = "read" \/ kind = "write"
    BY DEF RangesInv, TypeOK
  <2>7. CASE kind = "read"
    BY <2>1, <2>2, <2>3, <2>7
  <2> QED BY <2>4, <2>5, <2>6, <2>7 DEF RangesInv, WriteInv
<1> QED BY <1>1, <1>2, <1>3, RangesInductive, PTL DEF Spec
=============================================================================
