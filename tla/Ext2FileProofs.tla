--------------------------- MODULE Ext2FileProofs ---------------------------
(***************************************************************************)
(* Proofs about Ext2File.  FileInv says, as long as no call went astray,   *)
(* how far the call is and what became of the inode; DataInv what became   *)
(* of the disk and the buffer if the range lies in blocks the file has.    *)
(***************************************************************************)
EXTENDS Ext2File, TLAPS

-----------------------------------------------------------------------------
(* The inductive invariant.                                                *)

InodeRecord == [i_block : [Index -> Block], i_atime : Nat, i_mtime : Nat]
CallRecord ==
  [op : {"read", "write"}, ino : Ino, pos : Nat, len : 0 .. MaxLen]

\* Only the times of an inode ever change.
Table(t) ==
  t \in [Ino -> InodeRecord] /\ \A i \in Ino : t[i].i_block = FileBlocks[i]

FileType ==
  /\ Table(inodes) /\ Table(inodes0) /\ calls \in Nat /\ call \in CallRecord
  /\ disk \in [Cell -> Int] /\ disk0 \in [Cell -> Int]
  /\ DOMAIN buf = 0 .. MaxLen - 1

\* The result so far: all of the range unless a transfer failed.
Outcome(n) == n \in -1 .. call.len /\ (~failed => n = call.len)

AtInode == pc = "inode" /\ inodes = inodes0 /\ done = 0 /\ ~failed
AtLoop ==
  /\ pc = "loop" /\ inodes = inodes0 /\ inode = inodes0[call.ino]
  /\ done \in 0 .. call.len /\ ~failed
AtStamp == pc = "stamp" /\ inodes = inodes0 /\ Outcome(result)
AtPut ==
  /\ pc = "put" /\ inodes = inodes0 /\ Outcome(result)
  /\ inode = Stamped(inodes0[call.ino])
AtIdle ==
  /\ pc = "idle" /\ Outcome(ret)
  /\ \E t \in {inodes0[call.ino], Stamped(inodes0[call.ino])} :
       /\ inodes = [inodes0 EXCEPT ![call.ino] = t]
       /\ ret >= 0 /\ (call.op = "write" \/ call.len > 0) =>
            t = Stamped(inodes0[call.ino])

FileInv == FileType /\ (AtInode \/ AtLoop \/ AtStamp \/ AtPut \/ AtIdle)

\* The cell of position p of the file, and that each of the range has one.
PlaceOf(p) == FileBlocks[call.ino][p \div BlockLen] * BlockLen + (p % BlockLen)
InFile ==
  \A p \in CallRange : /\ p \div BlockLen < Direct
                       /\ FileBlocks[call.ino][p \div BlockLen] \in 1 .. Wrap - 1

Others ==
  \A c \in Cell : call.op = "read" \/ c \notin {PlaceOf(p) : p \in CallRange} =>
                    disk[c] = disk0[c]

\* The first n cells of the range were transferred.
Moved(n) ==
  \A k \in 0 .. n - 1 :
    IF call.op = "read" THEN buf[k] = disk[PlaceOf(call.pos + k)]
                        ELSE disk[PlaceOf(call.pos + k)] = Written(k)

Untouched(p) == disk[PlaceOf(p)] = disk0[PlaceOf(p)]
\* Nothing behind them, or nothing behind the block they end in, was written.
CleanFrom(n) == \A p \in CallRange : p >= call.pos + n => Untouched(p)
CleanAfter(n) ==
  \A p \in CallRange :
    p \div BlockLen > (call.pos + n) \div BlockLen => Untouched(p)

\* No block is part of a file twice.
BlocksDistinct ==
  \A i \in Ino : \A a, b \in 0 .. Direct - 1 :
    FileBlocks[i][a] = FileBlocks[i][b] /\ FileBlocks[i][a] # 0 => a = b

CountInv ==
  /\ pc \in {"inode", "loop"} => Moved(done) /\ CleanFrom(done)
  /\ pc \in {"stamp", "put"} /\ result >= 0 => Moved(result) /\ CleanAfter(result)
  /\ pc = "idle" /\ ret >= 0 => Moved(ret) /\ CleanAfter(ret)

DataInv == InFile => Others /\ (BlocksDistinct => CountInv)

Inv == astray \/ (FileInv /\ DataInv)

-----------------------------------------------------------------------------
(* Blocks and cells.                                                       *)

\* Quotient and remainder.
LEMMA Division ==
  ASSUME NEW y \in Nat, NEW p \in Nat \ {0}
  PROVE  /\ y % p \in 0 .. p - 1 /\ y \div p \in Nat
         /\ (y \div p) * p = y - (y % p)
<1>1. y \div p \in Nat /\ y % p \in 0 .. p - 1
  BY SMT
<1>2. y % p = y - (y \div p) * p
  BY SMT
<1>3. \A m, n \in Int : n = y - m => m = y - n
  BY SMT
<1>4. \A q \in Nat : q * p \in Int
  BY SMT
<1>5. (y \div p) * p \in Int /\ y % p \in Int
  BY <1>1, <1>4
<1> QED BY <1>1, <1>2, <1>3, <1>5, Zenon

\* Two multiples of p less than p apart are the same.
LEMMA SameMultiple ==
  ASSUME NEW p \in Nat \ {0}, NEW a \in Int, NEW b \in Int,
         a * p - b * p < p, b * p - a * p < p
  PROVE  a = b
<1>1. \A c \in Int : c >= 1 => c * p >= p
  OBVIOUS
<1>2. (a - b) * p = a * p - b * p /\ (b - a) * p = b * p - a * p
  OBVIOUS
<1>3. a * p \in Int /\ b * p \in Int
  OBVIOUS
<1>4. ASSUME a > b PROVE FALSE
  <2>1. a - b \in Int /\ a - b >= 1
    BY <1>4
  <2>2. (a - b) * p >= p
    BY <1>1, <2>1
  <2> QED BY <1>2, <1>3, <2>2
<1>5. ASSUME b > a PROVE FALSE
  <2>1. b - a \in Int /\ b - a >= 1
    BY <1>5
  <2>2. (b - a) * p >= p
    BY <1>1, <2>1
  <2> QED BY <1>2, <1>3, <2>2
<1> QED BY <1>4, <1>5

\* A cell is in one block only, at one place.
LEMMA OneBlock ==
  ASSUME NEW b \in Nat \ {0}, NEW m \in Nat, NEW n \in Nat,
         NEW r \in 0 .. b - 1, NEW s \in 0 .. b - 1, m * b + r = n * b + s
  PROVE  m = n /\ r = s
<1>1. m * b \in Int /\ n * b \in Int
  OBVIOUS
<1>2. m * b - n * b < b /\ n * b - m * b < b
  BY <1>1
<1>3. m = n
  BY <1>2, SameMultiple
<1> QED BY <1>1, <1>3

\* A position is in its block, at its offset.
LEMMA Decompose ==
  ASSUME NEW x \in Nat, NEW b \in Nat \ {0}
  PROVE  /\ x \div b \in Nat /\ x % b \in 0 .. b - 1
         /\ x = (x \div b) * b + (x % b)
<1>1. x \div b \in Nat /\ x % b \in 0 .. b - 1 /\ (x \div b) * b = x - (x % b)
  BY Division
<1>2. \A q, r \in Int : q = x - r => x = q + r
  OBVIOUS
<1>3. \A q \in Nat : q * b \in Int
  OBVIOUS
<1>4. (x \div b) * b \in Int /\ x % b \in Int
  BY <1>1, <1>3
<1> QED BY <1>1, <1>2, <1>4, Zenon

\* Positions further on in the same block.
LEMMA WithinBlock ==
  ASSUME NEW x \in Nat, NEW b \in Nat \ {0}, NEW j \in Nat, (x % b) + j < b
  PROVE  (x + j) \div b = x \div b /\ (x + j) % b = (x % b) + j
<1>1. PICK q \in Nat, r \in 0 .. b - 1 :
        q = x \div b /\ r = x % b /\ x = q * b + r
  BY Decompose
<1>2. PICK y \in Nat : y = x + j
  OBVIOUS
<1>3. PICK m \in Nat, s \in 0 .. b - 1 :
        m = y \div b /\ s = y % b /\ y = m * b + s
  BY Decompose
<1>4. r + j \in 0 .. b - 1
  BY <1>1
<1>5. x = q * b + r
  BY <1>1
<1>6. y = m * b + s
  BY <1>3
<1>7. m * b + s = q * b + (r + j)
  BY <1>2, <1>5, <1>6
<1>8. m = q /\ s = r + j
  BY <1>4, <1>7, OneBlock
<1> QED BY <1>1, <1>2, <1>3, <1>8, Zenon

\* Later positions are not in earlier blocks.
LEMMA BlocksInOrder ==
  ASSUME NEW x \in Nat, NEW y \in Nat, NEW b \in Nat \ {0}, x <= y
  PROVE  x \div b <= y \div b
<1>1. PICK q \in Nat, r \in 0 .. b - 1 : q = x \div b /\ x = q * b + r
  BY Decompose
<1>2. PICK m \in Nat, s \in 0 .. b - 1 : m = y \div b /\ y = m * b + s
  BY Decompose
<1>3. x = q * b + r
  BY <1>1
<1>4. y = m * b + s
  BY <1>2
<1>5. ASSUME m < q PROVE FALSE
  <2>1. PICK d \in Nat : q = m + 1 + d
    BY <1>5
  <2>2. q * b = m * b + b + d * b /\ d * b \in Nat /\ m * b \in Nat
    BY <2>1
  <2> QED BY <1>3, <1>4, <2>2
<1>6. q <= m
  BY <1>5
<1> QED BY <1>1, <1>2, <1>6, Zenon

\* A number below the wrap is not changed by it.
LEMMA NoWrap ==
  ASSUME NEW w \in Nat \ {0}, NEW n \in 0 .. w - 1
  PROVE  n % w = n
<1>0. n \in Nat
  OBVIOUS
<1>1. PICK q \in Nat, r \in 0 .. w - 1 : r = n % w /\ n = q * w + r
  BY <1>0, Decompose
<1>2. 0 * w + n = q * w + r
  BY <1>1
<1>3. n = r
  BY <1>2, OneBlock
<1> QED BY <1>1, <1>3, Zenon

\* The types of the constants.
LEMMA ConstantTypes ==
  /\ BlockLen \in Nat \ {0} /\ Blocks \in Nat \ {0} /\ Wrap \in Nat \ {0}
  /\ IBlocks \in Nat /\ Direct \in 0 .. IBlocks /\ MaxLen \in Nat
BY Ext2FileAssumption

\* A block on the disk has its cells on the disk.
LEMMA CellOnDisk ==
  ASSUME NEW no \in Block, NEW off \in 0 .. BlockLen - 1
  PROVE  no * BlockLen + off \in Cell
<1>1. BlockLen \in Nat \ {0} /\ Blocks \in Nat \ {0} /\ no \in Nat
  BY ConstantTypes DEF Block
<1>2. PICK d \in Nat : Blocks = no + 1 + d
  BY <1>1 DEF Block
<1>3. /\ Blocks * BlockLen = no * BlockLen + BlockLen + d * BlockLen
      /\ d * BlockLen \in Nat /\ no * BlockLen \in Nat
  BY <1>1, <1>2
<1> QED BY <1>1, <1>3 DEF Cell

\* Where a position of the range is: in a block of the file on the disk.
LEMMA PlaceFacts ==
  ASSUME call \in CallRecord, InFile, NEW p \in CallRange
  PROVE  /\ p \in Nat /\ p \div BlockLen \in 0 .. Direct - 1
         /\ p \div BlockLen \in Index
         /\ FileBlocks[call.ino][p \div BlockLen] \in Block
         /\ FileBlocks[call.ino][p \div BlockLen] \in 1 .. Wrap - 1
         /\ p % BlockLen \in 0 .. BlockLen - 1
         /\ PlaceOf(p) \in Cell
<1>1. p \in Nat /\ call.ino \in Ino
  BY DEF CallRecord, CallRange
<1>2. PICK q, r : q = p \div BlockLen /\ r = p % BlockLen
  OBVIOUS
<1>3. q \in Nat /\ r \in 0 .. BlockLen - 1
  BY <1>1, <1>2, ConstantTypes, Decompose, Zenon
<1>4. q < Direct /\ FileBlocks[call.ino][q] \in 1 .. Wrap - 1
  BY <1>2, Zenon DEF InFile
<1>5. q \in 0 .. Direct - 1 /\ q \in Index
  BY <1>3, <1>4, ConstantTypes DEF Index
<1>6. FileBlocks[call.ino][q] \in Block
  BY <1>1, <1>5, Ext2FileAssumption
<1>7. FileBlocks[call.ino][q] * BlockLen + r \in Cell
  BY <1>3, <1>6, CellOnDisk
<1> QED BY <1>1, <1>2, <1>3, <1>4, <1>5, <1>6, <1>7, Zenon DEF PlaceOf

\* Two positions of the range are two cells.
LEMMA PlacesApart ==
  ASSUME call \in CallRecord, InFile, BlocksDistinct,
         NEW p \in CallRange, NEW o \in CallRange, PlaceOf(p) = PlaceOf(o)
  PROVE  p = o
<1>1. PICK q, r, m, s : /\ q = p \div BlockLen /\ r = p % BlockLen
                        /\ m = o \div BlockLen /\ s = o % BlockLen
  OBVIOUS
<1>2. PICK f, g : f = FileBlocks[call.ino][q] /\ g = FileBlocks[call.ino][m]
  OBVIOUS
<1>3. /\ q \in 0 .. Direct - 1 /\ r \in 0 .. BlockLen - 1 /\ f \in 1 .. Wrap - 1
      /\ m \in 0 .. Direct - 1 /\ s \in 0 .. BlockLen - 1 /\ g \in 1 .. Wrap - 1
      /\ p \in Nat /\ o \in Nat /\ f \in Block /\ g \in Block
  BY <1>1, <1>2, PlaceFacts, Zenon
<1>4. f * BlockLen + r = g * BlockLen + s
  BY <1>1, <1>2, Zenon DEF PlaceOf
<1>5. f = g /\ r = s
  <2>1. f \in Nat /\ g \in Nat /\ BlockLen \in Nat \ {0}
    BY <1>3, ConstantTypes
  <2> QED BY <1>3, <1>4, <2>1, OneBlock
<1>6. q = m
  <2>1. f # 0 /\ call.ino \in Ino
    BY <1>3, ConstantTypes DEF CallRecord
  <2> QED BY <1>2, <1>3, <1>5, <2>1 DEF BlocksDistinct
<1>7. p = q * BlockLen + r /\ o = m * BlockLen + s
  BY <1>1, <1>3, ConstantTypes, Decompose, Zenon
<1> QED BY <1>5, <1>6, <1>7, Zenon

\* What the loop transfers next is in the file, in one block.
LEMMA TransferPlace ==
  ASSUME FileType, AtLoop, InFile, MoreToDo, NEW no \in BlockNos
  PROVE  /\ NextLen \in 1 .. call.len - done
         /\ \A j \in 0 .. NextLen - 1 :
              /\ call.pos + done + j \in CallRange
              /\ PlaceOf(call.pos + done + j) = StartCell(no) + j
              /\ (call.pos + done + j) \div BlockLen =
                   (call.pos + done) \div BlockLen
         /\ StartCell(no) \in Nat
<1>1. PICK x, n : x = call.pos + done /\ n = NextLen
  OBVIOUS
<1>2. /\ call \in CallRecord /\ call.ino \in Ino /\ call.pos \in Nat
      /\ call.len \in Nat /\ done \in Nat /\ done < call.len
      /\ x \in Nat /\ x \in CallRange
  BY <1>1, ConstantTypes DEF FileType, CallRecord, AtLoop, MoreToDo, CallRange
<1>3. PICK q, r : q = x \div BlockLen /\ r = x % BlockLen
  OBVIOUS
<1>4. PICK b : b = FileBlocks[call.ino][q]
  OBVIOUS
<1>5. /\ q \in Index /\ r \in 0 .. BlockLen - 1 /\ b \in 1 .. Wrap - 1
  BY <1>2, <1>3, <1>4, PlaceFacts, Zenon
<1>6. no = b
  <2>1. inode.i_block = FileBlocks[call.ino]
    BY <1>2 DEF FileType, AtLoop, Table
  <2>2. BlockIdx = q
    BY <1>1, <1>3, Zenon DEF BlockIdx
  <2> QED BY <1>4, <1>5, <2>1, <2>2 DEF BlockNos
<1>7. /\ n \in 1 .. call.len - done /\ r + n <= BlockLen
  <2>1. n = IF call.len - done < BlockLen - r THEN call.len - done ELSE BlockLen - r
    BY <1>1, <1>3, Zenon DEF NextLen, BlockOffset
  <2> QED BY <1>2, <1>5, <2>1, ConstantTypes
<1>8. StartCell(no) = b * BlockLen + r /\ StartCell(no) \in Nat
  <2>1. no % Wrap = b
    BY <1>5, <1>6, ConstantTypes, NoWrap
  <2>2. StartCell(no) = b * BlockLen + r
    BY <1>1, <1>3, <2>1, Zenon DEF StartCell, BlockOffset
  <2>3. b * BlockLen + r \in Nat
    BY <1>5, ConstantTypes
  <2> QED BY <2>2, <2>3, Zenon
<1>9. ASSUME NEW j \in 0 .. n - 1
      PROVE  /\ x + j \in CallRange
             /\ PlaceOf(x + j) = StartCell(no) + j
             /\ (x + j) \div BlockLen = x \div BlockLen
  <2>1. j \in Nat /\ r + j < BlockLen /\ x + j \in CallRange
    BY <1>1, <1>2, <1>5, <1>7, ConstantTypes DEF CallRange
  <2>2. (x + j) \div BlockLen = q /\ (x + j) % BlockLen = r + j
    BY <1>2, <1>3, <2>1, ConstantTypes, WithinBlock, Zenon
  <2>3. PlaceOf(x + j) = b * BlockLen + (r + j)
    BY <1>4, <2>2, Zenon DEF PlaceOf
  <2>4. b * BlockLen + (r + j) = b * BlockLen + r + j
    BY <1>5, <2>1, ConstantTypes
  <2> QED BY <1>3, <1>8, <2>1, <2>2, <2>3, <2>4, Zenon
<1> QED BY <1>1, <1>7, <1>8, <1>9, Zenon

-----------------------------------------------------------------------------
(* Steps that move no data.                                                *)

\* What is said of the data depends on disk, buffer and call only.
LEMMA DataFrame ==
  ASSUME UNCHANGED <<disk, disk0, call, buf>>
  PROVE  /\ InFile' <=> InFile
         /\ Others' <=> Others
         /\ \A n : /\ Moved(n)' <=> Moved(n)
                   /\ CleanFrom(n)' <=> CleanFrom(n)
                   /\ CleanAfter(n)' <=> CleanAfter(n)
<1>1. \A p : PlaceOf(p)' = PlaceOf(p)
  BY DEF PlaceOf
<1>2. CallRange' = CallRange
  BY DEF CallRange
<1>3. \A p : Untouched(p)' <=> Untouched(p)
  BY <1>1 DEF Untouched
<1>4. InFile' <=> InFile
  BY <1>2 DEF InFile
<1>5. Others' <=> Others
  BY <1>1, <1>2 DEF Others
<1>6. \A n : Moved(n)' <=> Moved(n)
  BY <1>1 DEF Moved
<1>7. \A n : /\ CleanFrom(n)' <=> CleanFrom(n)
             /\ CleanAfter(n)' <=> CleanAfter(n)
  BY <1>2, <1>3 DEF CleanFrom, CleanAfter
<1> QED BY <1>4, <1>5, <1>6, <1>7

\* So does the type.
LEMMA TypeFrame ==
  ASSUME FileType, UNCHANGED <<disk, disk0, call, inodes, inodes0, calls>>,
         DOMAIN buf' = DOMAIN buf
  PROVE  FileType'
BY DEF FileType, Table

\* What is behind the range transferred so far is behind its block, or in it.
LEMMA CleanWeaker ==
  ASSUME call \in CallRecord, NEW n \in Nat, CleanFrom(n)
  PROVE  CleanAfter(n)
<1> SUFFICES ASSUME NEW p \in CallRange,
                    p \div BlockLen > (call.pos + n) \div BlockLen
             PROVE  Untouched(p)
  BY DEF CleanAfter
<1>1. PICK x : x = call.pos + n
  OBVIOUS
<1>2. p \in Nat /\ x \in Nat
  BY <1>1 DEF CallRecord, CallRange
<1>3. PICK q, m : q = p \div BlockLen /\ m = x \div BlockLen
  OBVIOUS
<1>4. q > m /\ q \in Nat /\ m \in Nat
  BY <1>1, <1>2, <1>3, ConstantTypes, Decompose, Zenon
<1>5. p <= x => q <= m
  BY <1>2, <1>3, ConstantTypes, BlocksInOrder, Zenon
<1>6. p >= x
  BY <1>2, <1>4, <1>5
<1> QED BY <1>1, <1>6 DEF CleanFrom

\* The time stamp leaves i_block alone.
LEMMA StampedType ==
  ASSUME FileType, Table(inodes0), NEW t \in {inodes0[call.ino], Stamped(inodes0[call.ino])}
  PROVE  /\ Table([inodes0 EXCEPT ![call.ino] = t])
         /\ call.ino \in Ino
         /\ [inodes0 EXCEPT ![call.ino] = t][call.ino] = t
         /\ [inodes0 EXCEPT ![call.ino] = inodes0[call.ino]] = inodes0
<1>1. call.ino \in Ino /\ calls \in Nat
  BY DEF FileType, CallRecord
<1>2. inodes0 \in [Ino -> InodeRecord] /\ inodes0[call.ino].i_block = FileBlocks[call.ino]
  BY <1>1 DEF Table
<1>3. PICK i : i = inodes0[call.ino]
  OBVIOUS
<1>4. i \in InodeRecord /\ i.i_block = FileBlocks[call.ino]
  BY <1>1, <1>2, <1>3
<1>5. Stamped(i) \in InodeRecord /\ Stamped(i).i_block = i.i_block
  BY <1>1, <1>4 DEF Stamped, InodeRecord
<1>6. t \in InodeRecord /\ t.i_block = FileBlocks[call.ino]
  BY <1>3, <1>4, <1>5, Zenon
<1>7. Table([inodes0 EXCEPT ![call.ino] = t])
  BY <1>1, <1>2, <1>6 DEF Table
<1> QED BY <1>1, <1>2, <1>7

\* Before the first call, disk and inodes are the ones the call is compared with.
LEMMA InitInv ==
  ASSUME Init PROVE Inv
<1> USE DEF Init
<1>1. call.ino \in Ino /\ call \in CallRecord /\ call.len = 0 /\ call.op = "read"
      /\ call.pos = 0
  BY Ext2FileAssumption DEF CallRecord
<1>2. Table(inodes) /\ Table(inodes0)
  BY Ext2FileAssumption DEF Table, Inode, InodeRecord
<1>3. disk \in [Cell -> Int] /\ disk0 = disk
  BY ConstantTypes DEF Cell
<1>4. FileType
  BY <1>1, <1>2, <1>3 DEF FileType, NoBuf
<1>5. AtIdle
  <2>1. Outcome(ret)
    BY <1>1 DEF Outcome
  <2>2. [inodes0 EXCEPT ![call.ino] = inodes0[call.ino]] = inodes0
    BY <1>1, <1>2 DEF Table
  <2> QED BY <1>1, <2>1, <2>2 DEF AtIdle
<1>6. CallRange = {}
  BY <1>1 DEF CallRange
<1>7. Others /\ Moved(0) /\ CleanAfter(0)
  BY <1>3, <1>6 DEF Others, Moved, CleanAfter
<1>8. CountInv
  BY <1>7 DEF CountInv
<1> QED BY <1>4, <1>5, <1>7, <1>8 DEF Inv, FileInv, DataInv

\* A call begins with nothing done.
LEMMA BeginFacts ==
  ASSUME Inv, NEW c \in CallRecord, Begin(c), UNCHANGED <<disk, inodes>>
  PROVE  /\ FileType' /\ Others' /\ Moved(0)' /\ CleanFrom(0)' /\ CleanAfter(0)'
         /\ call' = c /\ ~failed' /\ done' = 0 /\ inodes0' = inodes
         /\ ~astray' /\ FileInv
<1>1. FileInv /\ call' = c /\ disk0' = disk /\ inodes0' = inodes /\ done' = 0
      /\ ~failed' /\ ~astray' /\ buf' = NoBuf /\ calls' = calls + 1
  BY DEF Inv, Begin
<1>2. FileType'
  BY <1>1 DEF FileInv, FileType, Table, NoBuf
<1>3. Others' /\ Moved(0)' /\ CleanFrom(0)' /\ CleanAfter(0)'
  BY <1>1 DEF Others, Moved, CleanFrom, CleanAfter, Untouched
<1> QED BY <1>1, <1>2, <1>3

\* The handlers.
LEMMA HandlerInv ==
  ASSUME Inv, NEW i \in Ino, NEW pos \in Pos,
         \/ disk_read_nothing(i, pos)
         \/ \E len \in Size :
              disk_read_handler(i, pos, len) \/ disk_write_handler(i, pos, len)
  PROVE  Inv'
<1>1. CASE disk_read_nothing(i, pos)
  <2>1. PICK c : c = [op |-> "read", ino |-> i, pos |-> pos, len |-> 0]
    OBVIOUS
  <2>2. c \in CallRecord /\ c.op = "read" /\ c.len = 0 /\ c.ino = i
    BY <2>1, Ext2FileAssumption DEF CallRecord
  <2>3. Begin(c) /\ ret' = 0 /\ UNCHANGED <<disk, inodes, pc>> /\ pc = "idle"
    BY <1>1, <2>1 DEF disk_read_nothing, Begin, diskVars
  <2>4. /\ FileType' /\ Others' /\ Moved(0)' /\ CleanAfter(0)' /\ call' = c
        /\ ~failed' /\ inodes0' = inodes /\ FileInv
    BY <2>2, <2>3, BeginFacts
  <2>5. AtIdle'
    <3>1. Outcome(ret)'
      BY <2>2, <2>3, <2>4 DEF Outcome
    <3>2. [inodes0' EXCEPT ![i] = inodes0'[i]] = inodes0'
      BY <2>4 DEF FileType, Table
    <3> QED BY <2>2, <2>3, <2>4, <3>1, <3>2 DEF AtIdle
  <2>6. CountInv'
    BY <2>3, <2>4 DEF CountInv
  <2> QED BY <2>4, <2>5, <2>6 DEF Inv, FileInv, DataInv
<1>2. ASSUME NEW len \in Size,
             disk_read_handler(i, pos, len) \/ disk_write_handler(i, pos, len)
      PROVE  Inv'
  <2>1. PICK c \in CallRecord :
          Begin(c) /\ UNCHANGED <<disk, inodes>> /\ pc' = "inode"
    <3>1. /\ [op |-> "read", ino |-> i, pos |-> pos, len |-> len] \in CallRecord
          /\ [op |-> "write", ino |-> i, pos |-> pos, len |-> len] \in CallRecord
      BY Ext2FileAssumption DEF CallRecord
    <3> QED BY <1>2, <3>1 DEF disk_read_handler, disk_write_handler, diskVars
  <2>2. /\ FileType' /\ Others' /\ Moved(0)' /\ CleanFrom(0)' /\ call' = c
        /\ ~failed' /\ inodes0' = inodes /\ done' = 0
    BY <2>1, BeginFacts
  <2>3. AtInode'
    BY <2>1, <2>2 DEF AtInode
  <2>4. CountInv'
    BY <2>1, <2>2 DEF CountInv
  <2> QED BY <2>2, <2>3, <2>4 DEF Inv, FileInv, DataInv
<1> QED BY <1>1, <1>2

\* The inode is read, or its block cannot be.
LEMMA InodeReadInv ==
  ASSUME FileInv, DataInv, InodeRead \/ InodeNotRead PROVE FileInv' /\ DataInv'
<1>1. FileType /\ AtInode
  BY DEF FileInv, InodeRead, InodeNotRead, AtInode, AtLoop, AtStamp, AtPut, AtIdle
<1>2. UNCHANGED <<disk, disk0, call, buf, inodes, inodes0, calls, done>>
  BY DEF InodeRead, InodeNotRead, diskVars, callVars
<1>3. FileType'
  BY <1>1, <1>2, TypeFrame
<1>4. CASE InodeRead
  <2>1. pc' = "loop" /\ inode' = inodes[call.ino] /\ failed' = failed
    BY <1>4 DEF InodeRead
  <2>2. AtLoop'
    BY <1>1, <1>2, <2>1 DEF AtInode, AtLoop, FileType, CallRecord
  <2>3. pc = "inode"
    BY <1>4 DEF InodeRead
  <2>4. InFile' => Others' /\ (BlocksDistinct => Moved(done)' /\ CleanFrom(done)')
    BY <1>2, <2>3, DataFrame DEF DataInv, CountInv
  <2>5. DataInv'
    BY <2>1, <2>4 DEF DataInv, CountInv
  <2> QED BY <1>3, <2>2, <2>5 DEF FileInv
<1>5. CASE InodeNotRead
  <2>1. pc' = "stamp" /\ result' = -1 /\ failed' = TRUE
    BY <1>5 DEF InodeNotRead, Transferred
  <2>2. AtStamp'
    <3>1. Outcome(result)'
      BY <1>1, <1>2, <2>1 DEF Outcome, FileType, CallRecord
    <3> QED BY <1>1, <1>2, <2>1, <3>1 DEF AtInode, AtStamp
  <2>3. DataInv'
    BY <1>2, <2>1, DataFrame DEF DataInv, CountInv
  <2> QED BY <1>3, <2>2, <2>3 DEF FileInv
<1> QED BY <1>4, <1>5

\* The loop ends.
LEMMA EndsInv ==
  ASSUME FileInv, DataInv, TransferEnds PROVE FileInv' /\ DataInv'
<1>1. FileType /\ AtLoop
  BY DEF FileInv, TransferEnds, AtInode, AtLoop, AtStamp, AtPut, AtIdle
<1>2. UNCHANGED <<disk, disk0, call, buf, inodes, inodes0, calls, failed>>
      /\ pc' = "stamp" /\ result' = call.len /\ ~MoreToDo
  BY DEF TransferEnds, Transferred, diskVars, callVars
<1>3. FileType'
  BY <1>1, <1>2, TypeFrame
<1>4. done = call.len /\ call.len \in Nat /\ call \in CallRecord
  BY <1>1, <1>2, ConstantTypes DEF AtLoop, MoreToDo, FileType, CallRecord
<1>5. AtStamp'
  <2>1. Outcome(result)'
    BY <1>2, <1>4 DEF Outcome
  <2> QED BY <1>1, <1>2, <2>1 DEF AtLoop, AtStamp
<1>6. PICK n : n = call.len
  OBVIOUS
<1>7. InFile' => Others' /\ (BlocksDistinct => Moved(n)' /\ CleanAfter(n)')
  <2>1. InFile => Others /\ (BlocksDistinct => Moved(n) /\ CleanFrom(n))
    BY <1>1, <1>4, <1>6 DEF AtLoop, DataInv, CountInv
  <2>2. CleanFrom(n) => CleanAfter(n)
    BY <1>4, <1>6, CleanWeaker
  <2> QED BY <1>2, <2>1, <2>2, DataFrame
<1>8. DataInv'
  BY <1>2, <1>6, <1>7 DEF DataInv, CountInv
<1> QED BY <1>3, <1>5, <1>8 DEF FileInv

\* The inode is read for the time stamp, or cannot be.
LEMMA StampInv ==
  ASSUME FileInv, DataInv, StampRead \/ StampNotRead PROVE FileInv' /\ DataInv'
<1>1. FileType /\ AtStamp
  BY DEF FileInv, StampRead, StampNotRead, AtInode, AtLoop, AtStamp, AtPut, AtIdle
<1>2. UNCHANGED <<disk, disk0, call, buf, inodes, inodes0, calls>>
  BY DEF StampRead, StampNotRead, diskVars, callVars
<1>3. FileType'
  BY <1>1, <1>2, TypeFrame
<1>4. CASE StampRead
  <2>1. pc' = "put" /\ inode' = Stamped(inodes[call.ino])
        /\ UNCHANGED <<result, failed>>
    BY <1>4 DEF StampRead
  <2>2. AtPut'
    <3>1. Outcome(result)'
      BY <1>1, <1>2, <2>1 DEF AtStamp, Outcome
    <3>2. Stamped(inodes0[call.ino])' = Stamped(inodes0[call.ino])
      BY <1>2 DEF Stamped
    <3> QED BY <1>1, <1>2, <2>1, <3>1, <3>2 DEF AtStamp, AtPut
  <2>3. DataInv'
    <3>1. pc = "stamp"
      BY <1>4 DEF StampRead
    <3>2. PICK n : n = result
      OBVIOUS
    <3>3. InFile => Others /\ (BlocksDistinct /\ n >= 0 => Moved(n) /\ CleanAfter(n))
      BY <3>1, <3>2 DEF DataInv, CountInv
    <3>4. InFile' => Others' /\ (BlocksDistinct /\ n >= 0 => Moved(n)' /\ CleanAfter(n)')
      BY <1>2, <3>3, DataFrame
    <3> QED BY <2>1, <3>2, <3>4 DEF DataInv, CountInv
  <2> QED BY <1>3, <2>2, <2>3 DEF FileInv
<1>5. CASE StampNotRead
  <2>1. pc' = "idle" /\ ret' = -1 /\ failed' = TRUE
    BY <1>5 DEF StampNotRead, Return
  <2>2. AtIdle'
    <3>1. Outcome(ret)'
      BY <1>1, <1>2, <2>1 DEF Outcome, FileType, CallRecord
    <3>2. inodes' = [inodes0' EXCEPT ![call'.ino] = inodes0'[call'.ino]]
      BY <1>1, <1>2 DEF AtStamp, FileType, Table, CallRecord
    <3> QED BY <2>1, <3>1, <3>2 DEF AtIdle
  <2>3. DataInv'
    BY <1>2, <2>1, DataFrame DEF DataInv, CountInv
  <2> QED BY <1>3, <2>2, <2>3 DEF FileInv
<1> QED BY <1>4, <1>5

\* The inode is written, or its write fails and may have been made.
LEMMA PutInv ==
  ASSUME FileInv, DataInv, InodePut \/ InodeNotPut PROVE FileInv' /\ DataInv'
<1>1. FileType /\ AtPut
  BY DEF FileInv, InodePut, InodeNotPut, AtInode, AtLoop, AtStamp, AtPut, AtIdle
<1>2. UNCHANGED <<disk, disk0, call, buf, inodes0, calls>> /\ pc' = "idle"
  BY DEF InodePut, InodeNotPut, callVars, Return
<1>3. PICK t : t = Stamped(inodes0[call.ino])
  OBVIOUS
<1>4. PICK s : s = inodes0[call.ino]
  OBVIOUS
<1>5. /\ Table([inodes0 EXCEPT ![call.ino] = t])
      /\ [inodes0 EXCEPT ![call.ino] = s] = inodes0 /\ Table(inodes0)
  BY <1>1, <1>3, <1>4, StampedType DEF FileType
<1>6. t = Stamped(inodes0[call.ino])' /\ s = inodes0'[call'.ino]
  BY <1>2, <1>3, <1>4 DEF Stamped
<1>7. CASE InodePut
  <2>1. inodes' = [inodes0 EXCEPT ![call.ino] = t] /\ ret' = result
        /\ failed' = failed
    BY <1>1, <1>3, <1>7 DEF InodePut, Return, AtPut
  <2>2. FileType'
    BY <1>1, <1>2, <1>5, <2>1 DEF FileType
  <2>3. AtIdle'
    <3>1. Outcome(ret)'
      BY <1>1, <1>2, <2>1 DEF AtPut, Outcome
    <3> QED BY <1>2, <1>6, <2>1, <3>1 DEF AtIdle
  <2>4. DataInv'
    <3>1. pc = "put"
      BY <1>7 DEF InodePut
    <3>2. PICK n : n = result
      OBVIOUS
    <3>3. InFile => Others /\ (BlocksDistinct /\ n >= 0 => Moved(n) /\ CleanAfter(n))
      BY <3>1, <3>2 DEF DataInv, CountInv
    <3>4. InFile' => Others' /\ (BlocksDistinct /\ n >= 0 => Moved(n)' /\ CleanAfter(n)')
      BY <1>2, <3>3, DataFrame
    <3> QED BY <1>2, <2>1, <3>2, <3>4 DEF DataInv, CountInv
  <2> QED BY <2>2, <2>3, <2>4 DEF FileInv
<1>8. CASE InodeNotPut
  <2>1. /\ inodes' = inodes0 \/ inodes' = [inodes0 EXCEPT ![call.ino] = t]
        /\ ret' = -1 /\ failed' = TRUE
    BY <1>1, <1>3, <1>8 DEF InodeNotPut, Return, AtPut
  <2>2. FileType'
    BY <1>1, <1>2, <1>5, <2>1 DEF FileType
  <2>3. AtIdle'
    <3>1. Outcome(ret)'
      BY <1>1, <1>2, <2>1 DEF Outcome, FileType, CallRecord
    <3>2. PICK x \in {s, t} : inodes' = [inodes0 EXCEPT ![call.ino] = x]
      BY <1>5, <2>1
    <3>3. /\ inodes' = [inodes0' EXCEPT ![call'.ino] = x]
          /\ x \in {inodes0[call.ino], Stamped(inodes0[call.ino])}'
      BY <1>2, <1>6, <3>2, Zenon
    <3>4. ~(ret' >= 0)
      BY <2>1
    <3> QED BY <1>2, <3>1, <3>3, <3>4, Zenon DEF AtIdle
  <2>4. DataInv'
    BY <1>2, <2>1, DataFrame DEF DataInv, CountInv
  <2> QED BY <2>2, <2>3, <2>4 DEF FileInv
<1> QED BY <1>7, <1>8

-----------------------------------------------------------------------------
(* Transfers.                                                              *)

\* The cells that a write stores to, and those it leaves.
LEMMA StoredFacts ==
  ASSUME FileType, AtLoop, InFile, MoreToDo, NEW no \in BlockNos,
         NEW m \in 0 .. NextLen, NEW d, d = Stored(StartCell(no), m)
  PROVE  /\ d \in [Cell -> Int]
         /\ \A c \in Cell : c \notin {PlaceOf(p) : p \in CallRange} => d[c] = disk[c]
         /\ BlocksDistinct =>
              \A p \in CallRange :
                IF p \in call.pos + done .. call.pos + done + m - 1
                  THEN d[PlaceOf(p)] = Written(p - call.pos)
                  ELSE d[PlaceOf(p)] = disk[PlaceOf(p)]
<1>1. PICK x, n, start : x = call.pos + done /\ n = NextLen /\ start = StartCell(no)
  OBVIOUS
<1>2. /\ n \in 1 .. call.len - done /\ start \in Nat
      /\ \A j \in 0 .. n - 1 :
           x + j \in CallRange /\ PlaceOf(x + j) = start + j
  BY <1>1, TransferPlace
<1>3. /\ call \in CallRecord /\ call.pos \in Nat /\ call.len \in Nat
      /\ done \in Nat /\ x \in Nat /\ n \in Nat /\ m \in Nat /\ m <= n
  BY <1>1, <1>2, ConstantTypes DEF FileType, CallRecord, AtLoop
<1>4. d = [c \in Cell |-> IF c \in start .. start + m - 1
                            THEN Written(done + c - start) ELSE disk[c]]
  BY <1>1 DEF Stored
<1>5. d \in [Cell -> Int]
  <2>1. \A c \in Cell : c \in Int
    BY ConstantTypes DEF Cell
  <2>2. \A c \in Cell : Written(done + c - start) \in Int
    BY <1>2, <1>3, <2>1 DEF Written
  <2> QED BY <1>4, <2>2 DEF FileType
<1>6. ASSUME NEW c \in start .. start + m - 1
      PROVE  c - start \in 0 .. n - 1 /\ c = PlaceOf(x + (c - start))
             /\ x + (c - start) \in CallRange
             /\ x + (c - start) \in x .. x + m - 1
  <2>1. PICK j : j = c - start
    OBVIOUS
  <2>2. j \in 0 .. n - 1 /\ start + j = c /\ x + j \in x .. x + m - 1
    BY <1>2, <1>3, <2>1
  <2> QED BY <1>2, <2>1, <2>2
<1>7. \A c \in Cell : c \notin {PlaceOf(p) : p \in CallRange} => d[c] = disk[c]
  BY <1>4, <1>6
<1>8. ASSUME BlocksDistinct, NEW p \in CallRange
      PROVE  IF p \in x .. x + m - 1
               THEN d[PlaceOf(p)] = Written(p - call.pos)
               ELSE d[PlaceOf(p)] = disk[PlaceOf(p)]
  <2>1. PlaceOf(p) \in Cell /\ p \in Nat
    BY <1>3, PlaceFacts
  <2>2. CASE p \in x .. x + m - 1
    <3>1. PICK j \in 0 .. n - 1 : p = x + j /\ j \in 0 .. m - 1
      <4>1. p - x \in 0 .. n - 1 /\ p = x + (p - x) /\ p - x \in 0 .. m - 1
        BY <1>3, <2>1, <2>2
      <4> QED BY <4>1
    <3>2. PlaceOf(p) = start + j
      BY <1>2, <3>1
    <3>3. start + j \in start .. start + m - 1 /\ done + (start + j) - start = p - call.pos
      BY <1>1, <1>2, <1>3, <3>1
    <3>4. d[start + j] = Written(p - call.pos)
      BY <1>4, <2>1, <3>2, <3>3
    <3> QED BY <2>2, <3>2, <3>4
  <2>3. CASE p \notin x .. x + m - 1
    <3>1. PlaceOf(p) \notin start .. start + m - 1
      BY <1>3, <1>6, <1>8, <2>3, PlacesApart
    <3> QED BY <1>4, <2>1, <2>3, <3>1
  <2> QED BY <2>2, <2>3
<1> QED BY <1>1, <1>5, <1>7, <1>8

\* The cells a read fetches.
LEMMA FetchedFacts ==
  ASSUME FileType, AtLoop, InFile, MoreToDo, NEW no \in BlockNos,
         NEW m \in 0 .. NextLen, NEW b, b = Fetched(StartCell(no), m)
  PROVE  /\ DOMAIN b = DOMAIN buf
         /\ \A k \in 0 .. done + m - 1 :
              b[k] = IF k < done THEN buf[k] ELSE disk[PlaceOf(call.pos + k)]
<1>1. PICK x, n, start : x = call.pos + done /\ n = NextLen /\ start = StartCell(no)
  OBVIOUS
<1>2. /\ n \in 1 .. call.len - done /\ start \in Nat
      /\ \A j \in 0 .. n - 1 :
           x + j \in CallRange /\ PlaceOf(x + j) = start + j
  BY <1>1, TransferPlace
<1>3. /\ call \in CallRecord /\ call.pos \in Nat /\ call.len \in 0 .. MaxLen
      /\ done \in Nat /\ x \in Nat /\ n \in Nat /\ m \in Nat /\ m <= n
  BY <1>1, <1>2, ConstantTypes DEF FileType, CallRecord, AtLoop
<1>4. b = [k \in 0 .. MaxLen - 1 |->
             IF k \in done .. done + m - 1 THEN disk[start + k - done] ELSE buf[k]]
  BY <1>1 DEF Fetched, FileType
<1>5. ASSUME NEW k \in 0 .. done + m - 1
      PROVE  b[k] = IF k < done THEN buf[k] ELSE disk[PlaceOf(call.pos + k)]
  <2>1. k \in 0 .. MaxLen - 1 /\ k \in Nat
    BY <1>2, <1>3, ConstantTypes
  <2>2. CASE k < done
    BY <1>3, <1>4, <2>1, <2>2
  <2>3. CASE ~(k < done)
    <3>1. PICK j \in 0 .. n - 1 : k = done + j
      <4>1. k - done \in 0 .. n - 1 /\ k = done + (k - done)
        BY <1>3, <2>1, <2>3
      <4> QED BY <4>1
    <3>2. call.pos + k = x + j /\ start + k - done = start + j
          /\ k \in done .. done + m - 1
      BY <1>1, <1>2, <1>3, <2>1, <2>3, <3>1
    <3>3. b[k] = disk[start + j]
      BY <1>4, <2>1, <3>2
    <3> QED BY <1>2, <2>3, <3>1, <3>2, <3>3
  <2> QED BY <2>2, <2>3
<1> QED BY <1>4, <1>5 DEF FileType

\* Any transfer, in the file or not, is of one block of the disk.
LEMMA TransferType ==
  ASSUME FileType, AtLoop, MoreToDo, NEW no \in BlockNos
  PROVE  /\ NextLen \in 1 .. call.len - done /\ StartCell(no) \in Nat
         /\ \A m : Stored(StartCell(no), m) \in [Cell -> Int]
         /\ \A m : DOMAIN Fetched(StartCell(no), m) = DOMAIN buf
<1>1. PICK x : x = call.pos + done
  OBVIOUS
<1>2. /\ call.ino \in Ino /\ call.pos \in Nat /\ call.len \in Nat
      /\ done \in Nat /\ done < call.len /\ x \in Nat
  BY <1>1, ConstantTypes DEF FileType, CallRecord, AtLoop, MoreToDo
<1>3. PICK r : r = x % BlockLen
  OBVIOUS
<1>4. r \in 0 .. BlockLen - 1 /\ BlockOffset = r
  BY <1>1, <1>2, <1>3, ConstantTypes, Decompose, Zenon DEF BlockOffset
<1>5. NextLen \in 1 .. call.len - done
  BY <1>2, <1>4, ConstantTypes DEF NextLen
<1>6. no \in Nat
  <2>1. inode.i_block = FileBlocks[call.ino]
    BY <1>2 DEF FileType, AtLoop, Table
  <2>2. no \in Block
    BY <1>2, <2>1, Ext2FileAssumption DEF BlockNos
  <2> QED BY <2>2, ConstantTypes DEF Block
<1>7. PICK w \in Nat : w = no % Wrap
  <2>1. no % Wrap \in 0 .. Wrap - 1
    BY <1>6, ConstantTypes, Decompose
  <2> QED BY <2>1, ConstantTypes
<1>8. StartCell(no) \in Nat
  <2>1. StartCell(no) = w * BlockLen + r
    BY <1>4, <1>7, Zenon DEF StartCell
  <2> QED BY <1>4, <2>1, ConstantTypes
<1>9. ASSUME NEW m PROVE Stored(StartCell(no), m) \in [Cell -> Int]
  <2>1. PICK start \in Nat : start = StartCell(no)
    BY <1>8
  <2>2. \A c \in Cell : c \in Int
    BY ConstantTypes DEF Cell
  <2>3. \A c \in Cell : Written(done + c - start) \in Int
    BY <1>2, <2>2 DEF Written
  <2> QED BY <2>1, <2>3 DEF Stored, FileType
<1> QED BY <1>5, <1>8, <1>9 DEF Fetched

\* A whole transfer.
LEMMA WholeInv ==
  ASSUME FileInv, DataInv, NEW no \in BlockNos, TransferWhole(no)
  PROVE  FileInv' /\ DataInv'
<1>1. FileType /\ AtLoop /\ MoreToDo
  BY DEF FileInv, TransferWhole, AtInode, AtLoop, AtStamp, AtPut, AtIdle
<1>2. /\ UNCHANGED <<disk0, call, inodes, inodes0, calls, pc, inode, failed>>
      /\ done' = done + NextLen
      /\ IF call.op = "read"
           THEN buf' = Fetched(StartCell(no), NextLen) /\ UNCHANGED disk
           ELSE disk' = Stored(StartCell(no), NextLen) /\ UNCHANGED buf
  BY DEF TransferWhole, callVars
<1>3. PICK n, e : n = NextLen /\ e = done + n
  OBVIOUS
<1>4. /\ n \in 1 .. call.len - done /\ done \in Nat /\ call.len \in Nat
      /\ call.pos \in Nat /\ call \in CallRecord /\ n \in 0 .. NextLen
  <2>1. n \in 1 .. call.len - done
    BY <1>1, <1>3, TransferType
  <2> QED BY <1>1, <1>3, <2>1, ConstantTypes DEF FileType, CallRecord, AtLoop
<1>5. FileType'
  <2>1. disk' \in [Cell -> Int] /\ DOMAIN buf' = DOMAIN buf
    BY <1>1, <1>2, TransferType DEF FileType
  <2> QED BY <1>1, <1>2, <2>1 DEF FileType, Table
<1>6. AtLoop'
  BY <1>1, <1>2, <1>3, <1>4 DEF AtLoop
<1>7. ASSUME InFile PROVE Others' /\ (BlocksDistinct => Moved(done)' /\ CleanFrom(done)')
  <2>1. Others /\ (BlocksDistinct => Moved(done) /\ CleanFrom(done))
    BY <1>1, <1>7 DEF DataInv, CountInv, AtLoop
  <2>2. (\A p : PlaceOf(p)' = PlaceOf(p)) /\ CallRange' = CallRange
    BY <1>2 DEF PlaceOf, CallRange
  <2>3. \A k \in Nat : k < done => call.pos + k \in CallRange
    BY <1>4 DEF CallRange
  <2>4. \A k \in 0 .. done + n - 1 : call.pos + k \in CallRange
    BY <1>4 DEF CallRange
  <2>5. call' = call /\ disk0' = disk0
    BY <1>2
  <2>6. 0 .. e - 1 = 0 .. done + n - 1
    <3>1. e = done + n
      BY <1>3
    <3> QED BY <1>4, <3>1
  <2>7. CASE call.op = "read"
    <3>1. /\ disk' = disk
          /\ \A k \in 0 .. done + n - 1 :
               buf'[k] = IF k < done THEN buf[k] ELSE disk[PlaceOf(call.pos + k)]
      BY <1>1, <1>2, <1>3, <1>4, <1>7, <2>7, FetchedFacts
    <3>2. Others'
      BY <1>2, <2>1, <2>2, <2>7, <3>1 DEF Others
    <3>3. ASSUME BlocksDistinct PROVE Moved(e)' /\ CleanFrom(e)'
      <4>1. ASSUME NEW k \in 0 .. done + n - 1
            PROVE  buf'[k] = disk[PlaceOf(call.pos + k)]
        <5>1. CASE k < done
          <6>1. k \in 0 .. done - 1
            BY <1>4, <5>1
          <6>2. buf[k] = disk[PlaceOf(call.pos + k)]
            BY <2>1, <2>7, <3>3, <6>1 DEF Moved
          <6> QED BY <3>1, <5>1, <6>2
        <5>2. CASE ~(k < done)
          BY <3>1, <5>2
        <5> QED BY <5>1, <5>2
      <4>2. Moved(e)'
        <5>1. \A k \in 0 .. e - 1 : buf'[k] = disk'[PlaceOf(call.pos + k)]
          BY <2>6, <3>1, <4>1
        <5> QED BY <2>2, <2>7, <2>5, <5>1 DEF Moved
      <4>3. CleanFrom(e)'
        <5>1. \A p \in CallRange : disk[PlaceOf(p)] = disk0[PlaceOf(p)]
          BY <1>4, <1>7, <2>1, <2>7, PlaceFacts DEF Others
        <5> QED BY <2>2, <2>5, <3>1, <5>1 DEF CleanFrom, Untouched
      <4> QED BY <4>2, <4>3
    <3> QED BY <1>2, <1>3, <3>2, <3>3
  <2>8. CASE call.op # "read"
    <3>1. call.op = "write"
      BY <1>4, <2>8 DEF CallRecord
    <3>2. /\ \A c \in Cell : c \notin {PlaceOf(p) : p \in CallRange} => disk'[c] = disk[c]
          /\ BlocksDistinct =>
              \A p \in CallRange :
                IF p \in call.pos + done .. call.pos + done + n - 1
                  THEN disk'[PlaceOf(p)] = Written(p - call.pos)
                  ELSE disk'[PlaceOf(p)] = disk[PlaceOf(p)]
      BY <1>1, <1>2, <1>3, <1>4, <1>7, <2>8, StoredFacts
    <3>3. Others'
      BY <1>2, <2>1, <2>2, <3>1, <3>2 DEF Others
    <3>4. ASSUME BlocksDistinct PROVE Moved(e)' /\ CleanFrom(e)'
      <4>1. ASSUME NEW k \in 0 .. done + n - 1
            PROVE  disk'[PlaceOf(call.pos + k)] = Written(k)
        <5>1. PICK p \in CallRange : p = call.pos + k
          BY <2>4
        <5>2. CASE k < done
          <6>1. k \in 0 .. done - 1 /\ p \notin call.pos + done .. call.pos + done + n - 1
            BY <1>4, <5>1, <5>2
          <6>2. disk[PlaceOf(p)] = Written(k)
            BY <2>1, <3>1, <3>4, <5>1, <6>1 DEF Moved
          <6> QED BY <3>2, <3>4, <5>1, <6>1, <6>2
        <5>3. CASE ~(k < done)
          <6>1. p \in call.pos + done .. call.pos + done + n - 1 /\ p - call.pos = k
            BY <1>4, <5>1, <5>3
          <6> QED BY <3>2, <3>4, <5>1, <6>1
        <5> QED BY <5>2, <5>3
      <4>2. Moved(e)'
        <5>1. \A k \in 0 .. e - 1 : disk'[PlaceOf(call.pos + k)] = Written(k)
          BY <2>6, <4>1
        <5> QED BY <2>2, <2>8, <2>5, <5>1 DEF Moved, Written
      <4>3. ASSUME NEW p \in CallRange, p >= call.pos + e
            PROVE  disk'[PlaceOf(p)] = disk0[PlaceOf(p)]
        <5>1. p \notin call.pos + done .. call.pos + done + n - 1
              /\ p >= call.pos + done
          BY <1>3, <1>4, <4>3 DEF CallRange
        <5>2. disk[PlaceOf(p)] = disk0[PlaceOf(p)]
          BY <2>1, <3>4, <5>1 DEF CleanFrom, Untouched
        <5> QED BY <3>2, <3>4, <5>1, <5>2
      <4>4. CleanFrom(e)'
        BY <1>2, <1>3, <2>2, <4>3 DEF CleanFrom, Untouched
      <4> QED BY <4>2, <4>4
    <3> QED BY <1>2, <1>3, <3>3, <3>4
  <2> QED BY <2>7, <2>8
<1>8. InFile' <=> InFile
  BY <1>2 DEF InFile, CallRange
<1>9. DataInv'
  BY <1>1, <1>2, <1>7, <1>8 DEF DataInv, CountInv, AtLoop
<1> QED BY <1>5, <1>6, <1>9 DEF FileInv

\* A transfer that fails after some cells.
LEMMA ShortInv ==
  ASSUME FileInv, DataInv, NEW no \in BlockNos, NEW n \in 0 .. BlockLen - 1,
         TransferShort(no, n)
  PROVE  FileInv' /\ DataInv'
<1>1. FileType /\ AtLoop /\ MoreToDo /\ n < NextLen
  BY DEF FileInv, TransferShort, AtInode, AtLoop, AtStamp, AtPut, AtIdle
<1>2. /\ UNCHANGED <<disk0, call, inodes, inodes0, calls, done>>
      /\ pc' = "stamp" /\ result' = done /\ failed' = TRUE
      /\ \/ call.op = "read" /\ buf' = Fetched(StartCell(no), n) /\ UNCHANGED disk
         \/ /\ call.op = "write" /\ UNCHANGED buf
            /\ \/ disk' = Stored(StartCell(no), n)
               \/ disk' = Stored(StartCell(no), n + 1)
  BY DEF TransferShort, Transferred, callVars
<1>3. /\ done \in Nat /\ call.len \in Nat /\ done \in 0 .. call.len
      /\ call.pos \in Nat /\ call \in CallRecord
      /\ n \in 0 .. NextLen /\ n + 1 \in 0 .. NextLen
  <2>1. NextLen \in 1 .. call.len - done
    BY <1>1, TransferType
  <2> QED BY <1>1, <2>1, ConstantTypes DEF FileType, CallRecord, AtLoop
<1>4. FileType'
  <2>1. disk' \in [Cell -> Int] /\ DOMAIN buf' = DOMAIN buf
    BY <1>1, <1>2, TransferType DEF FileType
  <2> QED BY <1>1, <1>2, <2>1 DEF FileType, Table
<1>5. AtStamp'
  <2>1. Outcome(result)'
    BY <1>2, <1>3 DEF Outcome
  <2> QED BY <1>1, <1>2, <2>1 DEF AtLoop, AtStamp
<1>6. PICK e : e = done
  OBVIOUS
<1>7. ASSUME InFile PROVE Others' /\ (BlocksDistinct => Moved(e)' /\ CleanAfter(e)')
  <2>1. Others /\ (BlocksDistinct => Moved(e) /\ CleanFrom(e) /\ CleanAfter(e))
    <3>1. Others /\ (BlocksDistinct => Moved(e) /\ CleanFrom(e))
      BY <1>1, <1>6, <1>7 DEF DataInv, CountInv, AtLoop
    <3> QED BY <1>3, <1>6, <3>1, CleanWeaker
  <2>2. (\A p : PlaceOf(p)' = PlaceOf(p)) /\ CallRange' = CallRange
    BY <1>2 DEF PlaceOf, CallRange
  <2>3. call' = call /\ disk0' = disk0
    BY <1>2
  <2>4. CASE call.op = "read"
    <3>1. disk' = disk /\ buf' = Fetched(StartCell(no), n)
      BY <1>2, <2>4
    <3>2. \A k \in 0 .. done + n - 1 :
            buf'[k] = IF k < done THEN buf[k] ELSE disk[PlaceOf(call.pos + k)]
      BY <1>1, <1>3, <1>7, <3>1, FetchedFacts
    <3>3. \A k \in 0 .. e - 1 : buf'[k] = buf[k]
      <4>1. \A k \in 0 .. e - 1 : k \in 0 .. done + n - 1 /\ k < done
        BY <1>3, <1>6
      <4> QED BY <3>2, <4>1
    <3>4. Others'
      BY <2>1, <2>2, <2>3, <3>1 DEF Others
    <3>5. BlocksDistinct => Moved(e)'
      BY <2>1, <2>2, <2>3, <2>4, <3>1, <3>3 DEF Moved
    <3>6. BlocksDistinct => CleanAfter(e)'
      BY <2>1, <2>2, <2>3, <3>1 DEF CleanAfter, Untouched
    <3> QED BY <3>4, <3>5, <3>6
  <2>5. CASE call.op = "write"
    <3>1. PICK m \in 0 .. NextLen : disk' = Stored(StartCell(no), m)
      BY <1>2, <1>3, <2>5
    <3>2. /\ \A c \in Cell : c \notin {PlaceOf(p) : p \in CallRange} => disk'[c] = disk[c]
          /\ BlocksDistinct =>
              \A p \in CallRange :
                p \notin call.pos + done .. call.pos + done + m - 1
                  => disk'[PlaceOf(p)] = disk[PlaceOf(p)]
      BY <1>1, <1>7, <3>1, StoredFacts
    <3>3. Others'
      BY <2>1, <2>2, <2>3, <2>5, <3>2 DEF Others
    <3>4. ASSUME BlocksDistinct PROVE Moved(e)' /\ CleanAfter(e)'
      <4>1. ASSUME NEW k \in 0 .. e - 1
            PROVE  disk'[PlaceOf(call.pos + k)] = Written(k)
        <5>1. call.pos + k \in CallRange
              /\ call.pos + k \notin call.pos + done .. call.pos + done + m - 1
          BY <1>3, <1>6, <4>1 DEF CallRange
        <5>2. disk[PlaceOf(call.pos + k)] = Written(k)
          BY <2>1, <2>5, <3>4, <4>1 DEF Moved
        <5> QED BY <3>2, <3>4, <5>1, <5>2
      <4>2. Moved(e)'
        BY <2>2, <2>3, <2>5, <4>1 DEF Moved, Written
      <4>3. ASSUME NEW p \in CallRange,
                   p \div BlockLen > (call.pos + e) \div BlockLen
            PROVE  disk'[PlaceOf(p)] = disk0[PlaceOf(p)]
        <5>1. p \notin call.pos + done .. call.pos + done + m - 1
          <6>1. SUFFICES ASSUME p \in call.pos + done .. call.pos + done + m - 1
                         PROVE  FALSE
            OBVIOUS
          <6>2. PICK j \in 0 .. NextLen - 1 : p = call.pos + done + j
            <7>1. NextLen \in 1 .. call.len - done
              BY <1>1, TransferType
            <7>2. /\ p - (call.pos + done) \in 0 .. NextLen - 1
                  /\ p = call.pos + done + (p - (call.pos + done))
              BY <1>3, <6>1, <7>1
            <7> QED BY <7>2
          <6>3. p \div BlockLen = (call.pos + e) \div BlockLen
            BY <1>1, <1>6, <1>7, <6>2, TransferPlace, Zenon
          <6>4. PICK q : q = p \div BlockLen
            OBVIOUS
          <6>5. q > q /\ q \in Nat
            <7>1. p \in Nat
              BY <1>3 DEF CallRange
            <7> QED BY <4>3, <6>3, <6>4, <7>1, ConstantTypes, Decompose, Zenon
          <6> QED BY <6>5
        <5>2. disk[PlaceOf(p)] = disk0[PlaceOf(p)]
          BY <2>1, <3>4, <4>3 DEF CleanAfter, Untouched
        <5> QED BY <3>2, <3>4, <5>1, <5>2
      <4>4. CleanAfter(e)'
        BY <2>2, <2>3, <4>3 DEF CleanAfter, Untouched
      <4> QED BY <4>2, <4>4
    <3> QED BY <3>3, <3>4
  <2> QED BY <1>3, <2>4, <2>5 DEF CallRecord
<1>8. InFile' <=> InFile
  BY <1>2 DEF InFile, CallRange
<1>9. DataInv'
  BY <1>2, <1>6, <1>7, <1>8 DEF DataInv, CountInv
<1> QED BY <1>4, <1>5, <1>9 DEF FileInv

-----------------------------------------------------------------------------
(* The theorems.                                                           *)

(***************************************************************************)
(* Every call of disk_read_handler or disk_write_handler that does not     *)
(* go astray keeps the invariant, wherever a transfer fails: the inode     *)
(* changes only by its time stamp, after the data, and at each turn of the *)
(* loop exactly the blocks behind it have been transferred.                *)
(***************************************************************************)
THEOREM FileInductive == Spec => []Inv
<1>1. Init => Inv
  BY InitInv
<1>2. ASSUME Inv, [Next]_vars PROVE Inv'
  <2>1. CASE UNCHANGED vars
    <3>1. UNCHANGED <<disk, disk0, call, buf, inodes, inodes0, calls, pc, inode,
                      done, result, ret, failed, astray>>
      BY <2>1 DEF vars, diskVars, callVars
    <3>2. CASE astray
      BY <3>1, <3>2 DEF Inv
    <3>3. CASE FileInv /\ DataInv
      <4>1. FileInv'
        BY <3>1, <3>3 DEF FileInv, FileType, Table, AtInode, AtLoop, AtStamp, AtPut,
           AtIdle, Outcome, Stamped
      <4>2. PICK a, b, c : a = done /\ b = result /\ c = ret
        OBVIOUS
      <4>3. DataInv'
        BY <3>1, <3>3, <4>2, DataFrame DEF DataInv, CountInv
      <4> QED BY <4>1, <4>3 DEF Inv
    <3> QED BY <1>2, <3>2, <3>3 DEF Inv
  <2>2. ASSUME NEW i \in Ino, NEW pos \in Pos,
               \/ disk_read_nothing(i, pos)
               \/ \E len \in Size :
                    disk_read_handler(i, pos, len) \/ disk_write_handler(i, pos, len)
        PROVE  Inv'
    BY <1>2, <2>2, HandlerInv
  <2>3. CASE Step
    <3>1. astray => astray'
      BY <2>3 DEF Step, InodeRead, InodeMisread, InodeNotRead, TransferWhole,
         TransferShort, TransferEnds, StampRead, StampMisread, StampNotRead,
         InodePut, InodeMisput, InodeNotPut
    <3>2. InodeMisread \/ StampMisread \/ InodeMisput => astray'
      BY DEF InodeMisread, StampMisread, InodeMisput
    <3>3. ASSUME FileInv, DataInv, ~(InodeMisread \/ StampMisread \/ InodeMisput)
          PROVE  FileInv' /\ DataInv'
      BY <2>3, <3>3, InodeReadInv, WholeInv, ShortInv, EndsInv, StampInv, PutInv
         DEF Step
    <3> QED BY <1>2, <3>1, <3>2, <3>3 DEF Inv
  <2> QED BY <1>2, <2>1, <2>2, <2>3 DEF Next
<1> QED BY <1>1, <1>2, PTL DEF Spec

\* What the properties say of the file is said of FileBlocks.
LEMMA SameFile ==
  ASSUME FileInv
  PROVE  /\ \A p : FileCell(p) = PlaceOf(p)
         /\ Proper => InFile
         /\ call \in CallRecord
<1>1. inodes0[call.ino].i_block = FileBlocks[call.ino] /\ call \in CallRecord
  BY DEF FileInv, FileType, Table, CallRecord
<1>2. \A p : FileCell(p) = PlaceOf(p)
  BY <1>1 DEF FileCell, PlaceOf, BlockOf
<1>3. Proper => InFile
  BY <1>1 DEF Proper, Mapped, InFile, BlockOf
<1> QED BY <1>1, <1>2, <1>3

(***************************************************************************)
(* disk_read_handler and disk_write_handler, failed transfers included,    *)
(* change no cell outside the range of the call and no inode but for the   *)
(* time stamp of their own, for every disk, file and range, if the range   *)
(* lies in blocks that the file has.                                       *)
(***************************************************************************)
THEOREM RestOfDiskKept == Spec => []OthersKept
<1>1. Inv => OthersKept
  <2> SUFFICES ASSUME Inv, Proper
               PROVE  /\ \A c \in Cell :
                           call.op = "read" \/ c \notin {FileCell(p) : p \in CallRange}
                             => disk[c] = disk0[c]
                      /\ \E t \in {inodes0[call.ino], Stamped(inodes0[call.ino])} :
                           inodes = [inodes0 EXCEPT ![call.ino] = t]
    BY DEF OthersKept
  <2>1. FileInv /\ DataInv
    BY DEF Inv, Proper
  <2>2. Others
    BY <2>1, SameFile DEF DataInv
  <2>3. \A c \in Cell :
          call.op = "read" \/ c \notin {FileCell(p) : p \in CallRange}
            => disk[c] = disk0[c]
    BY <2>1, <2>2, SameFile DEF Others
  <2>4. \E t \in {inodes0[call.ino], Stamped(inodes0[call.ino])} :
          inodes = [inodes0 EXCEPT ![call.ino] = t]
    <3>1. CASE AtIdle
      BY <3>1 DEF AtIdle
    <3>2. CASE inodes = inodes0
      <4>1. inodes0 = [inodes0 EXCEPT ![call.ino] = inodes0[call.ino]]
        BY <2>1 DEF FileInv, FileType, Table, CallRecord
      <4> QED BY <3>2, <4>1
    <3> QED BY <2>1, <3>1, <3>2 DEF FileInv, AtInode, AtLoop, AtStamp, AtPut
  <2> QED BY <2>3, <2>4
<1> QED BY <1>1, FileInductive, PTL

(***************************************************************************)
(* The result of a read or write counts cells that were transferred, each  *)
(* to or from its place in the file, and nothing behind the block in which *)
(* a write stopped has changed, for every file that names no block twice.  *)
(***************************************************************************)
THEOREM ResultCounts ==
  ASSUME BlocksDistinct PROVE Spec => []CountsWhatWasDone
<1>1. Inv => CountsWhatWasDone
  <2> SUFFICES ASSUME Inv, pc = "idle", Proper, ret >= 0
               PROVE  MovedBefore(call.pos + ret) /\ KeptBehind(call.pos + ret)
    BY DEF CountsWhatWasDone
  <2>1. FileInv /\ DataInv
    BY DEF Inv, Proper
  <2>2. Moved(ret) /\ CleanAfter(ret) /\ call.pos \in Nat /\ ret \in Int
    <3>1. Moved(ret) /\ CleanAfter(ret)
      BY <2>1, SameFile DEF DataInv, CountInv
    <3>2. ret \in Int
      BY <2>1, ConstantTypes DEF FileInv, FileType, CallRecord, AtInode, AtLoop,
         AtStamp, AtPut, AtIdle, Outcome
    <3> QED BY <2>1, <3>1, <3>2, SameFile DEF CallRecord
  <2>3. ASSUME NEW p \in call.pos .. (call.pos + ret) - 1
        PROVE  IF call.op = "read"
                 THEN buf[p - call.pos] = disk[FileCell(p)]
                 ELSE disk[FileCell(p)] = Written(p - call.pos)
    <3>1. PICK k \in 0 .. ret - 1 : p = call.pos + k /\ k = p - call.pos
      <4>1. p - call.pos \in 0 .. ret - 1 /\ p = call.pos + (p - call.pos)
        BY <2>2, <2>3
      <4> QED BY <4>1
    <3>2. IF call.op = "read" THEN buf[k] = disk[PlaceOf(p)]
                              ELSE disk[PlaceOf(p)] = Written(k)
      BY <2>2, <3>1 DEF Moved
    <3> QED BY <2>1, <3>1, <3>2, SameFile
  <2>4. ASSUME NEW p \in CallRange,
               p \div BlockLen > (call.pos + ret) \div BlockLen
        PROVE  disk[FileCell(p)] = disk0[FileCell(p)]
    BY <2>1, <2>2, <2>4, SameFile DEF CleanAfter, Untouched
  <2>5. MovedBefore(call.pos + ret)
    BY <2>3 DEF MovedBefore
  <2>6. KeptBehind(call.pos + ret)
    BY <2>4 DEF KeptBehind
  <2> QED BY <2>5, <2>6
<1>2. Spec => []Inv
  BY FileInductive
<1> QED BY <1>1, <1>2, PTL

(***************************************************************************)
(* A call returns the whole length unless a transfer failed, and never     *)
(* anything but -1 unless the time stamp of its inode was written.         *)
(***************************************************************************)
THEOREM ResultStamped == Spec => []StampedUnlessFailed
<1>1. Inv => StampedUnlessFailed
  <2> SUFFICES ASSUME Inv, pc = "idle", Proper, call.op = "write" \/ call.len > 0
               PROVE  /\ ~failed => ret = call.len
                      /\ ret >= 0 =>
                           IF call.op = "read" THEN inodes[call.ino].i_atime = calls
                                               ELSE inodes[call.ino].i_mtime = calls
    BY DEF StampedUnlessFailed
  <2>1. FileInv /\ AtIdle
    BY DEF Inv, Proper, FileInv, AtInode, AtLoop, AtStamp, AtPut
  <2>2. ~failed => ret = call.len
    BY <2>1 DEF AtIdle, Outcome
  <2>3. ASSUME ret >= 0
        PROVE  IF call.op = "read" THEN inodes[call.ino].i_atime = calls
                                   ELSE inodes[call.ino].i_mtime = calls
    <3>1. PICK i : i = inodes0[call.ino]
      OBVIOUS
    <3>2. inodes = [inodes0 EXCEPT ![call.ino] = Stamped(i)]
      BY <2>1, <2>3, <3>1 DEF AtIdle
    <3>3. call.ino \in Ino /\ inodes0 \in [Ino -> InodeRecord] /\ i \in InodeRecord
      BY <2>1, <3>1 DEF FileInv, FileType, Table, CallRecord
    <3>4. inodes[call.ino] = Stamped(i)
      BY <3>2, <3>3
    <3>5. IF call.op = "read" THEN Stamped(i).i_atime = calls
                              ELSE Stamped(i).i_mtime = calls
      BY <3>3 DEF Stamped, InodeRecord
    <3> QED BY <3>4, <3>5
  <2> QED BY <2>2, <2>3
<1> QED BY <1>1, FileInductive, PTL
=============================================================================
