------------------------------- MODULE BlkIo -------------------------------
(***************************************************************************)
(* Byte ranges over sectors: virtio_blk_read_sync and                      *)
(* virtio_blk_write_sync (src/blk.c).  Both walk over the sectors a range  *)
(* touches; a write reads each sector, replaces the bytes of the range and *)
(* writes it back.  The sector operations they call are the sector store   *)
(* SectorDisk, which BlkDriver is proved to implement: the two modules     *)
(* share its variables, and any sector operation may fail.                 *)
(***************************************************************************)
EXTENDS Integers

CONSTANTS
  BlkSize,  \* VIRTIO_BLK_SIZE (512 in the code)
  Sectors,  \* number of sectors of the disk
  MaxSize,  \* bound: longest range, in bytes
  MaxCalls, \* bound: number of calls
  Byte,     \* values of a byte
  Disk,     \* contents the disk may have at first
  Input     \* what callers write: buffers of MaxSize bytes

ASSUME BlkIoAssumption ==
  /\ BlkSize \in Nat \ {0} /\ Sectors \in Nat \ {0} /\ MaxSize \in Nat
  /\ MaxCalls \in Nat
  /\ Byte \subseteq Nat /\ 0 \in Byte
  /\ Disk \subseteq [0 .. Sectors - 1 -> [0 .. BlkSize - 1 -> Byte]]
  /\ Input \subseteq [0 .. MaxSize - 1 -> Byte]

VARIABLES
  pc,      \* "idle", "loop", "reading", "merge" or "writing"
  kind,    \* the function called: "read" or "write"
  offset,  \* its arguments ...
  size,
  input,   \* ... the bytes to write
  output,  \* ... and the buffer to read into
  amt,     \* read_amt or write_amt
  ret,     \* the latest result
  disk0,   \* history: the disk when the latest call was made
  calls    \* history: number of calls made

\* The sector store.
VARIABLES disk, phase, op, sector, data, status

Store == INSTANCE SectorDisk WITH
  Sector <- 0 .. Sectors - 1,
  Data   <- [0 .. BlkSize - 1 -> Byte]

callVars == <<pc, kind, offset, size, input, output, amt, ret, disk0,
              calls>>
argVars == <<kind, offset, size, input, disk0, calls>>
storeVars == <<disk, phase, op, sector, data, status>>
vars == <<callVars, storeVars>>

DiskBytes == 0 .. Sectors * BlkSize - 1
\* An output byte the call has not stored.
None == -1

TypeOK ==
  /\ pc \in {"idle", "loop", "reading", "merge", "writing"}
  /\ kind \in {"read", "write"}
  /\ offset \in 0 .. Sectors * BlkSize /\ size \in 0 .. MaxSize
  /\ amt \in 0 .. MaxSize /\ ret \in 0 .. MaxSize
  /\ input \in [0 .. MaxSize - 1 -> Byte]
  /\ output \in [0 .. MaxSize - 1 -> Byte \cup {None}]
  /\ disk \in [0 .. Sectors - 1 -> [0 .. BlkSize - 1 -> Byte]]
  /\ disk0 \in [0 .. Sectors - 1 -> [0 .. BlkSize - 1 -> Byte]]
  /\ data \in [0 .. BlkSize - 1 -> Byte]
  /\ phase \in {"idle", "busy", "done"} /\ op \in {"read", "write"}
  /\ sector \in 0 .. Sectors - 1 /\ status \in {0, 1, Store!NotServed}
  /\ calls \in 0 .. MaxCalls

ZeroBlk == [b \in 0 .. BlkSize - 1 |-> 0]

Init ==
  /\ disk \in Disk
  /\ phase = "idle" /\ op = "read" /\ sector = 0 /\ status = Store!NotServed
  /\ data = ZeroBlk
  /\ pc = "idle" /\ kind = "read"
  /\ offset = 0 /\ size = 0 /\ amt = 0 /\ ret = 0
  /\ input = [i \in 0 .. MaxSize - 1 |-> 0]
  /\ output = [i \in 0 .. MaxSize - 1 |-> None]
  /\ disk0 = disk /\ calls = 0

-----------------------------------------------------------------------------
virtio_blk_sector_from_pos(pos) == pos \div BlkSize

virtio_blk_sector_offset_from_pos(pos) == pos % BlkSize

\* The part of the range in the current sector: what is left of the range or
\* of the sector, whichever is smaller.
CurrentSector == virtio_blk_sector_from_pos(offset + amt)
SectorOffset == virtio_blk_sector_offset_from_pos(offset + amt)
LastAmt ==
  LET left == size - amt
      content == BlkSize - SectorOffset
  IN  IF left < content THEN left ELSE content

\* Fault: the sector's part is taken from its start.
CopyOutFromStart ==
  [i \in 0 .. MaxSize - 1 |->
     IF i \in amt .. amt + LastAmt - 1 THEN data[i - amt] ELSE output[i]]

\* memcpy of the sector's part into the output ...
CopyOut ==
  [i \in 0 .. MaxSize - 1 |->
     IF i \in amt .. amt + LastAmt - 1 THEN data[SectorOffset + i - amt]
                                       ELSE output[i]]

\* Fault: the rest of the sector is written as zeros.
CopyInBlank ==
  [b \in 0 .. BlkSize - 1 |->
     IF b \in SectorOffset .. SectorOffset + LastAmt - 1
       THEN input[amt + b - SectorOffset]
       ELSE 0]

\* ... and of the input's part into the sector.
CopyIn ==
  [b \in 0 .. BlkSize - 1 |->
     IF b \in SectorOffset .. SectorOffset + LastAmt - 1
       THEN input[amt + b - SectorOffset]
       ELSE data[b]]

-----------------------------------------------------------------------------
(* The two functions.                                                      *)

Start(k, off, sz, in) ==
  /\ pc = "idle" /\ calls < MaxCalls
  /\ calls' = calls + 1
  /\ pc' = "loop" /\ kind' = k /\ offset' = off /\ size' = sz /\ input' = in
  /\ amt' = 0
  /\ output' = [i \in 0 .. MaxSize - 1 |-> None]
  /\ disk0' = disk
  /\ UNCHANGED <<ret, storeVars>>

virtio_blk_read_sync(off, sz) == Start("read", off, sz, input)

virtio_blk_write_sync(off, sz, in) == Start("write", off, sz, in)

\* The loop ends when the whole range is done.
Finish ==
  /\ pc = "loop" /\ ~(amt < size)
  /\ pc' = "idle" /\ ret' = amt
  /\ UNCHANGED <<argVars, output, amt, storeVars>>

\* Both functions read the sector, into a zeroed local.
ReadSector ==
  /\ pc = "loop" /\ amt < size
  /\ Store!Call("read", CurrentSector, ZeroBlk)
  /\ pc' = "reading"
  /\ UNCHANGED <<argVars, output, amt, ret>>

\* Faults: a failed sector operation is counted as done, or is tried again for
\* ever.
FailCounted(at) ==
  /\ pc = at /\ status # 0
  /\ Store!Return
  /\ pc' = "idle" /\ ret' = amt + LastAmt
  /\ UNCHANGED <<argVars, output, amt>>

FailRetried(at) ==
  /\ pc = at /\ status # 0
  /\ Store!Return
  /\ pc' = "loop"
  /\ UNCHANGED <<argVars, output, amt, ret>>

\* A failed sector operation ends the call with what was done before it.
Fail(at) ==
  /\ pc = at /\ status # 0
  /\ Store!Return
  /\ pc' = "idle" /\ ret' = amt
  /\ UNCHANGED <<argVars, output, amt>>

ReadFailed == Fail("reading")

ReadSectorDone ==
  /\ pc = "reading" /\ kind = "read" /\ status = 0
  /\ Store!Return
  /\ output' = CopyOut
  /\ amt' = amt + LastAmt
  /\ pc' = "loop"
  /\ UNCHANGED <<argVars, ret>>

ReadBeforeWriteDone ==
  /\ pc = "reading" /\ kind = "write" /\ status = 0
  /\ Store!Return
  /\ pc' = "merge"
  /\ UNCHANGED <<argVars, output, amt, ret>>

WriteSector ==
  /\ pc = "merge"
  /\ Store!Call("write", CurrentSector, CopyIn)
  /\ pc' = "writing"
  /\ UNCHANGED <<argVars, output, amt, ret>>

WriteFailed == Fail("writing")

WriteSectorDone ==
  /\ pc = "writing" /\ status = 0
  /\ Store!Return
  /\ amt' = amt + LastAmt
  /\ pc' = "loop"
  /\ UNCHANGED <<argVars, output, ret>>

Step ==
  \/ Finish \/ ReadSector \/ ReadFailed \/ ReadSectorDone \/ ReadBeforeWriteDone
  \/ WriteSector \/ WriteFailed \/ WriteSectorDone

\* The store serves a sector operation.
Serve == (Store!ServeOK \/ Store!ServeError) /\ UNCHANGED callVars

\* Ranges are on the disk.
Next ==
  \/ \E off \in DiskBytes, sz \in 0 .. MaxSize :
       /\ off + sz <= Sectors * BlkSize
       /\ \/ virtio_blk_read_sync(off, sz)
          \/ \E in \in Input : virtio_blk_write_sync(off, sz, in)
  \/ Step
  \/ Serve

\* The code runs on and the store answers (CallReturns of BlkDriver).
Fairness == WF_vars(Step) /\ WF_vars(Serve)

Spec == Init /\ [][Next]_vars /\ Fairness

-----------------------------------------------------------------------------
(* Properties.                                                             *)

ByteAt(d, p) == d[p \div BlkSize][p % BlkSize]

(***************************************************************************)
(* At every moment of a write, failing sectors included, the bytes of the  *)
(* disk outside the range are what they were: read-modify-write never      *)
(* writes back a neighbour's byte it did not read.                         *)
(***************************************************************************)
NeighboursKept ==
  \A p \in DiskBytes :
    p \notin offset .. offset + size - 1 => ByteAt(disk, p) = ByteAt(disk0, p)

(***************************************************************************)
(* The result of a write says what is on the disk: the bytes it counts are *)
(* the caller's, and beyond them only the sector that failed may differ    *)
(* from before.  A read changes nothing.                                   *)
(***************************************************************************)
WriteResult ==
  pc = "idle" =>
    \A p \in DiskBytes :
      /\ kind = "write" /\ p \in offset .. offset + ret - 1 =>
           ByteAt(disk, p) = input[p - offset]
      /\ p >= offset + ret /\ p \div BlkSize # (offset + ret) \div BlkSize =>
           ByteAt(disk, p) = ByteAt(disk0, p)
      /\ kind = "read" => ByteAt(disk, p) = ByteAt(disk0, p)

(***************************************************************************)
(* The result of a read says what is in the buffer: the bytes it counts    *)
(* are the disk's, in place, and nothing is stored beyond them.            *)
(***************************************************************************)
ReadResult ==
  pc = "idle" /\ kind = "read" =>
    \A i \in 0 .. MaxSize - 1 :
      output[i] = IF i < ret THEN ByteAt(disk, offset + i) ELSE None

(***************************************************************************)
(* Every call ends: each round of the loop makes progress or returns.      *)
(***************************************************************************)
CallReturns == (pc # "idle") ~> (pc = "idle")
=============================================================================
