------------------------------ MODULE Ext2File ------------------------------
(***************************************************************************)
(* The contents of files: read_from_ino, write_to_ino, set_atime_for_ino   *)
(* and set_mtime_for_ino (src/ext2.c) as disk_read_handler and             *)
(* disk_write_handler (src/io.c) call them, on an open descriptor of an    *)
(* initialised disk.                                                       *)
(*                                                                         *)
(* The disk is a row of cells.  A cell is a sector, the least that the     *)
(* ranges of BlkIo move or leave; ranges within a sector are BlkIo's.  The *)
(* inode table is kept apart from the cells.  Each transfer of BlkIo is    *)
(* one step, and may fail: a read or a write then stops after some cells   *)
(* of its range, and the cell at which a write fails may be old or new.    *)
(*                                                                         *)
(* A failed read of a block group descriptor is not noticed.  What the     *)
(* stack holds is used in its place, and the inode is read from, or        *)
(* written to, anywhere: such a call is astray.                            *)
(***************************************************************************)
EXTENDS Integers

CONSTANTS
  BlockLen,   \* EXT2_SUPPORTED_BLOCK_SIZE, in cells (two sectors in the code)
  Blocks,     \* number of blocks on the disk
  Direct,     \* entries of i_block that name data (12); the rest are indirect
  IBlocks,    \* entries of i_block (15)
  Wrap,       \* number of blocks below 4 GiB: where a 32-bit offset wraps
  FileBlocks, \* for each inode number, i_block
  Pos, Size,  \* positions and sizes of the ranges
  MaxLen,     \* bound: the largest size
  MaxCalls    \* bound: number of calls

Ino == DOMAIN FileBlocks
Block == 0 .. Blocks - 1
Cell == 0 .. Blocks * BlockLen - 1
Index == 0 .. IBlocks - 1

ASSUME Ext2FileAssumption ==
  /\ {BlockLen, Blocks, Wrap} \subseteq Nat \ {0}
  /\ IBlocks \in Nat /\ Direct \in 0 .. IBlocks
  /\ Pos \subseteq Nat /\ MaxLen \in Nat /\ Size \subseteq 0 .. MaxLen
  /\ MaxCalls \in Nat
  /\ Ino # {} /\ FileBlocks \in [Ino -> [Index -> Block]]

VARIABLES
  disk,     \* the cells of all blocks
  inodes,   \* the inode table
  pc,       \* "idle", "inode", "loop", "stamp" or "put"
  call,     \* the arguments of the handler
  inode,    \* the inode read last
  done,     \* redden or written
  buf,      \* a reader's buffer
  result,   \* read_result or write_result
  ret,      \* the handler's result
  calls,    \* number of calls; stands for the clock's seconds as well
  disk0,    \* history: the disk ...
  inodes0,  \* ... and the inode table when the call was made
  failed,   \* history: a transfer of this call failed
  astray    \* history: a block group descriptor was not read

diskVars == <<disk, inodes>>
callVars == <<call, calls, disk0, inodes0>>
vars == <<diskVars, pc, callVars, inode, done, buf, result, ret, failed,
          astray>>

\* What a caller writes, what a buffer holds at first, and what is found where
\* an inode was put by mistake; the disk holds the number of each cell.
Written(k) == -(k + 1)
None == -100
Junk == -200
Value == Cell \cup {Written(k) : k \in 0 .. MaxLen - 1} \cup {Junk}

Inode(b) == [i_block |-> b, i_atime |-> 0, i_mtime |-> 0]
\* Data taken for an inode: here, a file of holes.
NoInode == Inode([x \in Index |-> 0])

TypeOK ==
  /\ disk \in [Cell -> Value] /\ disk0 \in [Cell -> Value]
  /\ DOMAIN inodes = Ino
  /\ pc \in {"idle", "inode", "loop", "stamp", "put"}
  /\ done \in 0 .. call.len /\ result \in -1 .. MaxLen /\ ret \in -1 .. MaxLen
  /\ DOMAIN buf = 0 .. MaxLen - 1
  /\ calls \in 0 .. MaxCalls
  /\ failed \in BOOLEAN /\ astray \in BOOLEAN

NoBuf == [k \in 0 .. MaxLen - 1 |-> None]

Init ==
  /\ disk = [c \in Cell |-> c] /\ disk0 = disk
  /\ inodes = [i \in Ino |-> Inode(FileBlocks[i])] /\ inodes0 = inodes
  /\ pc = "idle" /\ inode = NoInode /\ done = 0 /\ buf = NoBuf
  /\ call = [op |-> "read", ino |-> CHOOSE i \in Ino : TRUE,
             pos |-> 0, len |-> 0]
  /\ result = 0 /\ ret = 0 /\ calls = 0 /\ failed = FALSE /\ astray = FALSE

-----------------------------------------------------------------------------
(* The handlers.                                                           *)

\* After a call that went astray the file system is damaged; what further
\* calls do is not followed.
Begin(c) ==
  /\ pc = "idle" /\ calls < MaxCalls /\ ~astray
  /\ calls' = calls + 1
  /\ call' = c /\ disk0' = disk /\ inodes0' = inodes
  /\ buf' = NoBuf /\ done' = 0 /\ failed' = FALSE /\ UNCHANGED astray

\* A read of nothing is over at once ...
disk_read_nothing(i, pos) ==
  /\ Begin([op |-> "read", ino |-> i, pos |-> pos, len |-> 0])
  /\ ret' = 0
  /\ UNCHANGED <<diskVars, pc, inode, result>>

disk_read_handler(i, pos, len) ==
  /\ len # 0
  /\ Begin([op |-> "read", ino |-> i, pos |-> pos, len |-> len])
  /\ pc' = "inode"
  /\ UNCHANGED <<diskVars, inode, result, ret>>

\* ... a write of nothing reads and stamps the inode.
disk_write_handler(i, pos, len) ==
  /\ Begin([op |-> "write", ino |-> i, pos |-> pos, len |-> len])
  /\ pc' = "inode"
  /\ UNCHANGED <<diskVars, inode, result, ret>>

\* The transfer is over, and the time stamp follows whatever it gave;
\* system_time does not fail.
Transferred(n) == result' = n /\ pc' = "stamp"

Return(n) == ret' = n /\ pc' = "idle" /\ inode' = NoInode /\ result' = 0

-----------------------------------------------------------------------------
(* read_from_ino and write_to_ino.                                         *)

\* inode_from_ino: the inode, if the descriptor of its block group was read.
InodeRead ==
  /\ pc = "inode"
  /\ inode' = inodes[call.ino]
  /\ pc' = "loop"
  /\ UNCHANGED <<diskVars, callVars, done, buf, result, ret, failed, astray>>

Elsewhere == {inodes[i] : i \in Ino} \cup {NoInode}

InodeMisread ==
  /\ pc = "inode"
  /\ inode' \in Elsewhere
  /\ pc' = "loop" /\ failed' = TRUE /\ astray' = TRUE
  /\ UNCHANGED <<diskVars, callVars, done, buf, result, ret>>

\* (size_t)-1, which the handlers take for the int -1.
InodeNotRead ==
  /\ pc = "inode"
  /\ Transferred(-1)
  /\ failed' = TRUE
  /\ UNCHANGED <<diskVars, callVars, inode, done, buf, ret, astray>>

BlockIdx == (call.pos + done) \div BlockLen

BlockOffset == (call.pos + done) % BlockLen

\* The number in i_block, which is not checked: 0 for a hole, an indirect
\* block, and behind the last entry whatever follows it in memory.
BlockNos == IF BlockIdx \in Index THEN {inode.i_block[BlockIdx]} ELSE Block

\* Fault: the rest of the range, across the end of the block.
WholeRest == call.len - done

\* MIN of what is left of the block and what is left of the range.
NextLen ==
  LET left == call.len - done
      content == BlockLen - BlockOffset
  IN  IF left < content THEN left ELSE content

\* The cell at which the transfer starts: block_no * 1024 has 32 bits.
StartCell(no) == (no % Wrap) * BlockLen + BlockOffset

\* The buffer and the disk after n cells of the transfer.
Fetched(start, n) ==
  [k \in DOMAIN buf |->
     IF k \in done .. done + n - 1 THEN disk[start + k - done] ELSE buf[k]]
Stored(start, n) ==
  [c \in Cell |->
     IF c \in start .. start + n - 1 THEN Written(done + c - start) ELSE disk[c]]

\* Fault: one round too many.
OneMore == done <= call.len

MoreToDo == done < call.len

\* A transfer that moves all of its range and goes on to the next block ...
TransferWhole(no) ==
  /\ pc = "loop" /\ MoreToDo
  /\ IF call.op = "read"
       THEN buf' = Fetched(StartCell(no), NextLen) /\ UNCHANGED disk
       ELSE disk' = Stored(StartCell(no), NextLen) /\ UNCHANGED buf
  /\ done' = done + NextLen
  /\ UNCHANGED <<inodes, pc, callVars, inode, result, ret, failed, astray>>

\* Fault: a short transfer is taken for a whole one.
ShortTaken(no, n) ==
  /\ pc = "loop" /\ MoreToDo /\ n < NextLen
  /\ \/ call.op = "read" /\ buf' = Fetched(StartCell(no), n) /\ UNCHANGED disk
     \/ /\ call.op = "write" /\ UNCHANGED buf
        /\ disk' \in {Stored(StartCell(no), n), Stored(StartCell(no), n + 1)}
  /\ done' = done + NextLen /\ failed' = TRUE
  /\ UNCHANGED <<inodes, pc, callVars, inode, result, ret, astray>>

\* ... and one that fails after n cells of it: what it moved is not counted.
TransferShort(no, n) ==
  /\ pc = "loop" /\ MoreToDo /\ n < NextLen
  /\ \/ call.op = "read" /\ buf' = Fetched(StartCell(no), n) /\ UNCHANGED disk
     \/ /\ call.op = "write" /\ UNCHANGED buf
        /\ disk' \in {Stored(StartCell(no), n), Stored(StartCell(no), n + 1)}
  /\ Transferred(done)
  /\ failed' = TRUE
  /\ UNCHANGED <<inodes, callVars, inode, done, ret, astray>>

TransferEnds ==
  /\ pc = "loop" /\ ~MoreToDo
  /\ Transferred(call.len)
  /\ UNCHANGED <<diskVars, callVars, inode, done, buf, ret, failed, astray>>

-----------------------------------------------------------------------------
(* set_atime_for_ino and set_mtime_for_ino: the inode is read once more,   *)
(* changed and written back.                                               *)

\* Fault: both calls set the time of access.
StampAccess(i) == [i EXCEPT !.i_atime = calls]

Stamped(i) ==
  IF call.op = "read" THEN [i EXCEPT !.i_atime = calls]
                      ELSE [i EXCEPT !.i_mtime = calls]

StampRead ==
  /\ pc = "stamp"
  /\ inode' = Stamped(inodes[call.ino])
  /\ pc' = "put"
  /\ UNCHANGED <<diskVars, callVars, done, buf, result, ret, failed, astray>>

StampMisread ==
  /\ pc = "stamp"
  /\ \E i \in Elsewhere : inode' = Stamped(i)
  /\ pc' = "put" /\ failed' = TRUE /\ astray' = TRUE
  /\ UNCHANGED <<diskVars, callVars, done, buf, result, ret>>

\* Fault: a short read is not noticed, and the inode of the transfer is used.
StampUnchecked ==
  /\ pc = "stamp"
  /\ inode' = Stamped(inode)
  /\ pc' = "put" /\ failed' = TRUE
  /\ UNCHANGED <<diskVars, callVars, done, buf, result, ret, astray>>

StampNotRead ==
  /\ pc = "stamp"
  /\ Return(-1)
  /\ failed' = TRUE
  /\ UNCHANGED <<diskVars, callVars, done, buf, astray>>

\* inode_to_ino reads the descriptor again, too.
InodePut ==
  /\ pc = "put"
  /\ inodes' = [inodes EXCEPT ![call.ino] = inode]
  /\ Return(result)
  /\ UNCHANGED <<disk, callVars, done, buf, failed, astray>>

\* The inode goes over another one, or over the beginning of some block.
InodeMisput ==
  /\ pc = "put"
  /\ \/ \E i \in Ino : inodes' = [inodes EXCEPT ![i] = inode] /\ UNCHANGED disk
     \/ \E b \in Block :
          disk' = [disk EXCEPT ![b * BlockLen] = Junk] /\ UNCHANGED inodes
  /\ Return(result)
  /\ failed' = TRUE /\ astray' = TRUE
  /\ UNCHANGED <<callVars, done, buf>>

\* A write that fails may have been made, as in SectorDisk.
InodeNotPut ==
  /\ pc = "put"
  /\ inodes' \in {inodes, [inodes EXCEPT ![call.ino] = inode]}
  /\ Return(-1)
  /\ failed' = TRUE
  /\ UNCHANGED <<disk, callVars, done, buf, astray>>

-----------------------------------------------------------------------------
Step ==
  \/ InodeRead \/ InodeMisread \/ InodeNotRead
  \/ \E no \in BlockNos :
       \/ TransferWhole(no)
       \/ \E n \in 0 .. BlockLen - 1 : TransferShort(no, n)
  \/ TransferEnds
  \/ StampRead \/ StampMisread \/ StampNotRead
  \/ InodePut \/ InodeMisput \/ InodeNotPut

Next ==
  \/ \E i \in Ino, pos \in Pos :
       \/ disk_read_nothing(i, pos)
       \/ \E len \in Size :
            disk_read_handler(i, pos, len) \/ disk_write_handler(i, pos, len)
  \/ Step

\* The code runs on and every transfer ends (CallReturns of BlkIo).
Fairness == WF_vars(Step)

Spec == Init /\ [][Next]_vars /\ Fairness

-----------------------------------------------------------------------------
(* Properties.                                                             *)

\* Reference: position p of the file lies in a block of data below 4 GiB, and
\* which cell it is.
BlockOf(p) == inodes0[call.ino].i_block[p \div BlockLen]
Mapped(p) == p \div BlockLen < Direct /\ BlockOf(p) \in 1 .. Wrap - 1
FileCell(p) == BlockOf(p) * BlockLen + (p % BlockLen)

CallRange == call.pos .. call.pos + call.len - 1
\* The call is about data that the file has, and read every descriptor.
Proper == ~astray /\ \A p \in CallRange : Mapped(p)

(***************************************************************************)
(* At every moment, failed transfers included, a call leaves all cells     *)
(* outside its range as they were, those of other files and the indirect   *)
(* blocks among them, and of the inodes changes only its own file's time   *)
(* stamp.  It holds if the range lies in blocks the file has: neither a    *)
(* hole nor the end of the direct blocks is noticed.                       *)
(***************************************************************************)
OthersKept ==
  Proper =>
    /\ \A c \in Cell :
         call.op = "read" \/ c \notin {FileCell(p) : p \in CallRange} =>
           disk[c] = disk0[c]
    /\ \E t \in {inodes0[call.ino], Stamped(inodes0[call.ino])} :
         inodes = [inodes0 EXCEPT ![call.ino] = t]

\* Every cell of the range before position end went to or came from its place.
MovedBefore(end) ==
  \A p \in call.pos .. end - 1 :
    IF call.op = "read" THEN buf[p - call.pos] = disk[FileCell(p)]
                        ELSE disk[FileCell(p)] = Written(p - call.pos)

\* Behind the block of position end, the range is as the call found it.
KeptBehind(end) ==
  \A p \in CallRange : p \div BlockLen > end \div BlockLen =>
    disk[FileCell(p)] = disk0[FileCell(p)]

(***************************************************************************)
(* The result counts what was done: that many cells were read from, or     *)
(* written to, the file, in place and across blocks that are not           *)
(* neighbours.  A short count is that of whole blocks: of the block that   *)
(* failed some of the range may have been written, and of the blocks after *)
(* it nothing.  With -1, the count is unknown, and a write may have been   *)
(* made.                                                                   *)
(***************************************************************************)
CountsWhatWasDone ==
  pc = "idle" /\ Proper /\ ret >= 0 =>
    /\ MovedBefore(call.pos + ret)
    /\ call.op = "write" => KeptBehind(call.pos + ret)

(***************************************************************************)
(* A call fails only if a transfer did: else it does the whole range and   *)
(* the time stamp is on the disk.  Nor does it return anything but -1      *)
(* unless the time stamp was written, whatever became of the data: the     *)
(* time of access by a read, of modification by a write.                   *)
(***************************************************************************)
StampedUnlessFailed ==
  pc = "idle" /\ Proper /\ (call.op = "write" \/ call.len > 0) /\ calls > 0 =>
    /\ ~failed => ret = call.len
    /\ ret >= 0 =>
         IF call.op = "read" THEN inodes[call.ino].i_atime = calls
                             ELSE inodes[call.ino].i_mtime = calls

(***************************************************************************)
(* Every call ends, on holes and past the end of i_block too, whichever    *)
(* transfers fail.                                                         *)
(***************************************************************************)
CallEnds == (pc # "idle") ~> (pc = "idle")
=============================================================================
