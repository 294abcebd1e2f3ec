------------------------------ MODULE FdTable ------------------------------
(***************************************************************************)
(* The descriptor table (src/io.c) and the system calls on it              *)
(* (src/strap_handler.c): mount, open, close, seek, read and write.  The   *)
(* kernel serves one system call at a time and nothing that interrupts it  *)
(* touches the table, so a call is one step.                               *)
(*                                                                         *)
(* The file system below is seen through its results.  Lookup[p] is the    *)
(* set of ways a walk along path p may end (Ext2Lookup): the last inode    *)
(* number it stored through its result pointer, NoIno if none, and whether *)
(* it reported success.  A transfer moves any part of what was asked for,  *)
(* or fails.                                                               *)
(***************************************************************************)
EXTENDS Integers

CONSTANTS
  MaxFd,    \* max_fd (100)
  Elements, \* free elements for a 500-byte allocation (ten, at most)
  Ino,      \* inode numbers
  NoIno,
  Path,     \* path names
  NoPath,
  FileOf,   \* the inode number each path names, NoIno if it names nothing
  Lookup,   \* the possible ends of a walk along each path
  Image,    \* what reading the superblock may give
  Offset,   \* offsets given to seek
  Size,     \* sizes given to read and write
  PosMod,   \* modulus of the 64-bit position
  IntMod    \* modulus of the 32-bit int a handler returns

ASSUME FdAssumption ==
  /\ MaxFd \in Nat /\ MaxFd >= 2
  /\ Elements \in Nat /\ PosMod \in Nat \ {0} /\ IntMod \in Nat \ {0}
  /\ NoIno \notin Ino /\ NoPath \notin Path
  /\ FileOf \in [Path -> Ino \cup {NoIno}]
  /\ Lookup \in [Path -> SUBSET [ino : Ino \cup {NoIno}, found : BOOLEAN]]
  /\ Image \subseteq {"supported", "unsupported", "unread"}
  /\ Offset \subseteq Int /\ Size \subseteq Nat

VARIABLES
  fds,         \* the table
  _superblock, \* what is known of the mounted file system
  _superblock_mounted,
  disk,        \* the block driver is initialized
  console,     \* the console driver is initialized
  elements,    \* free elements left for mounting
  machine,     \* "on", "off", or "null": gone through a null handler
  ret,         \* result of the latest call
  named,       \* history: the path each open descriptor was opened with
  access,      \* history: the latest disk access, inode and path
  jump         \* history: the descriptor and call of a jump through null

sysVars == <<_superblock, _superblock_mounted, elements>>
hwVars == <<disk, console>>
vars == <<fds, sysVars, hwVars, machine, ret, named, access, jump>>

Fd == 0 .. MaxFd - 1
\* What user code may pass as a descriptor: the table's, and its boundaries.
AnyFd == -1 .. MaxFd
Handlers == {"none", "console", "disk"}
NoAccess == [ino |-> NoIno, path |-> NoPath]
NoJump == [fd |-> -1, op |-> "none"]

(***************************************************************************)
(* struct io_descriptor.  An inode number of 0 is NoIno, as in the zeroed  *)
(* table; the three handlers are always those of one kind of descriptor,   *)
(* the console's being null except for write.                              *)
(***************************************************************************)
Descriptor ==
  [open : BOOLEAN, pos : 0 .. PosMod - 1, ino : Ino \cup {NoIno},
   handlers : Handlers]

TypeOK ==
  /\ fds \in [Fd -> Descriptor]
  /\ _superblock \in {"zero"} \cup Image
  /\ _superblock_mounted \in BOOLEAN
  /\ disk \in BOOLEAN /\ console \in BOOLEAN
  /\ elements \in 0 .. Elements
  /\ machine \in {"on", "off", "null"}
  /\ ret \in Int
  /\ named \in [Fd -> Path \cup {NoPath}]
  /\ access \in [ino : Ino \cup {NoIno}, path : Path \cup {NoPath}]
  /\ jump \in [fd : AnyFd, op : {"none", "seek", "read", "write"}]

\* The zeroed table after configure_stdio: only standard output is open.
configure_stdio ==
  [f \in Fd |-> [open |-> f = 1, pos |-> 0, ino |-> NoIno,
                 handlers |-> IF f = 1 THEN "console" ELSE "none"]]

Init ==
  /\ fds = configure_stdio
  /\ _superblock = "zero" /\ _superblock_mounted = FALSE
  /\ disk \in BOOLEAN /\ console \in BOOLEAN
  /\ elements = Elements
  /\ machine = "on" /\ ret = 0
  /\ named = [f \in Fd |-> NoPath]
  /\ access = NoAccess /\ jump = NoJump

-----------------------------------------------------------------------------
is_fd_valid(fd) == fd \in Fd

\* Fault: a descriptor of the table is taken for an open one.
InTable(fd) == is_fd_valid(fd)

is_fd_open(fd) == is_fd_valid(fd) /\ fds[fd].open

\* Fault: the slot after the standard descriptors is handed out unseen.
FirstFile(fd) == fd = 2

\* next_fd returns fd: the lowest free descriptor.
next_fd(fd) == ~fds[fd].open /\ \A f \in 0 .. fd - 1 : fds[f].open

\* A call that returns r and leaves everything as it was.
Returns(r) ==
  /\ ret' = r
  /\ UNCHANGED <<fds, sysVars, hwVars, machine, named, access, jump>>

\* The machine stops: power off, or a jump through a null pointer.
Stops(how) ==
  /\ machine' = how
  /\ UNCHANGED <<fds, sysVars, hwVars, ret, named, access>>

-----------------------------------------------------------------------------
(* mount_hd_s: allocates 500 bytes it never uses, then io_mount_hd.        *)

MountNoMemory == elements = 0 /\ Stops("off") /\ UNCHANGED jump

\* Without a disk the superblock's counts have been cleared all the same.
MountNoDisk ==
  /\ elements > 0 /\ ~disk
  /\ elements' = elements - 1 /\ ret' = -1 /\ _superblock' = "zero"
  /\ UNCHANGED <<fds, _superblock_mounted, hwVars, machine, named, access, jump>>

\* What read_superblock leaves in the superblock, whatever it returns.
read_superblock == _superblock' \in Image

\* Its result is not looked at.
MountDisk ==
  /\ elements > 0 /\ disk
  /\ elements' = elements - 1 /\ ret' = 0
  /\ read_superblock
  /\ _superblock_mounted' = TRUE
  /\ UNCHANGED <<fds, hwVars, machine, named, access, jump>>

mount_hd_s == machine = "on" /\ (MountNoMemory \/ MountNoDisk \/ MountDisk)

-----------------------------------------------------------------------------
(* openat_s and open_fd.                                                   *)

\* A descriptor for inode ino on the disk; the position is not set.
Opened(d, ino) ==
  [d EXCEPT !.open = TRUE, !.handlers = "disk", !.ino = ino]

OpenNoDisk == ~disk /\ Returns(-1)

OpenTableFull == disk /\ (\A f \in Fd : fds[f].open) /\ Returns(-1)

\* The assertion in open_fd ends everything; the slot has been taken by then.
OpenNotMounted(fd) ==
  /\ disk /\ next_fd(fd) /\ ~_superblock_mounted
  /\ fds' = [fds EXCEPT ![fd] = Opened(@, @.ino)]
  /\ machine' = "off"
  /\ UNCHANGED <<sysVars, hwVars, ret, named, access, jump>>

\* Fault: the slot's old inode number is kept.
OpenKeepsIno(p, fd, walk) ==
  /\ disk /\ next_fd(fd) /\ _superblock_mounted
  /\ fds' = [fds EXCEPT ![fd] =
               Opened(@, IF @.ino = NoIno THEN walk.ino ELSE @.ino)]
  /\ named' = [named EXCEPT ![fd] = p]
  /\ ret' = fd
  /\ UNCHANGED <<sysVars, hwVars, machine, access, jump>>

\* The walk stores into the slot's inode number as it goes.  A walk that
\* finds nothing is only reported on the console, and the slot's position is
\* left as it was.
OpenMounted(p, fd, walk) ==
  /\ disk /\ next_fd(fd) /\ _superblock_mounted
  /\ fds' = [fds EXCEPT ![fd] =
               Opened(@, IF walk.ino = NoIno THEN @.ino ELSE walk.ino)]
  /\ named' = [named EXCEPT ![fd] = p]
  /\ ret' = fd
  /\ UNCHANGED <<sysVars, hwVars, machine, access, jump>>

openat_s(p) ==
  /\ machine = "on"
  /\ \/ OpenNoDisk
     \/ OpenTableFull
     \/ \E fd \in Fd : OpenNotMounted(fd)
     \/ \E fd \in Fd, walk \in Lookup[p] : OpenMounted(p, fd, walk)

-----------------------------------------------------------------------------
(* close_s, seek_s, read_s and write_s.  All of them want an open          *)
(* descriptor.                                                             *)

BadFd(fd) == ~is_fd_open(fd) /\ Returns(-1)

\* A closed descriptor; position and inode number stay in the slot.
Closed(d) == [d EXCEPT !.open = FALSE, !.handlers = "none"]

CloseOpen(fd) ==
  /\ is_fd_open(fd)
  /\ fds' = [fds EXCEPT ![fd] = Closed(@)]
  /\ named' = [named EXCEPT ![fd] = NoPath]
  /\ ret' = 0
  /\ UNCHANGED <<sysVars, hwVars, machine, access, jump>>

close_s(fd) == machine = "on" /\ (BadFd(fd) \/ CloseOpen(fd))

\* A handler that is null: only the console's write handler is not.
NullHandler(fd, op) ==
  /\ is_fd_open(fd)
  /\ \/ fds[fd].handlers = "none"
     \/ fds[fd].handlers = "console" /\ op # "write"
  /\ Stops("null") /\ jump' = [fd |-> fd, op |-> op]

\* What a handler, of type int, returns of a wider value.
AsInt(v) ==
  LET low == v % IntMod
  IN  IF low < IntMod \div 2 THEN low ELSE low - IntMod

\* Where disk_seek_handler moves to: uint64_t arithmetic.
Moved(pos, off, whence) ==
  IF whence = "SEEK_SET" THEN off % PosMod ELSE (pos + off) % PosMod

\* SEEK_END, and anything unknown, is refused.
DiskSeek(fd, off, whence) ==
  /\ is_fd_open(fd) /\ fds[fd].handlers = "disk"
  /\ IF whence \in {"SEEK_SET", "SEEK_CUR"}
       THEN /\ fds' = [fds EXCEPT ![fd].pos = Moved(@, off, whence)]
            /\ ret' = AsInt(Moved(fds[fd].pos, off, whence))
       ELSE ret' = -1 /\ UNCHANGED fds
  /\ UNCHANGED <<sysVars, hwVars, machine, named, access, jump>>

seek_s(fd, off, whence) ==
  /\ machine = "on"
  /\ BadFd(fd) \/ NullHandler(fd, "seek") \/ DiskSeek(fd, off, whence)

\* disk_read_handler and disk_write_handler: the transfer, then the time
\* stamp, whose failure hides the result of the transfer.  Neither moves the
\* position.
DiskTransfer(fd, size) ==
  /\ is_fd_open(fd) /\ fds[fd].handlers = "disk"
  /\ IF disk
       THEN /\ access' = [ino |-> fds[fd].ino, path |-> named[fd]]
            /\ ret' \in -1 .. size
       ELSE ret' = -1 /\ UNCHANGED access
  /\ UNCHANGED <<fds, sysVars, hwVars, machine, named, jump>>

\* A read of nothing returns before anything is looked at.
DiskReadNothing(fd) ==
  is_fd_open(fd) /\ fds[fd].handlers = "disk" /\ Returns(0)

read_s(fd, size) ==
  /\ machine = "on"
  /\ \/ BadFd(fd)
     \/ NullHandler(fd, "read")
     \/ size = 0 /\ DiskReadNothing(fd)
     \/ size > 0 /\ DiskTransfer(fd, size)

\* stdout_write_handler; what it does with the queue is in Console.
ConsoleWrite(fd, size) ==
  /\ is_fd_open(fd) /\ fds[fd].handlers = "console"
  /\ Returns(IF console THEN size ELSE -1)

write_s(fd, size) ==
  /\ machine = "on"
  /\ \/ BadFd(fd)
     \/ NullHandler(fd, "write")
     \/ ConsoleWrite(fd, size)
     \/ DiskTransfer(fd, size)

-----------------------------------------------------------------------------
Whence == {"SEEK_SET", "SEEK_CUR", "SEEK_END"}

Next ==
  \/ mount_hd_s
  \/ \E p \in Path : openat_s(p)
  \/ \E fd \in AnyFd :
       \/ close_s(fd)
       \/ \E off \in Offset, whence \in Whence : seek_s(fd, off, whence)
       \/ \E size \in Size : read_s(fd, size) \/ write_s(fd, size)

Spec == Init /\ [][Next]_vars

-----------------------------------------------------------------------------
(* Properties.                                                             *)

\* Every path names a file and every walk along it arrives there.
LookupsSucceed ==
  \A p \in Path :
    FileOf[p] \in Ino /\ Lookup[p] = {[ino |-> FileOf[p], found |-> TRUE]}

(***************************************************************************)
(* Every transfer goes to the file of the path its descriptor was opened   *)
(* with, however often slots, which keep the inode number of their last    *)
(* user, have been closed and given out again.  It needs LookupsSucceed.   *)
(***************************************************************************)
AccessesNamedFile ==
  access.path # NoPath => access.ino = FileOf[access.path]

\* An open descriptor that stays open stays what it is.
StaysWhatItIs(f) ==
  fds[f].open /\ fds'[f].open =>
    /\ named'[f] = named[f]
    /\ fds'[f].ino = fds[f].ino
    /\ fds'[f].handlers = fds[f].handlers

(***************************************************************************)
(* No call gives a descriptor in use to another file or makes it lose its  *)
(* handlers: open never takes a slot that is taken.                        *)
(***************************************************************************)
KeepsItsFile == [][\A f \in Fd : StaysWhatItIs(f)]_vars

(***************************************************************************)
(* The kernel jumps through a null pointer only for read or seek on the    *)
(* standard output it set up itself: neither a closed descriptor nor an    *)
(* open one in a slot that was closed is ever called through, and slot 1   *)
(* only as long as it is the descriptor configure_stdio opened.            *)
(***************************************************************************)
NullOnlyOnStdout ==
  machine = "null" =>
    /\ jump.fd = 1 /\ jump.op \in {"read", "seek"}
    /\ fds[1].open /\ fds[1].handlers = "console"

(***************************************************************************)
(* The unit test takes a result that is not negative for success in        *)
(* opening the file: a path that names nothing gives no descriptor.        *)
(***************************************************************************)
MissingIsRefused ==
  \A f \in Fd : fds[f].open /\ named[f] # NoPath => FileOf[named[f]] # NoIno
=============================================================================
