# A verification of DemandOS

DemandOS is a RISC-V unikernel: a boot path, a trap handler with a table of
system calls, virtio drivers (entropy, block, console) on a PCI bus, an ext2 file
system, a small heap and a runtime that waits for demands. This directory holds
TLA+ models of its core, the TLC configurations that check them on small
instances, and TLAPS proofs of the most important results for every instance.

## The system

| component | source | state | operations | interacts with |
|---|---|---|---|---|
| virtqueue | `src/virtio.c` | descriptor table, available and used ring, `bookeeping` | `vring_use_descr`, `vring_unuse_descr`, `vring_add_to_descr`, `vring_post_descr`, `vring_wait_completion`, `signal_virtio_device`, `vring_init` | shared memory with the device |
| block driver | `src/blk.c` | locals of the call: header, status byte, sector buffer | sector read and write; byte ranges on top | virtqueue; called by ext2 |
| entropy source | `src/virtio.c` | an 8-byte local, the ring | `virtio_get_randomness` | virtqueue; called at boot and by `getrandom` |
| console | `src/io.c` | the second queue of the console device | `stdout_write_handler` | virtqueue; called by `write` on fd 1 |
| timer | `src/system.c` | `shadow_stime`, `stimecmp` | `set_stimecmp`, `unset_stimecmp`, `get_stime` | interrupt handler |
| sleeping, deferred work | `src/os.c`, `src/strap_handler.c` | `_current.asleep`, `_kernel.deferred` | `demand_s`, `nanosleep_s`, `set_deferred`, `do_timer_deferreds`, `timer_interrupt_handler`, `yield` | timer, trap path |
| trap path | `src/strap.S`, `src/strap_handler.c` | `sstatus`, `sepc`, saved registers | dispatch, exit, the system call table | everything |
| descriptors | `src/io.c` | `fds[100]`, mounted flag | open, close, read, write, seek, mount | ext2, console |
| ext2 | `src/ext2.c` | the disk, the superblock | path walk, directory scan, block mapping, read, write, time stamps | block driver |
| heap | `src/memory.c` | five arenas of ten, a bump pointer | `malloc`, `forever_alloc_aligned` | virtqueue set-up, mount |
| PCI and driver set-up | `src/pci.c`, `src/virtio_driver.c` | driver table, BARs | scan, load, `init_*_virtio` | virtqueue |

What is hard here: the device works on shared memory between any two
instructions of the driver; requests live on the stack of the caller and leave
their addresses behind in the descriptor table; ring indices wrap; the timer has
one compare register for several deadlines and its handler runs inside system
calls that have yielded; sector operations fail in the middle of ranges. The list
of hazards, each at its line, is in `PROJECT.json`.

Correctness, per component: a virtqueue user gets its own request served, once,
before it goes on, and the device touches no memory of a call that is over; a
sector operation is an atomic sector store; a byte range changes exactly the bytes
its result counts, in a file as on the disk; random bytes are fresh; no deadline is
lost and none is early; user code finds its registers and its place again after a
trap, and a fault that has no handler ends; blocks of memory are apart; a driver
drives the device that was found and both look for the rings in the same place; a
machine with the devices the kernel knows comes up.

## Modules

* `Vring` - one virtqueue: shared areas, bookkeeping, one operator per `vring_*`
  function, and the device's side of the queue. `vring_post_descr` is split at its
  fence. The slot mismatch is in the model: `AvailSlot` is modulo `Num - 1`,
  `DevHeadAt` modulo `Num`.
* `SectorDisk` - the abstract sector store: call, serve exactly once (or fail),
  return.
* `BlkDriver` - the two sector functions, one action per vring call, interleaved
  with a device that follows whatever chain the head it fetched leads to. `Frame`
  is the stack position of the call (the trap path uses the stack of the caller,
  so it varies). Implements `SectorDisk` under the mapping `Abstract`.
* `BlkIo` - the range functions on top of `SectorDisk`, which is instantiated with
  arrays of bytes as contents.
* `Entropy` - `virtio_get_randomness` over `Vring`, with the origin of each byte
  (initialiser, device, handed out before) as its value.
* `Timer` - clock, compare register, sleeper, deferred slot, `sstatus.SIE`/`SPIE`,
  the waiting system calls and the handler, which is interleaved with the clock.
* `Console` - `stdout_write_handler` over `Vring`, with the user's buffers, which
  the user may overwrite once `write` has returned.
* `Ext2Lookup` - the walk along a path and the scan of a directory, down to the
  buffer in which entries are copied to the front one over the other. `Entries`
  gives the entries of a directory block by the cell they start at. Reads fail as the
  code notices, or does not notice, them: what is scanned as entries may also be the
  data of a file (`FileData`), or whatever the stack held (`Stack`), alone or behind
  the sectors that were read, and an inode may be anything (`Misread`). Its
  specification is called `WalkSpec`.
* `Ext2File` - reads and writes of open files: the inode, block after block through
  `i_block`, then the time stamp. A cell of the disk is a sector, the least that a
  transfer of `BlkIo` moves or leaves; every transfer may fail.
* `Memory` - the arenas of the heap and the permanent storage. It has operations and
  no behaviour: `Trap` and `Boot` extend it and call them.
* `Trap` - trap entry, the table of handlers, the dispatcher, the system calls
  without a module of their own, and the exit path, over registers that stand for
  the kinds there are. The calls that wait are interrupted while they yield.
* `Boot` - `_boot` call by call, the PCI scan, the three init functions and the
  memory of the queues; it extends `Trap`, so that the same behaviour goes on with
  user code, and faults of the boot go through the same trap table.
* `FdTable` - the descriptor table and the system calls on it, one action per
  call. A walk is seen through what it may store and return (`Lookup`), a transfer
  through its result. The history variable `jump` keeps the descriptor and the
  operation of a call through a null handler.
* `...Proofs` - the TLAPS proofs about the module of that name; `BootProofs` is about
  `Boot`, `Trap` and `Memory`, and `OpenProofs` about `Ext2Lookup` and `FdTable`. The
  `MC...` modules define values for TLC.

Definitions called `No...`, `...Wide`, `Handler...Anyway` and the like, under a
comment that starts with "Fault", are wrong variants of the definition after them.
They are used to see that a property notices the mistake and are not part of any
specification.

Modelling decisions. Buffer lengths are implied by what an address stands for.
The device is external: it may look at the ring at any time, must look after a
notification, follows the descriptors as they are and may fail any transfer; a
malformed chain stops it. A failed sector write leaves old or new contents. In
`Timer` a deliverable interrupt is taken before the next step of the main thread
(a step stands for many instructions), user mode is always interruptible, and in
the kernel only `SIE` counts. `set_deferred` has no caller in the repository: the
variable `defers` says whether the kernel has one, and the properties that need the
kernel as it is say so. A deferred callback
may defer again. A kernel that jumps through a null pointer or returns to an
overwritten `sepc`, or that has copied a directory entry longer than the buffer over
its stack, is not followed further (`machine = "null"`, `pc = "lost"`), and
a failed `assert` ends the model like a power off. In `Ext2Lookup` a byte is a
cell: a header takes one, and so does each character, since names are compared
character by character. `memcpy` onto an overlapping lower address copies upwards,
as the C library's does. Of directory blocks on the disk, and of nothing else, it is
assumed that entries fill them. A directory block that could not be read is, up to the
sector that failed, what is on the disk, and from there on what the stack held, which
is anything in `Stack` or what the last scan left; an entry that reaches beyond the
buffer takes cells of the stack. Since a header is one cell, entries shorter than a
header, which only garbage has, are not told apart, and a name, of at most 255
characters, ends before the buffer does. The entropy device fills the whole chunk:
`virtio_get_randomness` does not look at the length the device reports, and what a
short answer would leave in the chunk is not explored. In `FdTable` an inode number 0 is `NoIno`; the `int` returned by
a handler is a truncation of the 64-bit position (`AsInt`).

In `Ext2File` an inode is read and written as a whole. When the read of a block group
descriptor fails, which the code does not notice, the inode comes from, or goes to,
anywhere (`astray`); what later calls do on such a disk is not followed. A hole, an
indirect block and an index behind `i_block` are taken for data, as the code takes
them. In `Trap` and `Boot` a place in the code is a name and a number, and the stack
pointer counts frames. Memory is zero at power on, so that elements of the heap are
free. An offset of the configuration space is the set of its bits, because the masks
of `pci.h` are what the property is about. A store through a null ring faults or is
lost, since what is at low addresses depends on the machine. A load access fault has
the code of the timer interrupt and goes to its handler. Drivers read the type of a
device from where their offset leads, so a device at function 1 to 3 gives the type
of the one at function 0, or none.

## Runs

| run | question |
|---|---|
| `blk_sectors` | does the device serve the current call, and only it, and does every call return? A queue of 5 with indices modulo 10 (two rounds of the ring before they wrap), two frames, two sectors, no symmetry, since the liveness properties are checked too |
| `blk_ranges` | are results exact for every range of up to 4 bytes on 3 sectors of 2 bytes, two calls in a row, any operation failing? A range of 4 at an odd offset spans three sectors |
| `entropy` | are single-chunk requests sound from any frame, over two rounds of the ring? |
| `entropy_chunks` | are longer ones? They are not: see Findings |
| `timer` | is a deadline lost or served early when demands, a sleep and, in one kind of initial state, deferred work share the timer; do sleeps end, and do demands return, to the right place, in the kernel as it is? |
| `console` | is each text printed once, and before its buffer is the user's again? |
| `ext2_lookup` | does the walk find exactly the file named, for names none of which begins with another entry's; are entries not yet seen ever damaged by the copying; does it end, with any read failing and any cells in place of those not read, and if not, is it for one of the two reasons given under Findings? |
| `ext2_prefix` | is a missing name reported? It is not: see Findings |
| `fd_table` | with paths that exist, does any sequence of calls reach a wrong file, a descriptor in use, or a null handler other than those for reading and seeking on standard output? |
| `fd_missing` | is a missing path refused? It is not: see Findings |
| `ext2_file` | does a read or write of a file touch anything but its range and its time stamp, is its result what is on the disk, and does it fail if and only if a transfer did? Two calls on two files of three blocks, one with a hole, an indirect block and a block beyond the 32-bit wrap |
| `machine` | which machines come up, does each driver drive the device that was found, do driver and device agree on the rings, and does user code survive system calls, faults and interrupts? Fourteen machines, up to four calls of user code |

Bounds. Indices are modulo a multiple of the queue length, as 65536 is; the
interesting cases are the slot `Num - 1`, which the driver never writes, and the
wrap of ring and index, and all are reached. The block queue has 5
entries: with 4 a request of three would bring the bookkeeping back to 0 even if
nothing were given back. Time runs to `MaxTime` = 14, which
leaves room for two or three waits one after the other; a call is made only if it
can finish (`Fits`). After `MaxTime`, after `MaxCalls` range or file operations and
after `MaxUser` instructions the model stops, and it stops when the machine is off:
these runs do not check for deadlock; nor do those of `FdTable`, where the machine may
stop. A table of three
holds standard output and two files, so it fills, and the slot of standard output
can be reused. Positions are modulo 4, so a negative offset wraps. The file system
of `ext2_lookup` has a root of two blocks, an entry that is copied over part of
itself, three entries in one block, and slack between entries. A block is two sectors,
so that it can be read by half. The stack holds zeros, or entries of length 0, entries
that go beyond the buffer, or that are longer than it; a path leads through a file whose
data hold entries of length 0 and beyond the block; and a misread inode has the blocks of a directory, of
that file, or one beyond the disk. Walks that loop and walks that are lost are both
reached, and the latter stop, so this run does not check for deadlock either. In `ext2_file` ranges
of none, one and three cells start at a block, inside one and behind the direct
blocks, with blocks of two cells, so a range spans blocks that are not neighbours;
the second call meets what the first, failed or not, left behind. In `machine` the page, the sizes of the arenas, the permanent
storage and the lengths of the queues are the real ones and only the number of
elements of an arena is reduced, to 2, so that arenas overflow into the next and the
last one is exhausted, by devices and by mounts. The machines include devices at high
addresses, more rings than the storage holds, queue lengths the drivers do not
expect, two devices of one type, functions that are confused, and devices without
driver. User code makes four system calls, faults, and is interrupted anywhere;
two frames are on the stack at most, and `MaxFrames` is 4.

Fairness. The driver and the kernel are straight-line or polling code on a
running hart, hence weak fairness of their steps; nothing makes user code call. The
device finishes what it fetched and fetches after a notification, and only then
(`WF(kicked /\ DevFetch)`): a lost notification is visible. The clock ticks. In
`Boot` the kernel's and the boot's code runs on; user code need not call, and
interrupts need not come. Every transfer of `Ext2File` ends, which `CallReturns` of
`BlkIo` shows.

## Findings

* Entropy requests longer than one chunk. `virtio_get_randomness` keeps `next`
  across the loop while `vring_unuse_descr` steps back, so the heads become 0, 1,
  1, 2, 2, ... Block and console requests always start at descriptor 0 and do not
  notice that driver and device disagree on the slot; the entropy driver does: at
  position `num - 1` the device reads a slot that was never written, serves an old
  descriptor, and fills the stack of a call that is over.
* `open` of a path that names nothing prints a message and returns a descriptor.
  Its inode number is that of the last directory the walk got to or of the slot's
  last user, and reads and writes go there.
* A directory entry whose name is the beginning of the name sought is taken for
  it; `.` is the first such entry of every directory.

More things the models do because the code does, without a run of their own:

* A directory block that was not read, or read by half, and the data of a file that
  stands where a path needs a directory, are scanned like a directory. An entry there
  with length 0 and another name is looked at for ever, since the scan goes on by its
  length, and one longer than the buffer is copied over the stack. `WalkEnds` says that
  nothing else keeps a walk from ending.
* A descriptor opened in a used slot starts at the position the slot's last user had
  sought to, and `io_mount_hd` mounts what `read_superblock` has refused; the
  first two files opened take descriptors 0 and 2.
* `yield` ends with `csrci sstatus, 0`, which clears nothing. Interrupts remain
  enabled until the trap returns. `ReturnsToCaller` still holds, because the timer
  `demand_s` sets has gone off by then; with deferred work pending it does not.
* A write to a hole goes to block 0, one beyond the twelfth block over the block
  list, and beyond 4 GiB to a low block (`Proper` excludes them in the properties of
  `Ext2File`). A time stamp that cannot be written makes -1 of a write that is on the
  disk.
* A machine without an entropy source is turned off, one with a network card hangs in
  the boot: the null driver is read, and the fault is taken for the timer's interrupt,
  again and again. Any other device without driver turns it off. A modern network
  card is given to the block driver.
* A block device whose queue is not 256 long, or a console with unequal queues, is
  set up with rings where the device does not look.
* `a1` and, after a call that waits, the floating-point temporaries are not what they
  were before a system call; the wrappers in `demandos.c` tell the compiler neither.

## Proofs

Every invariant the passing runs check is a theorem for every value of the constants;
so are the action properties `NoStrayWrite`, `KeepsItsFile` and the refinement
`RefinesSectorDisk`, and the type invariants of all modules but `Ext2Lookup`, `Ext2File`,
`Trap` and `Boot`, whose inductive invariants hold their types. Four of them need a
hypothesis that the runs without it refute or that sound file systems meet; it is part of
the theorem and named below. None of them is inductive as it stands, so each proof module starts with the invariant that is, checked by TLC on the
instance of the run before it was proved. It then has one lemma per action or group of
actions, one step per conjunct the action can disturb, one theorem that the invariant
holds and one for each property that follows. Bounds such as `MaxTime`, `MaxCalls`,
`MaxUser` or `MaxLen` are constants like any other: the theorems hold whatever they are.

`BlkDriverProofs` (`Num >= 4`, `IdxMod >= 2`, any non-empty `Frame`, `Sector`, `Data`):
`TypeOK`, `ServesCurrentRequest`, `CompletionIsReal`, `NoStrayWrite` and
`RefinesSectorDisk` (every initial state and step of driver and device is one of the
store, or invisible). `IndInv` adds what makes them true: every head is 0
(`HeadsAreZero`, so it does not matter which slot is read), the table describes
the current call as far as it has been built (`ChainSoFar`), nothing is between the
indices unless a request is published (`QuietIndices`) and then exactly one is, in
one of four stages (`BusyIndices`), and the status byte is unserved exactly until
the device has served (`StatusMatchesService`).

`ConsoleProofs` (same queues, any buffers and texts): `PrintsOnce`. The argument is that
of the block driver with one descriptor; the invariant also says that the buffer of the
call in progress still holds its text (`DescribesBuffer`) and that the text is printed
in the last two of the four stages and not before.

`EntropyProofs` (same queues, any chunk size and frames). In two parts. Without further
hypothesis: a request of any length writes exactly the bytes it reports
(`FillsWhatItReports`, from `LoopInv`, how far the loop has come). With
`MaxLength <= ChunkSize`, that is for requests of one chunk, the ones for which it is
true: `DeliversFreshBytes` and `NoStrayWrite`, again from the heads being 0. The run
`entropy_chunks` violates the property without the hypothesis; `configure_dl_random`
asks for 8 bytes, one chunk.

`BlkIoProofs` (every sector size, number of sectors, range and contents):
`NeighboursKept`, `WriteResult`, `ReadResult`. `RangesInv` says how far the loop is
(`RangeInv`), that the buffer of a read holds what is counted and no more (`ReadInv`),
that the disk is ahead of the count of a write by one sector at most (`WriteInv`), and
that the store is asked for the sector the loop is at, with the sector just read merged
into what is written back (`StoreInv`). That division and remainder take a position apart and together
again is in lemmas at the start; everything after is about sectors and offsets.
`TransfersSectors` joins this level to the next: a range of whole sectors ends in the
ways that `TransferWhole` and `TransferShort` of `Ext2File` allow, all sectors moved, or
a counted prefix of them and perhaps, uncounted, the one whose write failed. For such
ranges the count is always a number of sectors (`CountsSectors`).

`TimerProofs` (any durations, time-outs, delays and grace period; `MaxTime >= 1`, since
the clock starts at 1): `ReturnsToCaller`, `NoEarlyWake`, `SleeperArmed`,
`DeferredArmed`. `TimerInv` adds that the shadow is the register and no reading of the
clock is ahead of it (`ClockAndTimer`), what the record of the sleeper holds at each
step (`SleepRecord`), that whoever waits has a timer unless the handler has cleared it
and is on its way to them (`WaitersArmed`), and, without deferred work, that the only
timer outside `nanosleep_s` is the one of the demand that waits, and none is set on the
exit path (`OnlyOwnTimer`): that is why the interrupts `yield` leaves enabled do no harm.

`OpenProofs` goes from a path to an open file, in three parts.

* The walk (every tree, block size, layout of entries that fill their blocks, path,
  file data and contents of the stack): `RestIntact` holds whatever reads fail and
  whatever is scanned in place of a directory. `ScanStaysInBuffer` says where rec_len,
  which the code never checks, does no harm: a walk that has scanned directory blocks
  only, as they are on the disk (`~astray`), is never at an entry that is empty or goes
  beyond the buffer. `ScanInv`, from which both follow, adds to them and to `WalkTypeOK`
  that what is left of the path is its end (`PathLeft`), that lengths and inode numbers
  in the buffer are natural numbers (`BufferCells`), and that a walk which is not astray
  is at the start of an entry of the block it scans (`OnEntry`).
  `ResolvesExactly` is about paths that are `Unambiguous`: they lead through
  directories, no entry of a directory
  on the way begins the part sought unless it has that name, a name stands for one
  file, and directories have direct blocks only. TLC evaluates it for the paths of
  `ext2_lookup` (`ExactIsUnambiguous`), and `ext2_prefix` shows what happens without
  it. `WalkInv` says, as long as no read failed, that the walk is not astray, that it
  is at the file which
  the parts done lead to (`AtHere`) and that no entry passed over has the name sought
  (`NotSeen`). Its centre is `EntryAtFront`: after the copies the comparison sees the
  entry as it is on the disk, because of `RestIntact`. What a path names is a
  recursive function of its parts; its recursion equation (`ReachedStep`), and that
  behind a missing part nothing is found (`MissingStays`), are proved from the least
  counterexample.
* The table (at least two descriptors and any paths, inode numbers, offsets and
  sizes): `TypeOK`, `NullOnlyOnStdout` (a jump through null is a read or a seek, and on
  descriptor 1 while it is open with the console's handlers), `KeepsItsFile`, and `AccessesNamedFile` under
  the hypothesis `LookupsSucceed` (`fd_missing` and `ext2_prefix` show why it is
  needed). `TableInv` adds that an open descriptor has handlers and only slot 1 the
  console's (`HandlersMatch`); `NamesInv` adds that an open descriptor holds the inode
  number of its path (`OpenNamesFile`) and that a closed one is not named
  (`ClosedUnnamed`). `TableChanges` says once what a step can do to the table; the
  last two theorems go through its cases.
* Both (`OpensWhatItNames`): with unambiguous names, for paths that name files, a
  walk without failed reads answers what the table counts on, and every transfer
  goes to the file which the path given to `open` names in the tree.

`Ext2FileProofs` (every block size, disk, inode table and range): `OthersKept` and
`StampedUnlessFailed`, and `CountsWhatWasDone` for files that name no block twice
(`BlocksDistinct`, true of every sound ext2 file system and of the files of the run; a
later block would overwrite an earlier one). The invariant is `FileInv`, the inode and
the outcome at each of the five stages of a call, and `DataInv`, for ranges in blocks
that the file has: only cells of the range have changed (`Others`), the first `done`
are in place (`Moved`), and nothing behind them (`CleanFrom`), or behind the block in
which a failed write stopped (`CleanAfter`), was touched. Both are void once a call is
astray, as the properties are.

`BootProofs` (every set of machines whose devices are where the scan looks and have a
queue, every page size, all arenas, sizes and places of the memory): `BlocksApart`,
`UserContextKept`, `DrivesScannedDevice` and `RingsAgree`, from one invariant of the whole
machine, `MachineInv`.

* `MemInv`: each block given out lies in an element in use or below the frontier of the
  permanent storage, and no two overlap.
  That arenas do not overlap needs that `ArenaStart`, a recursive function, grows. The
  library's induction theorems take an operator as a parameter, which the provers
  cannot instantiate, so its recursion equation and its growth are proved from the
  least counterexample (`LeastNumber`, from the well-foundedness of `<`).
* `HeapInv`: the heap is set up by the time anything calls `malloc`.
* `TrapInv`: what is on the trap stack at each place the code can be in. The frame at
  the bottom is what user code had; a frame above it is there only while a call yields,
  and leads back to that place.
* `BootInv`: the devices the scan has passed are those below the current one; windows
  are handed out in order, so no two devices share one; each driver has the window, the
  rings and the lengths of the device it was given last; and how many rings
  are built at each stage of an init function. `DrivesScannedDevice` is inductive
  together with it.

The proof needed two corrections of properties that TLC had accepted on its
machines: `DrivesScannedDevice` now says of each device the scan has passed that it was
set up and that its driver drives the last one of its type, and `RingsAgree` expects a
console to have two queues.

Only model-checked:

* The liveness properties (`CallReturns`, `ImplementsSectorDisk`, `WriteReturns`,
  `DemandReturns`, `SleepEnds`, `WalkEnds`, `CallEnds`, `BootsToUser`, `FaultsStop`): the
  prover has no rule for fairness.
* The three properties that do not hold (see Findings).

## Plan

All parts with state are modelled, and all invariants are proved. What may still be
done:

1. Ranges that start or end inside a sector, in `Ext2File`: its cell is a sector, and
   `TransfersSectors` is about whole sectors only.
2. Temporal induction for the liveness properties, should the prover get rules for
   fairness.

## Not modelled

* Diagnostic output (`src/e.c`, `src/util.c`): no state; it ends in the firmware.
* `debug_dirent`, `test_ext2_implementation` and `internal_unit_test_s` only print;
  `set_ctime_for_ino`, `ext2_read_block` and `ext2_write_block` have no callers.
* The strings of the initial stack (`src/argcv.c`, `src/boot.S`) and what `fstat_s` and
  `readlinkat_s` put into a user's buffer: constants.
* System call numbers beyond the table, and the code behind the driver table that
  device number 10 leads to: what is there is decided by the linker.
* The firmware, the emulator and the C library, except as the devices and user code
  of the models.
