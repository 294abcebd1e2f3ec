-------------------------------- MODULE Boot --------------------------------
(***************************************************************************)
(* From power on to the first user instruction: the calls of _boot         *)
(* (src/boot.S), the scan of the PCI bus and the configuration of what it  *)
(* finds (src/pci.c), the three drivers' init functions                    *)
(* (src/virtio_driver.c), the memory of a virtqueue (vring_init in         *)
(* src/virtio.c) and configure_dl_random (src/os.c); then user code and    *)
(* traps, as in Trap.  Faults during the boot are taken as traps.          *)
(*                                                                         *)
(* An offset into the configuration space is the set of its bits, from 12  *)
(* (the functions) to 27 (the buses); the shifts and masks of src/pci.h    *)
(* choose among them.  A machine says which devices are there:             *)
(* [id, queues], queues being the lengths of the device's queues.          *)
(***************************************************************************)
EXTENDS Trap

CONSTANTS
  Machines,   \* machines that may be booted: functions from offsets to devices
  Page        \* 4096

Position(off) == SumSet({2 ^ b : b \in off})

\* 0x308000: up to device 0 of bus 3.
MAX_PCI_OFF == 3178496
Id == 0 .. 65535

ASSUME PageAssumption == Page \in Nat \ {0}
ASSUME MachineAssumption ==
  \A m \in Machines : \A off \in DOMAIN m :
       /\ off \subseteq 12 .. 21 /\ Position(off) < MAX_PCI_OFF
       /\ m[off].id \in Id
       /\ m[off].queues \in Seq(Nat) /\ m[off].queues # <<>>

VARIABLES
  machine,    \* the machine; does not change
  todo,       \* pci_scan: the offsets of virtio devices it has not come to
  at,         \* ... the one it is at, and
  type,       \* ... the number of its driver
  base,       \* pci_config_space_alloc: base
  dev,        \* registers of the devices: bar0, status and queue addresses
  virtio_drivers

bootVars == <<machine, todo, at, type, base, dev, virtio_drivers>>
vars == <<memVars, trapVars, procVars, caller, bootVars>>

None == -1
NoDriver == [init_f |-> "null", initialized |-> FALSE, window |-> None,
             conf |-> {}, vring |-> <<>>]

Init ==
  /\ MemoryInit /\ TrapInit
  /\ machine \in Machines
  /\ todo = DOMAIN machine /\ at = {} /\ type = 0 /\ base = 0
  /\ dev = [o \in DOMAIN machine |->
              [bar0 |-> None, ok |-> FALSE,
               pfn |-> [q \in DOMAIN machine[o].queues |-> None]]]
  /\ virtio_drivers = [t \in 1 .. 9 |-> NoDriver]

\* A step of the boot, to the next stage, and one that turns the machine off.
Stage(s) == pc = <<"boot", s>>
Go(s) ==
  /\ pc' = <<"boot", s>>
  /\ UNCHANGED <<mode, regs, frames, sepc, spp, caller>>
Stop == Off /\ UNCHANGED <<mode, regs, frames, sepc, spp, caller>>

-----------------------------------------------------------------------------
(* _boot up to configure_pci.                                              *)

BootBrk ==
  /\ Stage("brk")
  /\ set_brk_s(BrkStart)
  /\ Go("heap")
  /\ UNCHANGED <<memVars, syscall_handlers, bootVars>>

BootHeap ==
  /\ Stage("heap")
  /\ initialize_heap
  /\ IF ArenasFit THEN Go("drivers")
                  ELSE Stop
  /\ UNCHANGED <<procVars, bootVars>>

\* The drivers that DECLARE_DRIVER puts into their section.
Drivers == {<<5, "entropy">>, <<3, "console">>, <<1, "blk">>}

load_drivers ==
  /\ Stage("drivers")
  /\ virtio_drivers' =
       [t \in 1 .. 9 |->
          IF \E d \in Drivers : d[1] = t
            THEN LET d == CHOOSE d \in Drivers : d[1] = t
                 IN  [NoDriver EXCEPT !.init_f = d[2]]
            ELSE NoDriver]
  /\ Go("scan")
  /\ UNCHANGED <<memVars, procVars, machine, todo, at, type, base, dev>>

-----------------------------------------------------------------------------
(* src/pci.h: the bits of an offset that each macro keeps.                 *)

PCI_BUS(off) == off \cap (20 .. 27)

\* ~(DEV_SHIFT - 1) = ~14 clears bits 1, 2 and 3 of the shifted offset ...
PCI_DEV(off) == off \cap ((15 .. 22) \ {16, 17, 18})

\* Fault: the function's three bits and no more.
PCI_FUN_ONLY(off) == off \cap (12 .. 14)

\* ... and ~(FUN_SHIFT - 1) = ~11 clears bits 0, 1 and 3.
PCI_FUN(off) == off \cap ((12 .. 19) \ {12, 13, 15})

PCI_OFF(bus, devi, fun) == bus \cup devi \cup fun

DeviceConf(off) == PCI_OFF(PCI_BUS(off), PCI_DEV(off), PCI_FUN(off))

\* Fault: the limit is one too low.
TypeBelow(id) ==
  IF id > 4096 THEN (id - 4160) % 65536 ELSE (id - 4096) % 65536

\* Ids up to 0x1009 count from 0x1000, later ones from 0x1040.  Where there
\* is no device all bits are read as one.
DriverType(id) ==
  IF id > 4105 THEN (id - 4160) % 65536 ELSE (id - 4096) % 65536

IdAt(off) == IF off \in DOMAIN machine THEN machine[off].id ELSE 65535

find_virtio_driver(t) == IF t = 0 \/ t > 10 THEN "NULL" ELSE "driver"

\* pci_scan comes to a virtio device and configure_pci_device looks for its
\* driver; other devices and empty places are passed over.
ScanFinds ==
  /\ Stage("scan") /\ todo # {}
  /\ \E off \in todo :
       /\ \A o \in todo : Position(off) <= Position(o)
       /\ todo' = todo \ {off} /\ at' = off
       /\ type' = DriverType(IdAt(DeviceConf(off)))
  /\ base' = base + Page
  /\ Go("driver")
  /\ UNCHANGED <<memVars, procVars, machine, dev, virtio_drivers>>

ScanEnds ==
  /\ Stage("scan") /\ todo = {}
  /\ Go("io")
  /\ UNCHANGED <<memVars, procVars, bootVars>>

\* driver->init_f is read through a null pointer: a load access fault, which
\* is taken for the timer and comes again.
DriverMissing ==
  /\ Stage("driver") /\ find_virtio_driver(type) = "NULL"
  /\ Fault(TimerCode)
  /\ UNCHANGED <<memVars, procVars, caller, bootVars>>

\* init_f is null where no driver was loaded; number 10 is behind the table,
\* and what is there is no code either.
DriverNotLoaded ==
  /\ Stage("driver") /\ find_virtio_driver(type) = "driver"
  /\ \/ type <= 9 /\ virtio_drivers[type].init_f = "null" /\ Fault(1)
     \/ type = 10 /\ \E code \in {1, 2} : Fault(code)
  /\ UNCHANGED <<memVars, procVars, caller, bootVars>>

-----------------------------------------------------------------------------
(* The init functions.                                                     *)

Driver == virtio_drivers[type]
Conf == DeviceConf(at)
\* The window pci_config_space_alloc gave to this device.
Window == base - Page
\* The queue length read from the device.
QLen(q) == machine[Conf].queues[q]

\* sizeof(struct vring) is 64; the console has two.
Rings == IF Driver.init_f = "console" THEN 2 ELSE 1
VringsSize == 64 * Rings

\* BARs and status are set, the first queue selected and the rings' records
\* allocated.
InitStart ==
  /\ Stage("driver") /\ type \in 1 .. 9 /\ Driver.init_f # "null"
  /\ dev' = [dev EXCEPT ![Conf] = [@ EXCEPT !.bar0 = Window, !.ok = FALSE]]
  /\ virtio_drivers' = [virtio_drivers EXCEPT
       ![type] = [@ EXCEPT !.window = Window, !.conf = Conf, !.vring = <<>>]]
  /\ \/ malloc(VringsSize) /\ Go("ring")
     \/ ~CanMalloc(VringsSize) /\ Stop /\ UNCHANGED memVars
  /\ UNCHANGED <<procVars, machine, todo, at, type, base>>

virtq_descr_size(n) == 16 * n
virtq_avail_size(n) == 6 + 2 * n
virtq_used_size(n) == 6 + 8 * n
virtq_size(n) ==
  ALIGN_UP(virtq_descr_size(n) + virtq_avail_size(n), Page) +
  ALIGN_UP(virtq_used_size(n), Page)

\* Fault: the used ring follows the available ring at once.
UsedUnaligned(desc, n) == desc + virtq_descr_size(n) + virtq_avail_size(n)

UsedAt(desc, n) ==
  ALIGN_UP(desc + virtq_descr_size(n) + virtq_avail_size(n), Page)

\* What vring_init and the driver after it make of a piece of storage: the
\* layout is that of a queue of n, num is the length the device gave.
Vring(desc, n, num) ==
  [num |-> num, desc |-> desc, avail |-> desc + virtq_descr_size(n),
   used |-> UsedAt(desc, n), size |-> virtq_size(n)]

\* The block driver lays its ring out for 256, whatever the device says.
InitSize == IF Driver.init_f = "blk" THEN 256 ELSE QLen(1)

RingAt(desc) ==
  virtio_drivers' = [virtio_drivers EXCEPT
    ![type].vring = Append(@, Vring(desc, InitSize, QLen(1)))]

vring_init ==
  /\ Stage("ring") /\ Len(Driver.vring) < Rings
  /\ forever_alloc_aligned(virtq_size(InitSize), Page)
  /\ RingAt(ForeverAddress(Page))
  /\ Go("ring")
  /\ UNCHANGED <<procVars, machine, todo, at, type, base, dev>>

\* The null result is not checked.  The store to avail->flags, near address
\* zero, faults or is lost, as the machine is made.
VringNoSpace ==
  /\ Stage("ring") /\ Len(Driver.vring) < Rings
  /\ ~CanForever(virtq_size(InitSize), Page)
  /\ \/ Fault(7) /\ UNCHANGED <<caller, virtio_drivers>>
     \/ RingAt(NULL) /\ Go("ring")
  /\ UNCHANGED <<memVars, procVars, machine, todo, at, type, base, dev>>

\* The queues' page numbers are written, through the window, and the device
\* is told that the driver is ready.
InitEnd ==
  /\ Stage("ring") /\ Len(Driver.vring) = Rings
  /\ dev' = [o \in DOMAIN dev |->
       IF dev[o].bar0 # Driver.window THEN dev[o]
       ELSE [dev[o] EXCEPT !.ok = TRUE,
               !.pfn = [q \in DOMAIN @ |->
                          IF q <= Rings THEN Driver.vring[q].desc \div Page
                                        ELSE @[q]]]]
  /\ virtio_drivers' = [virtio_drivers EXCEPT ![type].initialized = TRUE]
  /\ Go("scan")
  /\ UNCHANGED <<memVars, procVars, machine, todo, at, type, base>>

-----------------------------------------------------------------------------
(* The rest of _boot.                                                      *)

\* configure_io is in FdTable (configure_stdio).
BootIo ==
  /\ Stage("io")
  /\ Go("calls")
  /\ UNCHANGED <<memVars, procVars, bootVars>>

BootCalls ==
  /\ Stage("calls")
  /\ configure_syscall_handlers
  /\ Go("random")
  /\ UNCHANGED <<memVars, process, bootVars>>

\* configure_dl_random turns the machine off if it gets no random bytes: the
\* entropy driver must be initialised (Entropy has the rest).
configure_dl_random ==
  /\ Stage("random")
  /\ IF virtio_drivers[5].initialized
       THEN Go("sret")
       ELSE Stop
  /\ UNCHANGED <<memVars, procVars, bootVars>>

\* SPP is cleared, sepc set to _start and the argument registers to zero.
BootEnds ==
  /\ Stage("sret")
  /\ pc' = <<"user", 0>> /\ mode' = "U" /\ sepc' = pc' /\ spp' = "U"
  /\ regs' = [regs EXCEPT !.a0 = 0, !.a1 = 0, !.a2 = 0, !.a7 = 0]
  /\ UNCHANGED <<frames, memVars, procVars, caller, bootVars>>

BootStep ==
  \/ BootBrk \/ BootHeap \/ load_drivers \/ ScanFinds \/ ScanEnds
  \/ DriverMissing \/ DriverNotLoaded \/ InitStart \/ vring_init
  \/ VringNoSpace \/ InitEnd \/ BootIo \/ BootCalls \/ configure_dl_random
  \/ BootEnds

KernelStep == Kernel /\ UNCHANGED bootVars

Next ==
  \/ BootStep
  \/ KernelStep
  \/ (User \/ TimerInterrupt) /\ UNCHANGED bootVars

\* The kernel's code runs on; user code and interrupts need not come.
Fairness == WF_vars(BootStep) /\ WF_vars(KernelStep)

Spec == Init /\ [][Next]_vars /\ Fairness

-----------------------------------------------------------------------------
(* Properties.                                                             *)

\* Function 0 or 4: the functions that configure_pci_device can tell apart.
Distinct(off) == off \cap {12, 13} = {}

\* The scan is done with the device it came to last.
Settled ==
  \/ pc \in {<<"boot", s>> : s \in {"scan", "io", "calls", "random", "sret"}}
  \/ pc[1] = "user" \/ caller.pc[1] = "user"
Passed(o) == o \in DOMAIN machine \ todo /\ (o = at => Settled)

(***************************************************************************)
(* Every device with a driver that the scan has passed was set up, each    *)
(* driver drives the last of them that is of its type, and the window it   *)
(* writes to is that device's and no other's, although the masks that take *)
(* an offset apart lose bits of the device and of the function.            *)
(***************************************************************************)
DrivesScannedDevice ==
  (\A o \in DOMAIN machine : Distinct(o)) =>
    \A o \in DOMAIN machine : Passed(o) =>
      LET t == DriverType(machine[o].id)
          d == virtio_drivers[t]
      IN  t \in {1, 3, 5} =>
            /\ dev[o].ok /\ d.initialized
            /\ d.conf \in DOMAIN machine \ todo
            /\ DriverType(machine[d.conf].id) = t
            /\ Position(o) <= Position(d.conf)
            /\ {c \in DOMAIN dev : dev[c].bar0 = d.window} = {d.conf}

\* The layout a legacy device expects of a queue of n at a page.
DeviceView(page, n) ==
  LET desc == page * Page
  IN  [desc |-> desc, avail |-> desc + 16 * n,
       used |-> ALIGN_UP(desc + 16 * n + 2 * (3 + n), Page)]

\* The block device has the queue length the driver takes for granted, and
\* the console's two queues are equally long.
Expected(o) ==
  LET d == machine[o]
  IN  CASE DriverType(d.id) = 1 -> d.queues[1] = 256
        [] DriverType(d.id) = 3 -> /\ Len(d.queues) >= 2
                                   /\ d.queues[1] = d.queues[2]
        [] OTHER -> TRUE

(***************************************************************************)
(* Driver and device agree on their memory: at the page the device was     *)
(* given, for the length it has, it looks for both rings where the driver  *)
(* put them, and all of it is inside a piece of storage allocated for this *)
(* ring alone, or there was no storage left and the ring is at zero.       *)
(***************************************************************************)
RingsAgree ==
  \A t \in {1, 3, 5} :
    LET d == virtio_drivers[t]
    IN  d.initialized /\ dev[d.conf].ok /\ Expected(d.conf) =>
          \A q \in {p \in DOMAIN d.vring : d.vring[p].desc # NULL} :
            LET r == d.vring[q]
                n == machine[d.conf].queues[q]
                v == DeviceView(dev[d.conf].pfn[q], n)
            IN  /\ r.num = n
                /\ v = [desc |-> r.desc, avail |-> r.avail, used |-> r.used]
                /\ v.used + 6 + 8 * n <= r.desc + r.size
                /\ \E i \in DOMAIN blocks :
                     blocks[i] = [start |-> r.desc, size |-> r.size,
                                  heap |-> FALSE]

\* What the drivers take from the permanent storage on this machine.
Needed(o) ==
  CASE DriverType(machine[o].id) = 1 -> virtq_size(256)
    [] DriverType(machine[o].id) = 3 -> 2 * virtq_size(machine[o].queues[1])
    [] OTHER -> virtq_size(machine[o].queues[1])

Supported ==
  /\ \A o \in DOMAIN machine :
       Distinct(o) /\ machine[o].id \in {4097, 4099, 4101}
  /\ \E o \in DOMAIN machine : machine[o].id = 4101
  /\ MapThenSumSet(Needed, DOMAIN machine) <= ForeverStop - ForeverStart
  /\ Cardinality(DOMAIN machine) <= 2 * Elements

(***************************************************************************)
(* A machine whose virtio devices are block devices, consoles and entropy  *)
(* sources, one entropy source at least, comes up as far as user code, if  *)
(* the permanent storage holds the rings and the two largest arenas their  *)
(* records.  Other machines may be turned off or stay in the boot.         *)
(***************************************************************************)
BootsToUser == (Stage("brk") /\ Supported) ~> (pc[1] = "user")
=============================================================================
