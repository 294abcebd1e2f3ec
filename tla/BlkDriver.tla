----------------------------- MODULE BlkDriver -----------------------------
(***************************************************************************)
(* The block driver's sector operations (src/blk.c) over one virtqueue,    *)
(* running against the device.                                             *)
(*                                                                         *)
(* virtio_blk_read_sector_sync and virtio_blk_write_sector_sync are the    *)
(* same sequence of vring operations on three buffers (request header,     *)
(* sector, status byte); they differ in the header's type and in the       *)
(* direction of the sector buffer.  All three buffers are locals of the    *)
(* call or of its caller, so their addresses depend on the depth of the    *)
(* stack at the call: a Frame.  A frame may be used again by a later call. *)
(*                                                                         *)
(* The device runs between any two steps of the driver.  It interprets     *)
(* whatever chain of descriptors the head it fetched leads to, reading and *)
(* writing the memory the descriptors name, current or not.                *)
(***************************************************************************)
EXTENDS Vring

CONSTANTS
  Frame,   \* stack positions from which a sector operation may be called
  Sector,  \* sectors of the disk
  Data     \* contents of a sector

ASSUME BlkAssumption == Frame # {} /\ Sector # {} /\ Data # {}

VARIABLES
  pc,       \* the driver's next step
  op,       \* operation of the latest call: the function that was called
  sector,   \* its sector argument
  frame,    \* the stack frame it runs in
  next,     \* its local variables next ...
  used,     \* ... and used
  hdr,      \* memory: the request header in every frame
  buf,      \* memory: the sector-sized buffer in every frame
  status,   \* memory: blk_io_status in every frame
  disk,     \* device: contents of the disk
  devPc,    \* device: "idle", "fetched", "served" or "broken"
  devHead   \* device: head of the chain it is working on

callVars == <<pc, op, sector, frame, next, used>>
memVars == <<hdr, buf, status>>
devVars == <<disk, devPc, devHead>>
vars == <<vringVars, callVars, memVars, devVars>>

Op == {"read", "write"}
Header == [type : Op, sector : Sector]
BlkAddr == Frame \X {"hdr", "data", "status"}

NotServed == 255
StatusByte == {0, 1, NotServed}

\* What the type invariant says of every variable of the driver and device.
TypeOK ==
  /\ VringTypeOK(BlkAddr)
  /\ pc \in {"idle", "hdr", "data", "status", "post", "publish", "signal",
             "wait", "return", "off"}
  /\ op \in Op /\ sector \in Sector /\ frame \in Frame
  /\ next \in Slot /\ used \in Slot
  /\ hdr \in [Frame -> Header]
  /\ buf \in [Frame -> Data]
  /\ status \in [Frame -> StatusByte]
  /\ disk \in [Sector -> Data]
  /\ devPc \in {"idle", "fetched", "served", "broken"}
  /\ devHead \in Slot

Init ==
  /\ vring_init
  /\ pc = "idle"
  /\ op = "read" /\ sector \in Sector /\ frame \in Frame
  /\ next = 0 /\ used = 0
  /\ hdr \in {[f \in Frame |-> [type |-> "read", sector |-> s]] : s \in Sector}
  /\ buf \in {[f \in Frame |-> d] : d \in Data}
  /\ status = [f \in Frame |-> NotServed]
  /\ disk \in [Sector -> Data]
  /\ devPc = "idle" /\ devHead = 0

-----------------------------------------------------------------------------
(* The driver.                                                             *)

\* Fault: blk_io_status is not initialised.
CallKeepsStatus(o, s, f, d) ==
  /\ pc = "idle"
  /\ op' = o /\ sector' = s /\ frame' = f
  /\ hdr' = [hdr EXCEPT ![f] = [type |-> o, sector |-> s]]
  /\ buf' = [buf EXCEPT ![f] = d]
  /\ next' = vring_use_descr
  /\ used' = vring_use_descr
  /\ pc' = "hdr"
  /\ UNCHANGED <<vringVars, devVars, status>>

\* Entry: status byte, header and scatter list are set up in the frame, and
\* the chain starts at the bookkeeping's current descriptor.
Call(o, s, f, d) ==
  /\ pc = "idle"
  /\ op' = o /\ sector' = s /\ frame' = f
  /\ hdr' = [hdr EXCEPT ![f] = [type |-> o, sector |-> s]]
  /\ buf' = [buf EXCEPT ![f] = d]
  /\ status' = [status EXCEPT ![f] = NotServed]
  /\ next' = vring_use_descr
  /\ used' = vring_use_descr
  /\ pc' = "hdr"
  /\ UNCHANGED <<vringVars, devVars>>

\* One call of vring_add_to_descr, whose result becomes next.
AddDescr(addr, write, ends_chain, then) ==
  /\ IF DescrOutOfRange(next)
       THEN /\ pc' = "off"
            /\ UNCHANGED <<tableVars, next>>
       ELSE /\ vring_add_to_descr(addr, write, next, ends_chain)
            /\ next' = NextDescr
            /\ pc' = then
  /\ UNCHANGED <<postVars, usedIdx, used_last, kicked, lastAvail, op, sector,
                 frame, used, memVars, devVars>>

AddHdr == pc = "hdr" /\ AddDescr(<<frame, "hdr">>, FALSE, FALSE, "data")

\* Fault: the sector buffer is never writable.
AddDataReadOnly ==
  pc = "data" /\ AddDescr(<<frame, "data">>, FALSE, FALSE, "status")

\* The device may write the sector buffer of a read only.
AddData ==
  pc = "data" /\ AddDescr(<<frame, "data">>, op = "read", FALSE, "status")

AddStatus == pc = "status" /\ AddDescr(<<frame, "status">>, TRUE, TRUE, "post")

Post ==
  /\ pc = "post"
  /\ PostHead(used)
  /\ pc' = "publish"
  /\ UNCHANGED <<tableVars, availIdx, usedIdx, used_last, kicked, lastAvail, op,
                 sector, frame, next, used, memVars, devVars>>

Publish ==
  /\ pc = "publish"
  /\ PublishIdx
  /\ pc' = "signal"
  /\ UNCHANGED <<tableVars, availRing, avail_next, usedIdx, used_last, kicked,
                 lastAvail, op, sector, frame, next, used, memVars, devVars>>

Signal ==
  /\ pc = "signal"
  /\ signal_virtio_device
  /\ pc' = "wait"
  /\ UNCHANGED <<tableVars, postVars, usedIdx, used_last, lastAvail, op, sector,
                 frame, next, used, memVars, devVars>>

WaitDone ==
  /\ pc = "wait"
  /\ vring_wait_completion
  /\ pc' = "return"
  /\ UNCHANGED <<tableVars, postVars, usedIdx, kicked, lastAvail, op, sector,
                 frame, next, used, memVars, devVars>>

\* The descriptors are given back and the status byte is returned.
Return ==
  /\ pc = "return"
  /\ vring_unuse_descr(used)
  /\ pc' = "idle"
  /\ UNCHANGED <<desc, postVars, usedIdx, used_last, kicked, lastAvail, op,
                 sector, frame, next, used, memVars, devVars>>

Step == \/ AddHdr \/ AddData \/ AddStatus \/ Post \/ Publish \/ Signal
        \/ WaitDone \/ Return

DriverNext ==
  \/ \E o \in Op, s \in Sector, f \in Frame, d \in Data : Call(o, s, f, d)
  \/ Step

-----------------------------------------------------------------------------
(* The device (external).                                                  *)

\* The device may look at the ring without having been notified.
DevFetch ==
  /\ devPc = "idle"
  /\ DevPending
  /\ devHead' = DevHeadAt
  /\ DevTake
  /\ devPc' = "fetched"
  /\ UNCHANGED <<tableVars, postVars, usedIdx, used_last, kicked, callVars,
                 memVars, disk>>

\* The descriptors reached from the fetched head.
First == desc[devHead]
Second == desc[First.next]
Third == desc[Second.next]

\* The request the chain describes is one the device can serve.
ChainServable ==
  /\ First.more /\ Second.more /\ ~Third.more
  /\ First.addr \in Frame \X {"hdr"}
  /\ Second.addr \in Frame \X {"data"}
  /\ Third.addr \in Frame \X {"status"}
  /\ ~First.write /\ Third.write
  /\ Second.write = (hdr[First.addr[1]].type = "read")

\* The transfer happens and the status byte says so.
DevServeOK(h, b, s) ==
  /\ buf' = [buf EXCEPT ![b] = IF h.type = "read" THEN disk[h.sector] ELSE @]
  /\ disk' = [disk EXCEPT ![h.sector] = IF h.type = "write" THEN buf[b] ELSE @]
  /\ status' = [status EXCEPT ![s] = 0]

\* An I/O error: a read may leave anything in the buffer, a write may or may
\* not have reached the disk.
DevServeError(h, b, s) ==
  /\ \E d \in Data :
       buf' = [buf EXCEPT ![b] = IF h.type = "read" THEN d ELSE @]
  /\ \E done \in BOOLEAN :
       disk' = [disk EXCEPT ![h.sector] =
                  IF h.type = "write" /\ done THEN buf[b] ELSE @]
  /\ status' = [status EXCEPT ![s] = 1]

\* A malformed chain makes the device stop serving.
DevServe ==
  /\ devPc = "fetched"
  /\ IF ChainServable
       THEN LET h == hdr[First.addr[1]]
                b == Second.addr[1]
                s == Third.addr[1]
            IN /\ DevServeOK(h, b, s) \/ DevServeError(h, b, s)
               /\ devPc' = "served"
       ELSE /\ devPc' = "broken"
            /\ UNCHANGED <<buf, status, disk>>
  /\ UNCHANGED <<vringVars, callVars, hdr, devHead>>

DevPush ==
  /\ devPc = "served"
  /\ DevComplete
  /\ devPc' = "idle"
  /\ UNCHANGED <<tableVars, postVars, used_last, kicked, lastAvail, callVars,
                 memVars, disk, devHead>>

DevSleep ==
  /\ devPc = "idle"
  /\ DevDrained
  /\ UNCHANGED <<tableVars, postVars, usedIdx, used_last, lastAvail, callVars,
                 memVars, devVars>>

DevNext == DevFetch \/ DevServe \/ DevPush \/ DevSleep

-----------------------------------------------------------------------------
Next == DriverNext \/ DevNext

(***************************************************************************)
(* The driver runs to completion once called (it polls, it never blocks).  *)
(* The device finishes what it fetched, and looks at the ring after a      *)
(* notification; without one it need not look.                             *)
(***************************************************************************)
Fairness ==
  /\ WF_vars(Step)
  /\ WF_vars(DevServe \/ DevPush)
  /\ WF_vars(kicked /\ DevFetch)

Spec == Init /\ [][Next]_vars /\ Fairness

-----------------------------------------------------------------------------
(* Properties.                                                             *)

\* The request has been published and the device has not yet finished it.
Outstanding == pc \in {"signal", "wait"}

\* Served: the device has written the status of the call in progress.
Served ==
  \/ pc = "return"
  \/ Outstanding /\ (devPc = "served" \/ (devPc = "idle" /\ ~DevPending))

(***************************************************************************)
(* Whatever head the device reads out of the available ring (at a slot     *)
(* number that is not the one the driver wrote, see Vring), the chain it   *)
(* leads to is the chain of the call in progress, complete and with the    *)
(* right direction for each buffer: hdr, data, status of this very frame.  *)
(***************************************************************************)
ServesCurrentRequest ==
  /\ devPc # "broken"
  /\ devPc = "fetched" =>
       /\ Outstanding
       /\ ChainServable
       /\ First.addr = <<frame, "hdr">>
       /\ Second.addr = <<frame, "data">>
       /\ Third.addr = <<frame, "status">>
       /\ hdr[frame] = [type |-> op, sector |-> sector]

(***************************************************************************)
(* vring_wait_completion compares free-running indices for inequality      *)
(* only.  It still never takes an old completion for the current one: when *)
(* a sector operation returns, the device has finished with the frame, has *)
(* no other request, and blk_io_status holds its answer.                   *)
(***************************************************************************)
CompletionIsReal ==
  pc = "return" =>
    /\ devPc = "idle"
    /\ ~DevPending
    /\ used_last = usedIdx /\ usedIdx = lastAvail
    /\ status[frame] # NotServed

\* A device step leaves every other frame, and a frame not in use, alone.
DevWritesCurrentFrame ==
  DevNext => /\ (buf' # buf \/ status' # status) => Outstanding
             /\ \A f \in Frame \ {frame} : /\ buf'[f] = buf[f]
                                           /\ status'[f] = status[f]

(***************************************************************************)
(* The device writes guest memory only in the frame of the call that is    *)
(* in progress, and only before that call returns: no sector operation     *)
(* leaves a descriptor behind through which a later one scribbles over a   *)
(* dead stack frame.                                                       *)
(***************************************************************************)
NoStrayWrite == [][DevWritesCurrentFrame]_vars

\* The sector store the driver implements.
Abstract == INSTANCE SectorDisk WITH
  phase  <- IF pc = "idle" THEN "idle" ELSE IF Served THEN "done" ELSE "busy",
  data   <- buf[frame],
  status <- status[frame]

(***************************************************************************)
(* The sector operations behave like the abstract sector store: every call *)
(* is served at most once and returns only after that, a zero status means *)
(* the transfer to or from the named sector took place, and no other       *)
(* sector changes.                                                         *)
(***************************************************************************)
RefinesSectorDisk == Abstract!SafeSpec

(***************************************************************************)
(* ... and, with a device that looks at the ring when it is notified,      *)
(* every call is in fact served.                                           *)
(***************************************************************************)
ImplementsSectorDisk == Abstract!Spec

-----------------------------------------------------------------------------
(***************************************************************************)
(* The inductive invariant behind the properties.  Three facts make the    *)
(* mismatch of ring slots harmless: a chain always starts at descriptor 0  *)
(* (vring_unuse_descr undoes the advance of every call), so every slot of  *)
(* the available ring, written or not, holds 0; the table describes the    *)
(* current call from the moment its request is published; and at most one  *)
(* request is ever between the indices.                                    *)
(***************************************************************************)
HeadsAreZero == used = 0 /\ devHead = 0 /\ \A i \in Slot : availRing[i] = 0

ChainSoFar ==
  /\ pc \in {"idle", "hdr"} => descr_next = 0
  /\ pc = "hdr" => next = 0
  /\ pc = "data" => descr_next = 1 /\ next = 1
  /\ pc = "status" => descr_next = 2 /\ next = 2
  /\ pc \in {"data", "status", "post", "publish", "signal", "wait", "return"} =>
       desc[0] = [addr |-> <<frame, "hdr">>, next |-> 1,
                  more |-> TRUE, write |-> FALSE]
  /\ pc \in {"status", "post", "publish", "signal", "wait", "return"} =>
       desc[1] = [addr |-> <<frame, "data">>, next |-> 2,
                  more |-> TRUE, write |-> (op = "read")]
  /\ pc \in {"post", "publish", "signal", "wait", "return"} =>
       desc[2] = [addr |-> <<frame, "status">>, next |-> 0,
                  more |-> FALSE, write |-> TRUE]
  /\ pc # "idle" => hdr[frame] = [type |-> op, sector |-> sector]

\* Nothing is between the indices, except the head about to be published.
QuietIndices ==
  pc \notin {"signal", "wait"} =>
    /\ devPc = "idle"
    /\ lastAvail = availIdx /\ usedIdx = availIdx /\ used_last = availIdx
    /\ avail_next = IF pc = "publish" THEN IdxSucc(availIdx) ELSE availIdx

\* The one request in flight: not fetched, in service, or completed.
BusyIndices ==
  pc \in {"signal", "wait"} =>
    /\ avail_next = availIdx
    /\ availIdx = IdxSucc(used_last)
    /\ \/ devPc = "idle" /\ lastAvail = used_last /\ usedIdx = used_last
       \/ devPc = "fetched" /\ lastAvail = availIdx /\ usedIdx = used_last
       \/ devPc = "served" /\ lastAvail = availIdx /\ usedIdx = used_last
       \/ devPc = "idle" /\ lastAvail = availIdx /\ usedIdx = availIdx

\* The status byte is still the initial one exactly until the device serves.
StatusMatchesService ==
  pc # "idle" => (status[frame] = NotServed <=> ~Served)

IndInv ==
  /\ TypeOK
  /\ pc # "off"
  /\ HeadsAreZero
  /\ ChainSoFar
  /\ QuietIndices
  /\ BusyIndices
  /\ StatusMatchesService
=============================================================================
