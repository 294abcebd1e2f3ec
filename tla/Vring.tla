------------------------------- MODULE Vring -------------------------------
(***************************************************************************)
(* One legacy (split) virtqueue as src/virtio.c keeps it: the three shared *)
(* areas (descriptor table, available ring, used ring) and the driver's    *)
(* private bookkeeping, with one operator per vring_* function.  The       *)
(* drivers that share the code (block, entropy, console) extend this       *)
(* module and sequence the operators.                                      *)
(*                                                                         *)
(* The device side of the queue (notification, fetch, used index) is not   *)
(* part of the repository: it is modelled from the legacy virtio rules     *)
(* the driver relies on.  The device takes the head of request number i    *)
(* from slot i % num, while the driver stores it at i % (num - 1).         *)
(***************************************************************************)
EXTENDS Integers

CONSTANTS
  Num,      \* vring->num: length of the queue, as the device reports it
  IdxMod,   \* modulus of the free-running 16-bit ring indices (65536)
  NullAddr  \* the address in a descriptor of the zero-filled initial table

\* A chain of three descriptors is laid out modulo Num - 1.
ASSUME NumAssumption == Num \in Nat /\ Num >= 4

\* With two values an index is still distinguishable from its successor.
ASSUME IdxModAssumption == IdxMod \in Nat /\ IdxMod >= 2

VARIABLES
  desc,       \* vring->desc
  availRing,  \* vring->avail->ring
  availIdx,   \* vring->avail->idx
  usedIdx,    \* vring->used->idx
  descr_next, \* vring->bookeeping.descr_next
  avail_next, \* vring->bookeeping.avail_next
  used_last,  \* vring->bookeeping.used_last
  kicked,     \* device: a notification is pending
  lastAvail   \* device: number of requests fetched so far (mod IdxMod)

tableVars == <<desc, descr_next>>
postVars == <<availRing, avail_next, availIdx>>
vringVars == <<desc, availRing, availIdx, usedIdx, descr_next, avail_next,
               used_last, kicked, lastAvail>>

Slot == 0 .. Num - 1
Index == 0 .. IdxMod - 1

(***************************************************************************)
(* A descriptor.  The length is determined by the buffer the address       *)
(* stands for; the two flag bits in use are VRING_DESC_NEXT (more) and     *)
(* VRING_DESCR_WRITABLE (write).                                           *)
(***************************************************************************)
Descriptor(Addr) ==
  [addr : Addr \cup {NullAddr}, next : Slot, more : BOOLEAN, write : BOOLEAN]

VringTypeOK(Addr) ==
  /\ desc \in [Slot -> Descriptor(Addr)]
  /\ availRing \in [Slot -> Slot]
  /\ availIdx \in Index /\ usedIdx \in Index /\ lastAvail \in Index
  /\ avail_next \in Index /\ used_last \in Index
  /\ descr_next \in Slot
  /\ kicked \in BOOLEAN

\* The shared space comes zero-filled out of the forever storage.
vring_init ==
  /\ desc = [i \in Slot |->
               [addr |-> NullAddr, next |-> 0, more |-> FALSE, write |-> FALSE]]
  /\ availRing = [i \in Slot |-> 0]
  /\ availIdx = 0 /\ usedIdx = 0
  /\ descr_next = 0 /\ avail_next = 0 /\ used_last = 0
  /\ kicked = FALSE /\ lastAvail = 0

-----------------------------------------------------------------------------
(* Driver side: the vring_* functions.                                     *)

vring_use_descr == descr_next

\* Fault: the descriptors of a finished request are not given back.
NoUnuse(goback) == UNCHANGED descr_next

vring_unuse_descr(goback) == descr_next' = goback

\* The index that follows the bookkeeping's current one.  The last entry of
\* the table is never handed out.
NextDescr == (descr_next + 1) % (Num - 1)

\* Beyond the table: vring_add_to_descr reports the error and powers off.
DescrOutOfRange(where) == where >= Num

\* Note that the successor is computed from the bookkeeping, not from where.
vring_add_to_descr(buf, write, where, ends_chain) ==
  /\ desc' = [desc EXCEPT ![where] =
                [addr  |-> buf,
                 next  |-> IF ends_chain THEN 0 ELSE NextDescr,
                 more  |-> ~ends_chain,
                 write |-> write]]
  /\ descr_next' = NextDescr

\* Fault: an index wider than the ring's 16 bits.
IdxSuccWide(i) == i + 1

\* Index arithmetic wraps like uint16_t.
IdxSucc(i) == (i + 1) % IdxMod

AvailSlot == avail_next % (Num - 1)

\* vring_post_descr up to its first fence ...
PostHead(head) ==
  /\ availRing' = [availRing EXCEPT ![AvailSlot] = head]
  /\ avail_next' = IdxSucc(avail_next)

\* ... and the store that makes the request visible to the device.
PublishIdx == availIdx' = avail_next

\* Fault: the notification is dropped.
NoSignal == UNCHANGED kicked

signal_virtio_device == kicked' = TRUE

\* Fault: the used index is not polled.
NoWait == TRUE

\* vring_wait_completion leaves its loop.
CompletionSeen == usedIdx # used_last

\* Fault: the completion is not remembered.
ForgetfulWait == CompletionSeen /\ UNCHANGED used_last

vring_wait_completion ==
  /\ CompletionSeen
  /\ used_last' = usedIdx

-----------------------------------------------------------------------------
(* Device side (external).                                                 *)

DevPending == lastAvail # availIdx

DevHeadAt == availRing[lastAvail % Num]

DevTake == lastAvail' = IdxSucc(lastAvail)

\* The device has drained the ring; it looks again after a notification.
DevDrained ==
  /\ kicked
  /\ ~DevPending
  /\ kicked' = FALSE

DevComplete == usedIdx' = IdxSucc(usedIdx)
=============================================================================
