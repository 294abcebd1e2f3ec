-------------------------- MODULE BlkDriverProofs --------------------------
(***************************************************************************)
(* Proofs about BlkDriver, for every queue length of at least four, every  *)
(* index width and any sets of frames, sectors and sector contents.        *)
(***************************************************************************)
EXTENDS BlkDriver, TLAPS

-----------------------------------------------------------------------------
(* Arithmetic of the ring indices.                                         *)

\* The remainder lies below the modulus: every slot computed with % is a slot.
LEMMA ModInRange ==
  ASSUME NEW i \in Nat, NEW m \in Nat, m > 0
  PROVE  i % m \in 0 .. m - 1
  BY SMT

\* Below the modulus % is the identity.
LEMMA ModOfSmaller ==
  ASSUME NEW i \in Nat, NEW m \in Nat, i < m
  PROVE  i % m = i
  BY SMT

\* Advancing a 16-bit style index stays in range and changes it, so the
\* inequality test of vring_wait_completion sees one completion.
LEMMA IdxSuccDiffers ==
  ASSUME NEW i \in Index
  PROVE  IdxSucc(i) \in Index /\ IdxSucc(i) # i
<1>1. i \in Nat /\ IdxMod \in Nat /\ IdxMod >= 2 /\ i + 1 <= IdxMod
  BY IdxModAssumption DEF Index
<1>2. CASE i + 1 = IdxMod
  <2>1. (i + 1) % IdxMod = 0
    BY <1>1, <1>2, SMT
  <2> QED BY <1>1, <1>2, <2>1 DEF IdxSucc, Index
<1>3. CASE i + 1 < IdxMod
  <2>1. (i + 1) % IdxMod = i + 1
    BY <1>1, <1>3, ModOfSmaller
  <2> QED BY <1>1, <1>3, <2>1 DEF IdxSucc, Index
<1> QED BY <1>1, <1>2, <1>3

\* The slots used by the driver and by the device are slots of the ring.
LEMMA SlotsInRange ==
  ASSUME VringTypeOK(BlkAddr)
  PROVE  /\ AvailSlot \in Slot
         /\ lastAvail % Num \in Slot
         /\ NextDescr \in Slot
         /\ 0 \in Slot /\ 1 \in Slot /\ 2 \in Slot
<1>1. Num \in Nat /\ Num >= 4
  BY NumAssumption
<1>2. avail_next \in Nat /\ lastAvail \in Nat /\ descr_next \in Nat
  BY IdxModAssumption DEF VringTypeOK, Index, Slot
<1>3. avail_next % (Num - 1) \in 0 .. (Num - 1) - 1
  BY <1>1, <1>2, ModInRange
<1>4. lastAvail % Num \in 0 .. Num - 1
  BY <1>1, <1>2, ModInRange
<1>5. (descr_next + 1) % (Num - 1) \in 0 .. (Num - 1) - 1
  BY <1>1, <1>2, ModInRange
<1> QED BY <1>1, <1>3, <1>4, <1>5 DEF AvailSlot, NextDescr, Slot

\* The first three descriptors handed out are 0, 1 and 2.
LEMMA FirstDescriptors ==
  /\ descr_next = 0 => NextDescr = 1
  /\ descr_next = 1 => NextDescr = 2
<1>1. Num \in Nat /\ Num >= 4
  BY NumAssumption
<1>2. 1 % (Num - 1) = 1 /\ 2 % (Num - 1) = 2
  BY <1>1, ModOfSmaller
<1> QED BY <1>2 DEF NextDescr

-----------------------------------------------------------------------------
(* The inductive invariant.                                                *)

\* Before the first request, nothing is in flight and the ring is empty.
LEMMA InitIndInv == Init => IndInv
<1> SUFFICES ASSUME Init PROVE IndInv
  OBVIOUS
<1> USE DEF Init, vring_init
<1>1. 0 \in Slot /\ 0 \in Index
  BY NumAssumption, IdxModAssumption DEF Slot, Index
<1>2. TypeOK
  <2>1. VringTypeOK(BlkAddr)
    BY <1>1 DEF VringTypeOK, Descriptor
  <2>2. hdr \in [Frame -> Header]
    BY DEF Header, Op
  <2> QED BY <1>1, <2>1, <2>2 DEF TypeOK, Op, StatusByte
<1>3. HeadsAreZero /\ ChainSoFar /\ QuietIndices /\ BusyIndices
      /\ StatusMatchesService
  BY DEF HeadsAreZero, ChainSoFar, QuietIndices, BusyIndices,
         StatusMatchesService
<1> QED BY <1>2, <1>3 DEF IndInv

\* A call starts: nothing is in flight, the frame is set up.
LEMMA CallIndInv ==
  ASSUME IndInv, NEW o \in Op, NEW s \in Sector, NEW f \in Frame, NEW d \in Data,
         Call(o, s, f, d)
  PROVE  IndInv'
<1> USE DEF IndInv, Call, vring_use_descr, vringVars, devVars
<1>1. TypeOK'
  BY DEF TypeOK, VringTypeOK, Header, StatusByte
<1>2. HeadsAreZero' /\ ChainSoFar'
  BY DEF TypeOK, HeadsAreZero, ChainSoFar
<1>3. QuietIndices' /\ BusyIndices'
  BY DEF QuietIndices, BusyIndices, IdxSucc
<1>4. StatusMatchesService'
  BY DEF TypeOK, StatusMatchesService, Served, Outstanding
<1> QED BY <1>1, <1>2, <1>3, <1>4

\* The three descriptors of the chain are written, one per step.
LEMMA AddDescrIndInv ==
  ASSUME IndInv, AddHdr \/ AddData \/ AddStatus
  PROVE  IndInv'
<1>1. ~DescrOutOfRange(next)
  BY NumAssumption DEF IndInv, TypeOK, Slot, DescrOutOfRange
<1>2. /\ NextDescr \in Slot /\ 0 \in Slot /\ 1 \in Slot /\ 2 \in Slot
      /\ descr_next = 0 => NextDescr = 1
      /\ descr_next = 1 => NextDescr = 2
  BY SlotsInRange, FirstDescriptors DEF IndInv, TypeOK
<1>3. CASE AddHdr
  <2> DEFINE d == [addr |-> <<frame, "hdr">>, next |-> 1,
                   more |-> TRUE, write |-> FALSE]
  <2>1. /\ pc = "hdr" /\ pc' = "data"
        /\ desc' = [desc EXCEPT ![0] = d]
        /\ descr_next' = NextDescr /\ next' = NextDescr
    BY <1>1, <1>2, <1>3 DEF AddHdr, AddDescr, vring_add_to_descr, IndInv, ChainSoFar
  <2>2. UNCHANGED <<availRing, avail_next, availIdx, usedIdx, used_last, kicked,
                    lastAvail, op, sector, frame, used, hdr, buf, status, disk,
                    devPc, devHead>>
    BY <1>3 DEF AddHdr, AddDescr, postVars, memVars, devVars
  <2>3. d \in Descriptor(BlkAddr)
    BY <1>2 DEF Descriptor, BlkAddr, IndInv, TypeOK
  <2> HIDE DEF d
  <2>4. TypeOK'
    BY <1>2, <2>1, <2>2, <2>3 DEF IndInv, TypeOK, VringTypeOK
  <2>5. /\ desc'[0] = d
        /\ \A i \in Slot \ {0} : desc'[i] = desc[i]
    BY <1>2, <2>1 DEF IndInv, TypeOK, VringTypeOK
  <2>6. HeadsAreZero' /\ ChainSoFar'
    BY <1>2, <2>1, <2>2, <2>5 DEF d, IndInv, HeadsAreZero, ChainSoFar
  <2>7. QuietIndices' /\ BusyIndices'
    BY <2>1, <2>2 DEF IndInv, QuietIndices, BusyIndices, IdxSucc
  <2>8. StatusMatchesService'
    BY <2>1, <2>2 DEF IndInv, StatusMatchesService, Served, Outstanding
  <2> QED BY <2>1, <2>4, <2>6, <2>7, <2>8 DEF IndInv
<1>4. CASE AddData
  <2> DEFINE d == [addr |-> <<frame, "data">>, next |-> 2,
                   more |-> TRUE, write |-> (op = "read")]
  <2>1. /\ pc = "data" /\ pc' = "status"
        /\ desc' = [desc EXCEPT ![1] = d]
        /\ descr_next' = NextDescr /\ next' = NextDescr
    BY <1>1, <1>2, <1>4 DEF AddData, AddDescr, vring_add_to_descr, IndInv, ChainSoFar
  <2>2. UNCHANGED <<availRing, avail_next, availIdx, usedIdx, used_last, kicked,
                    lastAvail, op, sector, frame, used, hdr, buf, status, disk,
                    devPc, devHead>>
    BY <1>4 DEF AddData, AddDescr, postVars, memVars, devVars
  <2>3. d \in Descriptor(BlkAddr)
    BY <1>2 DEF Descriptor, BlkAddr, IndInv, TypeOK
  <2> HIDE DEF d
  <2>4. TypeOK'
    BY <1>2, <2>1, <2>2, <2>3 DEF IndInv, TypeOK, VringTypeOK
  <2>5. /\ desc'[1] = d
        /\ \A i \in Slot \ {1} : desc'[i] = desc[i]
    BY <1>2, <2>1 DEF IndInv, TypeOK, VringTypeOK
  <2>6. HeadsAreZero' /\ ChainSoFar'
    BY <1>2, <2>1, <2>2, <2>5 DEF d, IndInv, HeadsAreZero, ChainSoFar
  <2>7. QuietIndices' /\ BusyIndices'
    BY <2>1, <2>2 DEF IndInv, QuietIndices, BusyIndices, IdxSucc
  <2>8. StatusMatchesService'
    BY <2>1, <2>2 DEF IndInv, StatusMatchesService, Served, Outstanding
  <2> QED BY <2>1, <2>4, <2>6, <2>7, <2>8 DEF IndInv
<1>5. CASE AddStatus
  <2> DEFINE d == [addr |-> <<frame, "status">>, next |-> 0,
                   more |-> FALSE, write |-> TRUE]
  <2>1. /\ pc = "status" /\ pc' = "post"
        /\ desc' = [desc EXCEPT ![2] = d]
        /\ descr_next' = NextDescr /\ next' = NextDescr
    BY <1>1, <1>2, <1>5 DEF AddStatus, AddDescr, vring_add_to_descr, IndInv, ChainSoFar
  <2>2. UNCHANGED <<availRing, avail_next, availIdx, usedIdx, used_last, kicked,
                    lastAvail, op, sector, frame, used, hdr, buf, status, disk,
                    devPc, devHead>>
    BY <1>5 DEF AddStatus, AddDescr, postVars, memVars, devVars
  <2>3. d \in Descriptor(BlkAddr)
    BY <1>2 DEF Descriptor, BlkAddr, IndInv, TypeOK
  <2> HIDE DEF d
  <2>4. TypeOK'
    BY <1>2, <2>1, <2>2, <2>3 DEF IndInv, TypeOK, VringTypeOK
  <2>5. /\ desc'[2] = d
        /\ \A i \in Slot \ {2} : desc'[i] = desc[i]
    BY <1>2, <2>1 DEF IndInv, TypeOK, VringTypeOK
  <2>6. HeadsAreZero' /\ ChainSoFar'
    BY <1>2, <2>1, <2>2, <2>5 DEF d, IndInv, HeadsAreZero, ChainSoFar
  <2>7. QuietIndices' /\ BusyIndices'
    BY <2>1, <2>2 DEF IndInv, QuietIndices, BusyIndices, IdxSucc
  <2>8. StatusMatchesService'
    BY <2>1, <2>2 DEF IndInv, StatusMatchesService, Served, Outstanding
  <2> QED BY <2>1, <2>4, <2>6, <2>7, <2>8 DEF IndInv
<1> QED BY <1>3, <1>4, <1>5

\* vring_post_descr and signal_virtio_device hand the request over.
LEMMA PostIndInv ==
  ASSUME IndInv, Post \/ Publish \/ Signal
  PROVE  IndInv'
<1>1. /\ AvailSlot \in Slot /\ 0 \in Slot
      /\ IdxSucc(avail_next) \in Index
      /\ IdxSucc(avail_next) # avail_next
      /\ IdxSucc(used_last) # used_last
  BY SlotsInRange, IdxSuccDiffers DEF IndInv, TypeOK, VringTypeOK
<1> USE <1>1 DEF IndInv, tableVars, memVars, devVars
<1>2. CASE Post
  <2> USE <1>2 DEF Post, PostHead
  <2>1. TypeOK'
    BY DEF TypeOK, VringTypeOK
  <2>2. HeadsAreZero' /\ ChainSoFar'
    BY DEF TypeOK, VringTypeOK, HeadsAreZero, ChainSoFar
  <2>3. QuietIndices' /\ BusyIndices'
    BY DEF QuietIndices, BusyIndices, IdxSucc
  <2>4. StatusMatchesService'
    BY DEF StatusMatchesService, Served, Outstanding
  <2> QED BY <2>1, <2>2, <2>3, <2>4
<1>3. CASE Publish
  <2> USE <1>3 DEF Publish, PublishIdx
  <2>1. TypeOK'
    BY DEF TypeOK, VringTypeOK
  <2>2. HeadsAreZero' /\ ChainSoFar'
    BY DEF HeadsAreZero, ChainSoFar
  <2>3. QuietIndices' /\ BusyIndices'
    BY DEF QuietIndices, BusyIndices, IdxSucc
  <2>4. StatusMatchesService'
    BY DEF QuietIndices, StatusMatchesService, Served, Outstanding, DevPending,
           IdxSucc
  <2> QED BY <2>1, <2>2, <2>3, <2>4
<1>4. CASE Signal
  <2> USE <1>4 DEF Signal, signal_virtio_device, postVars
  <2>1. TypeOK'
    BY DEF TypeOK, VringTypeOK
  <2>2. HeadsAreZero' /\ ChainSoFar'
    BY DEF HeadsAreZero, ChainSoFar
  <2>3. QuietIndices' /\ BusyIndices'
    BY DEF QuietIndices, BusyIndices, IdxSucc
  <2>4. StatusMatchesService'
    BY DEF StatusMatchesService, Served, Outstanding, DevPending
  <2> QED BY <2>1, <2>2, <2>3, <2>4
<1> QED BY <1>2, <1>3, <1>4

\* vring_wait_completion ends only in the last stage of BusyIndices; the
\* return restores descriptor 0.
LEMMA FinishIndInv ==
  ASSUME IndInv, WaitDone \/ Return
  PROVE  IndInv'
<1> USE DEF IndInv, tableVars, postVars, memVars, devVars
<1>1. CASE WaitDone
  <2> USE <1>1 DEF WaitDone, vring_wait_completion, CompletionSeen
  <2>1. TypeOK'
    BY DEF TypeOK, VringTypeOK
  <2>2. HeadsAreZero' /\ ChainSoFar'
    BY DEF HeadsAreZero, ChainSoFar
  <2>3. QuietIndices' /\ BusyIndices'
    BY DEF QuietIndices, BusyIndices, IdxSucc
  <2>4. StatusMatchesService'
    BY DEF BusyIndices, StatusMatchesService, Served, Outstanding, DevPending
  <2> QED BY <2>1, <2>2, <2>3, <2>4
<1>2. CASE Return
  <2> USE <1>2 DEF Return, vring_unuse_descr
  <2>1. TypeOK'
    BY DEF TypeOK, VringTypeOK
  <2>2. HeadsAreZero' /\ ChainSoFar'
    BY DEF HeadsAreZero, ChainSoFar
  <2>3. QuietIndices' /\ BusyIndices'
    BY DEF QuietIndices, BusyIndices, IdxSucc
  <2>4. StatusMatchesService'
    BY DEF StatusMatchesService
  <2> QED BY <2>1, <2>2, <2>3, <2>4
<1> QED BY <1>1, <1>2

\* While a request is published, the chain at descriptor 0 is the one of the
\* call in progress, and the device accepts it.
LEMMA ChainOfCurrentCall ==
  ASSUME IndInv, Outstanding
  PROVE  /\ ChainServable
         /\ First.addr = <<frame, "hdr">>
         /\ Second.addr = <<frame, "data">>
         /\ Third.addr = <<frame, "status">>
         /\ hdr[frame] = [type |-> op, sector |-> sector]
<1>1. /\ First = [addr |-> <<frame, "hdr">>, next |-> 1,
                  more |-> TRUE, write |-> FALSE]
      /\ Second = [addr |-> <<frame, "data">>, next |-> 2,
                   more |-> TRUE, write |-> (op = "read")]
      /\ Third = [addr |-> <<frame, "status">>, next |-> 0,
                  more |-> FALSE, write |-> TRUE]
  BY DEF IndInv, HeadsAreZero, ChainSoFar, Outstanding, First, Second, Third
<1>2. hdr[frame] = [type |-> op, sector |-> sector] /\ frame \in Frame
  BY DEF IndInv, TypeOK, ChainSoFar, Outstanding
<1>3. ChainServable
  <2>1. First.more /\ Second.more /\ ~Third.more /\ ~First.write /\ Third.write
    BY <1>1
  <2>2. /\ First.addr \in Frame \X {"hdr"}
        /\ Second.addr \in Frame \X {"data"}
        /\ Third.addr \in Frame \X {"status"}
    BY <1>1, <1>2
  <2>3. Second.write = (hdr[First.addr[1]].type = "read")
    BY <1>1, <1>2
  <2> QED BY <2>1, <2>2, <2>3 DEF ChainServable
<1> QED BY <1>1, <1>2, <1>3

\* A step of the device that serves the fetched chain serves the call in
\* progress: it touches this frame and this sector only.
LEMMA DevServeEffect ==
  ASSUME IndInv, DevServe
  PROVE  /\ Outstanding /\ devPc = "fetched" /\ devPc' = "served"
         /\ \/ DevServeOK([type |-> op, sector |-> sector], frame, frame)
            \/ DevServeError([type |-> op, sector |-> sector], frame, frame)
<1>1. Outstanding /\ devPc = "fetched"
  BY DEF IndInv, DevServe, QuietIndices, Outstanding
<1>2. /\ ChainServable
      /\ First.addr[1] = frame /\ Second.addr[1] = frame /\ Third.addr[1] = frame
      /\ hdr[frame] = [type |-> op, sector |-> sector]
  BY <1>1, ChainOfCurrentCall
<1> QED BY <1>1, <1>2 DEF DevServe

\* The device serves a request it was given; the queue stays as the driver left it.
LEMMA DevServeIndInv ==
  ASSUME IndInv, DevServe
  PROVE  IndInv'
<1>1. /\ Outstanding /\ devPc = "fetched" /\ devPc' = "served"
      /\ \/ DevServeOK([type |-> op, sector |-> sector], frame, frame)
         \/ DevServeError([type |-> op, sector |-> sector], frame, frame)
  BY DevServeEffect
<1>2. UNCHANGED <<vringVars, callVars, hdr, devHead>>
  BY DEF DevServe
<1>3. frame \in Frame /\ sector \in Sector /\ buf[frame] \in Data
      /\ disk[sector] \in Data
  BY DEF IndInv, TypeOK
<1>4. /\ buf' \in [Frame -> Data]
      /\ disk' \in [Sector -> Data]
      /\ status' \in [Frame -> {0, 1, 255}]
      /\ status'[frame] # NotServed
  <2>1. CASE DevServeOK([type |-> op, sector |-> sector], frame, frame)
    BY <1>3, <2>1 DEF DevServeOK, IndInv, TypeOK, StatusByte, NotServed
  <2>2. CASE DevServeError([type |-> op, sector |-> sector], frame, frame)
    BY <1>3, <2>2 DEF DevServeError, IndInv, TypeOK, StatusByte, NotServed
  <2> QED BY <1>1, <2>1, <2>2
<1>5. TypeOK'
  BY <1>1, <1>2, <1>4
  DEF IndInv, TypeOK, VringTypeOK, vringVars, callVars, StatusByte, NotServed
<1>6. HeadsAreZero' /\ ChainSoFar'
  BY <1>2 DEF IndInv, HeadsAreZero, ChainSoFar, vringVars, callVars
<1>7. QuietIndices' /\ BusyIndices'
  BY <1>1, <1>2
  DEF IndInv, Outstanding, QuietIndices, BusyIndices, vringVars, callVars, IdxSucc
<1>8. StatusMatchesService'
  BY <1>1, <1>2, <1>4
  DEF StatusMatchesService, Served, Outstanding, callVars
<1> QED BY <1>2, <1>5, <1>6, <1>7, <1>8 DEF IndInv, callVars

\* The other device steps move the indices through the stages.
LEMMA DevIndInv ==
  ASSUME IndInv, DevFetch \/ DevPush \/ DevSleep
  PROVE  IndInv'
<1>1. lastAvail % Num \in Slot
  BY SlotsInRange DEF IndInv, TypeOK
<1>2. /\ IdxSucc(lastAvail) \in Index /\ IdxSucc(usedIdx) \in Index
      /\ IdxSucc(used_last) # used_last
  BY IdxSuccDiffers DEF IndInv, TypeOK, VringTypeOK
<1> USE <1>1, <1>2 DEF IndInv, tableVars, postVars, callVars, memVars
<1>3. CASE DevFetch
  <2> USE <1>3 DEF DevFetch, DevPending, DevTake, DevHeadAt
  <2>1. TypeOK'
    BY DEF TypeOK, VringTypeOK
  <2>2. HeadsAreZero' /\ ChainSoFar'
    BY DEF HeadsAreZero, ChainSoFar
  <2>3. QuietIndices' /\ BusyIndices'
    BY DEF QuietIndices, BusyIndices, IdxSucc
  <2>4. StatusMatchesService'
    BY DEF QuietIndices, StatusMatchesService, Served, Outstanding
  <2> QED BY <2>1, <2>2, <2>3, <2>4
<1>4. CASE DevPush
  <2> USE <1>4 DEF DevPush, DevComplete
  <2>1. TypeOK'
    BY DEF TypeOK, VringTypeOK
  <2>2. HeadsAreZero' /\ ChainSoFar'
    BY DEF HeadsAreZero, ChainSoFar
  <2>3. QuietIndices' /\ BusyIndices'
    BY DEF QuietIndices, BusyIndices, IdxSucc
  <2>4. StatusMatchesService'
    BY DEF QuietIndices, BusyIndices, StatusMatchesService, Served, Outstanding,
           DevPending
  <2> QED BY <2>1, <2>2, <2>3, <2>4
<1>5. CASE DevSleep
  <2> USE <1>5 DEF DevSleep, DevDrained, DevPending, devVars
  <2>1. TypeOK'
    BY DEF TypeOK, VringTypeOK
  <2>2. HeadsAreZero' /\ ChainSoFar'
    BY DEF HeadsAreZero, ChainSoFar
  <2>3. QuietIndices' /\ BusyIndices'
    BY DEF QuietIndices, BusyIndices, IdxSucc
  <2>4. StatusMatchesService'
    BY DEF StatusMatchesService, Served, Outstanding
  <2> QED BY <2>1, <2>2, <2>3, <2>4
<1> QED BY <1>3, <1>4, <1>5

\* A step that changes no variable keeps the invariant.
LEMMA StutterIndInv ==
  ASSUME IndInv, UNCHANGED vars
  PROVE  IndInv'
<1> USE DEF IndInv, vars, vringVars, callVars, memVars, devVars
<1>1. TypeOK'
  BY DEF TypeOK, VringTypeOK
<1>2. HeadsAreZero' /\ ChainSoFar'
  BY DEF HeadsAreZero, ChainSoFar
<1>3. QuietIndices' /\ BusyIndices' /\ StatusMatchesService'
  BY DEF QuietIndices, BusyIndices, IdxSucc, StatusMatchesService, Served,
         Outstanding, DevPending
<1> QED BY <1>1, <1>2, <1>3

\* IndInv is an invariant of the driver running against the device.
THEOREM Inductive == Spec => []IndInv
<1>1. IndInv /\ [Next]_vars => IndInv'
  <2> SUFFICES ASSUME IndInv, [Next]_vars PROVE IndInv'
    OBVIOUS
  <2>1. ASSUME NEW o \in Op, NEW s \in Sector, NEW f \in Frame, NEW d \in Data,
               Call(o, s, f, d)
        PROVE  IndInv'
    BY <2>1, CallIndInv
  <2>2. CASE AddHdr \/ AddData \/ AddStatus
    BY <2>2, AddDescrIndInv
  <2>3. CASE Post \/ Publish \/ Signal
    BY <2>3, PostIndInv
  <2>4. CASE WaitDone \/ Return
    BY <2>4, FinishIndInv
  <2>5. CASE DevServe
    BY <2>5, DevServeIndInv
  <2>6. CASE DevFetch \/ DevPush \/ DevSleep
    BY <2>6, DevIndInv
  <2>7. CASE UNCHANGED vars
    BY <2>7, StutterIndInv
  <2> QED
    BY <2>1, <2>2, <2>3, <2>4, <2>5, <2>6, <2>7
    DEF Next, DriverNext, Step, DevNext
<1> QED BY <1>1, InitIndInv, PTL DEF Spec

-----------------------------------------------------------------------------
(* What follows from it.                                                   *)

\* Every variable of driver, ring and device keeps its type.
THEOREM TypeCorrect == Spec => []TypeOK
<1>1. IndInv => TypeOK
  BY DEF IndInv
<1> QED BY <1>1, Inductive, PTL

\* The device only ever serves the chain of the call in progress, although it
\* reads the head at a slot the driver may not have written.
THEOREM ServesCurrent == Spec => []ServesCurrentRequest
<1>1. IndInv => ServesCurrentRequest
  <2> SUFFICES ASSUME IndInv PROVE ServesCurrentRequest
    OBVIOUS
  <2>1. devPc # "broken"
    BY DEF IndInv, QuietIndices, BusyIndices, TypeOK
  <2>2. devPc = "fetched" => Outstanding
    BY DEF IndInv, QuietIndices, Outstanding
  <2> QED BY <2>1, <2>2, ChainOfCurrentCall DEF ServesCurrentRequest
<1> QED BY <1>1, Inductive, PTL

\* A sector operation returns only after its own completion.
THEOREM CompletionReal == Spec => []CompletionIsReal
<1>1. IndInv => CompletionIsReal
  BY DEF IndInv, CompletionIsReal, QuietIndices, StatusMatchesService, Served,
         DevPending
<1> QED BY <1>1, Inductive, PTL

\* The device never writes a frame other than that of the call in progress.
THEOREM NoStray == Spec => NoStrayWrite
<1>1. IndInv /\ [Next]_vars => [DevWritesCurrentFrame]_vars
  <2> SUFFICES ASSUME IndInv, DevNext PROVE DevWritesCurrentFrame
    BY DEF DevWritesCurrentFrame
  <2>1. CASE DevServe
    <3>1. /\ Outstanding
          /\ \/ DevServeOK([type |-> op, sector |-> sector], frame, frame)
             \/ DevServeError([type |-> op, sector |-> sector], frame, frame)
      BY <2>1, DevServeEffect
    <3>2. buf \in [Frame -> Data] /\ status \in [Frame -> StatusByte]
      BY DEF IndInv, TypeOK
    <3> QED
      BY <3>1, <3>2 DEF DevServeOK, DevServeError, DevWritesCurrentFrame
  <2>2. CASE DevFetch \/ DevPush \/ DevSleep
    BY <2>2 DEF DevFetch, DevPush, DevSleep, memVars, DevWritesCurrentFrame
  <2> QED BY <2>1, <2>2 DEF DevNext
<1> QED BY <1>1, Inductive, PTL DEF Spec, NoStrayWrite

-----------------------------------------------------------------------------
(* The driver implements the sector store.                                 *)

\* A step that touches neither the call, its buffer and status nor the disk is
\* invisible to the store.
LEMMA InternalStep ==
  ASSUME IndInv, IndInv', UNCHANGED <<op, sector, frame, buf, status, disk>>,
         pc = "idle" <=> pc' = "idle"
  PROVE  UNCHANGED Abstract!vars
<1>1. CASE pc = "idle"
  BY <1>1 DEF Abstract!vars
<1>2. CASE pc # "idle"
  <2>1. Served <=> Served'
    BY <1>2 DEF IndInv, StatusMatchesService
  <2> QED BY <1>2, <2>1 DEF Abstract!vars
<1> QED BY <1>1, <1>2

\* Initial states of the driver are initial states of the store, and every
\* step of driver or device is one of its steps or leaves it unchanged.
THEOREM Refinement == Spec => RefinesSectorDisk
<1>1. Init => Abstract!Init
  BY DEF Init, Abstract!Init, Served, Outstanding, NotServed, Abstract!NotServed
<1>2. IndInv /\ IndInv' /\ [Next]_vars => [Abstract!Next]_(Abstract!vars)
  <2> SUFFICES ASSUME IndInv, IndInv', [Next]_vars
               PROVE  Abstract!Next \/ UNCHANGED Abstract!vars
    OBVIOUS
  <2>1. ASSUME NEW o \in Op, NEW s \in Sector, NEW f \in Frame, NEW d \in Data,
               Call(o, s, f, d)
        PROVE  Abstract!Call(o, s, d)
    BY <2>1 DEF Call, Abstract!Call, IndInv, TypeOK, Served, Outstanding,
                NotServed, Abstract!NotServed, devVars
  <2>2. CASE \/ AddHdr \/ AddData \/ AddStatus \/ Post \/ Publish \/ Signal
             \/ WaitDone
    <3>1. UNCHANGED <<op, sector, frame, buf, status, disk>>
      BY <2>2 DEF AddHdr, AddData, AddStatus, AddDescr, Post, Publish, Signal,
                  WaitDone, memVars, devVars
    <3>2. pc # "idle" /\ pc' # "idle"
      BY <2>2 DEF AddHdr, AddData, AddStatus, AddDescr, Post, Publish, Signal,
                  WaitDone
    <3> QED BY <3>1, <3>2, InternalStep
  <2>3. CASE Return
    BY <2>3 DEF Return, Abstract!Next, Abstract!Return, Served, memVars, devVars
  <2>4. CASE DevServe
    <3>1. /\ Outstanding /\ devPc = "fetched" /\ devPc' = "served"
          /\ \/ DevServeOK([type |-> op, sector |-> sector], frame, frame)
             \/ DevServeError([type |-> op, sector |-> sector], frame, frame)
      BY <2>4, DevServeEffect
    <3>2. /\ UNCHANGED <<pc, op, sector, frame>>
          /\ pc # "idle" /\ ~Served /\ Served'
      BY <2>4, <3>1 DEF DevServe, callVars, Outstanding, Served
    <3>3. /\ buf \in [Frame -> Data] /\ status \in [Frame -> StatusByte]
          /\ disk \in [Sector -> Data] /\ frame \in Frame /\ sector \in Sector
          /\ op \in {"read", "write"}
      BY DEF IndInv, TypeOK, Op
    <3>4. CASE DevServeOK([type |-> op, sector |-> sector], frame, frame)
      <4>1. Abstract!ServeOK
        BY <3>2, <3>3, <3>4 DEF DevServeOK, Abstract!ServeOK
      <4> QED BY <4>1 DEF Abstract!Next
    <3>5. CASE DevServeError([type |-> op, sector |-> sector], frame, frame)
      <4>1. Abstract!ServeError
        BY <3>2, <3>3, <3>5 DEF DevServeError, Abstract!ServeError
      <4> QED BY <4>1 DEF Abstract!Next
    <3> QED BY <3>1, <3>4, <3>5
  <2>5. CASE DevFetch \/ DevPush \/ DevSleep
    <3>1. UNCHANGED <<pc, op, sector, frame, buf, status, disk>>
      BY <2>5 DEF DevFetch, DevPush, DevSleep, callVars, memVars, devVars
    <3> QED BY <3>1, InternalStep
  <2>6. CASE UNCHANGED vars
    BY <2>6, InternalStep DEF vars, callVars, memVars, devVars
  <2> QED
    BY <2>1, <2>2, <2>3, <2>4, <2>5, <2>6
    DEF Next, DriverNext, Step, DevNext, Abstract!Next, Op
<1> QED
  BY <1>1, <1>2, Inductive, PTL DEF Spec, RefinesSectorDisk, Abstract!SafeSpec
=============================================================================
