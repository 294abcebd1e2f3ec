--------------------------- MODULE ConsoleProofs ---------------------------
(***************************************************************************)
(* Proofs about Console, for every queue length of at least four, every    *)
(* index width and any sets of buffers and texts.                          *)
(***************************************************************************)
EXTENDS Console, TLAPS

-----------------------------------------------------------------------------
(* The inductive invariant: as in the block driver, every head is 0, so it *)
(* does not matter which slot of the available ring the device looks at.   *)

HeadsAreZero ==
  /\ just_used = 0 /\ devHead = 0
  /\ \A i \in Slot : availRing[i] = 0
  /\ pc \in {"idle", "add"} => descr_next = 0

\* Descriptor 0 points at the buffer of the call in progress, which still
\* holds the text to print.
DescribesBuffer ==
  /\ pc \in {"post", "publish", "signal", "wait", "return"} => desc[0].addr = buf
  /\ pc # "idle" => memory[buf] = text

\* Nothing is between the indices, except the head about to be published, and
\* the text is printed only by the time the call has seen its completion.
Quiet ==
  pc \notin {"signal", "wait"} =>
    /\ devPc = "idle"
    /\ lastAvail = availIdx /\ usedIdx = availIdx /\ used_last = availIdx
    /\ avail_next = IF pc = "publish" THEN IdxSucc(availIdx) ELSE availIdx
    /\ pc \in {"add", "post", "publish"} => printed = <<>>
    /\ pc = "return" \/ (pc = "idle" /\ ok) => printed = <<text>>

\* The request in flight: not fetched, fetched, printed, or completed.
Busy ==
  pc \in {"signal", "wait"} =>
    /\ avail_next = availIdx
    /\ availIdx = IdxSucc(used_last)
    /\ \/ /\ devPc = "idle" /\ lastAvail = used_last /\ usedIdx = used_last
          /\ printed = <<>>
       \/ /\ devPc = "fetched" /\ lastAvail = availIdx /\ usedIdx = used_last
          /\ printed = <<>>
       \/ /\ devPc = "printed" /\ lastAvail = availIdx /\ usedIdx = used_last
          /\ printed = <<text>>
       \/ /\ devPc = "idle" /\ lastAvail = availIdx /\ usedIdx = availIdx
          /\ printed = <<text>>

ConsoleInv ==
  /\ TypeOK
  /\ pc # "off"
  /\ HeadsAreZero
  /\ DescribesBuffer
  /\ Quiet
  /\ Busy

-----------------------------------------------------------------------------
(* Lemmas.                                                                 *)

\* Advancing an index stays in range and changes it.
LEMMA IdxSuccDiffers ==
  ASSUME NEW i \in Index
  PROVE  IdxSucc(i) \in Index /\ IdxSucc(i) # i
<1>1. i \in Nat /\ IdxMod \in Nat /\ IdxMod >= 2 /\ i + 1 <= IdxMod
  BY IdxModAssumption DEF Index
<1>2. (i + 1) % IdxMod = IF i + 1 = IdxMod THEN 0 ELSE i + 1
  BY <1>1, SMT
<1> QED BY <1>1, <1>2 DEF IdxSucc, Index

\* The slots used by the driver and by the device are slots of the ring.
LEMMA SlotsInRange ==
  ASSUME TypeOK
  PROVE  /\ AvailSlot \in Slot /\ lastAvail % Num \in Slot
         /\ NextDescr \in Slot /\ 0 \in Slot
<1>1. Num \in Nat /\ Num >= 4
  BY NumAssumption
<1>2. avail_next \in Nat /\ lastAvail \in Nat /\ descr_next \in Nat
  BY IdxModAssumption DEF TypeOK, VringTypeOK, Index, Slot
<1>3. \A i, m \in Nat : m > 0 => i % m \in 0 .. m - 1
  BY SMT
<1>4. /\ avail_next % (Num - 1) \in 0 .. (Num - 1) - 1
      /\ lastAvail % Num \in 0 .. Num - 1
      /\ (descr_next + 1) % (Num - 1) \in 0 .. (Num - 1) - 1
  BY <1>1, <1>2, <1>3
<1> QED BY <1>1, <1>4 DEF AvailSlot, NextDescr, Slot

\* Before the first write, nothing is queued.
LEMMA InitConsoleInv == Init => ConsoleInv
<1> SUFFICES ASSUME Init PROVE ConsoleInv
  OBVIOUS
<1> USE DEF Init, vring_init
<1>1. 0 \in Slot /\ 0 \in Index
  BY NumAssumption, IdxModAssumption DEF Slot, Index
<1>2. TypeOK
  BY <1>1 DEF TypeOK, VringTypeOK, Descriptor
<1>3. HeadsAreZero /\ DescribesBuffer /\ Quiet /\ Busy
  BY DEF HeadsAreZero, DescribesBuffer, Quiet, Busy
<1> QED BY <1>2, <1>3 DEF ConsoleInv

-----------------------------------------------------------------------------
(* Every step keeps the invariant.                                         *)

\* A call starts with nothing in flight and nothing printed, or fails.
LEMMA CallConsoleInv ==
  ASSUME ConsoleInv, NEW b \in Buffer, NEW t \in Text, Call(b, t)
  PROVE  ConsoleInv'
<1> USE DEF ConsoleInv, Call, vringVars, vring_use_descr
<1>1. TypeOK'
  BY DEF TypeOK, VringTypeOK, HeadsAreZero
<1>2. HeadsAreZero' /\ DescribesBuffer'
  BY DEF TypeOK, HeadsAreZero, DescribesBuffer
<1>3. Quiet' /\ Busy'
  BY DEF Quiet, Busy, IdxSucc
<1> QED BY <1>1, <1>2, <1>3

\* The descriptor is written.
LEMMA AddConsoleInv ==
  ASSUME ConsoleInv, Add
  PROVE  ConsoleInv'
<1> USE DEF ConsoleInv
<1>1. ~DescrOutOfRange(just_used) /\ NextDescr \in Slot /\ 0 \in Slot
  BY NumAssumption, SlotsInRange DEF TypeOK, Slot, DescrOutOfRange
<1> DEFINE d == [addr |-> buf, next |-> 0, more |-> FALSE, write |-> FALSE]
<1>2. /\ pc = "add" /\ pc' = "post"
      /\ desc' = [desc EXCEPT ![0] = d]
      /\ descr_next' = NextDescr
  BY <1>1 DEF Add, vring_add_to_descr, HeadsAreZero
<1>3. UNCHANGED <<postVars, usedIdx, used_last, kicked, lastAvail, initialized,
                  buf, just_used, ok, text, memory, devVars>>
  BY DEF Add
<1>4. d \in Descriptor(Buffer)
  BY <1>1 DEF Descriptor, TypeOK
<1>5. d.addr = buf
  OBVIOUS
<1> HIDE DEF d
<1>6. desc' \in [Slot -> Descriptor(Buffer)] /\ desc'[0] = d
  BY <1>1, <1>2, <1>4 DEF TypeOK, VringTypeOK
<1>7. TypeOK'
  BY <1>1, <1>2, <1>3, <1>6 DEF TypeOK, VringTypeOK, postVars, devVars
<1>8. HeadsAreZero' /\ DescribesBuffer'
  BY <1>2, <1>3, <1>5, <1>6
  DEF HeadsAreZero, DescribesBuffer, postVars, devVars
<1>9. Quiet' /\ Busy'
  BY <1>2, <1>3 DEF Quiet, Busy, IdxSucc, postVars, devVars
<1> QED BY <1>2, <1>7, <1>8, <1>9

\* vring_post_descr and signal_virtio_device hand the request over.
LEMMA PostConsoleInv ==
  ASSUME ConsoleInv, Post \/ Publish \/ Signal
  PROVE  ConsoleInv'
<1>1. AvailSlot \in Slot /\ IdxSucc(avail_next) \in Index
  BY SlotsInRange, IdxSuccDiffers DEF ConsoleInv, TypeOK, VringTypeOK
<1> USE <1>1 DEF ConsoleInv, tableVars, devVars
<1>2. CASE Post
  <2> USE <1>2 DEF Post, PostHead
  <2>1. TypeOK'
    BY DEF TypeOK, VringTypeOK
  <2>2. HeadsAreZero' /\ DescribesBuffer'
    BY DEF TypeOK, VringTypeOK, HeadsAreZero, DescribesBuffer
  <2>3. Quiet' /\ Busy'
    BY DEF Quiet, Busy, IdxSucc
  <2> QED BY <2>1, <2>2, <2>3
<1>3. CASE Publish
  <2> USE <1>3 DEF Publish, PublishIdx
  <2>1. TypeOK'
    BY DEF TypeOK, VringTypeOK
  <2>2. HeadsAreZero' /\ DescribesBuffer'
    BY DEF HeadsAreZero, DescribesBuffer
  <2>3. Quiet' /\ Busy'
    BY DEF Quiet, Busy, IdxSucc
  <2> QED BY <2>1, <2>2, <2>3
<1>4. CASE Signal
  <2> USE <1>4 DEF Signal, signal_virtio_device, postVars
  <2>1. TypeOK'
    BY DEF TypeOK, VringTypeOK
  <2>2. HeadsAreZero' /\ DescribesBuffer'
    BY DEF HeadsAreZero, DescribesBuffer
  <2>3. Quiet' /\ Busy'
    BY DEF Quiet, Busy, IdxSucc
  <2> QED BY <2>1, <2>2, <2>3
<1> QED BY <1>2, <1>3, <1>4

\* vring_wait_completion ends only when the text has been printed; the return
\* gives descriptor 0 back.
LEMMA FinishConsoleInv ==
  ASSUME ConsoleInv, WaitDone \/ Return
  PROVE  ConsoleInv'
<1> USE DEF ConsoleInv, tableVars, postVars, devVars
<1>1. CASE WaitDone
  <2> USE <1>1 DEF WaitDone, vring_wait_completion, CompletionSeen
  <2>1. TypeOK'
    BY DEF TypeOK, VringTypeOK
  <2>2. HeadsAreZero' /\ DescribesBuffer'
    BY DEF HeadsAreZero, DescribesBuffer
  <2>3. Quiet' /\ Busy'
    BY DEF Quiet, Busy, IdxSucc
  <2> QED BY <2>1, <2>2, <2>3
<1>2. CASE Return
  <2> USE <1>2 DEF Return, vring_unuse_descr
  <2>1. TypeOK'
    BY DEF TypeOK, VringTypeOK
  <2>2. HeadsAreZero' /\ DescribesBuffer'
    BY DEF HeadsAreZero, DescribesBuffer
  <2>3. Quiet' /\ Busy'
    BY DEF Quiet, Busy, IdxSucc
  <2> QED BY <2>1, <2>2, <2>3
<1> QED BY <1>1, <1>2

\* The device takes the one request, prints its text and completes it.
LEMMA DevConsoleInv ==
  ASSUME ConsoleInv, DevNext
  PROVE  ConsoleInv'
<1>1. /\ lastAvail % Num \in Slot /\ 0 \in Slot
      /\ IdxSucc(lastAvail) \in Index /\ IdxSucc(usedIdx) \in Index
      /\ IdxSucc(used_last) # used_last
  BY SlotsInRange, IdxSuccDiffers DEF ConsoleInv, TypeOK, VringTypeOK
<1> USE <1>1 DEF ConsoleInv, tableVars, postVars, callVars
<1>2. CASE DevFetch
  <2> USE <1>2 DEF DevFetch, DevPending, DevTake, DevHeadAt
  <2>1. TypeOK'
    BY DEF TypeOK, VringTypeOK
  <2>2. HeadsAreZero' /\ DescribesBuffer'
    BY DEF HeadsAreZero, DescribesBuffer
  <2>3. Quiet' /\ Busy'
    BY DEF Quiet, Busy, IdxSucc
  <2> QED BY <2>1, <2>2, <2>3
<1>3. CASE DevPrint
  <2>1. /\ devPc = "fetched" /\ devPc' = "printed"
        /\ UNCHANGED <<vringVars, initialized, callVars, memory, devHead>>
    BY <1>3 DEF DevPrint
  <2>2. pc \in {"signal", "wait"} /\ printed = <<>>
    BY <2>1 DEF Quiet, Busy
  <2>3. desc[devHead].addr = buf /\ memory[buf] = text
    BY <2>2 DEF HeadsAreZero, DescribesBuffer
  <2>4. buf \in Buffer /\ text \in Text
    BY DEF TypeOK
  <2>5. printed' = <<text>>
    BY <1>3, <2>2, <2>3, <2>4 DEF DevPrint
  <2>6. printed' \in Seq(Text)
    BY <2>4, <2>5
  <2>7. TypeOK'
    BY <2>1, <2>6 DEF TypeOK, VringTypeOK, vringVars
  <2>8. HeadsAreZero' /\ DescribesBuffer'
    BY <2>1 DEF HeadsAreZero, DescribesBuffer, vringVars
  <2>9. Quiet' /\ Busy'
    BY <2>1, <2>2, <2>5 DEF Quiet, Busy, IdxSucc, vringVars
  <2> QED BY <2>1, <2>7, <2>8, <2>9
<1>4. CASE DevPush
  <2> USE <1>4 DEF DevPush, DevComplete
  <2>1. TypeOK'
    BY DEF TypeOK, VringTypeOK
  <2>2. HeadsAreZero' /\ DescribesBuffer'
    BY DEF HeadsAreZero, DescribesBuffer
  <2>3. Quiet' /\ Busy'
    BY DEF Quiet, Busy, IdxSucc
  <2> QED BY <2>1, <2>2, <2>3
<1>5. CASE DevSleep
  <2> USE <1>5 DEF DevSleep, DevDrained, devVars
  <2>1. TypeOK'
    BY DEF TypeOK, VringTypeOK
  <2>2. HeadsAreZero' /\ DescribesBuffer'
    BY DEF HeadsAreZero, DescribesBuffer
  <2>3. Quiet' /\ Busy'
    BY DEF Quiet, Busy, IdxSucc
  <2> QED BY <2>1, <2>2, <2>3
<1> QED BY <1>2, <1>3, <1>4, <1>5 DEF DevNext

\* A step that changes no variable keeps the invariant.
LEMMA StutterConsoleInv ==
  ASSUME ConsoleInv, UNCHANGED vars
  PROVE  ConsoleInv'
<1> USE DEF ConsoleInv, vars, vringVars, callVars, devVars
<1>1. TypeOK'
  BY DEF TypeOK, VringTypeOK
<1>2. HeadsAreZero' /\ DescribesBuffer' /\ Quiet' /\ Busy'
  BY DEF HeadsAreZero, DescribesBuffer, Quiet, Busy, IdxSucc
<1> QED BY <1>1, <1>2

\* ConsoleInv is an invariant of the call running against the device.
THEOREM ConsoleInductive == Spec => []ConsoleInv
<1>1. ConsoleInv /\ [Next]_vars => ConsoleInv'
  BY CallConsoleInv, AddConsoleInv, PostConsoleInv, FinishConsoleInv,
     DevConsoleInv, StutterConsoleInv
  DEF Next, Step
<1> QED BY <1>1, InitConsoleInv, PTL DEF Spec

(***************************************************************************)
(* Type correctness of the console driver, its ring and the device, for    *)
(* every queue length and index width.                                     *)
(***************************************************************************)
THEOREM ConsoleTypeCorrect == Spec => []TypeOK
<1>1. ConsoleInv => TypeOK
  BY DEF ConsoleInv
<1> QED BY <1>1, ConsoleInductive, PTL

-----------------------------------------------------------------------------
(* What follows from it.                                                   *)

\* A write that returned its size has printed its text once and nothing else,
\* whatever slot of the ring the device read the head from.
THEOREM PrintedOnce == Spec => []PrintsOnce
<1>1. ConsoleInv => PrintsOnce
  BY DEF ConsoleInv, Quiet, PrintsOnce
<1> QED BY <1>1, ConsoleInductive, PTL
=============================================================================
