--------------------------- MODULE EntropyProofs ---------------------------
(***************************************************************************)
(* Proofs about Entropy, for every queue length of at least four, every    *)
(* index width, chunk size and set of stack frames.  What the caller's     *)
(* buffer holds after a call is proved in two parts: that exactly the      *)
(* bytes asked for are written, for requests of any length; and that they  *)
(* are fresh, for requests of one chunk at most.  Longer ones do not get   *)
(* fresh bytes (the run of EntropyChunks.cfg shows how).                   *)
(***************************************************************************)
EXTENDS Entropy, TLAPS

-----------------------------------------------------------------------------
(* Requests of any length.                                                 *)

\* The loop has bytes left to fill, and has filled those before them.
LoopInv ==
  pc \notin {"idle", "off"} =>
    /\ filled < length
    /\ \A i \in Position : out[i] = "none" <=> ~(i < filled)

(***************************************************************************)
(* virtio_get_randomness writes the bytes it reports and no other: the     *)
(* last chunk is cut to length, and a call that fails writes nothing.      *)
(***************************************************************************)
FillsWhatItReports ==
  pc = "idle" => \A i \in Position : out[i] = "none" <=> ~(i < ret)

FillInv == TypeOK /\ LoopInv /\ FillsWhatItReports

\* Advancing an index stays in range and changes it.
LEMMA IdxSuccDiffers ==
  ASSUME NEW i \in Index
  PROVE  IdxSucc(i) \in Index /\ IdxSucc(i) # i
<1>1. i \in Nat /\ IdxMod \in Nat /\ IdxMod >= 2 /\ i + 1 <= IdxMod
  BY IdxModAssumption DEF Index
<1>2. (i + 1) % IdxMod = IF i + 1 = IdxMod THEN 0 ELSE i + 1
  BY <1>1, SMT
<1> QED BY <1>1, <1>2 DEF IdxSucc, Index

\* Slots and indices computed by driver and device are in range.
LEMMA SlotsInRange ==
  ASSUME TypeOK
  PROVE  /\ AvailSlot \in Slot /\ lastAvail % Num \in Slot
         /\ NextDescr \in Slot /\ 0 \in Slot
         /\ IdxSucc(avail_next) \in Index /\ IdxSucc(lastAvail) \in Index
         /\ IdxSucc(usedIdx) \in Index
<1>1. Num \in Nat /\ Num >= 4
  BY NumAssumption
<1>2. avail_next \in Nat /\ lastAvail \in Nat /\ descr_next \in Nat
  BY IdxModAssumption DEF TypeOK, VringTypeOK, Index, Slot
<1>3. \A i, m \in Nat : m > 0 => i % m \in 0 .. m - 1
  BY SMT
<1>4. /\ avail_next % (Num - 1) \in 0 .. (Num - 1) - 1
      /\ lastAvail % Num \in 0 .. Num - 1
      /\ (descr_next + 1) % (Num - 1) \in 0 .. (Num - 1) - 1
  BY <1>1, <1>2, <1>3
<1>5. /\ IdxSucc(avail_next) \in Index /\ IdxSucc(lastAvail) \in Index
      /\ IdxSucc(usedIdx) \in Index
  BY IdxSuccDiffers DEF TypeOK, VringTypeOK
<1> QED BY <1>1, <1>4, <1>5 DEF AvailSlot, NextDescr, Slot

\* Before the first call, nothing was delivered.
LEMMA InitFillInv == Init => FillInv
<1> SUFFICES ASSUME Init PROVE FillInv
  OBVIOUS
<1> USE DEF Init, vring_init
<1>1. 0 \in Slot /\ 0 \in Index
  BY NumAssumption, IdxModAssumption DEF Slot, Index
<1>2. VringTypeOK(Frame)
  BY <1>1 DEF VringTypeOK, Descriptor
<1>3. out \in [Position -> Content \cup {"none"}]
  BY DEF Untouched
<1>4. TypeOK
  BY <1>1, <1>2, <1>3, EntropyAssumption DEF TypeOK, Content
<1>5. LoopInv /\ FillsWhatItReports
  BY EntropyAssumption DEF LoopInv, FillsWhatItReports, Untouched, Position
<1> QED BY <1>4, <1>5 DEF FillInv

\* A call starts with an empty buffer, or fails.
LEMMA CallFillInv ==
  ASSUME FillInv, NEW f \in Frame, NEW len \in 0 .. MaxLength, Call(f, len)
  PROVE  FillInv'
<1> USE EntropyAssumption DEF FillInv, Call, vringVars, devVars, LoopOrReturn
<1>1. out' = Untouched /\ out' \in [Position -> Content \cup {"none"}]
  BY DEF Untouched
<1>2. \A i \in Position : out'[i] = "none" /\ i \in Nat
  BY <1>1 DEF Untouched, Position
<1>3. TypeOK'
  BY <1>1 DEF TypeOK, VringTypeOK, vring_use_descr, Content
<1>4. LoopInv' /\ FillsWhatItReports'
  BY <1>2 DEF TypeOK, LoopInv, FillsWhatItReports
<1> QED BY <1>3, <1>4

\* The chunk is copied into the bytes that follow those already filled.
LEMMA CopyFillInv ==
  ASSUME FillInv, Copy
  PROVE  FillInv'
<1> USE DEF FillInv
<1>1. /\ pc = "copy" /\ filled' = filled + ChunkSize
      /\ LoopOrReturn(length, filled + ChunkSize)
      /\ buf' = [buf EXCEPT ![frame] = "old"]
      /\ UNCHANGED <<vringVars, initialized, frame, length, next, just_used,
                     devVars>>
  BY DEF Copy
<1>2. /\ filled \in Nat /\ length \in 0 .. MaxLength /\ ChunkSize \in Nat \ {0}
      /\ filled < length /\ MaxLength \in Nat
  BY <1>1, EntropyAssumption DEF TypeOK, LoopInv
<1>3. buf[frame] \in Content /\ buf[frame] # "none"
  BY DEF TypeOK, Content
<1>4. /\ out' \in [Position -> Content \cup {"none"}]
      /\ \A i \in Position :
           out'[i] = IF i \in filled .. filled + AmtToCopy - 1
                       THEN buf[frame] ELSE out[i]
  BY <1>3 DEF Copy, TypeOK
<1>5. \A i \in Position :
        out'[i] = "none" <=> ~(i < filled + ChunkSize /\ i < length)
  <2> SUFFICES ASSUME NEW i \in Position
               PROVE  out'[i] = "none" <=> ~(i < filled + ChunkSize /\ i < length)
    OBVIOUS
  <2>1. i \in Nat
    BY <1>2 DEF Position
  <2>2. AmtToCopy = IF length - filled < ChunkSize THEN length - filled
                                                  ELSE ChunkSize
    BY DEF AmtToCopy
  <2>3. i < filled + ChunkSize /\ i < length <=> i <= filled + AmtToCopy - 1
    BY <1>2, <2>1, <2>2
  <2>4. AmtToCopy \in Nat
    BY <1>2, <2>2
  <2>5. CASE i < filled
    <3>1. out'[i] = out[i] /\ i <= filled + AmtToCopy - 1
      BY <1>2, <1>4, <2>1, <2>4, <2>5
    <3> QED BY <1>1, <2>3, <2>5, <3>1 DEF LoopInv
  <2>6. CASE ~(i < filled) /\ i <= filled + AmtToCopy - 1
    <3>1. i \in filled .. filled + AmtToCopy - 1
      BY <1>2, <2>1, <2>4, <2>6
    <3> QED BY <1>3, <1>4, <2>3, <2>6, <3>1
  <2>7. CASE ~(i <= filled + AmtToCopy - 1)
    <3>1. i \notin filled .. filled + AmtToCopy - 1 /\ ~(i < filled)
      BY <1>2, <2>1, <2>4, <2>7
    <3> QED BY <1>1, <1>4, <2>3, <2>7, <3>1 DEF LoopInv
  <2> QED BY <2>5, <2>6, <2>7
<1>6. CASE filled + ChunkSize < length
  <2>1. pc' = "add" /\ ret' = ret
    BY <1>1, <1>6 DEF LoopOrReturn
  <2>2. TypeOK'
    BY <1>1, <1>2, <1>4, <1>6, <2>1
    DEF TypeOK, VringTypeOK, vringVars, devVars, Content
  <2>3. LoopInv' /\ FillsWhatItReports'
    BY <1>1, <1>2, <1>5, <1>6, <2>1
    DEF LoopInv, FillsWhatItReports, Position
  <2> QED BY <2>2, <2>3
<1>7. CASE ~(filled + ChunkSize < length)
  <2>1. pc' = "idle" /\ ret' = length
    BY <1>1, <1>7 DEF LoopOrReturn
  <2>2. TypeOK'
    BY <1>1, <1>2, <1>4, <1>7, <2>1
    DEF TypeOK, VringTypeOK, vringVars, devVars, Content
  <2>3. LoopInv' /\ FillsWhatItReports'
    BY <1>1, <1>2, <1>5, <1>7, <2>1
    DEF LoopInv, FillsWhatItReports, Position
  <2> QED BY <2>2, <2>3
<1> QED BY <1>6, <1>7

\* The descriptor is written.
LEMMA AddTypeOK ==
  ASSUME TypeOK, Add
  PROVE  /\ TypeOK'
         /\ pc = "add" /\ pc' = "post" /\ just_used' = next
         /\ desc' = [desc EXCEPT ![next] = [addr |-> frame, next |-> 0,
                                            more |-> FALSE, write |-> TRUE]]
         /\ descr_next' = NextDescr
<1>1. ~DescrOutOfRange(next) /\ NextDescr \in Slot /\ 0 \in Slot
  BY NumAssumption, SlotsInRange DEF TypeOK, Slot, DescrOutOfRange
<1> DEFINE d == [addr |-> frame, next |-> 0, more |-> FALSE, write |-> TRUE]
<1>2. /\ pc = "add" /\ pc' = "post" /\ just_used' = next
      /\ desc' = [desc EXCEPT ![next] = d]
      /\ descr_next' = NextDescr /\ next' = NextDescr
  BY <1>1 DEF Add, vring_add_to_descr
<1>3. UNCHANGED <<postVars, usedIdx, used_last, kicked, lastAvail, initialized,
                  frame, length, filled, buf, out, ret, devVars>>
  BY DEF Add
<1>4. d \in Descriptor(Frame)
  BY <1>1 DEF Descriptor, TypeOK
<1>5. TypeOK'
  <2> HIDE DEF d
  <2>1. desc' \in [Slot -> Descriptor(Frame)]
    BY <1>2, <1>4 DEF TypeOK, VringTypeOK
  <2> QED BY <1>1, <1>2, <1>3, <2>1 DEF TypeOK, VringTypeOK, postVars, devVars
<1> QED BY <1>2, <1>5

\* The other steps of the call, and those of the device, leave the caller's
\* buffer and the loop alone.
LEMMA OtherFillInv ==
  ASSUME FillInv, \/ Add \/ Post \/ Publish \/ Signal \/ WaitDone \/ DevNext
                  \/ UNCHANGED vars
  PROVE  FillInv'
<1>1. /\ AvailSlot \in Slot /\ lastAvail % Num \in Slot
      /\ IdxSucc(avail_next) \in Index /\ IdxSucc(lastAvail) \in Index
      /\ IdxSucc(usedIdx) \in Index
  BY SlotsInRange DEF FillInv
<1>2. TypeOK'
  <2> USE <1>1 DEF FillInv, TypeOK, VringTypeOK, tableVars, postVars, callVars,
                   devVars, vringVars
  <2>1. CASE Add
    BY <2>1, AddTypeOK
  <2>2. CASE Post
    BY <2>2 DEF Post, PostHead
  <2>3. CASE Publish \/ Signal \/ WaitDone
    BY <2>3 DEF Publish, PublishIdx, Signal, signal_virtio_device, WaitDone,
                vring_wait_completion, vring_unuse_descr
  <2>4. CASE DevFetch
    BY <2>4 DEF DevFetch, DevHeadAt, DevTake
  <2>5. CASE DevFill
    <3>1. buf' \in [Frame -> Content]
      BY <2>5 DEF DevFill, Content
    <3> QED BY <2>5, <3>1 DEF DevFill
  <2>6. CASE DevPush \/ DevSleep
    BY <2>6 DEF DevPush, DevComplete, DevSleep, DevDrained
  <2>7. CASE UNCHANGED vars
    BY <2>7 DEF vars
  <2> QED BY <2>1, <2>2, <2>3, <2>4, <2>5, <2>6, <2>7 DEF DevNext
<1>3. /\ UNCHANGED <<length, filled, out, ret>>
      /\ pc' = pc \/ (pc \notin {"idle", "off"} /\ pc' \notin {"idle", "off"})
  <2>1. CASE Add
    BY <2>1, AddTypeOK DEF FillInv, Add
  <2>2. CASE Post \/ Publish \/ Signal \/ WaitDone
    BY <2>2 DEF Post, Publish, Signal, WaitDone
  <2>3. CASE DevNext \/ UNCHANGED vars
    BY <2>3 DEF DevNext, DevFetch, DevFill, DevPush, DevSleep, callVars, vars
  <2> QED BY <2>1, <2>2, <2>3
<1>4. LoopInv' /\ FillsWhatItReports'
  BY <1>3 DEF FillInv, LoopInv, FillsWhatItReports
<1> QED BY <1>2, <1>4 DEF FillInv

\* FillInv is an invariant, whatever the length of the requests.
THEOREM FillInductive == Spec => []FillInv
<1>1. FillInv /\ [Next]_vars => FillInv'
  BY CallFillInv, CopyFillInv, OtherFillInv DEF Next, Step
<1> QED BY <1>1, InitFillInv, PTL DEF Spec

(***************************************************************************)
(* Type correctness of the entropy driver, its ring and the device, for    *)
(* requests of any length, those included whose chunks the device serves   *)
(* from stale descriptors.                                                 *)
(***************************************************************************)
THEOREM EntropyTypeCorrect == Spec => []TypeOK
<1>1. FillInv => TypeOK
  BY DEF FillInv
<1> QED BY <1>1, FillInductive, PTL

\* A call of any length writes the bytes it reports and no other.
THEOREM FillsExactly == Spec => []FillsWhatItReports
<1>1. FillInv => FillsWhatItReports
  BY DEF FillInv
<1> QED BY <1>1, FillInductive, PTL
-----------------------------------------------------------------------------
(* Requests of one chunk at most: as in the block driver every head is 0,  *)
(* so it does not matter which slot of the available ring the device looks *)
(* at.                                                                     *)

HeadsAreZero ==
  /\ just_used = 0 /\ devHead = 0
  /\ \A i \in Slot : availRing[i] = 0
  /\ pc \in {"idle", "add", "copy"} => descr_next = 0
  /\ pc = "add" => next = 0

\* Descriptor 0 points into the frame of the call in progress, and nothing has
\* been copied yet.
DescribesFrame ==
  /\ pc \in {"post", "publish", "signal", "wait", "copy"} => desc[0].addr = frame
  /\ pc # "idle" => filled = 0

\* Nothing is between the indices, except the head about to be published.
Quiet ==
  pc \notin {"signal", "wait"} =>
    /\ devPc = "idle"
    /\ lastAvail = availIdx /\ usedIdx = availIdx /\ used_last = availIdx
    /\ avail_next = IF pc = "publish" THEN IdxSucc(availIdx) ELSE availIdx
    /\ pc = "copy" => buf[frame] = "fresh"

\* The request in flight: not fetched, fetched, filled, or completed.
Busy ==
  pc \in {"signal", "wait"} =>
    /\ avail_next = availIdx
    /\ availIdx = IdxSucc(used_last)
    /\ \/ devPc = "idle" /\ lastAvail = used_last /\ usedIdx = used_last
       \/ devPc = "fetched" /\ lastAvail = availIdx /\ usedIdx = used_last
       \/ /\ devPc = "filled" /\ lastAvail = availIdx /\ usedIdx = used_last
          /\ buf[frame] = "fresh"
       \/ /\ devPc = "idle" /\ lastAvail = availIdx /\ usedIdx = availIdx
          /\ buf[frame] = "fresh"

ChunkInv ==
  /\ FillInv
  /\ pc # "off"
  /\ HeadsAreZero
  /\ DescribesFrame
  /\ Quiet
  /\ Busy
  /\ DeliversFreshBytes

\* Before the first call, no buffer is with the device.
LEMMA InitChunkInv == Init => ChunkInv
<1> SUFFICES ASSUME Init PROVE ChunkInv
  OBVIOUS
<1>1. FillInv
  BY InitFillInv
<1>2. HeadsAreZero /\ DescribesFrame /\ Quiet /\ Busy
  BY DEF Init, vring_init, HeadsAreZero, DescribesFrame, Quiet, Busy
<1>3. DeliversFreshBytes
  BY EntropyAssumption DEF Init, DeliversFreshBytes, Untouched, Position
<1> QED BY <1>1, <1>2, <1>3 DEF ChunkInv, Init

\* A call starts with an idle device.
LEMMA CallChunkInv ==
  ASSUME ChunkInv, NEW f \in Frame, NEW len \in 0 .. MaxLength, Call(f, len)
  PROVE  ChunkInv'
<1> USE DEF ChunkInv
<1>1. FillInv'
  BY CallFillInv
<1> USE DEF Call, vringVars, devVars, LoopOrReturn, vring_use_descr
<1>2. HeadsAreZero' /\ DescribesFrame' /\ pc' # "off"
  BY DEF HeadsAreZero, DescribesFrame
<1>3. Quiet' /\ Busy'
  BY DEF Quiet, Busy, IdxSucc
<1>4. DeliversFreshBytes'
  <2> SUFFICES ASSUME pc' = "idle", NEW i \in Position
               PROVE  ~(i < ret') /\ out'[i] = "none"
    BY DEF DeliversFreshBytes
  <2>1. i \in Nat
    BY EntropyAssumption DEF Position
  <2>2. ret' = -1 \/ (ret' = len /\ ~(0 < len))
    OBVIOUS
  <2> QED BY <2>1, <2>2 DEF Untouched
<1> QED BY <1>1, <1>2, <1>3, <1>4

\* Adding the one buffer of a call leaves the device idle.
LEMMA AddChunkInv ==
  ASSUME ChunkInv, Add
  PROVE  ChunkInv'
<1> USE DEF ChunkInv
<1>1. FillInv' /\ 0 \in Slot
  BY OtherFillInv, SlotsInRange DEF FillInv
<1>2. /\ pc = "add" /\ pc' = "post" /\ just_used' = 0
      /\ desc' = [desc EXCEPT ![0] = [addr |-> frame, next |-> 0,
                                      more |-> FALSE, write |-> TRUE]]
  BY AddTypeOK DEF FillInv, HeadsAreZero
<1>3. desc'[0].addr = frame
  BY <1>1, <1>2 DEF FillInv, TypeOK, VringTypeOK
<1>4. UNCHANGED <<postVars, usedIdx, used_last, kicked, lastAvail, initialized,
                  frame, length, filled, buf, out, ret, devVars>>
  BY DEF Add
<1>5. HeadsAreZero' /\ DescribesFrame'
  BY <1>2, <1>3, <1>4 DEF HeadsAreZero, DescribesFrame, postVars, devVars
<1>6. Quiet' /\ Busy' /\ DeliversFreshBytes'
  BY <1>2, <1>4 DEF Quiet, Busy, DeliversFreshBytes, IdxSucc, postVars, devVars
<1> QED BY <1>1, <1>2, <1>5, <1>6

\* From posting to completion, the buffer is the only one the device has.
LEMMA PostChunkInv ==
  ASSUME ChunkInv, Post \/ Publish \/ Signal \/ WaitDone
  PROVE  ChunkInv'
<1>1. FillInv'
  BY OtherFillInv DEF ChunkInv
<1>2. AvailSlot \in Slot
  BY SlotsInRange DEF ChunkInv, FillInv
<1> USE <1>1 DEF ChunkInv, tableVars, devVars
<1>3. CASE Post
  <2> USE <1>3 DEF Post, PostHead
  <2>1. HeadsAreZero' /\ DescribesFrame'
    BY <1>2 DEF HeadsAreZero, DescribesFrame, FillInv, TypeOK, VringTypeOK
  <2>2. Quiet' /\ Busy' /\ DeliversFreshBytes'
    BY DEF Quiet, Busy, DeliversFreshBytes, IdxSucc
  <2> QED BY <2>1, <2>2
<1>4. CASE Publish
  <2> USE <1>4 DEF Publish, PublishIdx
  <2>1. HeadsAreZero' /\ DescribesFrame'
    BY DEF HeadsAreZero, DescribesFrame
  <2>2. Quiet' /\ Busy' /\ DeliversFreshBytes'
    BY DEF Quiet, Busy, DeliversFreshBytes, IdxSucc
  <2> QED BY <2>1, <2>2
<1>5. CASE Signal
  <2> USE <1>5 DEF Signal, postVars
  <2>1. HeadsAreZero' /\ DescribesFrame'
    BY DEF HeadsAreZero, DescribesFrame
  <2>2. Quiet' /\ Busy' /\ DeliversFreshBytes'
    BY DEF Quiet, Busy, DeliversFreshBytes, IdxSucc
  <2> QED BY <2>1, <2>2
<1>6. CASE WaitDone
  <2> USE <1>6 DEF WaitDone, vring_wait_completion, CompletionSeen,
                   vring_unuse_descr, postVars
  <2>1. HeadsAreZero' /\ DescribesFrame'
    BY DEF HeadsAreZero, DescribesFrame
  <2>2. Quiet' /\ Busy' /\ DeliversFreshBytes'
    BY DEF Quiet, Busy, DeliversFreshBytes, IdxSucc
  <2> QED BY <2>1, <2>2
<1> QED BY <1>3, <1>4, <1>5, <1>6

\* The one chunk is copied, all of it fresh, and the call returns.
LEMMA CopyChunkInv ==
  ASSUME ChunkInv, MaxLength <= ChunkSize, Copy
  PROVE  ChunkInv'
<1> USE DEF ChunkInv
<1>1. FillInv'
  BY CopyFillInv
<1>2. /\ filled = 0 /\ buf[frame] = "fresh" /\ pc = "copy"
      /\ length \in Nat /\ length <= ChunkSize /\ ChunkSize \in Nat
  BY EntropyAssumption DEF Copy, DescribesFrame, Quiet, FillInv, TypeOK
<1>3. /\ pc' = "idle" /\ ret' = length
      /\ UNCHANGED <<vringVars, frame, length, just_used, devVars>>
  BY <1>2 DEF Copy, LoopOrReturn
<1>4. HeadsAreZero' /\ DescribesFrame' /\ Quiet' /\ Busy'
  BY <1>2, <1>3
  DEF HeadsAreZero, DescribesFrame, Quiet, Busy, IdxSucc, vringVars, devVars
<1>5. AmtToCopy = length
  BY <1>2 DEF AmtToCopy
<1>6. DeliversFreshBytes'
  <2> SUFFICES ASSUME NEW i \in Position
               PROVE  out'[i] = IF i < ret' THEN "fresh" ELSE "none"
    BY DEF DeliversFreshBytes
  <2>1. i \in Nat
    BY EntropyAssumption DEF Position
  <2>2. out'[i] = IF i \in filled .. filled + AmtToCopy - 1
                    THEN buf[frame] ELSE out[i]
    BY DEF Copy
  <2>3. i \in filled .. filled + AmtToCopy - 1 <=> i < ret'
    BY <1>2, <1>3, <1>5, <2>1
  <2>4. out'[i] = "none" <=> ~(i < ret')
    BY <1>1, <1>3 DEF FillInv, FillsWhatItReports
  <2> QED BY <1>2, <2>2, <2>3, <2>4
<1> QED BY <1>1, <1>3, <1>4, <1>6

\* What the device fills is the frame of the call in progress.
LEMMA DevFillEffect ==
  ASSUME ChunkInv, DevFill
  PROVE  /\ pc \in {"signal", "wait"} /\ devPc = "fetched"
         /\ buf' = [f \in Frame |-> IF f = frame THEN "fresh" ELSE buf[f]]
<1>1. pc \in {"signal", "wait"} /\ devPc = "fetched"
  BY DEF ChunkInv, DevFill, Quiet
<1>2. desc[devHead].addr = frame
  BY <1>1 DEF ChunkInv, HeadsAreZero, DescribesFrame
<1> QED BY <1>1, <1>2 DEF DevFill

\* The device fills the buffer of the call it was given.
LEMMA DevChunkInv ==
  ASSUME ChunkInv, DevNext
  PROVE  ChunkInv'
<1>1. FillInv'
  BY OtherFillInv DEF ChunkInv
<1>2. /\ lastAvail % Num \in Slot
      /\ IdxSucc(used_last) # used_last
  BY SlotsInRange, IdxSuccDiffers DEF ChunkInv, FillInv, TypeOK, VringTypeOK
<1> USE <1>1, <1>2 DEF ChunkInv, tableVars, postVars, callVars
<1>3. CASE DevFetch
  <2> USE <1>3 DEF DevFetch, DevPending, DevTake, DevHeadAt
  <2>1. HeadsAreZero' /\ DescribesFrame'
    BY DEF HeadsAreZero, DescribesFrame
  <2>2. Quiet' /\ Busy' /\ DeliversFreshBytes'
    BY DEF Quiet, Busy, DeliversFreshBytes, IdxSucc
  <2> QED BY <2>1, <2>2
<1>4. CASE DevFill
  <2>1. /\ pc \in {"signal", "wait"} /\ devPc = "fetched" /\ devPc' = "filled"
        /\ UNCHANGED <<vringVars, initialized, callVars, out, ret, devHead>>
    BY <1>4, DevFillEffect DEF DevFill
  <2>2. buf'[frame] = "fresh"
    BY <1>4, DevFillEffect DEF FillInv, TypeOK
  <2>3. HeadsAreZero' /\ DescribesFrame'
    BY <2>1 DEF HeadsAreZero, DescribesFrame, vringVars
  <2>4. Quiet' /\ Busy' /\ DeliversFreshBytes'
    BY <2>1, <2>2 DEF Quiet, Busy, DeliversFreshBytes, IdxSucc, vringVars
  <2> QED BY <2>1, <2>3, <2>4
<1>5. CASE DevPush
  <2> USE <1>5 DEF DevPush, DevComplete
  <2>1. HeadsAreZero' /\ DescribesFrame'
    BY DEF HeadsAreZero, DescribesFrame
  <2>2. Quiet' /\ Busy' /\ DeliversFreshBytes'
    BY DEF Quiet, Busy, DeliversFreshBytes, IdxSucc
  <2> QED BY <2>1, <2>2
<1>6. CASE DevSleep
  <2> USE <1>6 DEF DevSleep, DevDrained, devVars
  <2>1. HeadsAreZero' /\ DescribesFrame'
    BY DEF HeadsAreZero, DescribesFrame
  <2>2. Quiet' /\ Busy' /\ DeliversFreshBytes'
    BY DEF Quiet, Busy, DeliversFreshBytes, IdxSucc
  <2> QED BY <2>1, <2>2
<1> QED BY <1>3, <1>4, <1>5, <1>6 DEF DevNext

\* A step that changes no variable keeps the invariant.
LEMMA StutterChunkInv ==
  ASSUME ChunkInv, UNCHANGED vars
  PROVE  ChunkInv'
<1>1. FillInv'
  BY OtherFillInv DEF ChunkInv
<1>2. /\ HeadsAreZero' /\ DescribesFrame' /\ Quiet' /\ Busy'
      /\ DeliversFreshBytes'
  BY DEF ChunkInv, vars, vringVars, callVars, devVars, HeadsAreZero,
         DescribesFrame, Quiet, Busy, DeliversFreshBytes, IdxSucc
<1> QED BY <1>1, <1>2 DEF ChunkInv, vars, callVars

\* ChunkInv is an invariant if no request is longer than a chunk.
THEOREM ChunkInductive ==
  ASSUME MaxLength <= ChunkSize
  PROVE  Spec => []ChunkInv
<1>1. ChunkInv /\ [Next]_vars => ChunkInv'
  BY CallChunkInv, AddChunkInv, PostChunkInv, CopyChunkInv, DevChunkInv,
     StutterChunkInv
  DEF Next, Step
<1> QED BY <1>1, InitChunkInv, PTL DEF Spec

\* A request of one chunk at most that reports success has filled the caller's
\* buffer with bytes the device produced for it.
THEOREM FreshBytes ==
  ASSUME MaxLength <= ChunkSize
  PROVE  Spec => []DeliversFreshBytes
<1>1. ChunkInv => DeliversFreshBytes
  BY DEF ChunkInv
<1>2. Spec => []ChunkInv
  BY ChunkInductive
<1> QED BY <1>1, <1>2, PTL

\* The device never writes into a frame other than that of the call in
\* progress, if no request is longer than a chunk.
THEOREM NoStray ==
  ASSUME MaxLength <= ChunkSize
  PROVE  Spec => NoStrayWrite
<1>1. ChunkInv /\ [Next]_vars => [DevWritesCurrentFrame]_vars
  <2> SUFFICES ASSUME ChunkInv, DevNext PROVE DevWritesCurrentFrame
    BY DEF DevWritesCurrentFrame
  <2>1. CASE DevFill
    BY <2>1, DevFillEffect DEF DevWritesCurrentFrame
  <2>2. CASE DevFetch \/ DevPush \/ DevSleep
    BY <2>2 DEF DevFetch, DevPush, DevSleep, DevWritesCurrentFrame
  <2> QED BY <2>1, <2>2 DEF DevNext
<1>2. Spec => []ChunkInv
  BY ChunkInductive
<1> QED BY <1>1, <1>2, PTL DEF Spec, NoStrayWrite
=============================================================================
