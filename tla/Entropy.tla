------------------------------ MODULE Entropy ------------------------------
(***************************************************************************)
(* virtio_get_randomness (src/virtio.c) against the entropy device.        *)
(*                                                                         *)
(* The function fills the caller's buffer chunk by chunk.  Every chunk is  *)
(* a request of one writable descriptor that points at a chunk-sized local *)
(* of the call, so its address depends on the stack frame.  Unlike the     *)
(* block driver it keeps the next descriptor in a local variable over the  *)
(* whole loop while vring_unuse_descr steps the bookkeeping back after     *)
(* every chunk: from the second chunk on the head is no longer 0.          *)
(*                                                                         *)
(* Contents of a chunk are abstracted to where they come from: "zero" (the *)
(* initialiser), "fresh" (the device wrote it for a request) and "old"     *)
(* (handed to a caller before).                                            *)
(***************************************************************************)
EXTENDS Vring

CONSTANTS
  Frame,      \* stack positions from which randomness may be requested
  ChunkSize,  \* CHUNK_SIZE (8 in the code)
  MaxLength   \* bound: longest request, in bytes

ASSUME EntropyAssumption ==
  /\ Frame # {}
  /\ ChunkSize \in Nat \ {0}
  /\ MaxLength \in Nat

VARIABLES
  initialized,  \* driver->initialized
  pc,           \* the next step of the call, "idle" between calls
  frame,        \* the stack frame of the latest call
  length,       \* its argument
  filled,       \* its loop variable
  next,         \* its locals next ...
  just_used,    \* ... and just_used
  buf,          \* memory: the chunk-sized buffer in every frame
  out,          \* the caller's buffer, and what lies behind it
  ret,          \* result of the latest call; -1 is failure
  devPc,        \* device: "idle", "fetched" or "filled"
  devHead       \* device: head it fetched

callVars == <<pc, frame, length, filled, next, just_used>>
devVars == <<devPc, devHead>>
vars == <<vringVars, initialized, callVars, buf, out, ret, devVars>>

Content == {"zero", "fresh", "old"}

\* The caller's buffer is observed up to one chunk beyond the longest request.
Position == 0 .. MaxLength + ChunkSize - 1
Untouched == [i \in Position |-> "none"]

TypeOK ==
  /\ VringTypeOK(Frame)
  /\ initialized \in BOOLEAN
  /\ pc \in {"idle", "add", "post", "publish", "signal", "wait", "copy", "off"}
  /\ frame \in Frame
  /\ length \in 0 .. MaxLength
  /\ filled \in 0 .. MaxLength + ChunkSize - 1
  /\ next \in Slot /\ just_used \in Slot
  /\ buf \in [Frame -> Content]
  /\ out \in [Position -> Content \cup {"none"}]
  /\ ret \in -1 .. MaxLength
  /\ devPc \in {"idle", "fetched", "filled"}
  /\ devHead \in Slot

Init ==
  /\ vring_init
  /\ initialized \in BOOLEAN
  /\ pc = "idle"
  /\ frame \in Frame
  /\ length = 0 /\ filled = 0 /\ next = 0 /\ just_used = 0
  /\ buf = [f \in Frame |-> "old"]
  /\ out = Untouched
  /\ ret = 0
  /\ devPc = "idle" /\ devHead = 0

-----------------------------------------------------------------------------
(* The call.                                                               *)

\* The loop header: another chunk, or return length.
LoopOrReturn(len, done) ==
  IF done < len
    THEN pc' = "add" /\ UNCHANGED ret
    ELSE pc' = "idle" /\ ret' = len

Call(f, len) ==
  /\ pc = "idle"
  /\ frame' = f /\ length' = len /\ filled' = 0
  /\ buf' = [buf EXCEPT ![f] = "zero"]
  /\ out' = Untouched
  /\ IF initialized
       THEN /\ next' = vring_use_descr
            /\ LoopOrReturn(len, 0)
       ELSE /\ ret' = -1
            /\ UNCHANGED <<pc, next>>
  /\ UNCHANGED <<vringVars, initialized, just_used, devVars>>

\* The descriptor is the local next, its successor comes from the bookkeeping.
Add ==
  /\ pc = "add"
  /\ IF DescrOutOfRange(next)
       THEN /\ pc' = "off"
            /\ UNCHANGED <<tableVars, next, just_used>>
       ELSE /\ just_used' = next
            /\ vring_add_to_descr(frame, TRUE, next, TRUE)
            /\ next' = NextDescr
            /\ pc' = "post"
  /\ UNCHANGED <<postVars, usedIdx, used_last, kicked, lastAvail, initialized,
                 frame, length, filled, buf, out, ret, devVars>>

Post ==
  /\ pc = "post"
  /\ PostHead(just_used)
  /\ pc' = "publish"
  /\ UNCHANGED <<tableVars, availIdx, usedIdx, used_last, kicked, lastAvail,
                 initialized, frame, length, filled, next, just_used, buf, out,
                 ret, devVars>>

Publish ==
  /\ pc = "publish"
  /\ PublishIdx
  /\ pc' = "signal"
  /\ UNCHANGED <<tableVars, availRing, avail_next, usedIdx, used_last, kicked,
                 lastAvail, initialized, frame, length, filled, next, just_used,
                 buf, out, ret, devVars>>

Signal ==
  /\ pc = "signal"
  /\ signal_virtio_device
  /\ pc' = "wait"
  /\ UNCHANGED <<tableVars, postVars, usedIdx, used_last, lastAvail, initialized,
                 frame, length, filled, next, just_used, buf, out, ret, devVars>>

\* Completion, and the bookkeeping steps back to the descriptor just used.
WaitDone ==
  /\ pc = "wait"
  /\ vring_wait_completion
  /\ vring_unuse_descr(just_used)
  /\ pc' = "copy"
  /\ UNCHANGED <<desc, postVars, usedIdx, kicked, lastAvail, initialized, frame,
                 length, filled, next, just_used, buf, out, ret, devVars>>

\* Fault: the last chunk is copied whole.
WholeChunk == ChunkSize

AmtToCopy == IF length - filled < ChunkSize THEN length - filled ELSE ChunkSize

\* memcpy into the caller's buffer; the chunk has now been handed out.
Copy ==
  /\ pc = "copy"
  /\ out' = [i \in Position |->
               IF i \in filled .. filled + AmtToCopy - 1 THEN buf[frame]
                                                         ELSE out[i]]
  /\ buf' = [buf EXCEPT ![frame] = "old"]
  /\ filled' = filled + ChunkSize
  /\ LoopOrReturn(length, filled + ChunkSize)
  /\ UNCHANGED <<vringVars, initialized, frame, length, next, just_used, devVars>>

Step == Add \/ Post \/ Publish \/ Signal \/ WaitDone \/ Copy

-----------------------------------------------------------------------------
(* The entropy device (external).                                          *)

DevFetch ==
  /\ devPc = "idle"
  /\ DevPending
  /\ devHead' = DevHeadAt
  /\ DevTake
  /\ devPc' = "fetched"
  /\ UNCHANGED <<tableVars, postVars, usedIdx, used_last, kicked, initialized,
                 callVars, buf, out, ret>>

\* It fills the buffer of the fetched descriptor; one that was never set up
\* names no memory.  It is taken to fill the whole chunk: the driver does not
\* look at the length used, so the rest of a short answer would be handed out
\* as random as well.
DevFill ==
  /\ devPc = "fetched"
  /\ devPc' = "filled"
  /\ buf' = [f \in Frame |-> IF f = desc[devHead].addr THEN "fresh" ELSE buf[f]]
  /\ UNCHANGED <<vringVars, initialized, callVars, out, ret, devHead>>

DevPush ==
  /\ devPc = "filled"
  /\ DevComplete
  /\ devPc' = "idle"
  /\ UNCHANGED <<tableVars, postVars, used_last, kicked, lastAvail, initialized,
                 callVars, buf, out, ret, devHead>>

DevSleep ==
  /\ devPc = "idle"
  /\ DevDrained
  /\ UNCHANGED <<tableVars, postVars, usedIdx, used_last, lastAvail, initialized,
                 callVars, buf, out, ret, devVars>>

DevNext == DevFetch \/ DevFill \/ DevPush \/ DevSleep

-----------------------------------------------------------------------------
Next ==
  \/ \E f \in Frame, len \in 0 .. MaxLength : Call(f, len)
  \/ Step
  \/ DevNext

\* As for the block driver.
Fairness ==
  /\ WF_vars(Step)
  /\ WF_vars(DevFill \/ DevPush)
  /\ WF_vars(kicked /\ DevFetch)

Spec == Init /\ [][Next]_vars /\ Fairness

-----------------------------------------------------------------------------
(* Properties.                                                             *)

(***************************************************************************)
(* A call that reports success has filled exactly length bytes of the      *)
(* caller's buffer, each with data the device produced for this call and   *)
(* nobody has been given before; a call that fails leaves it alone.        *)
(***************************************************************************)
DeliversFreshBytes ==
  pc = "idle" =>
    \A i \in Position : out[i] = IF i < ret THEN "fresh" ELSE "none"

\* The device step changes the frame of the call in progress only.
DevWritesCurrentFrame ==
  DevNext => \A f \in Frame : buf'[f] # buf[f] => f = frame /\ pc # "idle"

(***************************************************************************)
(* The device never writes into the frame of a call that has returned: no  *)
(* old descriptor, pointing into a dead stack frame, is served again.      *)
(***************************************************************************)
NoStrayWrite == [][DevWritesCurrentFrame]_vars

(***************************************************************************)
(* Every request for randomness returns, whatever slot of the ring the     *)
(* device looks at: each posted chunk is completed once.                   *)
(***************************************************************************)
CallReturns == (pc # "idle") ~> (pc = "idle")
=============================================================================
