------------------------------ MODULE Console ------------------------------
(***************************************************************************)
(* stdout_write_handler (src/io.c) against the console device: one         *)
(* readable descriptor that points at the buffer the user passed to write, *)
(* posted on the transmit queue and waited for.  The user owns the buffer  *)
(* again, and may overwrite it, once write returns.                        *)
(***************************************************************************)
EXTENDS Vring, Sequences

CONSTANTS
  Buffer,   \* addresses of user buffers
  Text      \* what a buffer may hold

ASSUME ConsoleAssumption == Buffer # {} /\ Text # {}

VARIABLES
  initialized, \* driver->initialized
  pc,          \* the next step of the call, "idle" between calls
  buf,         \* its argument
  just_used,   \* its local
  ok,          \* the latest call returned its size, not -1
  memory,      \* contents of the user's buffers
  text,        \* history: what the latest call was to print
  printed,     \* what has been printed since the latest call began
  devPc,       \* device: "idle", "fetched" or "printed"
  devHead      \* device: head it fetched

callVars == <<pc, buf, just_used, ok, text>>
devVars == <<printed, devPc, devHead>>
vars == <<vringVars, initialized, callVars, memory, devVars>>

TypeOK ==
  /\ VringTypeOK(Buffer)
  /\ initialized \in BOOLEAN
  /\ pc \in {"idle", "add", "post", "publish", "signal", "wait", "return", "off"}
  /\ buf \in Buffer /\ just_used \in Slot /\ ok \in BOOLEAN
  /\ memory \in [Buffer -> Text] /\ text \in Text
  /\ printed \in Seq(Text)
  /\ devPc \in {"idle", "fetched", "printed"} /\ devHead \in Slot

Init ==
  /\ vring_init
  /\ initialized \in BOOLEAN
  /\ pc = "idle" /\ buf \in Buffer /\ just_used = 0 /\ ok = FALSE
  /\ memory \in [Buffer -> Text] /\ text \in Text
  /\ printed = <<>> /\ devPc = "idle" /\ devHead = 0

-----------------------------------------------------------------------------
\* The user fills a buffer and calls write on it.
Call(b, t) ==
  /\ pc = "idle"
  /\ buf' = b /\ text' = t
  /\ memory' = [memory EXCEPT ![b] = t]
  /\ printed' = <<>>
  /\ IF initialized
       THEN pc' = "add" /\ just_used' = vring_use_descr /\ UNCHANGED ok
       ELSE ok' = FALSE /\ UNCHANGED <<pc, just_used>>
  /\ UNCHANGED <<vringVars, initialized, devPc, devHead>>

Add ==
  /\ pc = "add"
  /\ IF DescrOutOfRange(just_used)
       THEN pc' = "off" /\ UNCHANGED tableVars
       ELSE pc' = "post" /\ vring_add_to_descr(buf, FALSE, just_used, TRUE)
  /\ UNCHANGED <<postVars, usedIdx, used_last, kicked, lastAvail, initialized,
                 buf, just_used, ok, text, memory, devVars>>

Post ==
  /\ pc = "post"
  /\ PostHead(just_used)
  /\ pc' = "publish"
  /\ UNCHANGED <<tableVars, availIdx, usedIdx, used_last, kicked, lastAvail,
                 initialized, buf, just_used, ok, text, memory, devVars>>

Publish ==
  /\ pc = "publish"
  /\ PublishIdx
  /\ pc' = "signal"
  /\ UNCHANGED <<tableVars, availRing, avail_next, usedIdx, used_last, kicked,
                 lastAvail, initialized, buf, just_used, ok, text, memory,
                 devVars>>

Signal ==
  /\ pc = "signal"
  /\ signal_virtio_device
  /\ pc' = "wait"
  /\ UNCHANGED <<tableVars, postVars, usedIdx, used_last, lastAvail, initialized,
                 buf, just_used, ok, text, memory, devVars>>

WaitDone ==
  /\ pc = "wait"
  /\ vring_wait_completion
  /\ pc' = "return"
  /\ UNCHANGED <<tableVars, postVars, usedIdx, kicked, lastAvail, initialized,
                 buf, just_used, ok, text, memory, devVars>>

\* The descriptor is given back and write returns its size.
Return ==
  /\ pc = "return"
  /\ vring_unuse_descr(just_used)
  /\ ok' = TRUE
  /\ pc' = "idle"
  /\ UNCHANGED <<desc, postVars, usedIdx, used_last, kicked, lastAvail,
                 initialized, buf, just_used, text, memory, devVars>>

Step == Add \/ Post \/ Publish \/ Signal \/ WaitDone \/ Return

-----------------------------------------------------------------------------
(* The console device (external).                                          *)

DevFetch ==
  /\ devPc = "idle" /\ DevPending
  /\ devHead' = DevHeadAt
  /\ DevTake
  /\ devPc' = "fetched"
  /\ UNCHANGED <<tableVars, postVars, usedIdx, used_last, kicked, initialized,
                 callVars, memory, printed>>

\* It prints what is in the buffer now; a descriptor never set up has none.
DevPrint ==
  /\ devPc = "fetched"
  /\ printed' = IF desc[devHead].addr \in Buffer
                  THEN Append(printed, memory[desc[devHead].addr])
                  ELSE printed
  /\ devPc' = "printed"
  /\ UNCHANGED <<vringVars, initialized, callVars, memory, devHead>>

DevPush ==
  /\ devPc = "printed"
  /\ DevComplete
  /\ devPc' = "idle"
  /\ UNCHANGED <<tableVars, postVars, used_last, kicked, lastAvail, initialized,
                 callVars, memory, printed, devHead>>

DevSleep ==
  /\ devPc = "idle" /\ DevDrained
  /\ UNCHANGED <<tableVars, postVars, usedIdx, used_last, lastAvail, initialized,
                 callVars, memory, devVars>>

DevNext == DevFetch \/ DevPrint \/ DevPush \/ DevSleep

-----------------------------------------------------------------------------
Next ==
  \/ \E b \in Buffer, t \in Text : Call(b, t)
  \/ Step
  \/ DevNext

\* As for the block driver.
Fairness ==
  /\ WF_vars(Step)
  /\ WF_vars(DevPrint \/ DevPush)
  /\ WF_vars(kicked /\ DevFetch)

Spec == Init /\ [][Next]_vars /\ Fairness

-----------------------------------------------------------------------------
(* Properties.                                                             *)

(***************************************************************************)
(* When write has returned its size the text passed to it has been         *)
(* printed, once, and nothing else has: neither a buffer of an earlier     *)
(* call again nor what the user put into the buffer later.                 *)
(***************************************************************************)
PrintsOnce == pc = "idle" /\ ok => printed = <<text>>

(***************************************************************************)
(* Every write to the console returns.                                     *)
(***************************************************************************)
WriteReturns == (pc # "idle") ~> (pc = "idle")
=============================================================================
