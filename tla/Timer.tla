------------------------------- MODULE Timer -------------------------------
(***************************************************************************)
(* Time in the kernel: the one-shot timer (src/system.c), the sleeping     *)
(* process and the deferred work (src/os.c), the system calls that wait    *)
(* (demand_s and nanosleep_s) and the timer interrupt handler              *)
(* (src/strap_handler.c) with the trap entry and exit of src/strap.S.      *)
(*                                                                         *)
(* There is one hart.  The main thread of control is either in user mode   *)
(* or in a system call; the interrupt handler runs on top of it.  An       *)
(* interrupt is deliverable in user mode, and in the kernel only with      *)
(* sstatus.SIE set.  Time passes between any two steps.  A deliverable     *)
(* interrupt is taken before the main thread's next step, which stands for *)
(* many instructions.                                                      *)
(***************************************************************************)
EXTENDS Integers

CONSTANTS
  MaxTime,   \* bound: the clock stops here
  Timeout,   \* timeouts with which user code waits for a demand
  Duration,  \* sleeps user code asks for, as <<seconds, nanoseconds>>
  Whence,    \* delays with which kernel code defers work
  Grace,     \* what demand_s adds to its timeout (3e7 in the code)
  SecTicks   \* ticks nanosleep_s counts per second (10e6 in the code)

ASSUME TimerAssumption ==
  /\ MaxTime \in Nat \ {0} /\ Grace \in Nat /\ SecTicks \in Nat
  /\ Timeout \subseteq Nat /\ Whence \subseteq Nat
  /\ Duration \subseteq Nat \X Nat

VARIABLES
  defers,     \* the kernel calls set_deferred (today it does not)
  now,        \* the time CSR
  pc,         \* the main thread: "user" or a step of a system call
  deadline,   \* local of the system call: the time it computed
  sepcSaved,  \* sepc still holds what the call's exit path wrote
  sie, spie,  \* sstatus.SIE and sstatus.SPIE
  shadow_stime,
  stimecmp,   \* the timer's compare CSR
  asleep,     \* current->asleep
  deferred,   \* kernel->deferred.wakeup_time (0: none)
  hpc,        \* the interrupt handler: "none" or its next step
  stime       \* local of the handler

vars == <<defers, now, pc, deadline, sepcSaved, sie, spie, shadow_stime,
          stimecmp, asleep, deferred, hpc, stime>>
timerVars == <<shadow_stime, stimecmp>>
trapVars == <<sie, spie, sepcSaved>>
handlerVars == <<hpc, stime>>

\* STIME_UNSET, the largest 64-bit number: later than any time.
Unset == MaxTime + 1
Time == 0 .. MaxTime

TypeOK ==
  /\ defers \in BOOLEAN
  /\ now \in Time /\ stime \in Time /\ deadline \in Time
  /\ pc \in {"user", "demand_arm", "demand_yield", "demand_check",
             "sleep_arm", "sleep_yield", "sleep_check", "sleep_wake",
             "defer_arm", "exit", "lost", "off"}
  /\ sepcSaved \in BOOLEAN /\ sie \in BOOLEAN /\ spie \in BOOLEAN
  /\ shadow_stime \in Time \cup {Unset} /\ stimecmp \in Time \cup {Unset}
  /\ asleep \in [wakeup_time : Time, should_wake : BOOLEAN]
  /\ deferred \in Time
  /\ hpc \in {"none", "stime", "unset", "deferred", "asleep", "sret"}

\* The boot code ends with SIE clear and an sret; booting takes time.
Init ==
  /\ defers \in BOOLEAN
  /\ now = 1
  /\ pc = "user" /\ deadline = 0 /\ sepcSaved = FALSE
  /\ sie = FALSE /\ spie = TRUE
  /\ shadow_stime = Unset /\ stimecmp = Unset
  /\ asleep = [wakeup_time |-> 0, should_wake |-> FALSE]
  /\ deferred = 0
  /\ hpc = "none" /\ stime = 0

-----------------------------------------------------------------------------
(* The hardware (external): the clock and the interrupt.                   *)

Tick ==
  /\ now < MaxTime
  /\ now' = now + 1
  /\ UNCHANGED <<defers, pc, deadline, trapVars, timerVars, asleep, deferred,
                 handlerVars>>

Deliverable ==
  /\ hpc = "none"
  /\ pc \notin {"off", "lost"}
  /\ stimecmp <= now
  /\ pc = "user" \/ sie

\* Trap entry.  Taken on the exit path of a system call, after sepc was
\* written, it overwrites sepc.
Interrupt ==
  /\ Deliverable
  /\ hpc' = "stime"
  /\ spie' = sie
  /\ sie' = FALSE
  /\ sepcSaved' = FALSE
  /\ UNCHANGED <<defers, now, pc, deadline, timerVars, asleep, deferred,
                 stime>>

-----------------------------------------------------------------------------
(* src/system.c                                                            *)

\* Faults: the comparison is the wrong way round, or missing.
KeepsLater(future) ==
  /\ future # Unset
  /\ shadow_stime # Unset
  /\ shadow_stime > future

KeepsNothing(future) == FALSE

\* Someone else has an earlier deadline.
KeepsEarlier(future) ==
  /\ future # Unset
  /\ shadow_stime # Unset
  /\ shadow_stime < future

set_stimecmp(future) ==
  IF KeepsEarlier(future)
    THEN UNCHANGED timerVars
    ELSE shadow_stime' = future /\ stimecmp' = future

unset_stimecmp == set_stimecmp(Unset)

-----------------------------------------------------------------------------
(* Main thread: system calls.  Each runs only while no interrupt is        *)
(* deliverable and the handler is not running.                             *)

MainStep(at) == pc = at /\ hpc = "none" /\ ~Deliverable

\* Trap entry with SIE cleared.
TrapEntry == spie' = sie /\ sie' = FALSE

\* The bound on time: a call is made only if it can end before MaxTime.
Fits(t) == now + t + Grace + 4 <= MaxTime

\* demand_s: timeout = get_stime() + timeout
CallDemand(t) ==
  /\ MainStep("user") /\ Fits(t)
  /\ TrapEntry
  /\ deadline' = now + t
  /\ pc' = "demand_arm"
  /\ UNCHANGED <<defers, now, sepcSaved, timerVars, asleep, deferred,
                 handlerVars>>

DemandArm ==
  /\ MainStep("demand_arm")
  /\ set_stimecmp(deadline)
  /\ pc' = "demand_yield"
  /\ UNCHANGED <<defers, now, deadline, trapVars, asleep, deferred,
                 handlerVars>>

\* yield() sets SIE.  Its second instruction, csrci sstatus, 0, clears nothing.
yield(then) ==
  /\ sie' = TRUE
  /\ pc' = then
  /\ UNCHANGED <<defers, now, deadline, spie, sepcSaved, timerVars, asleep,
                 deferred,
                 handlerVars>>

DemandYield == MainStep("demand_yield") /\ yield("demand_check")

\* Fault: the wait may end for an event, with its timer still set.
DemandCheckEvent ==
  /\ MainStep("demand_check")
  /\ pc' = "exit" /\ sepcSaved' = TRUE
  /\ UNCHANGED <<defers, now, deadline, sie, spie, timerVars, asleep, deferred,
                 handlerVars>>

\* The timeout is checked after each yield; no event ever ends the wait.
DemandCheck ==
  /\ MainStep("demand_check")
  /\ IF now > deadline + Grace
       THEN pc' = "exit" /\ sepcSaved' = TRUE
       ELSE pc' = "demand_yield" /\ UNCHANGED sepcSaved
  /\ UNCHANGED <<defers, now, deadline, sie, spie, timerVars, asleep, deferred,
                 handlerVars>>

\* The conversion in nanosleep_s counts a nanosecond as a tick.
SleepTicks(d) == d[1] * SecTicks + d[2]

CallNanosleep(d) ==
  /\ MainStep("user") /\ Fits(SleepTicks(d))
  /\ TrapEntry
  /\ deadline' = now + SleepTicks(d)
  /\ asleep' = [asleep EXCEPT !.wakeup_time = now + SleepTicks(d)]
  /\ pc' = "sleep_arm"
  /\ UNCHANGED <<defers, now, sepcSaved, timerVars, deferred, handlerVars>>

SleepArm ==
  /\ MainStep("sleep_arm")
  /\ set_stimecmp(asleep.wakeup_time)
  /\ pc' = "sleep_yield"
  /\ UNCHANGED <<defers, now, deadline, trapVars, asleep, deferred,
                 handlerVars>>

SleepYield == MainStep("sleep_yield") /\ yield("sleep_check")

SleepCheck ==
  /\ MainStep("sleep_check")
  /\ pc' = IF asleep.should_wake THEN "sleep_wake" ELSE "sleep_yield"
  /\ UNCHANGED <<defers, now, deadline, trapVars, timerVars, asleep,
                 deferred, handlerVars>>

\* nanosleep_s clears its record and powers the machine off.
SleepWake ==
  /\ MainStep("sleep_wake")
  /\ asleep' = [wakeup_time |-> 0, should_wake |-> FALSE]
  /\ pc' = "off"
  /\ UNCHANGED <<defers, now, deadline, trapVars, timerVars, deferred,
                 handlerVars>>

\* Kernel code, running in some system call, defers work: get_stime ...
CallSetDeferred(w) ==
  /\ MainStep("user") /\ defers /\ Fits(w)
  /\ TrapEntry
  /\ deadline' = now + w
  /\ pc' = "defer_arm"
  /\ UNCHANGED <<defers, now, sepcSaved, timerVars, asleep, deferred,
                 handlerVars>>

\* ... and the rest of set_deferred.  The single slot is overwritten.
SetDeferred ==
  /\ MainStep("defer_arm")
  /\ deferred' = deadline
  /\ set_stimecmp(deadline)
  /\ pc' = "exit" /\ sepcSaved' = TRUE
  /\ UNCHANGED <<defers, now, deadline, sie, spie, asleep, handlerVars>>

\* The exit path of _trap_dispatch from csrw sepc to sret: back to user code,
\* or into the exit path itself when sepc was overwritten.
TrapExit ==
  /\ MainStep("exit")
  /\ pc' = IF sepcSaved THEN "user" ELSE "lost"
  /\ sepcSaved' = FALSE
  /\ sie' = spie /\ spie' = TRUE
  /\ UNCHANGED <<defers, now, deadline, timerVars, asleep, deferred,
                 handlerVars>>

-----------------------------------------------------------------------------
(* timer_interrupt_handler.                                                *)

HandlerReadTime ==
  /\ hpc = "stime"
  /\ stime' = now
  /\ hpc' = "unset"
  /\ UNCHANGED <<defers, now, pc, deadline, trapVars, timerVars, asleep,
                 deferred>>

\* Fault: the handler leaves the timer as it is.
HandlerKeepsTimer ==
  /\ hpc = "unset"
  /\ hpc' = "deferred"
  /\ UNCHANGED <<defers, now, pc, deadline, trapVars, timerVars, asleep,
                 deferred, stime>>

HandlerUnset ==
  /\ hpc = "unset"
  /\ unset_stimecmp
  /\ hpc' = "deferred"
  /\ UNCHANGED <<defers, now, pc, deadline, trapVars, asleep, deferred, stime>>

\* do_timer_deferreds: the callback may defer work again, which sets the timer,
\* but the slot is cleared when the callback returns.
do_timer_deferreds ==
  IF deferred < stime
    THEN /\ deferred' = 0
         /\ \/ UNCHANGED timerVars
            \/ \E w \in Whence : Fits(w) /\ set_stimecmp(now + w)
    ELSE UNCHANGED <<timerVars, deferred>>

HandlerDeferred ==
  /\ hpc = "deferred"
  /\ hpc' = "asleep"
  /\ \/ deferred = 0 /\ UNCHANGED <<timerVars, deferred>>
     \/ deferred # 0 /\ stime > deferred /\ do_timer_deferreds
     \/ deferred # 0 /\ ~(stime > deferred) /\ set_stimecmp(deferred)
        /\ UNCHANGED deferred
  /\ UNCHANGED <<defers, now, pc, deadline, trapVars, asleep, stime>>

\* Faults: a timer that goes off too early for the sleeper is not set again,
\* or wakes it.
HandlerNoRearm ==
  /\ hpc = "asleep"
  /\ hpc' = "sret"
  /\ asleep' = [asleep EXCEPT !.should_wake =
                  @ \/ (asleep.wakeup_time # 0 /\ stime > asleep.wakeup_time)]
  /\ UNCHANGED <<defers, now, pc, deadline, trapVars, timerVars, deferred,
                 stime>>

HandlerWakesAnyway ==
  /\ hpc = "asleep"
  /\ hpc' = "sret"
  /\ asleep' = [asleep EXCEPT !.should_wake = @ \/ asleep.wakeup_time # 0]
  /\ UNCHANGED <<defers, now, pc, deadline, trapVars, timerVars, deferred,
                 stime>>

HandlerAsleep ==
  /\ hpc = "asleep"
  /\ hpc' = "sret"
  /\ \/ asleep.wakeup_time = 0 /\ UNCHANGED <<timerVars, asleep>>
     \/ /\ asleep.wakeup_time # 0 /\ stime > asleep.wakeup_time
        /\ asleep' = [asleep EXCEPT !.should_wake = TRUE]
        /\ UNCHANGED timerVars
     \/ /\ asleep.wakeup_time # 0 /\ ~(stime > asleep.wakeup_time)
        /\ set_stimecmp(asleep.wakeup_time)
        /\ UNCHANGED asleep
  /\ UNCHANGED <<defers, now, pc, deadline, trapVars, deferred, stime>>

\* sret of the handler: the interrupted code goes on with SIE restored.
HandlerReturn ==
  /\ hpc = "sret"
  /\ hpc' = "none"
  /\ sie' = spie /\ spie' = TRUE
  /\ UNCHANGED <<defers, now, pc, deadline, sepcSaved, timerVars, asleep,
                 deferred, stime>>

-----------------------------------------------------------------------------
Kernel ==
  \/ DemandArm \/ DemandYield \/ DemandCheck
  \/ SleepArm \/ SleepYield \/ SleepCheck \/ SleepWake
  \/ SetDeferred
  \/ TrapExit

Handler == \/ HandlerReadTime \/ HandlerUnset \/ HandlerDeferred
           \/ HandlerAsleep \/ HandlerReturn

Next ==
  \/ Tick
  \/ Interrupt
  \/ \E t \in Timeout : CallDemand(t)
  \/ \E d \in Duration : CallNanosleep(d)
  \/ \E w \in Whence : CallSetDeferred(w)
  \/ Kernel
  \/ Handler

\* The processor keeps executing, the clock keeps counting and a deliverable
\* interrupt is taken.  User code need not call anything.
Fairness ==
  WF_vars(Tick) /\ WF_vars(Interrupt) /\ WF_vars(Kernel) /\ WF_vars(Handler)

Spec == Init /\ [][Next]_vars /\ Fairness

-----------------------------------------------------------------------------
(* Properties.                                                             *)

(***************************************************************************)
(* A system call returns to the instruction after it.  No interrupt hits   *)
(* the exit path between csrw sepc and sret, although yield leaves SIE set *)
(* there: by then the timer demand_s armed has gone off.  Deferred work     *)
(* would break it: its timer may go off on the exit path.                  *)
(***************************************************************************)
ReturnsToCaller == ~defers => pc # "lost"

(***************************************************************************)
(* nanosleep_s never wakes before its time, whoever's timer it was that    *)
(* went off and whatever an earlier wake-up left in asleep.should_wake.    *)
(***************************************************************************)
NoEarlyWake == pc = "sleep_wake" => now > deadline

(***************************************************************************)
(* No lost wake-up: whenever the sleeper looks at should_wake in vain, the *)
(* timer is set for its wake-up time or earlier, although set_stimecmp may *)
(* have skipped its request in favour of an earlier one and the handler    *)
(* may have cleared it.                                                    *)
(***************************************************************************)
SleeperArmed ==
  /\ pc \in {"sleep_yield", "sleep_check"} /\ hpc = "none"
  /\ ~asleep.should_wake
  => stimecmp <= asleep.wakeup_time

(***************************************************************************)
(* The same for deferred work: outside the handler, pending work has the   *)
(* timer set for its time or earlier, also after timers of other owners    *)
(* were set, skipped or went off.                                          *)
(***************************************************************************)
DeferredArmed == deferred # 0 /\ hpc = "none" => stimecmp <= deferred

(***************************************************************************)
(* Waiting for a demand ends: the timer interrupt never keeps demand_s     *)
(* from reading a time past its timeout and grace period.                  *)
(***************************************************************************)
DemandReturns ==
  (~defers /\ pc \in {"demand_arm", "demand_yield", "demand_check"}) ~>
    (pc = "user")

(***************************************************************************)
(* A sleeping process is woken, and nanosleep_s then powers off.           *)
(***************************************************************************)
SleepEnds == (pc = "sleep_arm") ~> (pc = "off")
=============================================================================
