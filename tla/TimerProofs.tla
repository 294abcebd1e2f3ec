---------------------------- MODULE TimerProofs ----------------------------
(***************************************************************************)
(* Proofs about Timer, for any timeouts, sleeps, delays and grace period   *)
(* and any bound on time.                                                  *)
(***************************************************************************)
EXTENDS Timer, TLAPS

-----------------------------------------------------------------------------
(* The inductive invariant.                                                *)

Sleeping == {"sleep_arm", "sleep_yield", "sleep_check", "sleep_wake"}

\* The shadow is the CSR, and no clock reading is ahead of the clock.
ClockAndTimer ==
  /\ shadow_stime = stimecmp
  /\ now >= 1 /\ stime <= now

\* current->asleep is in use only during nanosleep_s, for the time it computed;
\* should_wake is set only when that time is over.
SleepRecord ==
  /\ pc \in Sleeping => asleep.wakeup_time = deadline /\ deadline # 0
  /\ pc \notin Sleeping => asleep.wakeup_time = 0 /\ ~asleep.should_wake
  /\ asleep.should_wake => now > asleep.wakeup_time
  /\ pc = "sleep_wake" => now > deadline

\* Whoever waits has a timer, except while the handler, having cleared the
\* timer, has not come to them.
WaitersArmed ==
  /\ hpc \in {"none", "sret"} /\ pc \in {"sleep_yield", "sleep_check"}
     /\ ~asleep.should_wake
     => stimecmp <= asleep.wakeup_time
  /\ hpc \in {"none", "asleep", "sret"} /\ deferred # 0 => stimecmp <= deferred

\* Without deferred work the only timer outside nanosleep_s is the one of the
\* demand that is waited for; it is unset before and after the wait, and yield
\* has opened the kernel to it when its time is checked.
OnlyOwnTimer ==
  ~defers =>
    /\ deferred = 0
    /\ pc \notin {"defer_arm", "lost"}
    /\ pc \in {"user", "demand_arm", "exit"} => stimecmp = Unset /\ hpc = "none"
    /\ pc \in {"demand_yield", "demand_check"} => stimecmp \in {Unset, deadline}
    /\ pc = "demand_check" => IF hpc = "none" THEN sie ELSE spie
    /\ pc = "exit" => sepcSaved

TimerInv ==
  TypeOK /\ ClockAndTimer /\ SleepRecord /\ WaitersArmed /\ OnlyOwnTimer

-----------------------------------------------------------------------------
(* Lemmas.                                                                 *)

\* set_stimecmp keeps shadow and CSR equal; for a time it leaves the timer at
\* this time or earlier, and never later than it was.
LEMMA SetTimer ==
  ASSUME TypeOK, ClockAndTimer, NEW f \in Time \cup {Unset}, set_stimecmp(f)
  PROVE  /\ shadow_stime' = stimecmp'
         /\ stimecmp' \in Time \cup {Unset}
         /\ f # Unset => /\ stimecmp' <= f
                         /\ stimecmp' <= stimecmp
                         /\ stimecmp' \in {stimecmp, f}
         /\ f = Unset => stimecmp' = Unset
<1>1. MaxTime \in Nat
  BY TimerAssumption
<1> QED
  BY <1>1 DEF TypeOK, ClockAndTimer, set_stimecmp, KeepsEarlier, timerVars, Time,
              Unset

\* A time within the bound of the model.
LEMMA FitsTime ==
  ASSUME TypeOK, NEW t \in Nat, Fits(t)
  PROVE  now + t \in Time
  BY TimerAssumption DEF TypeOK, Fits, Time

\* A sleep takes a natural number of ticks.
LEMMA SleepTicksNat ==
  ASSUME NEW d \in Duration
  PROVE  SleepTicks(d) \in Nat
<1>1. d[1] \in Nat /\ d[2] \in Nat /\ SecTicks \in Nat
  BY TimerAssumption
<1>2. \A x, y \in Nat : x * y \in Nat
  BY SMT
<1> QED BY <1>1, <1>2 DEF SleepTicks

\* At boot no timer is armed and nobody sleeps.
LEMMA InitTimerInv == Init => TimerInv
<1> SUFFICES ASSUME Init PROVE TimerInv
  OBVIOUS
<1>1. MaxTime \in Nat /\ MaxTime >= 1
  BY TimerAssumption
<1>2. 0 \in Time /\ 1 \in Time /\ Unset \in Time \cup {Unset}
  BY <1>1 DEF Time
<1>3. TypeOK
  BY <1>2 DEF Init, TypeOK
<1>4. ClockAndTimer /\ SleepRecord /\ WaitersArmed /\ OnlyOwnTimer
  BY <1>1 DEF Init, ClockAndTimer, SleepRecord, WaitersArmed, OnlyOwnTimer,
              Sleeping
<1> QED BY <1>3, <1>4 DEF TimerInv

-----------------------------------------------------------------------------
(* Every step keeps the invariant.                                         *)

\* The clock ticks, or an interrupt is taken.
LEMMA HardwareTimerInv ==
  ASSUME TimerInv, Tick \/ Interrupt
  PROVE  TimerInv'
<1> USE TimerAssumption DEF TimerInv, timerVars, trapVars, handlerVars
<1>1. CASE Tick
  <2> USE <1>1 DEF Tick
  <2>1. TypeOK'
    BY DEF TypeOK, Time
  <2>2. ClockAndTimer' /\ SleepRecord'
    BY DEF TypeOK, Time, ClockAndTimer, SleepRecord, Sleeping
  <2>3. WaitersArmed'
    BY DEF WaitersArmed
  <2>4. OnlyOwnTimer'
    BY DEF OnlyOwnTimer
  <2> QED BY <2>1, <2>2, <2>3, <2>4
<1>2. CASE Interrupt
  <2> USE <1>2 DEF Interrupt, Deliverable
  <2>1. TypeOK'
    BY DEF TypeOK
  <2>2. ClockAndTimer' /\ SleepRecord'
    BY DEF ClockAndTimer, SleepRecord
  <2>3. WaitersArmed'
    BY DEF WaitersArmed
  <2>4. OnlyOwnTimer'
    BY DEF TypeOK, Time, Unset, OnlyOwnTimer
  <2> QED BY <2>1, <2>2, <2>3, <2>4
<1> QED BY <1>1, <1>2

\* demand_s after it computed its deadline.
LEMMA DemandTimerInv ==
  ASSUME TimerInv, DemandArm \/ DemandYield \/ DemandCheck
  PROVE  TimerInv'
<1> USE TimerAssumption DEF TimerInv, timerVars, trapVars, handlerVars
<1>1. CASE DemandArm
  <2> USE <1>1 DEF DemandArm, MainStep
  <2>1. /\ shadow_stime' = stimecmp'
        /\ stimecmp' \in Time \cup {Unset}
        /\ stimecmp' <= deadline
        /\ stimecmp' <= stimecmp
        /\ stimecmp' \in {stimecmp, deadline}
    BY SetTimer DEF TypeOK, Time, Unset
  <2>2. TypeOK'
    BY <2>1 DEF TypeOK
  <2>3. ClockAndTimer' /\ SleepRecord'
    BY <2>1 DEF ClockAndTimer, SleepRecord, Sleeping
  <2>4. WaitersArmed'
    BY <2>1 DEF TypeOK, Time, Unset, WaitersArmed
  <2>5. OnlyOwnTimer'
    BY <2>1 DEF OnlyOwnTimer
  <2> QED BY <2>2, <2>3, <2>4, <2>5
<1>2. CASE DemandYield
  <2> USE <1>2 DEF DemandYield, MainStep, yield
  <2>1. TypeOK'
    BY DEF TypeOK
  <2>2. ClockAndTimer' /\ SleepRecord'
    BY DEF ClockAndTimer, SleepRecord, Sleeping
  <2>3. WaitersArmed'
    BY DEF WaitersArmed
  <2>4. OnlyOwnTimer'
    BY DEF OnlyOwnTimer
  <2> QED BY <2>1, <2>2, <2>3, <2>4
<1>3. CASE DemandCheck
  <2> USE <1>3 DEF DemandCheck, MainStep, Deliverable
  <2>1. TypeOK'
    BY DEF TypeOK
  <2>2. ClockAndTimer' /\ SleepRecord'
    BY DEF ClockAndTimer, SleepRecord, Sleeping
  <2>3. WaitersArmed'
    BY DEF WaitersArmed
  <2>4. OnlyOwnTimer'
    BY DEF TypeOK, Time, Unset, OnlyOwnTimer
  <2> QED BY <2>1, <2>2, <2>3, <2>4
<1> QED BY <1>1, <1>2, <1>3

\* nanosleep_s after it computed its deadline.
LEMMA SleepTimerInv ==
  ASSUME TimerInv, SleepArm \/ SleepYield \/ SleepCheck \/ SleepWake
  PROVE  TimerInv'
<1> USE TimerAssumption DEF TimerInv, timerVars, trapVars, handlerVars
<1>1. CASE SleepArm
  <2> USE <1>1 DEF SleepArm, MainStep
  <2>1. /\ shadow_stime' = stimecmp'
        /\ stimecmp' \in Time \cup {Unset}
        /\ stimecmp' <= asleep.wakeup_time
        /\ stimecmp' <= stimecmp
        /\ stimecmp' \in {stimecmp, asleep.wakeup_time}
    BY SetTimer DEF TypeOK, Time, Unset
  <2>2. TypeOK'
    BY <2>1 DEF TypeOK
  <2>3. ClockAndTimer' /\ SleepRecord'
    BY <2>1 DEF ClockAndTimer, SleepRecord, Sleeping
  <2>4. WaitersArmed'
    BY <2>1 DEF TypeOK, Time, Unset, WaitersArmed
  <2>5. OnlyOwnTimer'
    BY <2>1 DEF OnlyOwnTimer
  <2> QED BY <2>2, <2>3, <2>4, <2>5
<1>2. CASE SleepYield
  <2> USE <1>2 DEF SleepYield, MainStep, yield
  <2>1. TypeOK'
    BY DEF TypeOK
  <2>2. ClockAndTimer' /\ SleepRecord'
    BY DEF ClockAndTimer, SleepRecord, Sleeping
  <2>3. WaitersArmed'
    BY DEF WaitersArmed
  <2>4. OnlyOwnTimer'
    BY DEF OnlyOwnTimer
  <2> QED BY <2>1, <2>2, <2>3, <2>4
<1>3. CASE SleepCheck
  <2> USE <1>3 DEF SleepCheck, MainStep
  <2>1. TypeOK'
    BY DEF TypeOK
  <2>2. ClockAndTimer' /\ SleepRecord'
    BY DEF ClockAndTimer, SleepRecord, Sleeping
  <2>3. WaitersArmed'
    BY DEF WaitersArmed
  <2>4. OnlyOwnTimer'
    BY DEF OnlyOwnTimer
  <2> QED BY <2>1, <2>2, <2>3, <2>4
<1>4. CASE SleepWake
  <2> USE <1>4 DEF SleepWake, MainStep
  <2>1. TypeOK'
    BY DEF TypeOK, Time
  <2>2. ClockAndTimer' /\ SleepRecord'
    BY DEF ClockAndTimer, SleepRecord, Sleeping
  <2>3. WaitersArmed'
    BY DEF WaitersArmed
  <2>4. OnlyOwnTimer'
    BY DEF OnlyOwnTimer
  <2> QED BY <2>1, <2>2, <2>3, <2>4
<1> QED BY <1>1, <1>2, <1>3, <1>4

\* The rest of set_deferred, and the exit of a system call.
LEMMA DeferTimerInv ==
  ASSUME TimerInv, SetDeferred \/ TrapExit
  PROVE  TimerInv'
<1> USE TimerAssumption DEF TimerInv, timerVars, trapVars, handlerVars
<1>1. CASE SetDeferred
  <2> USE <1>1 DEF SetDeferred, MainStep
  <2>1. /\ shadow_stime' = stimecmp'
        /\ stimecmp' \in Time \cup {Unset}
        /\ stimecmp' <= deadline
        /\ stimecmp' <= stimecmp
        /\ stimecmp' \in {stimecmp, deadline}
    BY SetTimer DEF TypeOK, Time, Unset
  <2>2. TypeOK'
    BY <2>1 DEF TypeOK
  <2>3. ClockAndTimer' /\ SleepRecord'
    BY <2>1 DEF ClockAndTimer, SleepRecord, Sleeping
  <2>4. WaitersArmed'
    BY <2>1 DEF WaitersArmed
  <2>5. OnlyOwnTimer'
    BY <2>1 DEF OnlyOwnTimer
  <2> QED BY <2>2, <2>3, <2>4, <2>5
<1>2. CASE TrapExit
  <2> USE <1>2 DEF TrapExit, MainStep
  <2>1. TypeOK'
    BY DEF TypeOK
  <2>2. ClockAndTimer' /\ SleepRecord'
    BY DEF ClockAndTimer, SleepRecord, Sleeping
  <2>3. WaitersArmed'
    BY DEF WaitersArmed
  <2>4. OnlyOwnTimer'
    BY DEF OnlyOwnTimer
  <2> QED BY <2>1, <2>2, <2>3, <2>4
<1> QED BY <1>1, <1>2

\* The handler reads the clock, clears the timer and returns.
LEMMA HandlerTimerInv ==
  ASSUME TimerInv, HandlerReadTime \/ HandlerUnset \/ HandlerReturn
  PROVE  TimerInv'
<1> USE TimerAssumption DEF TimerInv, timerVars, trapVars, handlerVars
<1>1. CASE HandlerReadTime
  <2> USE <1>1 DEF HandlerReadTime
  <2>1. TypeOK'
    BY DEF TypeOK
  <2>2. ClockAndTimer' /\ SleepRecord'
    BY DEF TypeOK, Time, ClockAndTimer, SleepRecord, Sleeping
  <2>3. WaitersArmed'
    BY DEF WaitersArmed
  <2>4. OnlyOwnTimer'
    BY DEF OnlyOwnTimer
  <2> QED BY <2>1, <2>2, <2>3, <2>4
<1>2. CASE HandlerUnset
  <2> USE <1>2 DEF HandlerUnset, unset_stimecmp
  <2>1. shadow_stime' = Unset /\ stimecmp' = Unset
    BY SetTimer DEF TypeOK
  <2>2. TypeOK'
    BY <2>1 DEF TypeOK
  <2>3. ClockAndTimer' /\ SleepRecord'
    BY <2>1 DEF ClockAndTimer, SleepRecord
  <2>4. WaitersArmed'
    BY <2>1 DEF WaitersArmed
  <2>5. OnlyOwnTimer'
    BY <2>1 DEF OnlyOwnTimer
  <2> QED BY <2>2, <2>3, <2>4, <2>5
<1>3. CASE HandlerReturn
  <2> USE <1>3 DEF HandlerReturn
  <2>1. TypeOK'
    BY DEF TypeOK
  <2>2. ClockAndTimer' /\ SleepRecord'
    BY DEF ClockAndTimer, SleepRecord
  <2>3. WaitersArmed'
    BY DEF WaitersArmed
  <2>4. OnlyOwnTimer'
    BY DEF OnlyOwnTimer
  <2> QED BY <2>1, <2>2, <2>3, <2>4
<1> QED BY <1>1, <1>2, <1>3

\* Work that is due is done and forgotten; work that is not sets the timer
\* again.
LEMMA HandlerDeferredTimerInv ==
  ASSUME TimerInv, HandlerDeferred
  PROVE  TimerInv'
<1> USE DEF TimerInv
<1>1. /\ hpc = "deferred" /\ hpc' = "asleep"
      /\ UNCHANGED <<defers, now, pc, deadline, trapVars, asleep, stime>>
  BY DEF HandlerDeferred
<1>2. /\ shadow_stime' = stimecmp' /\ stimecmp' \in Time \cup {Unset}
      /\ deferred' \in {0, deferred}
      /\ deferred' # 0 => stimecmp' <= deferred'
      /\ deferred = 0 => stimecmp' = stimecmp
  <2>1. CASE deferred = 0
    BY <2>1 DEF HandlerDeferred, timerVars, TypeOK, ClockAndTimer,
                do_timer_deferreds
  <2>2. CASE deferred # 0 /\ stime > deferred
    <3>1. deferred \in Nat /\ stime \in Nat
      BY TimerAssumption DEF TypeOK, Time
    <3>2. do_timer_deferreds /\ deferred < stime
      BY <2>2, <3>1 DEF HandlerDeferred
    <3>3. deferred' = 0
      BY <3>2 DEF do_timer_deferreds
    <3>4. CASE UNCHANGED timerVars
      BY <2>2, <3>3, <3>4 DEF timerVars, TypeOK, ClockAndTimer
    <3>5. ASSUME NEW w \in Whence, Fits(w), set_stimecmp(now + w)
          PROVE  shadow_stime' = stimecmp' /\ stimecmp' \in Time \cup {Unset}
      <4>1. w \in Nat
        BY TimerAssumption
      <4>2. now + w \in Time
        BY <3>5, <4>1, FitsTime
      <4> QED BY <3>5, <4>2, SetTimer
    <3> QED BY <2>2, <3>2, <3>3, <3>4, <3>5 DEF do_timer_deferreds
  <2>3. CASE deferred # 0 /\ ~(stime > deferred)
    <3>1. set_stimecmp(deferred) /\ deferred' = deferred
      BY <2>3 DEF HandlerDeferred
    <3>2. deferred \in Time /\ deferred # Unset
      BY TimerAssumption DEF TypeOK, Time, Unset
    <3> QED BY <2>3, <3>1, <3>2, SetTimer
  <2> QED BY <2>1, <2>2, <2>3
<1>3. 0 \in Time
  BY TimerAssumption DEF Time
<1>4. TypeOK'
  BY <1>1, <1>2, <1>3 DEF TypeOK, trapVars
<1>5. ClockAndTimer' /\ SleepRecord'
  BY <1>1, <1>2 DEF ClockAndTimer, SleepRecord, Sleeping
<1>6. WaitersArmed' /\ OnlyOwnTimer'
  BY <1>1, <1>2 DEF WaitersArmed, OnlyOwnTimer, trapVars
<1> QED BY <1>4, <1>5, <1>6

\* A sleeper whose time is over is told so; for any other the timer is set
\* again, unless an earlier one is.
LEMMA HandlerAsleepTimerInv ==
  ASSUME TimerInv, HandlerAsleep
  PROVE  TimerInv'
<1> USE DEF TimerInv
<1>1. /\ hpc = "asleep" /\ hpc' = "sret"
      /\ UNCHANGED <<defers, now, pc, deadline, trapVars, deferred, stime>>
  BY DEF HandlerAsleep
<1>2. asleep.wakeup_time \in Time /\ asleep.should_wake \in BOOLEAN
  BY DEF TypeOK
<1>3. CASE asleep.wakeup_time = 0
  <2>1. UNCHANGED <<shadow_stime, stimecmp, asleep>>
    BY <1>3 DEF HandlerAsleep, timerVars
  <2>2. TypeOK'
    BY <1>1, <2>1 DEF TypeOK, trapVars
  <2>3. ClockAndTimer' /\ SleepRecord'
    BY <1>1, <2>1 DEF ClockAndTimer, SleepRecord, Sleeping
  <2>4. WaitersArmed' /\ OnlyOwnTimer'
    BY <1>1, <1>3, <2>1 DEF WaitersArmed, OnlyOwnTimer, trapVars, SleepRecord,
                            Sleeping
  <2> QED BY <2>2, <2>3, <2>4
<1>4. CASE asleep.wakeup_time # 0 /\ stime > asleep.wakeup_time
  <2>1. /\ UNCHANGED <<shadow_stime, stimecmp>>
        /\ asleep' = [asleep EXCEPT !.should_wake = TRUE]
    BY <1>4 DEF HandlerAsleep, timerVars
  <2>2. /\ asleep' \in [wakeup_time : Time, should_wake : BOOLEAN]
        /\ asleep'.should_wake /\ asleep'.wakeup_time = asleep.wakeup_time
    BY <1>2, <2>1 DEF TypeOK
  <2>3. TypeOK'
    BY <1>1, <2>1, <2>2 DEF TypeOK, trapVars
  <2>4. now > asleep.wakeup_time
    BY <1>2, <1>4, TimerAssumption DEF TypeOK, ClockAndTimer, Time
  <2>5. ClockAndTimer' /\ SleepRecord'
    BY <1>1, <1>4, <2>1, <2>2, <2>4 DEF ClockAndTimer, SleepRecord, Sleeping
  <2>6. WaitersArmed' /\ OnlyOwnTimer'
    BY <1>1, <2>1, <2>2 DEF WaitersArmed, OnlyOwnTimer, trapVars
  <2> QED BY <2>3, <2>5, <2>6
<1>5. CASE asleep.wakeup_time # 0 /\ ~(stime > asleep.wakeup_time)
  <2>1. set_stimecmp(asleep.wakeup_time) /\ asleep' = asleep
    BY <1>5 DEF HandlerAsleep
  <2>2. asleep.wakeup_time # Unset
    BY <1>2, TimerAssumption DEF Time, Unset
  <2>3. /\ shadow_stime' = stimecmp' /\ stimecmp' \in Time \cup {Unset}
        /\ stimecmp' <= asleep.wakeup_time /\ stimecmp' <= stimecmp
    BY <1>2, <2>1, <2>2, SetTimer
  <2>4. TypeOK'
    BY <1>1, <2>1, <2>3 DEF TypeOK, trapVars
  <2>5. ClockAndTimer' /\ SleepRecord'
    BY <1>1, <2>1, <2>3 DEF ClockAndTimer, SleepRecord, Sleeping
  <2>6. WaitersArmed'
    BY <1>1, <2>1, <2>3, TimerAssumption DEF WaitersArmed, TypeOK, Time, Unset
  <2>7. OnlyOwnTimer'
    BY <1>1, <1>5 DEF OnlyOwnTimer, trapVars, SleepRecord, Sleeping
  <2> QED BY <2>4, <2>5, <2>6, <2>7
<1> QED BY <1>3, <1>4, <1>5

\* A system call computes its deadline.
LEMMA CallTimerInv ==
  ASSUME TimerInv,
         \/ \E t \in Timeout : CallDemand(t)
         \/ \E d \in Duration : CallNanosleep(d)
         \/ \E w \in Whence : CallSetDeferred(w)
  PROVE  TimerInv'
<1> USE DEF TimerInv, timerVars, handlerVars, MainStep, TrapEntry
<1>1. ASSUME NEW t \in Timeout, CallDemand(t)
      PROVE  TimerInv'
  <2>1. now + t \in Time
    BY <1>1, FitsTime, TimerAssumption DEF CallDemand
  <2> USE <1>1, <2>1 DEF CallDemand
  <2>2. TypeOK' /\ ClockAndTimer'
    BY DEF TypeOK, ClockAndTimer
  <2>3. SleepRecord' /\ WaitersArmed' /\ OnlyOwnTimer'
    BY DEF SleepRecord, Sleeping, WaitersArmed, OnlyOwnTimer
  <2> QED BY <2>2, <2>3
<1>2. ASSUME NEW d \in Duration, CallNanosleep(d)
      PROVE  TimerInv'
  <2>1. SleepTicks(d) \in Nat
    BY SleepTicksNat
  <2>2. now + SleepTicks(d) \in Time
    BY <1>2, <2>1, FitsTime DEF CallNanosleep
  <2>3. now + SleepTicks(d) # 0
    BY <2>1, TimerAssumption DEF TypeOK, ClockAndTimer, Time
  <2>4. /\ asleep' \in [wakeup_time : Time, should_wake : BOOLEAN]
        /\ asleep'.wakeup_time = deadline' /\ ~asleep'.should_wake
        /\ pc = "user" /\ pc' = "sleep_arm"
    BY <1>2, <2>2 DEF CallNanosleep, TypeOK, SleepRecord, Sleeping
  <2>5. TypeOK' /\ ClockAndTimer'
    BY <1>2, <2>2, <2>4 DEF CallNanosleep, TypeOK, ClockAndTimer
  <2>6. SleepRecord'
    BY <1>2, <2>3, <2>4 DEF CallNanosleep, SleepRecord, Sleeping
  <2>7. WaitersArmed' /\ OnlyOwnTimer'
    BY <1>2, <2>4 DEF CallNanosleep, WaitersArmed, OnlyOwnTimer
  <2> QED BY <2>5, <2>6, <2>7
<1>3. ASSUME NEW w \in Whence, CallSetDeferred(w)
      PROVE  TimerInv'
  <2>1. now + w \in Time
    BY <1>3, FitsTime, TimerAssumption DEF CallSetDeferred
  <2> USE <1>3, <2>1 DEF CallSetDeferred
  <2>2. TypeOK' /\ ClockAndTimer'
    BY DEF TypeOK, ClockAndTimer
  <2>3. SleepRecord' /\ WaitersArmed' /\ OnlyOwnTimer'
    BY DEF SleepRecord, Sleeping, WaitersArmed, OnlyOwnTimer
  <2> QED BY <2>2, <2>3
<1> QED BY <1>1, <1>2, <1>3

\* A step that changes no variable keeps the invariant.
LEMMA StutterTimerInv ==
  ASSUME TimerInv, UNCHANGED vars
  PROVE  TimerInv'
<1> USE DEF TimerInv, vars
<1>1. TypeOK' /\ ClockAndTimer' /\ SleepRecord'
  BY DEF TypeOK, ClockAndTimer, SleepRecord
<1>2. WaitersArmed' /\ OnlyOwnTimer'
  BY DEF WaitersArmed, OnlyOwnTimer
<1> QED BY <1>1, <1>2

\* TimerInv is an invariant of the kernel with its clock and its interrupt.
THEOREM TimerInductive == Spec => []TimerInv
<1>1. TimerInv /\ [Next]_vars => TimerInv'
  <2> SUFFICES ASSUME TimerInv, [Next]_vars PROVE TimerInv'
    OBVIOUS
  <2>1. CASE Tick \/ Interrupt
    BY <2>1, HardwareTimerInv
  <2>2. CASE \/ \E t \in Timeout : CallDemand(t)
             \/ \E d \in Duration : CallNanosleep(d)
             \/ \E w \in Whence : CallSetDeferred(w)
    BY <2>2, CallTimerInv
  <2>3. CASE Kernel
    BY <2>3, DemandTimerInv, SleepTimerInv, DeferTimerInv DEF Kernel
  <2>4. CASE Handler
    BY <2>4, HandlerTimerInv, HandlerDeferredTimerInv, HandlerAsleepTimerInv
    DEF Handler
  <2>5. CASE UNCHANGED vars
    BY <2>5, StutterTimerInv
  <2> QED BY <2>1, <2>2, <2>3, <2>4, <2>5 DEF Next
<1> QED BY <1>1, InitTimerInv, PTL DEF Spec

(***************************************************************************)
(* Type correctness of clock, timer and handler, however demands, a sleep  *)
(* and deferred work share the one compare register.                       *)
(***************************************************************************)
THEOREM TimerTypeCorrect == Spec => []TypeOK
<1>1. TimerInv => TypeOK
  BY DEF TimerInv
<1> QED BY <1>1, TimerInductive, PTL

-----------------------------------------------------------------------------
(* What follows from it.                                                   *)

\* Without deferred work, a system call returns to the instruction after it:
\* no timer is set on the exit path that yield left open to interrupts.
THEOREM CallerReached == Spec => []ReturnsToCaller
<1>1. TimerInv => ReturnsToCaller
  BY DEF TimerInv, OnlyOwnTimer, ReturnsToCaller
<1> QED BY <1>1, TimerInductive, PTL

\* nanosleep_s never goes on before the time it computed.
THEOREM WakesInTime == Spec => []NoEarlyWake
<1>1. TimerInv => NoEarlyWake
  BY DEF TimerInv, SleepRecord, NoEarlyWake
<1> QED BY <1>1, TimerInductive, PTL

\* A sleeper not yet told to wake has the timer set for its time or earlier.
THEOREM SleeperHasTimer == Spec => []SleeperArmed
<1>1. TimerInv => SleeperArmed
  BY DEF TimerInv, WaitersArmed, SleeperArmed
<1> QED BY <1>1, TimerInductive, PTL

\* Deferred work has the timer set for its time or earlier.
THEOREM DeferredHasTimer == Spec => []DeferredArmed
<1>1. TimerInv => DeferredArmed
  BY DEF TimerInv, WaitersArmed, DeferredArmed
<1> QED BY <1>1, TimerInductive, PTL
=============================================================================
