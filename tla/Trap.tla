-------------------------------- MODULE Trap --------------------------------
(***************************************************************************)
(* Traps: entry, table and exit of _trap_dispatch (src/strap.S), the       *)
(* system call table, the dispatcher and the system calls that are not     *)
(* modelled elsewhere (src/strap_handler.c).                               *)
(*                                                                         *)
(* A place in the code is <<where, n>>.  The registers are a few of each   *)
(* kind: arguments, temporaries, one that C functions preserve (s), the    *)
(* stack pointer, which counts trap frames, and a floating-point temporary *)
(* (ft).  Interrupts reach the kernel only while it yields: that none      *)
(* comes later, on the exit path, is ReturnsToCaller of Timer.             *)
(***************************************************************************)
EXTENDS Memory

CONSTANTS
  Number,     \* system call numbers that user code uses
  Value,      \* what user code puts into registers
  Faults,     \* exceptions of user code other than system calls
  BrkStart,   \* _brk_start
  MaxUser,    \* bound: number of instructions of user code
  MaxFrames   \* bound: trap frames on the stack

ASSUME TrapAssumption ==
  /\ Number \subseteq Nat /\ Value \subseteq Nat /\ Faults \subseteq 0 .. 7
  /\ BrkStart \in Nat \ {0} /\ MaxUser \in Nat /\ MaxFrames \in Nat \ {0}

VARIABLES
  pc,        \* <<"boot", stage>>, <<"user", n>>, <<"handler", code>>, ...
  mode,      \* "U" or "S"
  regs,      \* the registers
  frames,    \* the trap frames on the stack
  sepc, spp, \* sepc and sstatus.SPP
  syscall_handlers,
  process,   \* brk and clear_child_tid of _current
  caller     \* history: what user code had when it was last interrupted

trapVars == <<pc, mode, regs, frames, sepc, spp>>
procVars == <<syscall_handlers, process>>

Reg == {"a0", "a1", "a2", "a7", "ra", "sp", "s", "t", "ft"}
\* What C functions do not preserve, floating point apart.
Scratch == {"a0", "a1", "a2", "a7", "ra", "t"}
\* What kernel code leaves in them, and what no one has written.
Clobbered == -1

TrapInit ==
  /\ pc = <<"boot", "brk">> /\ mode = "S"
  /\ regs = [r \in Reg |-> 0] /\ frames = <<>>
  /\ sepc = pc /\ spp = "U"
  /\ syscall_handlers = [n \in Number |-> "null"]
  /\ process = [brk |-> 0, clear_child_tid |-> 0]
  /\ caller = [pc |-> pc, regs |-> regs, code |-> 0]

Off == pc' = <<"off", 0>>

-----------------------------------------------------------------------------
(* Entry and exit.                                                         *)

\* The code's place among the causes; an interrupt and an exception with the
\* same code are not told apart.
TimerCode == 5
CallCode == 8

\* Fault: no handler for code 1.
NoFaultHandler(code) ==
  CASE code = TimerCode -> "timer_interrupt_handler"
    [] code = CallCode  -> "system_call_dispatcher"
    [] OTHER            -> "null"

\* _trap_handlers.  With paging off and only the timer's interrupt enabled no
\* code is beyond the table.
TrapHandler(code) ==
  CASE code = 1         -> "software_interrupt_handler"
    [] code = TimerCode -> "timer_interrupt_handler"
    [] code = CallCode  -> "system_call_dispatcher"
    [] OTHER            -> "null"

\* The hardware, and _trap_dispatch up to its jump: all registers but the
\* floating-point ones are pushed on the stack of the code interrupted.
Entry(code, with) ==
  /\ sepc' = pc /\ spp' = mode /\ mode' = "S"
  /\ IF Len(frames) < MaxFrames
       THEN /\ regs' = [with EXCEPT !.sp = @ - 1]
            /\ frames' = Append(frames,
                           [regs |-> regs', code |-> code, sepc |-> pc])
            /\ pc' = <<TrapHandler(code), code>>
       ELSE pc' = <<"overrun", 0>> /\ UNCHANGED <<regs, frames>>

Fault(code) == Entry(code, regs)

Frame == frames[Len(frames)]

\* A C function is done: it keeps s and sp.
Clobber(kept) == [r \in Reg |-> IF r \in Scratch THEN kept[r] ELSE regs[r]]
AfterC == Clobber([r \in Scratch |-> Clobbered])

ReturnPlace(p, code) == IF code = CallCode THEN <<p[1], p[2] + 1>> ELSE p

\* Fault: a0 and a1 are left alone after interrupts too.
ExitWithResult ==
  /\ pc[1] = "exit"
  /\ regs' = [r \in Reg |->
                IF r \in {"ft", "a0", "a1"} THEN regs[r]
                ELSE IF r = "sp" THEN Frame.regs.sp + 1 ELSE Frame.regs[r]]
  /\ frames' = SubSeq(frames, 1, Len(frames) - 1)
  /\ sepc' = ReturnPlace(Frame.sepc, Frame.code) /\ pc' = sepc'
  /\ mode' = spp /\ spp' = "U"

\* The rest of _trap_dispatch: back by the frame's sepc, past the instruction
\* if it was a system call, whose results a0 and a1 are left alone.
Exit ==
  /\ pc[1] = "exit"
  /\ regs' = [r \in Reg |->
                IF r = "ft" \/ (Frame.code = CallCode /\ r \in {"a0", "a1"})
                  THEN regs[r]
                  ELSE IF r = "sp" THEN Frame.regs.sp + 1 ELSE Frame.regs[r]]
  /\ frames' = SubSeq(frames, 1, Len(frames) - 1)
  /\ sepc' = ReturnPlace(Frame.sepc, Frame.code) /\ pc' = sepc'
  /\ mode' = spp /\ spp' = "U"

ExitTrap == Exit /\ UNCHANGED <<memVars, procVars, caller>>

-----------------------------------------------------------------------------
(* The handlers in the table.                                              *)

JumpToNull ==
  /\ pc[1] = "null"
  /\ Fault(1)
  /\ UNCHANGED <<memVars, procVars, caller>>

software_interrupt_handler ==
  /\ pc[1] = "software_interrupt_handler"
  /\ Off
  /\ UNCHANGED <<mode, regs, frames, sepc, spp, memVars, procVars, caller>>

\* What it does is in Timer; here, it returns.
timer_interrupt_handler ==
  /\ pc[1] = "timer_interrupt_handler"
  /\ regs' = AfterC /\ pc' = <<"exit", 0>>
  /\ UNCHANGED <<mode, frames, sepc, spp, memVars, procVars, caller>>

-----------------------------------------------------------------------------
(* System calls.                                                           *)

\* configure_syscall_handlers.
Handler(n) ==
  CASE n \in {222, 99, 261}  -> "empty"
    [] n = 258               -> "hardware_riscv"
    [] n = 226               -> "mprotect_s"
    [] n = 29                -> "ioctl_s"
    [] n = 96                -> "set_child_tid"
    [] n \in {93, 94}        -> "poweroff_s"
    [] n = 214               -> "set_brk_s"
    [] n = 209               -> "demand_s"       \* how long they wait, and
    [] n = 115               -> "nanosleep_s"    \* for what, is in Timer
    [] n = 210               -> "mount_hd_s"
    [] n \in {56, 57, 62, 63, 64, 14, 78, 80, 113, 211, 278}
                             -> "elsewhere"      \* files, entropy, clock
    [] OTHER                 -> "unimplemented"

configure_syscall_handlers ==
  syscall_handlers' = [n \in Number |-> Handler(n)]

\* The arguments system_call_dispatcher passes on.  Its last three parameters
\* are on the stack, where the frame begins: a slot not written, ra and sp.
DispatcherArgs ==
  <<Frame.regs.a0, Frame.regs.a1, Frame.regs.a2, Clobbered, Frame.regs.ra,
    Frame.regs.sp>>

Called(h) ==
  pc[1] = "system_call_dispatcher" /\ syscall_handlers[Frame.regs.a7] = h

\* A handler's result, in a0; a1 is left as it happens to be.
Result(n) ==
  /\ regs' = Clobber([r \in Scratch |-> IF r = "a0" THEN n ELSE Clobbered])
  /\ pc' = <<"exit", 0>>
  /\ UNCHANGED <<mode, frames, sepc, spp, syscall_handlers, caller>>

set_brk_s(new_brk) ==
  process' = IF new_brk # 0 THEN [process EXCEPT !.brk = new_brk] ELSE process

SetBrk ==
  /\ Called("set_brk_s")
  /\ set_brk_s(DispatcherArgs[1])
  /\ Result(process'.brk)
  /\ UNCHANGED memVars

set_child_tid ==
  /\ Called("set_child_tid")
  /\ process' = [process EXCEPT !.clear_child_tid = DispatcherArgs[1]]
  /\ Result(1)
  /\ UNCHANGED memVars

\* empty, hardware_riscv, mprotect_s and ioctl_s.
ReturnsZero ==
  /\ \E h \in {"empty", "hardware_riscv", "mprotect_s", "ioctl_s"} : Called(h)
  /\ Result(0)
  /\ UNCHANGED <<memVars, process>>

CalledElsewhere ==
  /\ Called("elsewhere")
  /\ \E n \in Value : Result(n)
  /\ UNCHANGED <<memVars, process>>

\* mount_hd_s: its block is never used.  io_mount_hd is in FdTable.
mount_hd_s ==
  /\ Called("mount_hd_s")
  /\ \/ malloc(500) /\ \E n \in {0, -1} : Result(n)
     \/ /\ ~CanMalloc(500) /\ Off
        /\ UNCHANGED <<mode, regs, frames, sepc, spp, syscall_handlers, caller,
                       memVars>>
  /\ UNCHANGED process

PowersOff ==
  /\ Called("poweroff_s") \/ Called("unimplemented")
  /\ Off
  /\ UNCHANGED <<mode, regs, frames, sepc, spp, memVars, procVars, caller>>

Waiting == {"demand_s", "nanosleep_s"}

\* yield lets an interrupt in, which finds the kernel's registers; the end of
\* the wait is computed in floating point.
Yields ==
  /\ \E h \in Waiting : Called(h)
  /\ pc' = <<"yield", 0>>
  /\ regs' = [AfterC EXCEPT !.ft = Clobbered]
  /\ UNCHANGED <<mode, frames, sepc, spp, memVars, procVars, caller>>

WAIT_TIMEOUT == -1

\* A sleep ends with epoweroff.
YieldEnds ==
  /\ pc[1] = "yield"
  /\ \/ syscall_handlers[Frame.regs.a7] = "demand_s" /\ Result(WAIT_TIMEOUT)
     \/ /\ syscall_handlers[Frame.regs.a7] = "nanosleep_s" /\ Off
        /\ UNCHANGED <<mode, regs, frames, sepc, spp, syscall_handlers>>
        /\ UNCHANGED caller
  /\ UNCHANGED <<memVars, process>>

-----------------------------------------------------------------------------
(* User code, and the interrupt.                                           *)

UserCall(n, v) ==
  LET r == [x \in Reg |->
              CASE x = "a7" -> n [] x = "sp" -> 0 [] x = "a0" -> v
                [] OTHER -> pc[2]]
  IN  /\ pc[1] = "user" /\ pc[2] < MaxUser
      /\ caller' = [pc |-> pc, regs |-> r, code |-> CallCode]
      /\ Entry(CallCode, r)
      /\ UNCHANGED <<memVars, procVars>>

UserFault(code) ==
  /\ pc[1] = "user"
  /\ caller' = [pc |-> pc, regs |-> regs, code |-> code]
  /\ Fault(code)
  /\ UNCHANGED <<memVars, procVars>>

TimerInterrupt ==
  /\ pc[1] \in {"user", "yield"}
  /\ caller' = IF pc[1] # "user" THEN caller
               ELSE [pc |-> pc, regs |-> regs, code |-> TimerCode]
  /\ Fault(TimerCode)
  /\ UNCHANGED <<memVars, procVars>>

Kernel ==
  \/ ExitTrap \/ JumpToNull \/ software_interrupt_handler
  \/ timer_interrupt_handler \/ SetBrk \/ set_child_tid \/ ReturnsZero
  \/ CalledElsewhere \/ mount_hd_s \/ PowersOff \/ Yields \/ YieldEnds

User ==
  \/ \E n \in Number, v \in Value : UserCall(n, v)
  \/ \E c \in Faults : UserFault(c)

-----------------------------------------------------------------------------
(* Properties.                                                             *)

(***************************************************************************)
(* User code finds its registers, stack and place again after every trap,  *)
(* also if the trap was itself interrupted while it yielded, and runs in   *)
(* user mode.  Only a system call changes registers: a0 to its result, a1  *)
(* to anything, and a wait for a demand the floating-point temporaries,    *)
(* which nothing saves.                                                    *)
(***************************************************************************)
UserContextKept ==
  pc[1] = "user" /\ caller.pc[1] = "user" =>
    /\ mode = "U" /\ frames = <<>>
    /\ pc = ReturnPlace(caller.pc, caller.code)
    /\ \A r \in Reg :
         \/ regs[r] = caller.regs[r]
         \/ caller.code = CallCode /\ r \in {"a0", "a1"}
         \/ /\ caller.code = CallCode /\ r = "ft"
            /\ syscall_handlers[caller.regs.a7] \in Waiting

(***************************************************************************)
(* A fault for which there is no handler turns the machine off, wherever   *)
(* it happens: the jump to the null entry is itself a fault, and that one  *)
(* has a handler.  (A load access fault does not: it has the code of the   *)
(* timer, is taken for its interrupt and happens again.)                   *)
(***************************************************************************)
FaultsStop ==
  (pc[1] \in {"null", "software_interrupt_handler"}) ~> (pc[1] = "off")
=============================================================================
