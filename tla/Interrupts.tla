----------------------------- MODULE Interrupts -----------------------------
(***************************************************************************)
(* Interrupts on the boot hart: the end of devices_init and of             *)
(* kernel_c_entry, which switch them on, the trap handler (asm/trap.s,     *)
(* trap.c), the PLIC and UART drivers it calls, and, as environment, the   *)
(* PLIC, the UART and the timer themselves.  The steps are the accesses    *)
(* to devices, so that the hardware moves between any two of them.         *)
(***************************************************************************)
EXTENDS Integers, Sequences, SequencesExt

CONSTANTS
  Chars,           \* what can be typed; a subset of {"BS", "LF", "CR", "other"}
  MaxChars,        \* bound on the characters typed in a behaviour
  FifoSize,        \* capacity of the receive FIFO of the UART
  Period,          \* ticks between timer interrupts: 10_000_000 in the kernel
  Message          \* what kernel_c_entry prints after it enabled interrupts

ASSUME InterruptsAssumption ==
  /\ Chars \subseteq {"BS", "LF", "CR", "other"}
  /\ MaxChars \in Nat /\ FifoSize \in Nat \ {0} /\ Period \in Nat \ {0}
  /\ Message \in Seq(STRING)

VARIABLES
  pc,              \* where the interrupted program is
  reg,             \* its registers: the index in Message it will print next
  frame,           \* kernel_trap_frame.registers
  handler,         \* where the trap handler is, "none" outside a trap
  cause,           \* scause
  SIE,             \* sstatus.SIE: interrupts are taken
  sie,             \* the interrupts enabled in the register sie
  vector,          \* sscratch and stvec hold the trap frame and the handler
  driver_map,      \* driver_map[10] of the PLIC driver, "NULL" or "uart"
  type,            \* type of the UART's struct driver; slab memory is zeroed
  todo,            \* the characters uart_driver_handle_interrupt has yet to write
  plic,            \* the PLIC: enable and priority of source 10, its gateway
  seip,            \* the external interrupt line of the hart
  timer,           \* ticks until stimecmp is reached, -1 before it is written
  ssip,            \* a software interrupt is pending
  ier, rx,         \* the UART: interrupts enabled, receive FIFO
  out,             \* history: what kprintln and the UART driver wrote to the UART;
                   \* of the driver, one sequence for each character it read
  accepted,        \* history: the characters the FIFO took
  consumed         \* history: the characters uart_driver_getchar read

program  == <<pc, reg>>
driver   == <<driver_map, type, vector>>
trap     == <<frame, handler, cause, todo, consumed>>
hardware == <<plic, seip, timer, ssip, ier, rx, accepted>>
vars     == <<program, driver, trap, hardware, SIE, sie, out>>

Init ==
  /\ pc = "uart_driver_init" /\ reg = 1 /\ frame = 0
  /\ handler = "none" /\ cause = "none" /\ todo = << >>
  /\ SIE = FALSE /\ sie = {} /\ vector = FALSE
  /\ driver_map = "NULL" /\ type = "DEVICE_TYPE_VIRTIO_MMIO"
  /\ plic = [enabled |-> FALSE, priority |-> 0, pending |-> FALSE, claimed |-> FALSE]
  /\ seip = FALSE /\ timer = -1 /\ ssip = FALSE
  /\ ier = FALSE /\ rx = << >>
  /\ out = [kprintln |-> << >>, uart_driver |-> << >>] /\ accepted = << >> /\ consumed = << >>

Threshold == 0     \* plic_driver_init

-----------------------------------------------------------------------------
(***************************************************************************)
(* The interrupted program.  It runs when no trap is being handled.        *)
(***************************************************************************)
At(here, next) == handler = "none" /\ pc = here /\ pc' = next

uart_driver_init ==
  /\ At("uart_driver_init", "map")
  /\ ier' = TRUE
  /\ UNCHANGED <<reg, driver, trap, plic, seip, timer, ssip, rx, accepted, SIE, sie, out>>

\* plic_driver_enable_int(plic, 10, 1, &uart_node->driver): three stores.
enable_int_map ==
  /\ At("map", "enable")
  /\ driver_map' = "uart"
  /\ UNCHANGED <<reg, type, vector, trap, hardware, SIE, sie, out>>

enable_int_enable ==
  /\ At("enable", "priority")
  /\ plic' = [plic EXCEPT !.enabled = TRUE]
  /\ UNCHANGED <<reg, driver, trap, seip, timer, ssip, ier, rx, accepted, SIE, sie, out>>

enable_int_priority ==
  /\ At("priority", "type")
  /\ plic' = [plic EXCEPT !.priority = 1]
  /\ UNCHANGED <<reg, driver, trap, seip, timer, ssip, ier, rx, accepted, SIE, sie, out>>

set_type ==
  /\ At("type", "vector")
  /\ type' = "DEVICE_TYPE_UART"
  /\ UNCHANGED <<reg, driver_map, vector, trap, hardware, SIE, sie, out>>

\* The trap frame with its stack goes to sscratch, the handler to stvec.
write_stvec ==
  /\ At("vector", "stimecmp")
  /\ vector' = TRUE
  /\ UNCHANGED <<reg, driver_map, type, trap, hardware, SIE, sie, out>>

write_stimecmp ==
  /\ At("stimecmp", "sie")
  /\ timer' = Period
  /\ UNCHANGED <<reg, driver, trap, plic, seip, ssip, ier, rx, accepted, SIE, sie, out>>

write_sie ==
  /\ At("sie", "sstatus")
  /\ sie' = {"software", "timer", "external"}
  /\ UNCHANGED <<reg, driver, trap, hardware, SIE, out>>

write_sstatus ==
  /\ At("sstatus", "print")
  /\ SIE' = TRUE
  /\ UNCHANGED <<reg, driver, trap, hardware, sie, out>>

print ==
  /\ reg <= Len(Message)
  /\ At("print", "print")
  /\ out' = [out EXCEPT !.kprintln = Append(@, Message[reg])]
  /\ reg' = reg + 1
  /\ UNCHANGED <<driver, trap, hardware, SIE, sie>>

wait ==
  /\ reg > Len(Message)
  /\ At("print", "wait")
  /\ UNCHANGED <<reg, driver, trap, hardware, SIE, sie, out>>

Program ==
  \/ uart_driver_init \/ enable_int_map \/ enable_int_enable \/ enable_int_priority
  \/ set_type \/ write_stvec \/ write_stimecmp \/ write_sie \/ write_sstatus \/ print \/ wait

-----------------------------------------------------------------------------
(***************************************************************************)
(* The trap handler.  The hart clears SIE when it takes a trap; the entry  *)
(* code saves the registers in the one trap frame, the exit code restores  *)
(* them and sret sets SIE again.  C code leaves other values in registers. *)
(* A trap before stvec and sscratch are written goes anywhere ("wild").    *)
(***************************************************************************)
Pending(c) ==
  \/ c = "external" /\ seip
  \/ c = "software" /\ ssip
  \/ c = "timer" /\ timer = 0

\* The order in which the privileged architecture ranks the interrupts.
Outranks(c, d) == \/ c = "external" /\ d # "external"
                  \/ c = "software" /\ d = "timer"

Clobbered == 1

kernel_asm_trap_handler(c) ==
  /\ SIE /\ handler = "none" /\ c \in sie /\ Pending(c)
  /\ \A d \in sie : Pending(d) => ~Outranks(d, c)
  /\ SIE' = FALSE
  /\ cause' = c
  /\ frame' = reg /\ reg' = Clobbered
  /\ handler' = IF vector THEN "dispatch" ELSE "wild"
  /\ UNCHANGED <<pc, driver, todo, consumed, hardware, sie, out>>

Interrupt == \E c \in {"external", "software", "timer"} : kernel_asm_trap_handler(c)

\* Mutants of rearm: stimecmp is left as it is; it is a period too late.
rearm_nothing == timer' = timer

rearm_late == timer' = 2 * Period

rearm == timer' = Period

\* kernel_c_interrupt_handler; a software interrupt is a PANIC.  The messages
\* about what the PLIC driver returned are left out.
kernel_c_interrupt_handler ==
  /\ handler = "dispatch"
  /\ handler' = CASE cause = "software" -> "panic"
                  [] cause = "timer"    -> "return"
                  [] cause = "external" -> "claim"
  /\ IF cause = "timer" THEN rearm ELSE UNCHANGED timer
  /\ UNCHANGED <<program, driver, frame, cause, todo, consumed, plic, seip, ssip, ier, rx,
                 accepted, SIE, sie, out>>

\* An instruction faults once stvec is written, with interrupts enabled or not,
\* in the program or in the handler: every case of kernel_c_exception_handler is a PANIC.
kernel_c_exception_handler ==
  /\ vector
  /\ handler \notin {"panic", "wild"}
  /\ handler' = "panic"
  /\ SIE' = FALSE
  /\ UNCHANGED <<program, driver, frame, cause, todo, consumed, hardware, sie, out>>

(***************************************************************************)
(* plic_driver_handle_interrupt: claim, call the driver, complete.  A      *)
(* claim of 0 is no interrupt.  A driver of another type is left without   *)
(* completing the interrupt.                                               *)
(***************************************************************************)
claim ==
  /\ handler = "claim"
  /\ \/ /\ ~(plic.pending /\ plic.enabled)
        /\ handler' = "return"
        /\ UNCHANGED plic
     \/ /\ plic.pending /\ plic.enabled
        /\ plic' = [plic EXCEPT !.pending = FALSE, !.claimed = TRUE]
        /\ handler' = "driver"
  /\ UNCHANGED <<program, driver, frame, cause, todo, consumed, seip, timer, ssip, ier, rx,
                 accepted, SIE, sie, out>>

\* Mutant of DriverStep: the cases of the switch are exchanged.
DriverStepOther ==
  IF driver_map = "NULL" THEN "complete"
  ELSE IF type = "DEVICE_TYPE_UART" THEN "return"
  ELSE "getchar"

DriverStep ==
  IF driver_map = "NULL" THEN "complete"
  ELSE IF type = "DEVICE_TYPE_UART" THEN "getchar"
  ELSE "return"

call_driver ==
  /\ handler = "driver"
  /\ handler' = DriverStep
  /\ UNCHANGED <<program, driver, frame, cause, todo, consumed, hardware, SIE, sie, out>>

\* What uart_driver_handle_interrupt answers to a character.
Echo(c) == CASE c = "BS"          -> <<"BS", "space", "BS">>
             [] c \in {"LF", "CR"} -> <<"LF">>
             [] OTHER             -> <<c>>

\* uart_driver_getchar: one character, if the line status register has one.
uart_driver_getchar ==
  /\ handler = "getchar"
  /\ \/ /\ rx = << >>
        /\ handler' = "complete"
        /\ UNCHANGED <<rx, todo, consumed, out>>
     \/ /\ rx # << >>
        /\ rx' = Tail(rx)
        /\ consumed' = Append(consumed, Head(rx))
        /\ todo' = Echo(Head(rx))
        /\ out' = [out EXCEPT !.uart_driver = Append(@, << >>)]
        /\ handler' = "putchar"
  /\ UNCHANGED <<program, driver, frame, cause, plic, seip, timer, ssip, ier, accepted,
                 SIE, sie>>

\* A character written belongs to the answer to the last character read.
WriteEcho(c) ==
  out' = [out EXCEPT !.uart_driver[Len(consumed)] = Append(@, c)]

\* Mutant of uart_driver_putchar: one character is written whatever the echo.
uart_driver_putchar_once ==
  /\ handler = "putchar"
  /\ WriteEcho(Head(todo))
  /\ todo' = Tail(todo)
  /\ handler' = "complete"
  /\ UNCHANGED <<program, driver, frame, cause, consumed, hardware, SIE, sie>>

uart_driver_putchar ==
  /\ handler = "putchar"
  /\ WriteEcho(Head(todo))
  /\ todo' = Tail(todo)
  /\ handler' = IF Len(todo) = 1 THEN "complete" ELSE "putchar"
  /\ UNCHANGED <<program, driver, frame, cause, consumed, hardware, SIE, sie>>

\* Mutant of complete: the claim register is not written.
complete_nothing ==
  /\ handler = "complete"
  /\ handler' = "return"
  /\ UNCHANGED <<program, driver, frame, cause, todo, consumed, hardware, SIE, sie, out>>

complete ==
  /\ handler = "complete"
  /\ plic' = [plic EXCEPT !.claimed = FALSE]
  /\ handler' = "return"
  /\ UNCHANGED <<program, driver, frame, cause, todo, consumed, seip, timer, ssip, ier, rx,
                 accepted, SIE, sie, out>>

\* Mutant of restore: the registers keep what the handler left in them.
restore_nothing == UNCHANGED reg

restore == reg' = frame

trap_return ==
  /\ handler = "return"
  /\ restore
  /\ SIE' = TRUE
  /\ handler' = "none"
  /\ UNCHANGED <<pc, driver, frame, cause, todo, consumed, hardware, sie, out>>

\* The for (;;) of PANIC.
Spin == handler = "panic" /\ UNCHANGED vars

Handler ==
  \/ kernel_c_interrupt_handler \/ claim \/ call_driver \/ uart_driver_getchar
  \/ uart_driver_putchar \/ complete \/ trap_return

-----------------------------------------------------------------------------
(***************************************************************************)
(* The hardware.  The UART's line is high while interrupts are enabled in  *)
(* it and the FIFO holds a character.  The gateway forwards a high line    *)
(* once and then waits for the completion.  The hart's external line       *)
(* follows the PLIC with a delay, so an interrupt may find nothing to      *)
(* claim.                                                                  *)
(***************************************************************************)
Receive(c) ==
  /\ Len(accepted) < MaxChars
  /\ Len(rx) < FifoSize
  /\ rx' = Append(rx, c)
  /\ accepted' = Append(accepted, c)
  /\ UNCHANGED <<program, driver, trap, plic, seip, timer, ssip, ier, SIE, sie, out>>

Gateway ==
  /\ ier /\ rx # << >> /\ ~plic.pending /\ ~plic.claimed
  /\ plic' = [plic EXCEPT !.pending = TRUE]
  /\ UNCHANGED <<program, driver, trap, seip, timer, ssip, ier, rx, accepted, SIE, sie, out>>

Notify ==
  /\ seip' = (plic.pending /\ plic.enabled /\ plic.priority > Threshold)
  /\ seip' # seip
  /\ UNCHANGED <<program, driver, trap, plic, timer, ssip, ier, rx, accepted, SIE, sie, out>>

Tick ==
  /\ timer > 0
  /\ timer' = timer - 1
  /\ UNCHANGED <<program, driver, trap, plic, seip, ssip, ier, rx, accepted, SIE, sie, out>>

SoftwareInterrupt ==
  /\ ~ssip
  /\ ssip' = TRUE
  /\ UNCHANGED <<program, driver, trap, plic, seip, timer, ier, rx, accepted, SIE, sie, out>>

Next ==
  \/ Program
  \/ Interrupt
  \/ kernel_c_exception_handler
  \/ Handler \/ Spin
  \/ \E c \in Chars : Receive(c)
  \/ Gateway \/ Notify \/ Tick \/ SoftwareInterrupt

(***************************************************************************)
(* The hart executes its next instruction, of the handler or, while it is  *)
(* never interrupted, of the program, and takes the interrupts that are    *)
(* pending; the PLIC and the timer do their part.  Nothing obliges anybody *)
(* to type, to raise a software interrupt or to fault.                     *)
(***************************************************************************)
Fairness ==
  /\ WF_vars(Handler)
  /\ WF_vars(Interrupt)
  /\ WF_vars(Program)
  /\ WF_vars(Gateway) /\ WF_vars(Notify) /\ WF_vars(Tick)

Spec == Init /\ [][Next]_vars /\ Fairness

-----------------------------------------------------------------------------
Panicked == handler = "panic"

TypeOK ==
  /\ pc \in {"uart_driver_init", "map", "enable", "priority", "type", "vector", "stimecmp",
             "sie", "sstatus", "print", "wait"}
  /\ {SIE, vector, seip, ssip, ier} \subseteq BOOLEAN
  /\ sie \subseteq {"software", "timer", "external"}
  /\ driver_map \in {"NULL", "uart"} /\ type \in {"DEVICE_TYPE_VIRTIO_MMIO", "DEVICE_TYPE_UART"}
  /\ todo \in Seq(Chars \union {"BS", "space", "LF"}) /\ Len(todo) <= 3
  /\ consumed \in Seq(Chars) /\ accepted \in Seq(Chars) /\ Len(accepted) <= MaxChars
  /\ reg \in 0..(Len(Message) + 1) /\ frame \in 0..(Len(Message) + 1)
  /\ handler \in {"none", "dispatch", "claim", "driver", "getchar", "putchar",
                  "complete", "return", "panic", "wild"}
  /\ cause \in {"none", "external", "software", "timer"}
  /\ timer \in -1..Period
  /\ plic \in [enabled : BOOLEAN, priority : 0..7, pending : BOOLEAN, claimed : BOOLEAN]
  /\ rx \in Seq(Chars) /\ Len(rx) <= FifoSize
  /\ out \in [kprintln : Seq(STRING),
              uart_driver : Seq(Seq(Chars \union {"BS", "space", "LF"}))]

(***************************************************************************)
(* Whatever interrupts kernel_c_entry while it prints, its own characters  *)
(* come out in order, none twice and none lost: the trap frame gives back  *)
(* the registers it took.                                                  *)
(***************************************************************************)
MessageIntact ==
  /\ IsPrefix(out.kprintln, Message)
  /\ pc = "wait" => out.kprintln = Message

(***************************************************************************)
(* The handler reads every character the UART took once, in order, and     *)
(* answers each with its echo and nothing else, the last one as far as it  *)
(* has come.                                                               *)
(***************************************************************************)
EchoExact ==
  /\ accepted = consumed \o rx
  /\ Len(out.uart_driver) = Len(consumed)
  /\ \A k \in 1..Len(consumed) :
       Echo(consumed[k]) = IF k = Len(consumed) THEN out.uart_driver[k] \o todo
                           ELSE out.uart_driver[k]

(***************************************************************************)
(* No interrupt stays claimed: between traps the gateway of the UART is    *)
(* open, though plic_driver_handle_interrupt has a path that returns       *)
(* without writing the claim register.  And a driver runs, and the claim   *)
(* register is written, only for an interrupt that was claimed: not when   *)
(* the external line was high and the claim was 0.                         *)
(***************************************************************************)
ClaimsCompleted ==
  /\ plic.claimed => handler \in {"driver", "getchar", "putchar", "complete", "panic"}
  /\ handler \in {"driver", "getchar", "putchar", "complete"} => plic.claimed

(***************************************************************************)
(* Every character the UART took is echoed in the end: one is read per     *)
(* interrupt, and the level-triggered line raises the next interrupt for   *)
(* the characters left.  (A panic ends everything.)                        *)
(***************************************************************************)
EveryCharEchoed ==
  \A n \in 1..MaxChars :
    (Len(accepted) >= n) ~> (Panicked \/ (Len(consumed) >= n /\ todo = << >>))

(***************************************************************************)
(* The timer goes on interrupting: stimecmp is written again after every   *)
(* timer interrupt.                                                        *)
(***************************************************************************)
TimerKeepsFiring == []<>(Panicked \/ (cause = "timer" /\ timer = Period))
=============================================================================
