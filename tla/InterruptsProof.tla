--------------------------- MODULE InterruptsProof ---------------------------
(***************************************************************************)
(* Proofs about Interrupts for every message, period, FIFO and input: the  *)
(* trap handler gives the interrupted program its registers back, answers  *)
(* every character it reads, and leaves no interrupt claimed.              *)
(*                                                                         *)
(* None of this is inductive.  The handler may only skip the completion    *)
(* for a driver whose type is not set, so ClaimsCompleted needs to know    *)
(* that kernel_c_entry enables interrupts after the last store of the      *)
(* initialisation (Control); MessageIntact needs to know where the index   *)
(* of the next character is while a trap is handled (Registers).           *)
(***************************************************************************)
EXTENDS Interrupts, SequenceTheorems, TLAPS

\* Where the program is once interrupts are enabled.
Running == {"print", "wait"}

Control ==
  /\ pc \in {"stimecmp", "sie", "sstatus"} \union Running => vector
  /\ pc \in {"vector", "stimecmp", "sie", "sstatus"} \union Running
       => type = "DEVICE_TYPE_UART"
  /\ SIE => handler = "none" /\ pc \in Running
  /\ handler \notin {"none", "panic"} => pc \in Running
  /\ handler # "wild"
  /\ handler = "dispatch" => cause # "none"
  /\ handler = "none" => reg > 0
  /\ handler \notin {"none", "panic"} => frame > 0

\* The index of the next character is in the program's register, or, while a
\* trap is handled, in the trap frame.
Registers ==
  LET printed == Len(out.kprintln)
  IN  /\ printed <= Len(Message)
      /\ \A k \in 1..printed : out.kprintln[k] = Message[k]
      /\ handler = "none" => reg = printed + 1
      /\ handler \notin {"none", "panic"} => frame = printed + 1
      /\ pc = "wait" => printed = Len(Message)

\* Characters are owed only between the read and the last write of an answer.
Owed ==
  /\ handler = "putchar" => todo # << >>
  /\ handler \notin {"putchar", "panic"} => todo = << >>
  /\ todo # << >> => Len(consumed) > 0

TypeControl == TypeOK /\ Control /\ Owed

\* The types of the PLIC and of the history of the output.
Plic == [enabled : BOOLEAN, priority : 0..7, pending : BOOLEAN, claimed : BOOLEAN]

Echoed == Chars \union {"BS", "space", "LF"}

Out == [kprintln : Seq(STRING), uart_driver : Seq(Seq(Echoed))]

-----------------------------------------------------------------------------
(***************************************************************************)
(* Sequences.                                                              *)
(***************************************************************************)

\* Moving the first element of t to the end of s leaves s \o t as it is.
LEMMA MoveHead ==
  ASSUME NEW S, NEW s \in Seq(S), NEW t \in Seq(S), t # << >>
  PROVE  Append(s, Head(t)) \o Tail(t) = s \o t
  OBVIOUS

\* An element added to t is added to s \o t.
LEMMA AppendRight ==
  ASSUME NEW S, NEW s \in Seq(S), NEW t \in Seq(S), NEW c \in S
  PROVE  s \o Append(t, c) = Append(s \o t, c)
  OBVIOUS

\* A queue is its head and the rest.
LEMMA HeadTail ==
  ASSUME NEW S, NEW t \in Seq(S), t # << >>
  PROVE  /\ Head(t) \in S /\ Tail(t) \in Seq(S)
         /\ Len(t) \in Nat \ {0} /\ Len(Tail(t)) = Len(t) - 1
         /\ Len(t) = 1 <=> Tail(t) = << >>
<1>1. /\ Head(t) \in S /\ Tail(t) \in Seq(S)
      /\ Len(t) \in Nat \ {0} /\ Len(Tail(t)) = Len(t) - 1
  OBVIOUS
<1>2. Len(Tail(t)) = 0 <=> Tail(t) = << >>
  BY <1>1, EmptySeq
<1> QED
  BY <1>1, <1>2

\* Nothing written leaves what was written.
LEMMA EmptyConcat ==
  ASSUME NEW S, NEW t \in Seq(S)
  PROVE  << >> \o t = t /\ t \o << >> = t
  OBVIOUS

\* An answer is one to three characters.
LEMMA EchoType ==
  ASSUME NEW c \in Chars
  PROVE  Echo(c) \in Seq(Echoed) /\ Echo(c) # << >> /\ Len(Echo(c)) <= 3
<1>1. <<"BS", "space", "BS">> \in Seq(Echoed) /\ Len(<<"BS", "space", "BS">>) = 3
  BY DEF Echoed
<1>2. <<"LF">> \in Seq(Echoed) /\ Len(<<"LF">>) = 1
  BY DEF Echoed
<1>3. <<c>> \in Seq(Echoed) /\ Len(<<c>>) = 1
  BY DEF Echoed
<1> QED
  BY <1>1, <1>2, <1>3 DEF Echo

-----------------------------------------------------------------------------
(***************************************************************************)
(* Type correctness together with the control state: a trap is only taken  *)
(* when stvec is written, and is then dispatched on one of three causes.   *)
(***************************************************************************)
LEMMA TypeControlInit ==
  ASSUME Init
  PROVE  TypeControl
<1>1. << >> \in Seq(Chars) /\ << >> \in Seq(Chars \union {"BS", "space", "LF"})
      /\ Len(<< >>) = 0
  OBVIOUS
<1>2. out \in [kprintln : Seq(STRING),
               uart_driver : Seq(Seq(Chars \union {"BS", "space", "LF"}))]
  BY DEF Init
<1>3. plic \in [enabled : BOOLEAN, priority : 0..7, pending : BOOLEAN, claimed : BOOLEAN]
  BY DEF Init
<1>4. Len(Message) \in Nat /\ reg \in 0..(Len(Message) + 1) /\ frame \in 0..(Len(Message) + 1)
  BY InterruptsAssumption DEF Init
<1>5. timer \in -1..Period /\ MaxChars \in Nat /\ FifoSize \in Nat
  BY InterruptsAssumption DEF Init
<1>7. TypeOK
  <2>1. {SIE, vector, seip, ssip, ier} \subseteq BOOLEAN
    BY DEF Init
  <2>2. /\ todo \in Seq(Chars \union {"BS", "space", "LF"}) /\ Len(todo) <= 3
        /\ consumed \in Seq(Chars) /\ accepted \in Seq(Chars) /\ Len(accepted) <= MaxChars
        /\ rx \in Seq(Chars) /\ Len(rx) <= FifoSize
    BY <1>1, <1>5 DEF Init
  <2> QED
    BY <1>2, <1>3, <1>4, <1>5, <2>1, <2>2 DEF Init, TypeOK
<1>6. Control /\ Owed
  BY DEF Init, Control, Owed, Running
<1> QED
  BY <1>6, <1>7 DEF TypeControl

\* The steps of the interrupted program.
LEMMA ProgramTypeControl ==
  ASSUME TypeControl, Program
  PROVE  TypeControl'
<1>0. /\ plic \in Plic /\ out \in Out /\ Len(Message) \in Nat /\ Message \in Seq(STRING)
      /\ reg \in 0..(Len(Message) + 1) /\ (handler = "none" => reg > 0)
  BY InterruptsAssumption DEF TypeControl, TypeOK, Control, Plic, Out, Echoed
<1>12. enable_int_priority => plic' \in Plic
  <2>1. 1 \in 0..7
    OBVIOUS
  <2>2. [plic EXCEPT !.priority = 1] \in Plic
    BY <1>0, <2>1 DEF Plic
  <2> QED
    BY <2>2 DEF enable_int_priority
<1>13. ASSUME print PROVE reg' \in 0..(Len(Message) + 1) /\ reg' > 0 /\ out' \in Out
  <2>1. reg' = reg + 1 /\ reg \in 1..Len(Message)
    BY <1>0, <1>13 DEF print, At
  <2>2. Message[reg] \in STRING
    BY <1>0, <2>1
  <2>3. out.kprintln \in Seq(STRING) /\ out.uart_driver \in Seq(Seq(Echoed))
    BY <1>0 DEF Out
  <2>4. Append(out.kprintln, Message[reg]) \in Seq(STRING)
    BY <2>2, <2>3
  <2>5. out' = [out EXCEPT !.kprintln = Append(out.kprintln, Message[reg])]
    BY <1>13 DEF print
  <2>6. out' \in Out
    BY <1>0, <2>4, <2>5 DEF Out
  <2> QED
    BY <1>0, <2>1, <2>6
<1> USE InterruptsAssumption DEF TypeControl, TypeOK, Control, Owed, Running, At,
                                 program, driver, trap, hardware, Plic, Out, Echoed
<1>1. CASE uart_driver_init
  BY <1>1 DEF uart_driver_init
<1>2. CASE enable_int_map
  BY <1>2 DEF enable_int_map
<1>3. CASE enable_int_enable
  BY <1>3 DEF enable_int_enable
<1>4. CASE enable_int_priority
  BY <1>4, <1>12 DEF enable_int_priority
<1>5. CASE set_type
  BY <1>5 DEF set_type
<1>6. CASE write_stvec
  BY <1>6 DEF write_stvec
<1>7. CASE write_stimecmp
  BY <1>7 DEF write_stimecmp
<1>8. CASE write_sie
  BY <1>8 DEF write_sie
<1>9. CASE write_sstatus
  BY <1>9 DEF write_sstatus
<1>10. CASE print
  BY <1>10, <1>13 DEF print
<1>11. CASE wait
  BY <1>11 DEF wait
<1> QED
  BY <1>1, <1>2, <1>3, <1>4, <1>5, <1>6, <1>7, <1>8, <1>9, <1>10, <1>11 DEF Program

\* The steps of entering and leaving a trap.
LEMMA TrapTypeControl ==
  ASSUME TypeControl, Interrupt \/ kernel_c_exception_handler
  PROVE  TypeControl'
<1> USE InterruptsAssumption DEF TypeControl, TypeOK, Control, Owed, Running,
                                 program, driver, trap, hardware
<1>1. CASE Interrupt
  <2>1. PICK c \in {"external", "software", "timer"} : kernel_asm_trap_handler(c)
    BY <1>1 DEF Interrupt
  <2>2. reg' \in 0..(Len(Message) + 1) /\ handler' = "dispatch"
    BY <2>1 DEF kernel_asm_trap_handler, Clobbered
  <2> QED
    BY <2>1, <2>2 DEF kernel_asm_trap_handler
<1>2. CASE kernel_c_exception_handler
  <2>1. handler' = "panic" /\ SIE' = FALSE /\ {SIE', vector', seip', ssip', ier'} \subseteq BOOLEAN
    BY <1>2 DEF kernel_c_exception_handler
  <2> QED
    BY <1>2, <2>1 DEF kernel_c_exception_handler
<1> QED
  BY <1>1, <1>2

\* What reading a character and writing one do to the sequences.
LEMMA GetcharTypes ==
  ASSUME TypeControl, uart_driver_getchar, rx # << >>
  PROVE  /\ rx' \in Seq(Chars) /\ Len(rx') <= FifoSize
         /\ consumed' \in Seq(Chars) /\ Len(consumed') > 0
         /\ todo' \in Seq(Echoed) /\ todo' # << >> /\ Len(todo') <= 3
         /\ out' \in Out
<1>1. /\ rx \in Seq(Chars) /\ consumed \in Seq(Chars) /\ out \in Out
      /\ Len(rx) <= FifoSize /\ FifoSize \in Nat
  BY InterruptsAssumption DEF TypeControl, TypeOK, Out, Echoed
<1>2. /\ rx' = Tail(rx) /\ consumed' = Append(consumed, Head(rx)) /\ todo' = Echo(Head(rx))
      /\ out' = [out EXCEPT !.uart_driver = Append(out.uart_driver, << >>)]
  BY DEF uart_driver_getchar
<1>3. Head(rx) \in Chars /\ Tail(rx) \in Seq(Chars) /\ Len(Tail(rx)) = Len(rx) - 1
      /\ Len(rx) \in Nat
  BY <1>1, HeadTail
<1>4. consumed' \in Seq(Chars) /\ Len(consumed') > 0
  BY <1>1, <1>2, <1>3
<1>5. out' \in Out
  <2>1. << >> \in Seq(Echoed)
    OBVIOUS
  <2>2. out.uart_driver \in Seq(Seq(Echoed))
    BY <1>1 DEF Out
  <2>3. Append(out.uart_driver, << >>) \in Seq(Seq(Echoed))
    BY <2>1, <2>2
  <2> QED
    BY <1>1, <1>2, <2>3 DEF Out
<1> QED
  BY <1>1, <1>2, <1>3, <1>4, <1>5, EchoType

\* Storing one character of an answer into the transmit register.
LEMMA PutcharTypes ==
  ASSUME TypeControl, uart_driver_putchar
  PROVE  /\ todo' \in Seq(Echoed) /\ Len(todo') <= 3
         /\ handler' \in {"putchar", "complete"}
         /\ handler' = "putchar" <=> todo' # << >>
         /\ out' \in Out
<1>1. todo \in Seq(Echoed) /\ todo # << >> /\ Len(todo) <= 3 /\ out \in Out
  BY DEF TypeControl, TypeOK, Owed, uart_driver_putchar, Out, Echoed
<1>2. /\ Head(todo) \in Echoed /\ Tail(todo) \in Seq(Echoed)
      /\ Len(todo) \in Nat \ {0} /\ Len(Tail(todo)) = Len(todo) - 1
      /\ Len(todo) = 1 <=> Tail(todo) = << >>
  BY <1>1, HeadTail
<1>3. todo' = Tail(todo) /\ handler' = IF Len(todo) = 1 THEN "complete" ELSE "putchar"
  BY DEF uart_driver_putchar
<1>4. out' \in Out
  <2> DEFINE u == out.uart_driver
             n == Len(consumed)
             v == [u EXCEPT ![n] = Append(u[n], Head(todo))]
  <2>1. u \in Seq(Seq(Echoed))
    BY <1>1 DEF Out
  <2>2. out' = [out EXCEPT !.uart_driver = v]
    BY DEF uart_driver_putchar, WriteEcho
  <2> HIDE DEF u
  <2>3. v \in Seq(Seq(Echoed))
    <3>1. CASE n \in 1..Len(u)
      <4>1. u[n] \in Seq(Echoed)
        BY <2>1, <3>1
      <4>2. Append(u[n], Head(todo)) \in Seq(Echoed)
        BY <1>2, <4>1
      <4> QED
        BY <2>1, <3>1, <4>2
    <3>2. CASE n \notin 1..Len(u)
      <4>1. u \in [1..Len(u) -> Seq(Echoed)]
        BY <2>1
      <4>2. v = u
        BY <3>2, <4>1
      <4> QED
        BY <2>1, <4>2
    <3> QED
      BY <3>1, <3>2
  <2> HIDE DEF v
  <2> QED
    BY <1>1, <2>2, <2>3 DEF Out
<1> QED
  BY <1>1, <1>2, <1>3, <1>4

\* The steps of the external interrupt handler.
LEMMA HandlerTypeControl ==
  ASSUME TypeControl, Handler
  PROVE  TypeControl'
<1>1. ASSUME uart_driver_getchar, rx # << >> PROVE TypeControl'
  <2>1. /\ rx' \in Seq(Chars) /\ Len(rx') <= FifoSize
        /\ consumed' \in Seq(Chars) /\ Len(consumed') > 0
        /\ todo' \in Seq(Echoed) /\ todo' # << >> /\ Len(todo') <= 3
        /\ out' \in Out
    BY <1>1, GetcharTypes
  <2> QED
    BY <1>1, <2>1 DEF uart_driver_getchar, TypeControl, TypeOK, Control, Owed, Running,
                      program, driver, Out, Echoed
<1>2. CASE uart_driver_putchar
  <2>1. /\ todo' \in Seq(Echoed) /\ Len(todo') <= 3
        /\ handler' \in {"putchar", "complete"}
        /\ handler' = "putchar" <=> todo' # << >>
        /\ out' \in Out
    BY <1>2, PutcharTypes
  <2>2. handler = "putchar" /\ todo # << >>
    BY <1>2 DEF TypeControl, Owed, uart_driver_putchar
  <2> QED
    BY <1>2, <2>1, <2>2 DEF uart_driver_putchar, TypeControl, TypeOK, Control, Owed, Running,
                      program, driver, hardware, Out, Echoed
<1> USE InterruptsAssumption DEF TypeControl, TypeOK, Control, Owed, Running,
                                 program, driver, trap, hardware
<1>3. CASE kernel_c_interrupt_handler
  BY <1>3 DEF kernel_c_interrupt_handler, rearm
<1>4. CASE claim
  BY <1>4 DEF claim
<1>5. CASE call_driver
  BY <1>5 DEF call_driver, DriverStep
<1>6. CASE uart_driver_getchar /\ rx = << >>
  BY <1>6 DEF uart_driver_getchar
<1>7. CASE complete
  BY <1>7 DEF complete
<1>8. CASE trap_return
  BY <1>8 DEF trap_return, restore
<1> QED
  BY <1>1, <1>2, <1>3, <1>4, <1>5, <1>6, <1>7, <1>8 DEF Handler

Hardware == \/ \E c \in Chars : Receive(c)
            \/ Gateway \/ Notify \/ Tick \/ SoftwareInterrupt

\* The steps of the devices.
LEMMA HardwareTypeControl ==
  ASSUME TypeControl, Hardware
  PROVE  TypeControl'
<1> USE InterruptsAssumption DEF TypeControl, TypeOK, Control, Owed, Running,
                                 program, driver, trap, hardware
<1>1. ASSUME NEW c \in Chars, Receive(c) PROVE TypeControl'
  BY <1>1, SMTT(20) DEF Receive
<1>2. CASE Gateway
  <2>1. plic' \in [enabled : BOOLEAN, priority : 0..7, pending : BOOLEAN, claimed : BOOLEAN]
    BY <1>2 DEF Gateway
  <2> QED
    BY <1>2, <2>1 DEF Gateway
<1>3. CASE Notify
  BY <1>3 DEF Notify
<1>4. CASE Tick
  BY <1>4 DEF Tick
<1>5. CASE SoftwareInterrupt
  BY <1>5 DEF SoftwareInterrupt
<1> QED
  BY <1>1, <1>2, <1>3, <1>4, <1>5 DEF Hardware

\* Every step keeps the types and the control invariant.
LEMMA TypeControlStep ==
  ASSUME TypeControl, [Next]_vars
  PROVE  TypeControl'
<1>1. CASE UNCHANGED vars
  BY <1>1 DEF vars, program, driver, trap, hardware, TypeControl, TypeOK, Control, Owed
<1>2. CASE Spin
  BY <1>1, <1>2 DEF Spin
<1> QED
  BY <1>1, <1>2, ProgramTypeControl, TrapTypeControl, HandlerTypeControl,
     HardwareTypeControl DEF Next, Hardware

\* Types and control state hold throughout.
LEMMA TypeControlHolds == Spec => []TypeControl
<1>1. Init => TypeControl
  BY TypeControlInit
<1>2. TypeControl /\ [Next]_vars => TypeControl'
  BY TypeControlStep
<1> QED
  BY <1>1, <1>2, PTL DEF Spec

(***************************************************************************)
(* Every state of the trap path is well typed.  In particular no trap is   *)
(* taken before stvec and sscratch are written (handler is never "wild"),  *)
(* the dispatch on scause is total, and the frame always holds an index    *)
(* into the message.                                                       *)
(***************************************************************************)
THEOREM InterruptsTyped == Spec => []TypeOK
<1>1. TypeControl => TypeOK
  BY DEF TypeControl
<1> QED
  BY <1>1, TypeControlHolds, PTL

-----------------------------------------------------------------------------
(***************************************************************************)
(* The completion of interrupts.                                           *)
(***************************************************************************)

\* Every access of the handler, once it claimed, leads on to the completion.
LEMMA ClaimsStep ==
  ASSUME TypeControl, ClaimsCompleted, [Next]_vars
  PROVE  ClaimsCompleted'
<1> USE DEF ClaimsCompleted, program, driver, trap, hardware
<1>0. plic \in Plic
  BY DEF TypeControl, TypeOK, Plic
<1>1. CASE Program
  <2>1. handler' = handler /\ plic'.claimed = plic.claimed
    BY <1>0, <1>1 DEF Program, At, uart_driver_init, enable_int_map, enable_int_enable,
       enable_int_priority, set_type, write_stvec, write_stimecmp, write_sie,
       write_sstatus, print, wait, Plic
  <2> QED
    BY <2>1
<1>2. CASE Interrupt
  BY <1>2 DEF Interrupt, kernel_asm_trap_handler
<1>3. CASE kernel_c_exception_handler
  BY <1>3 DEF kernel_c_exception_handler
<1>4. CASE kernel_c_interrupt_handler
  BY <1>4 DEF kernel_c_interrupt_handler, TypeControl, TypeOK, Control
<1>5. CASE claim
  BY <1>0, <1>5 DEF claim, Plic
<1>6. CASE call_driver
  BY <1>6 DEF call_driver, DriverStep, TypeControl, Control, Running
<1>7. CASE uart_driver_getchar
  BY <1>7 DEF uart_driver_getchar
<1>8. CASE uart_driver_putchar
  BY <1>8 DEF uart_driver_putchar
<1>9. CASE complete
  BY <1>0, <1>9 DEF complete, Plic
<1>10. CASE trap_return
  BY <1>10 DEF trap_return
<1>11. CASE Hardware
  <2>1. handler' = handler /\ plic'.claimed = plic.claimed
    BY <1>0, <1>11 DEF Hardware, Receive, Gateway, Notify, Tick, SoftwareInterrupt, Plic
  <2> QED
    BY <2>1
<1>12. CASE UNCHANGED vars
  BY <1>12 DEF vars
<1> QED
  BY <1>1, <1>2, <1>3, <1>4, <1>5, <1>6, <1>7, <1>8, <1>9, <1>10, <1>11, <1>12
     DEF Next, Handler, Hardware, Spin

(***************************************************************************)
(* plic_driver_handle_interrupt completes what it claims, whatever         *)
(* interrupts when: its early return for a driver without a type is never  *)
(* taken, because interrupts are enabled after the last store of           *)
(* devices_init.  Nor does it call a driver or complete anything for a     *)
(* claim of 0.                                                             *)
(***************************************************************************)
THEOREM NothingStaysClaimed == Spec => []ClaimsCompleted
<1>1. Init => ClaimsCompleted
  BY DEF Init, ClaimsCompleted
<1>2. TypeControl /\ ClaimsCompleted /\ [Next]_vars => ClaimsCompleted'
  BY ClaimsStep
<1> QED
  BY <1>1, <1>2, TypeControlHolds, PTL DEF Spec

-----------------------------------------------------------------------------
(***************************************************************************)
(* The registers of the interrupted program.                               *)
(***************************************************************************)
LEMMA RegistersStep ==
  ASSUME TypeControl, Registers, [Next]_vars
  PROVE  Registers'
<1>0. /\ Message \in Seq(STRING) /\ Len(Message) \in Nat /\ out \in Out
      /\ out.kprintln \in Seq(STRING) /\ Len(out.kprintln) \in Nat
  BY InterruptsAssumption DEF TypeControl, TypeOK, Out, Echoed
<1>1. ASSUME UNCHANGED <<pc, reg, frame, out>>,
             handler' = "panic" \/ handler' = handler
             \/ (handler \notin {"none", "panic"} /\ handler' # "none")
      PROVE  Registers'
  BY <1>1 DEF Registers
<1>2. CASE Program
  <2>1. CASE print
    <3> DEFINE k == out.kprintln
               n == Len(k)
    <3>1. /\ handler = "none" /\ handler' = handler /\ pc' = "print" /\ reg' = reg + 1
          /\ reg <= Len(Message)
          /\ out' = [out EXCEPT !.kprintln = Append(k, Message[reg])]
      BY <2>1 DEF print, At, trap
    <3>2. reg = n + 1 /\ n <= Len(Message) /\ \A h \in 1..n : k[h] = Message[h]
      BY <3>1 DEF Registers
    <3>3. out'.kprintln = Append(k, Message[reg])
      BY <1>0, <3>1 DEF Out
    <3> HIDE DEF k
    <3>4. /\ Len(out'.kprintln) = n + 1 /\ out'.kprintln[n + 1] = Message[n + 1]
          /\ \A h \in 1..n : out'.kprintln[h] = Message[h]
      BY <1>0, <3>2, <3>3 DEF k
    <3>5. n \in Nat /\ n + 1 <= Len(Message) /\ \A h \in 1..(n + 1) : h \in 1..n \/ h = n + 1
      BY <1>0, <3>1, <3>2 DEF k
    <3> HIDE DEF n
    <3>6. \A h \in 1..(n + 1) : out'.kprintln[h] = Message[h]
      BY <3>4, <3>5
    <3> QED
      BY <3>1, <3>2, <3>4, <3>5, <3>6 DEF Registers
  <2>2. CASE wait
    BY <1>0, <2>2 DEF wait, At, trap, Registers
  <2>3. CASE ~print /\ ~wait
    <3>1. UNCHANGED <<reg, frame, out, handler>> /\ pc' # "wait"
      BY <1>2, <2>3 DEF Program, At, uart_driver_init, enable_int_map, enable_int_enable,
         enable_int_priority, set_type, write_stvec, write_stimecmp, write_sie,
         write_sstatus, trap
    <3> QED
      BY <3>1 DEF Registers
  <2> QED
    BY <2>1, <2>2, <2>3
<1>3. CASE Interrupt
  <2>1. PICK c \in {"external", "software", "timer"} : kernel_asm_trap_handler(c)
    BY <1>3 DEF Interrupt
  <2>2. /\ handler = "none" /\ handler' \in {"dispatch", "wild"} /\ frame' = reg
        /\ pc' = pc /\ out' = out
    BY <2>1 DEF kernel_asm_trap_handler
  <2> QED
    BY <2>2 DEF Registers
<1>4. CASE kernel_c_exception_handler
  BY <1>1, <1>4 DEF kernel_c_exception_handler, program
<1>5. CASE kernel_c_interrupt_handler
  <2>1. cause \in {"software", "timer", "external"}
    BY <1>5 DEF TypeControl, TypeOK, Control, kernel_c_interrupt_handler
  <2> QED
    BY <1>1, <1>5, <2>1 DEF kernel_c_interrupt_handler, program
<1>6. CASE claim
  BY <1>1, <1>6 DEF claim, program
<1>7. CASE call_driver
  BY <1>1, <1>7 DEF call_driver, DriverStep, program
<1>8. CASE uart_driver_getchar
  <2>1. /\ handler = "getchar" /\ handler' \in {"complete", "putchar"}
        /\ UNCHANGED <<pc, reg, frame>>
    BY <1>8 DEF uart_driver_getchar, program
  <2>2. out'.kprintln = out.kprintln
    BY <1>0, <1>8 DEF uart_driver_getchar, Out
  <2> QED
    BY <2>1, <2>2 DEF Registers
<1>9. CASE uart_driver_putchar
  <2>1. /\ handler = "putchar" /\ handler' \in {"complete", "putchar"}
        /\ UNCHANGED <<pc, reg, frame>>
    BY <1>9 DEF uart_driver_putchar, program
  <2>2. out'.kprintln = out.kprintln
    BY <1>0, <1>9 DEF uart_driver_putchar, WriteEcho, Out
  <2> QED
    BY <2>1, <2>2 DEF Registers
<1>10. CASE complete
  BY <1>1, <1>10 DEF complete, program
<1>11. CASE trap_return
  BY <1>11 DEF trap_return, restore, Registers
<1>12. CASE Hardware
  BY <1>1, <1>12 DEF Hardware, Receive, Gateway, Notify, Tick, SoftwareInterrupt,
                     program, trap
<1>13. CASE UNCHANGED vars
  BY <1>1, <1>13 DEF vars, program, trap
<1> QED
  BY <1>2, <1>3, <1>4, <1>5, <1>6, <1>7, <1>8, <1>9, <1>10, <1>11, <1>12, <1>13
     DEF Next, Handler, Hardware, Spin

(***************************************************************************)
(* kernel_c_entry prints its message unharmed: whatever interrupts arrive  *)
(* between its stores, and however many, the trap frame gives back the     *)
(* registers, and each character is written once and in order.             *)
(***************************************************************************)
THEOREM MessageComesOut == Spec => []MessageIntact
<1>1. Init => Registers
  <2> SUFFICES ASSUME Init PROVE Registers
    OBVIOUS
  <2>1. out.kprintln = << >> /\ Len(<< >>) = 0 /\ Len(Message) \in Nat /\ 1..0 = {}
    BY InterruptsAssumption DEF Init
  <2> QED
    BY <2>1 DEF Init, Registers
<1>2. TypeControl /\ Registers /\ [Next]_vars => Registers'
  BY RegistersStep
<1>3. TypeControl /\ Registers => MessageIntact
  <2> SUFFICES ASSUME TypeControl, Registers PROVE MessageIntact
    OBVIOUS
  <2> DEFINE k == out.kprintln
  <2>1. Message \in Seq(STRING) /\ k \in Seq(STRING)
    BY InterruptsAssumption DEF TypeControl, TypeOK
  <2>2. /\ Len(k) <= Len(Message) /\ \A h \in 1..Len(k) : k[h] = Message[h]
        /\ pc = "wait" => Len(k) = Len(Message)
    BY DEF Registers
  <2> HIDE DEF k
  <2>3. SubSeq(k, 1, Len(k)) = SubSeq(Message, 1, Len(k))
    BY <2>1, <2>2
  <2>4. Len(k) = Len(Message) => k = Message
    BY <2>1, <2>2
  <2> QED
    BY <2>2, <2>3, <2>4 DEF MessageIntact, IsPrefix, k
<1> QED
  BY <1>1, <1>2, <1>3, TypeControlHolds, PTL DEF Spec

-----------------------------------------------------------------------------
(***************************************************************************)
(* The echo.                                                               *)
(***************************************************************************)

\* uart_driver_getchar: the answer before is finished, a new one begins.
LEMMA GetcharEcho ==
  ASSUME TypeControl, EchoExact, uart_driver_getchar, rx # << >>
  PROVE  EchoExact'
<1> DEFINE u == out.uart_driver
           c == Head(rx)
<1>0. PICK n \in Nat : n = Len(consumed)
  BY DEF TypeControl, TypeOK
<1>1. /\ rx \in Seq(Chars) /\ consumed \in Seq(Chars) /\ out \in Out
      /\ u \in Seq(Seq(Echoed)) /\ todo = << >> /\ accepted = consumed \o rx
  BY DEF TypeControl, TypeOK, Owed, uart_driver_getchar, Out, Echoed, EchoExact
<1>2. /\ rx' = Tail(rx) /\ consumed' = Append(consumed, c) /\ todo' = Echo(c)
      /\ accepted' = accepted
      /\ out' = [out EXCEPT !.uart_driver = Append(u, << >>)]
  BY DEF uart_driver_getchar
<1>3. c \in Chars
  BY <1>1, HeadTail
<1>4. Echo(c) \in Seq(Echoed) /\ << >> \o Echo(c) = Echo(c)
  BY <1>3, EchoType, EmptyConcat
<1>5. accepted' = consumed' \o rx'
  BY <1>1, <1>2, MoveHead
<1>6. out'.uart_driver = Append(u, << >>)
  BY <1>1, <1>2 DEF Out
<1>7. Len(u) = n /\ \A k \in 1..n : Echo(consumed[k]) = u[k]
  <2>1. Len(u) = n
    BY <1>0 DEF EchoExact
  <2>2. ASSUME NEW k \in 1..n PROVE Echo(consumed[k]) = u[k]
    <3>1. u[k] \in Seq(Echoed)
      BY <1>1, <2>1
    <3>2. u[k] \o << >> = u[k]
      BY <3>1, EmptyConcat
    <3> QED
      BY <1>0, <1>1, <3>2 DEF EchoExact
  <2> QED
    BY <2>1, <2>2
<1> HIDE DEF u, c
<1>8. /\ Len(consumed') = n + 1 /\ consumed'[n + 1] = c
      /\ \A k \in 1..n : consumed'[k] = consumed[k]
      /\ Len(out'.uart_driver) = n + 1 /\ out'.uart_driver[n + 1] = << >>
      /\ \A k \in 1..n : out'.uart_driver[k] = u[k]
  BY <1>0, <1>1, <1>2, <1>3, <1>6, <1>7
<1>9. \A k \in 1..(n + 1) : k = n + 1 \/ (k \in 1..n /\ k # n + 1)
  BY <1>0
<1>10. \A k \in 1..(n + 1) :
         Echo(consumed'[k]) = IF k = n + 1 THEN out'.uart_driver[k] \o todo'
                              ELSE out'.uart_driver[k]
  BY <1>2, <1>4, <1>7, <1>8, <1>9
<1> QED
  BY <1>5, <1>8, <1>10 DEF EchoExact, Echo

\* uart_driver_putchar: a character goes from what is owed to what is written.
LEMMA PutcharEcho ==
  ASSUME TypeControl, EchoExact, uart_driver_putchar
  PROVE  EchoExact'
<1> DEFINE u == out.uart_driver
           c == Head(todo)
<1>0. PICK n \in Nat : n = Len(consumed)
  BY DEF TypeControl, TypeOK
<1>1. /\ todo \in Seq(Echoed) /\ todo # << >> /\ out \in Out
      /\ u \in Seq(Seq(Echoed)) /\ Len(u) = n /\ n > 0 /\ n \in 1..n
  BY <1>0 DEF TypeControl, TypeOK, Owed, uart_driver_putchar, Out, Echoed, EchoExact
<1>2. /\ todo' = Tail(todo) /\ UNCHANGED <<rx, consumed, accepted>>
      /\ out' = [out EXCEPT !.uart_driver = [u EXCEPT ![n] = Append(u[n], c)]]
  BY <1>0 DEF uart_driver_putchar, WriteEcho, hardware
<1>3. out'.uart_driver = [u EXCEPT ![n] = Append(u[n], c)]
  BY <1>1, <1>2 DEF Out
<1>4. u[n] \in Seq(Echoed)
  BY <1>1
<1>5. Append(u[n], c) \o Tail(todo) = u[n] \o todo
  BY <1>1, <1>4, MoveHead
<1>6. \A k \in 1..n : Echo(consumed[k]) = IF k = n THEN u[k] \o todo ELSE u[k]
  BY <1>0 DEF EchoExact
<1> HIDE DEF u, c
<1>7. /\ Len(out'.uart_driver) = n /\ out'.uart_driver[n] = Append(u[n], c)
      /\ \A k \in 1..n : k # n => out'.uart_driver[k] = u[k]
  BY <1>1, <1>3
<1>8. \A k \in 1..n : Echo(consumed[k]) = IF k = n THEN out'.uart_driver[k] \o todo'
                                          ELSE out'.uart_driver[k]
  BY <1>2, <1>5, <1>6, <1>7
<1> QED
  BY <1>0, <1>2, <1>7, <1>8 DEF EchoExact, Echo

\* Every step keeps the echo exact.
LEMMA EchoStep ==
  ASSUME TypeControl, EchoExact, [Next]_vars
  PROVE  EchoExact'
<1>1. ASSUME UNCHANGED <<rx, accepted, consumed, todo, out.uart_driver>> PROVE EchoExact'
  BY <1>1 DEF EchoExact, Echo
<1>2. out \in Out
  BY DEF TypeControl, TypeOK, Out, Echoed
<1>3. CASE Program
  <2>1. UNCHANGED <<rx, accepted, consumed, todo, out.uart_driver>>
    BY <1>2, <1>3 DEF Program, At, uart_driver_init, enable_int_map, enable_int_enable,
       enable_int_priority, set_type, write_stvec, write_stimecmp, write_sie,
       write_sstatus, print, wait, trap, hardware, Out
  <2> QED
    BY <1>1, <2>1
<1>4. CASE Interrupt \/ kernel_c_exception_handler
  BY <1>1, <1>4 DEF Interrupt, kernel_asm_trap_handler, kernel_c_exception_handler, hardware
<1>5. CASE kernel_c_interrupt_handler \/ claim \/ call_driver \/ complete \/ trap_return
  BY <1>1, <1>5 DEF kernel_c_interrupt_handler, claim, call_driver, complete, trap_return,
                    hardware
<1>6. CASE uart_driver_getchar
  BY <1>1, <1>6, GetcharEcho DEF uart_driver_getchar
<1>7. CASE uart_driver_putchar
  BY <1>7, PutcharEcho
<1>8. ASSUME NEW c \in Chars, Receive(c) PROVE EchoExact'
  <2>1. consumed \in Seq(Chars) /\ rx \in Seq(Chars)
    BY DEF TypeControl, TypeOK
  <2>2. /\ accepted' = Append(accepted, c) /\ rx' = Append(rx, c)
        /\ UNCHANGED <<consumed, todo, out>>
    BY <1>8 DEF Receive, trap
  <2>3. accepted = consumed \o rx
    BY DEF EchoExact
  <2>4. consumed \o Append(rx, c) = Append(consumed \o rx, c)
    BY <2>1, AppendRight
  <2>5. accepted' = consumed' \o rx'
    BY <2>2, <2>3, <2>4
  <2> QED
    BY <2>2, <2>5 DEF EchoExact, Echo
<1>9. CASE Gateway \/ Notify \/ Tick \/ SoftwareInterrupt
  BY <1>1, <1>9 DEF Gateway, Notify, Tick, SoftwareInterrupt, trap
<1>10. CASE UNCHANGED vars
  BY <1>1, <1>10 DEF vars, trap, hardware
<1> QED
  BY <1>3, <1>4, <1>5, <1>6, <1>7, <1>8, <1>9, <1>10 DEF Next, Handler, Spin

(***************************************************************************)
(* The UART driver reads each character the UART took once and in order,   *)
(* and answers each with its echo and nothing else, whatever is typed and  *)
(* whatever else interrupts.                                               *)
(***************************************************************************)
THEOREM EchoIsExact == Spec => []EchoExact
<1>1. Init => EchoExact
  <2> SUFFICES ASSUME Init PROVE EchoExact
    OBVIOUS
  <2>1. << >> \o << >> = << >> /\ Len(<< >>) = 0 /\ 1..0 = {}
    OBVIOUS
  <2> QED
    BY <2>1 DEF Init, EchoExact
<1>2. TypeControl /\ EchoExact /\ [Next]_vars => EchoExact'
  BY EchoStep
<1> QED
  BY <1>1, <1>2, TypeControlHolds, PTL DEF Spec
=============================================================================
