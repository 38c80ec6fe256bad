------------------------------- MODULE Kprint -------------------------------
(***************************************************************************)
(* Formatted printing, fmt/print.c, by two contexts of one hart: the       *)
(* program (kernel_c_entry), and the trap handler that interrupts it       *)
(* between any two characters and prints itself.  A format is a sequence   *)
(* of characters, put together from items: each has its text in the        *)
(* format, the arguments it takes, and what a reader expects to see of it, *)
(* shows, unless it is a number.                                           *)
(*                                                                         *)
(* The locals of a call are a frame per context; buf, the buffer of        *)
(* kprint_print_int, is static and shared, and so is the output.           *)
(***************************************************************************)
EXTENDS Masks, SequencesExt

CONSTANTS
  ProgramCalls,    \* calls of the program, [fn, items]
  TrapCalls,       \* calls of the trap handler
  MaxCalls,        \* bound on the calls of the program
  MaxTraps         \* bound on those of the trap handler

ASSUME KprintAssumption ==
  /\ WordBits > 0 /\ {MaxCalls, MaxTraps} \subseteq Nat
  /\ \A call \in ProgramCalls \union TrapCalls :
       call.fn \in {"kprint", "kprintln", "kprintln_string"}

VARIABLES
  put,             \* the character output of kprint_initialize, or NULL
  SIE,             \* interrupts are enabled
  frame,           \* the call in progress of each context
  buf,             \* static, numbered from 0
  out,             \* characters written, [by, char]
  made             \* history: the calls of each context

vars == <<put, SIE, frame, buf, out, made>>

Contexts == {"program", "trap"}

\* Mutant of MAX_INT_BUF_SIZE: no room for the second character of the prefix.
SmallBuffer == WordBits + 2

MAX_INT_BUF_SIZE == WordBits + 3        \* 67 for 64 bits

Digit(d) == <<"0", "1", "2", "3", "4", "5", "6", "7", "8", "9", "A", "B", "C", "D", "E", "F">>[d + 1]

\* An argument: a pointer to characters, or a word.
Pointer(chars) == [data |-> chars, word |-> 0]
WordArg(v)     == [data |-> << >>, word |-> v]

\* A format directive.
Directive(letter) == <<"{", letter, "}">>

Idle == [pc |-> "idle", format |-> << >>, args |-> << >>, newline |-> FALSE, i |-> 1,
         IN_FORMAT_SPEC |-> FALSE, spec_start |-> 0,
         str |-> << >>, value |-> 0, base |-> 0, k |-> 0]

Init ==
  /\ put = "NULL" /\ SIE = FALSE
  /\ frame = [c \in Contexts |-> Idle]
  /\ buf = [n \in 0..(MAX_INT_BUF_SIZE - 1) |-> "NUL"]
  /\ out = << >>
  /\ made = [c \in Contexts |-> << >>]

-----------------------------------------------------------------------------
\* The handler runs with interrupts off, to its end.
Runs(c) == c = "program" => frame["trap"].pc = "idle"

At(c, pc) == Runs(c) /\ frame[c].pc = pc

Goto(c, f) == frame' = [frame EXCEPT ![c] = f]

Put(c, char) == out' = Append(out, [by |-> c, char |-> char])

-----------------------------------------------------------------------------
(***************************************************************************)
(* kprint_print_int fills the buffer from its end and prints from the last *)
(* place it filled.  k is its index i, a size_t: it wraps below 0.         *)
(***************************************************************************)
Below(k) == (k - 1) % 2 ^ WordBits

kprint_print_int(f, value, base) ==
  [f EXCEPT !.pc = "digits", !.value = value, !.base = base, !.k = MAX_INT_BUF_SIZE - 2]

zero_digit(c) ==
  /\ At(c, "digits") /\ frame[c].value = 0
  /\ buf' = [buf EXCEPT ![frame[c].k] = "0"]
  /\ Goto(c, [frame[c] EXCEPT !.pc = "prefix", !.k = Below(@)])
  /\ UNCHANGED <<put, SIE, out, made>>

next_digit(c) ==
  LET f == frame[c]
  IN  /\ At(c, "digits") /\ f.value # 0 /\ f.k # 0
      /\ buf' = [buf EXCEPT ![f.k] = Digit(f.value % f.base)]
      /\ LET rest == f.value \div f.base
         IN  Goto(c, [f EXCEPT !.k = Below(@), !.value = rest,
                               !.pc = IF rest = 0 \/ Below(f.k) = 0 THEN "prefix" ELSE "digits"])
      /\ UNCHANGED <<put, SIE, out, made>>

\* The letter of a prefix, none for base 10.
Letter(base) == CASE base = 16 -> <<"x">> [] base = 8 -> <<"o">> [] base = 2 -> <<"b">> [] OTHER -> << >>

prefix(c) ==
  LET f == frame[c]
  IN  /\ At(c, "prefix")
      /\ \/ /\ Letter(f.base) = << >>
            /\ UNCHANGED buf
            /\ Goto(c, [f EXCEPT !.pc = "buffer", !.k = (f.k + 1) % 2 ^ WordBits])
         \/ /\ Letter(f.base) # << >>
            /\ buf' = [buf EXCEPT ![f.k] = Letter(f.base)[1], ![Below(f.k)] = "0"]
            /\ Goto(c, [f EXCEPT !.pc = "buffer", !.k = (Below(Below(@)) + 1) % 2 ^ WordBits])
      /\ UNCHANGED <<put, SIE, out, made>>

\* kprint_null_terminated on the buffer.
print_buffer(c) ==
  LET f == frame[c]
  IN  /\ At(c, "buffer")
      /\ \/ buf[f.k] # "NUL" /\ Put(c, buf[f.k]) /\ Goto(c, [f EXCEPT !.k = @ + 1])
         \/ buf[f.k] = "NUL" /\ Goto(c, [f EXCEPT !.pc = "scan"]) /\ UNCHANGED out
      /\ UNCHANGED <<put, SIE, buf, made>>

\* kprint_null_terminated on an argument, which ends in NUL, or kprint_string,
\* which is told its length: str is what is left of it.
print_string(c) ==
  LET f == frame[c]
  IN  /\ At(c, "string")
      /\ \/ f.str # << >> /\ Put(c, Head(f.str)) /\ Goto(c, [f EXCEPT !.str = Tail(@)])
         \/ f.str = << >> /\ Goto(c, [f EXCEPT !.pc = "scan"]) /\ UNCHANGED out
      /\ UNCHANGED <<put, SIE, buf, made>>

-----------------------------------------------------------------------------
(***************************************************************************)
(* kprint_print_spec: the frame behind a directive, its arguments taken.   *)
(* An ASSERT or PANIC prints a line of its own, left out, and ends in a    *)
(* loop.                                                                   *)
(***************************************************************************)
UpToNul(s) == SubSeq(s, 1, Min({n \in DOMAIN s : s[n] = "NUL"}) - 1)

Taken(f, n) == [f EXCEPT !.args = SubSeq(@, n + 1, Len(@))]

SpecFrame(f, spec) ==
  CASE spec = <<"S">> -> [Taken(f, 1) EXCEPT !.pc = "string", !.str = UpToNul(f.args[1].data)]
    [] spec = <<"V">> -> [Taken(f, 2) EXCEPT !.pc = "string", !.str = SubSeq(f.args[1].data, 1, f.args[2].word)]
    [] spec = <<"C">> -> [Taken(f, 1) EXCEPT !.pc = "string", !.str = SubSeq(f.args[1].data, 1, 1)]
    [] spec = <<"D">> -> kprint_print_int(Taken(f, 1), f.args[1].word, 10)
    [] spec = <<"X">> -> kprint_print_int(Taken(f, 1), f.args[1].word, 16)
    [] spec = <<"B">> -> kprint_print_int(Taken(f, 1), f.args[1].word, 2)
    [] OTHER          -> [f EXCEPT !.pc = "halted"]

-----------------------------------------------------------------------------
(***************************************************************************)
(* kprint_formatted_print, one step per character of the format.           *)
(***************************************************************************)
sv_substr(s, start, length) == SubSeq(s, start + 1, start + length)

Scan(c, char) ==
  /\ At(c, "scan")
  /\ frame[c].i <= Len(frame[c].format)
  /\ char = frame[c].format[frame[c].i]

Advance(f) == [f EXCEPT !.i = @ + 1]

open_brace(c) ==
  LET f == frame[c]
  IN  /\ Scan(c, "{")
      /\ Goto(c, [Advance(f) EXCEPT !.IN_FORMAT_SPEC = ~f.IN_FORMAT_SPEC,
                                  !.spec_start = IF f.IN_FORMAT_SPEC THEN @ ELSE f.i])
      /\ IF f.IN_FORMAT_SPEC THEN Put(c, "{") ELSE UNCHANGED out
      /\ UNCHANGED <<put, SIE, buf, made>>

close_brace(c) ==
  LET f == frame[c]
  IN  /\ Scan(c, "}")
      /\ \/ /\ f.IN_FORMAT_SPEC
            /\ Goto(c, SpecFrame([Advance(f) EXCEPT !.IN_FORMAT_SPEC = FALSE],
                                 sv_substr(f.format, f.spec_start, f.i - f.spec_start - 1)))
            /\ UNCHANGED out
         \/ ~f.IN_FORMAT_SPEC /\ Put(c, "}") /\ Goto(c, Advance(f))
      /\ UNCHANGED <<put, SIE, buf, made>>

other_char(c) ==
  LET f == frame[c]
  IN  /\ \E char \in ToSet(f.format) \ {"{", "}"} :
           /\ Scan(c, char)
           /\ IF f.IN_FORMAT_SPEC THEN UNCHANGED out ELSE Put(c, char)
      /\ Goto(c, Advance(f))
      /\ UNCHANGED <<put, SIE, buf, made>>

\* The end of the format, and the newline of kprintln.
finish(c) ==
  /\ At(c, "scan") /\ frame[c].i > Len(frame[c].format)
  /\ IF frame[c].newline THEN Put(c, "newline") ELSE UNCHANGED out
  /\ Goto(c, Idle)
  /\ UNCHANGED <<put, SIE, buf, made>>

-----------------------------------------------------------------------------
Text(items) == FlattenSeq([n \in 1..Len(items) |-> items[n].text])
Args(items) == FlattenSeq([n \in 1..Len(items) |-> items[n].args])

\* kprint and kprintln scan their format; kprintln_string copies its string.
Enter(c, call) ==
  /\ Goto(c, IF call.fn = "kprintln_string"
             THEN [Idle EXCEPT !.pc = "string", !.str = Text(call.items), !.newline = TRUE]
             ELSE [Idle EXCEPT !.pc = "scan", !.format = Text(call.items),
                               !.args = Args(call.items), !.newline = (call.fn = "kprintln")])
  /\ made' = [made EXCEPT ![c] = Append(@, call)]
  /\ UNCHANGED <<put, SIE, buf, out>>

TakesNumber(call) == \E n \in DOMAIN call.items : call.items[n].number

\* Mutant of program_prints: a number is printed behind sstatus.SIE.
program_prints_number(call) ==
  /\ At("program", "idle") /\ put # "NULL" /\ Len(made["program"]) < MaxCalls
  /\ Enter("program", call)

\* kernel_c_entry prints once put is set.  Behind sstatus.SIE it prints two
\* lines of text, and no number.
program_prints(call) ==
  /\ At("program", "idle") /\ put # "NULL" /\ Len(made["program"]) < MaxCalls
  /\ SIE => ~TakesNumber(call)
  /\ Enter("program", call)

\* Interrupts stay on in the endless loop of a failed assertion of the program.
trap_prints(call) ==
  /\ SIE /\ At("trap", "idle") /\ Len(made["trap"]) < MaxTraps
  /\ Enter("trap", call)

\* Given NULL it returns EC_NULL_ARGUMENT and leaves put alone.
kprint_initialize(put_char_fn) ==
  /\ At("program", "idle") /\ made["program"] = << >> /\ ~SIE
  /\ put' = IF put_char_fn = "NULL" THEN put ELSE put_char_fn
  /\ UNCHANGED <<SIE, frame, buf, out, made>>

enable_interrupts ==
  /\ At("program", "idle") /\ ~SIE /\ put # "NULL"
  /\ SIE' = TRUE
  /\ UNCHANGED <<put, frame, buf, out, made>>

Next ==
  \/ \E fn \in {"NULL", "uart_put_char"} : kprint_initialize(fn)
  \/ enable_interrupts
  \/ \E call \in ProgramCalls : program_prints(call)
  \/ \E call \in TrapCalls : trap_prints(call)
  \/ \E c \in Contexts :
       \/ zero_digit(c) \/ next_digit(c) \/ prefix(c) \/ print_buffer(c) \/ print_string(c)
       \/ open_brace(c) \/ close_brace(c) \/ other_char(c) \/ finish(c)

Spec == Init /\ [][Next]_vars

-----------------------------------------------------------------------------
(***************************************************************************)
(* Every variable has its type.  In particular the buffer of               *)
(* kprint_print_int is large enough for a word in every base and its       *)
(* prefix, though the index wraps below 0: a digit is stored at a place    *)
(* from 0 on, the two characters of a prefix too, and the NUL at its end   *)
(* stays.  A directive begins before the brace that closes it, so that     *)
(* sv_substr is given a length that has not wrapped.                       *)
(***************************************************************************)
TypeOK ==
  /\ put \in {"NULL", "uart_put_char"} /\ SIE \in BOOLEAN
  /\ DOMAIN buf = 0..(MAX_INT_BUF_SIZE - 1) /\ buf[MAX_INT_BUF_SIZE - 1] = "NUL"
  /\ \A c \in Contexts :
       LET f == frame[c]
       IN  /\ f.pc \in {"idle", "scan", "digits", "prefix", "buffer", "string", "halted"}
           /\ f.value \in 0..(2 ^ WordBits - 1)
           /\ f.IN_FORMAT_SPEC => f.spec_start \in 1..(f.i - 1)
           /\ f.pc \in {"digits", "buffer"} => f.k \in DOMAIN buf
           /\ f.pc = "prefix" => f.k >= Len(Letter(f.base)) /\ f.k \in DOMAIN buf

(***************************************************************************)
(* What a reader expects of a call, item by item: text as it stands, a     *)
(* number in the digits of its base, highest first and none superfluous.   *)
(* A malformed directive ends everything.                                  *)
(***************************************************************************)
Length(v, base) == Min({n \in 1..WordBits : v < base ^ n})

Numeral(v, base) ==
  LET n == Length(v, base)
  IN  [d \in 1..n |-> Digit((v \div base ^ (n - d)) % base)]

Shown(item) ==
  IF ~item.number THEN item.shows
  ELSE LET v == item.args[1].word
       IN  CASE item.text = Directive("D") -> Numeral(v, 10)
             [] item.text = Directive("X") -> <<"0", "x">> \o Numeral(v, 16)
             [] item.text = Directive("B") -> <<"0", "b">> \o Numeral(v, 2)

Expected(call) ==
  (IF call.fn = "kprintln_string" THEN Text(call.items)
   ELSE FlattenSeq([n \in 1..Len(call.items) |-> Shown(call.items[n])])) \o
  (IF call.fn = "kprint" THEN << >> ELSE <<"newline">>)

Written(c) ==
  LET Mine(e) == e.by = c
      mine    == SelectSeq(out, Mine)
  IN  [n \in 1..Len(mine) |-> mine[n].char]

\* A number's directive finds an argument, and it is a word.
ArgumentsGiven ==
  \A c \in Contexts :
    LET f         == frame[c]
        directive == sv_substr(f.format, f.spec_start, f.i - f.spec_start - 1)
    IN  (/\ f.pc = "scan" /\ f.IN_FORMAT_SPEC
         /\ f.i <= Len(f.format) /\ f.format[f.i] = "}"
         /\ directive \in {<<"D">>, <<"X">>, <<"B">>})
        => f.args # << >> /\ f.args[1].word \in 0..(2 ^ WordBits - 1)

(***************************************************************************)
(* Each context's characters are those a reader expects of its calls, in   *)
(* order, none lost and none of another call: whatever the buffer holds    *)
(* from earlier numbers, and whatever the trap handler prints in between   *)
(* (kernel_c_interrupt_handler prints {X} into the same buffer).  No       *)
(* number is missing when its directive is read, and a finished call has   *)
(* taken all its arguments and shown all it has to.                        *)
(***************************************************************************)
FormatAgrees ==
  /\ ArgumentsGiven
  /\ \A c \in Contexts :
       LET f        == frame[c]
           expected == FlattenSeq([n \in 1..Len(made[c]) |-> Expected(made[c][n])])
       IN  /\ IsPrefix(Written(c), expected)
           /\ f.pc = "idle" => Written(c) = expected
           /\ f.pc = "scan" /\ f.i > Len(f.format) => f.args = << >>
=============================================================================
