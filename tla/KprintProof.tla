----------------------------- MODULE KprintProof -----------------------------
(***************************************************************************)
(* Proof that the buffer of kprint_print_int is large enough for every     *)
(* word in every base, whatever the program and the trap handler print,    *)
(* for every size of a word.                                               *)
(*                                                                         *)
(* TypeOK does not say why the digits fit.  The inductive invariant does:  *)
(* at a digit to be stored at index k, what is left of the number is less  *)
(* than 2^(k - 1).  A base is at least 2, so that the number is used up    *)
(* before the place of the prefix is.                                      *)
(***************************************************************************)
EXTENDS Kprint, DataProof

\* A number is less than the power of two to it.
LEMMA BelowPower ==
  ASSUME NEW N \in Nat
  PROVE  N < 2 ^ N
<1> DEFINE T == {n \in 0..N : n < 2 ^ n}
<1>1. ASSUME NEW n \in 0..N, \A m \in 0..(n - 1) : m \in T PROVE n \in T
  <2>1. CASE n = 0
    BY <2>1, PowerZero
  <2>2. CASE n # 0
    <3>1. PICK m \in Nat : n = m + 1 /\ m \in 0..(n - 1)
      BY <2>2
    <3>2. PICK P \in Nat \ {0} : P = 2 ^ m
      BY PowerDoubles
    <3>3. m < P /\ 2 ^ n = 2 * P
      BY <3>1, <3>2, <1>1, PowerDoubles
    <3> QED
      BY <3>1, <3>3
  <2> QED
    BY <2>1, <2>2
<1>2. \A n \in 0..N : n \in T
  <2> HIDE DEF T
  <2> QED
    BY <1>1, UpTo
<1> QED
  BY <1>2

Fields == {"pc", "format", "args", "newline", "i", "IN_FORMAT_SPEC", "spec_start",
           "str", "value", "base", "k"}

Places == {"idle", "scan", "digits", "prefix", "buffer", "string", "halted"}

\* Where the digits are: v is left to print, k is the place of the next digit.
Room(pc, base, v, k) ==
  /\ pc \in {"digits", "prefix"} => base \in {2, 10, 16}
  /\ pc = "digits" => k \in 2..(WordBits + 1) /\ v < 2 ^ (k - 1)
  /\ pc = "prefix" => k \in 1..WordBits
  /\ pc = "buffer" => k \in 0..(WordBits + 2)

InSpec(spec, start, i) ==
  spec \in BOOLEAN /\ i \in Nat \ {0} /\ (spec => start \in 1..(i - 1))

FrameOK(f) ==
  /\ DOMAIN f = Fields /\ f.pc \in Places
  /\ f.value \in 0..(2 ^ WordBits - 1)
  /\ InSpec(f.IN_FORMAT_SPEC, f.spec_start, f.i)
  /\ Room(f.pc, f.base, f.value, f.k)

BufferOK(b) == DOMAIN b = 0..(WordBits + 2) /\ b[WordBits + 2] = "NUL"

KprintInv ==
  /\ put \in {"NULL", "uart_put_char"} /\ SIE \in BOOLEAN
  /\ BufferOK(buf)
  /\ DOMAIN frame = Contexts /\ \A c \in Contexts : FrameOK(frame[c])

\* The size of a word and the largest one.
LEMMA WordFacts ==
  /\ WordBits \in Nat \ {0}
  /\ 2 ^ WordBits \in Nat \ {0} /\ WordBits < 2 ^ WordBits
  /\ MAX_INT_BUF_SIZE = WordBits + 3
<1>1. WordBits \in Nat \ {0}
  BY WordBitsAssumption, KprintAssumption
<1> QED
  BY <1>1, PowerDoubles, BelowPower DEF MAX_INT_BUF_SIZE

\* The invariant implies TypeOK.
LEMMA KprintTypes == KprintInv => TypeOK
<1> SUFFICES ASSUME KprintInv PROVE TypeOK
  OBVIOUS
<1>1. WordBits \in Nat \ {0} /\ MAX_INT_BUF_SIZE = WordBits + 3
  BY WordFacts
<1>2. MAX_INT_BUF_SIZE - 1 = WordBits + 2
  BY <1>1
<1>3. DOMAIN buf = 0..(MAX_INT_BUF_SIZE - 1) /\ buf[MAX_INT_BUF_SIZE - 1] = "NUL"
  BY <1>2 DEF KprintInv, BufferOK
<1>4. DOMAIN buf = 0..(WordBits + 2)
  BY DEF KprintInv, BufferOK
<1>5. ASSUME NEW c \in Contexts
      PROVE  /\ frame[c].pc \in Places
             /\ frame[c].value \in 0..(2 ^ WordBits - 1)
             /\ frame[c].IN_FORMAT_SPEC => frame[c].spec_start \in 1..(frame[c].i - 1)
             /\ frame[c].pc \in {"digits", "buffer"} => frame[c].k \in DOMAIN buf
             /\ frame[c].pc = "prefix" =>
                  frame[c].k >= Len(Letter(frame[c].base)) /\ frame[c].k \in DOMAIN buf
  <2> DEFINE f == frame[c]
  <2>1. FrameOK(f)
    BY DEF KprintInv
  <2> HIDE DEF f
  <2>2. /\ f.pc \in Places /\ f.value \in 0..(2 ^ WordBits - 1)
        /\ f.IN_FORMAT_SPEC => f.spec_start \in 1..(f.i - 1)
        /\ Room(f.pc, f.base, f.value, f.k)
    BY <2>1 DEF FrameOK, InSpec
  <2>3. /\ f.pc = "digits" => f.k \in 2..(WordBits + 1)
        /\ f.pc = "prefix" => f.k \in 1..WordBits
        /\ f.pc = "buffer" => f.k \in 0..(WordBits + 2)
    BY <2>2 DEF Room
  <2>4. f.pc \in {"digits", "buffer"} => f.k \in DOMAIN buf
    BY <2>3, <1>1, <1>4
  <2>5. Len(Letter(f.base)) \in {0, 1}
    BY DEF Letter
  <2>6. f.pc = "prefix" => f.k >= Len(Letter(f.base)) /\ f.k \in DOMAIN buf
    <3>1. SUFFICES ASSUME f.pc = "prefix" PROVE f.k >= Len(Letter(f.base)) /\ f.k \in DOMAIN buf
      OBVIOUS
    <3>2. PICK n \in {0, 1} : n = Len(Letter(f.base))
      BY <2>5
    <3>3. f.k \in 1..WordBits
      BY <3>1, <2>3
    <3>4. f.k >= n /\ f.k \in 0..(WordBits + 2)
      BY <3>2, <3>3, <1>1
    <3> QED
      BY <3>2, <3>4, <1>4
  <2> QED
    BY <2>2, <2>4, <2>6 DEF f
<1> QED
  BY <1>3, <1>5 DEF TypeOK, KprintInv, Places

\* A frame that stands still in its number: only pc, i and what is left of the
\* format, the arguments and the string change.
LEMMA ScanFrame ==
  ASSUME NEW f, FrameOK(f), NEW g, DOMAIN g = Fields, g.pc \in {"scan", "string", "idle", "halted"},
         g.value = f.value, InSpec(g.IN_FORMAT_SPEC, g.spec_start, g.i)
  PROVE  FrameOK(g)
BY DEF FrameOK, Room, Places

\* One context goes on.
LEMMA FrameStep ==
  ASSUME KprintInv, NEW c \in Contexts, NEW g, FrameOK(g), Goto(c, g),
         BufferOK(buf'), UNCHANGED <<put, SIE>>
  PROVE  KprintInv'
<1>1. DOMAIN frame = Contexts /\ \A d \in Contexts : FrameOK(frame[d])
  BY DEF KprintInv
<1>2. frame' = [frame EXCEPT ![c] = g]
  BY DEF Goto
<1>3. DOMAIN frame' = Contexts /\ \A d \in Contexts : frame'[d] = IF d = c THEN g ELSE frame[d]
  BY <1>1, <1>2
<1>4. \A d \in Contexts : FrameOK(frame'[d])
  BY <1>1, <1>3
<1> QED
  BY <1>3, <1>4 DEF KprintInv

-----------------------------------------------------------------------------
(***************************************************************************)
(* The index of kprint_print_int.                                          *)
(***************************************************************************)

\* It goes down without wrapping, but from 0.
LEMMA BelowIs ==
  /\ \A k \in 1..(WordBits + 1) : Below(k) = k - 1
  /\ (Below(0) + 1) % 2 ^ WordBits = 0
  /\ \A k \in 0..WordBits : (k + 1) % 2 ^ WordBits \in 0..(WordBits + 1)
  /\ \A k \in 0..(WordBits - 1) : (k + 1) % 2 ^ WordBits = k + 1
<1>1. PICK P \in Nat \ {0} : P = 2 ^ WordBits /\ WordBits < P /\ WordBits \in Nat
  BY WordFacts
<1>2. \A x \in 0..WordBits : x % P = x
  BY <1>1
<1>3. \A k \in 1..(WordBits + 1) : k - 1 \in 0..WordBits
  BY <1>1
<1>4. \A k \in 1..(WordBits + 1) : Below(k) = k - 1
  BY <1>1, <1>2, <1>3 DEF Below
<1>5. (0 - 1) % P = P - 1 /\ ((P - 1) + 1) % P = 0
  BY <1>1
<1>6. ASSUME NEW k \in 0..WordBits PROVE (k + 1) % P \in 0..(WordBits + 1)
  <2>1. CASE k + 1 < P
    BY <2>1, <1>1
  <2>2. CASE ~(k + 1 < P)
    <3>1. k + 1 = P
      BY <2>2, <1>1
    <3>2. P % P = 0
      BY <1>1
    <3> QED
      BY <3>1, <3>2, <1>1
  <2> QED
    BY <2>1, <2>2
<1>7. \A k \in 0..(WordBits - 1) : (k + 1) % P = k + 1
  BY <1>1
<1> QED
  BY <1>1, <1>4, <1>5, <1>6, <1>7 DEF Below

\* A character stored in front of the last one leaves the NUL.
LEMMA Stored ==
  ASSUME NEW b, BufferOK(b), NEW k \in 0..(WordBits + 1), NEW char
  PROVE  BufferOK([b EXCEPT ![k] = char])
<1>1. DOMAIN b = 0..(WordBits + 2) /\ b[WordBits + 2] = "NUL" /\ WordBits \in Nat
  BY WordFacts DEF BufferOK
<1>2. k # WordBits + 2 /\ WordBits + 2 \in 0..(WordBits + 2)
  BY <1>1
<1> QED
  BY <1>1, <1>2 DEF BufferOK

\* A number from an argument: all its digits have room.
LEMMA NumberFrame ==
  ASSUME NEW f, FrameOK(f), NEW v \in 0..(2 ^ WordBits - 1), NEW base \in {2, 10, 16}
  PROVE  FrameOK(kprint_print_int(f, v, base))
<1> DEFINE g == kprint_print_int(f, v, base)
<1>1. DOMAIN f = Fields /\ InSpec(f.IN_FORMAT_SPEC, f.spec_start, f.i)
  BY DEF FrameOK
<1>2. WordBits \in Nat \ {0} /\ MAX_INT_BUF_SIZE - 2 = WordBits + 1 /\ 2 ^ WordBits \in Nat
  BY WordFacts
<1>3. /\ DOMAIN g = Fields /\ g.pc = "digits" /\ g.value = v /\ g.base = base
      /\ g.k = WordBits + 1
      /\ g.IN_FORMAT_SPEC = f.IN_FORMAT_SPEC /\ g.spec_start = f.spec_start /\ g.i = f.i
  BY <1>1, <1>2 DEF kprint_print_int, Fields
<1> HIDE DEF g
<1>4. (WordBits + 1) - 1 = WordBits /\ WordBits + 1 \in 2..(WordBits + 1) /\ v < 2 ^ WordBits
  BY <1>2
<1>5. Room(g.pc, g.base, g.value, g.k)
  BY <1>3, <1>4 DEF Room
<1> QED
  BY <1>1, <1>3, <1>5 DEF FrameOK, Places, g

\* What stays to print fits in what stays of the buffer.
LEMMA DigitsShrink ==
  ASSUME NEW v \in Nat, NEW k \in 2..(WordBits + 1), v < 2 ^ (k - 1), NEW base \in {2, 10, 16}
  PROVE  /\ v \div base \in Nat /\ v \div base <= v
         /\ v \div base < 2 ^ (k - 2)
<1>1. WordBits \in Nat
  BY WordFacts
<1>2. PICK n \in Nat : n = k - 2 /\ n + 1 = k - 1
  BY <1>1
<1>3. PICK P \in Nat \ {0} : P = 2 ^ n /\ 2 ^ (n + 1) = 2 * P
  BY PowerDoubles
<1>4. v < 2 * P
  BY <1>2, <1>3
<1>5. v \div base \in Nat /\ v \div base <= v /\ v \div base < P
  BY <1>4
<1> QED
  BY <1>2, <1>3, <1>5

-----------------------------------------------------------------------------
(***************************************************************************)
(* The actions.                                                            *)
(***************************************************************************)

\* A frame in use, by its place.
LEMMA FrameFacts ==
  ASSUME KprintInv, NEW c \in Contexts
  PROVE  /\ FrameOK(frame[c]) /\ DOMAIN frame[c] = Fields /\ BufferOK(buf)
         /\ frame[c].value \in 0..(2 ^ WordBits - 1)
         /\ InSpec(frame[c].IN_FORMAT_SPEC, frame[c].spec_start, frame[c].i)
         /\ Room(frame[c].pc, frame[c].base, frame[c].value, frame[c].k)
BY DEF KprintInv, FrameOK

\* The digit of a zero.
LEMMA ZeroStep ==
  ASSUME KprintInv, NEW c \in Contexts, zero_digit(c)
  PROVE  KprintInv'
<1> DEFINE f == frame[c]
           g == [f EXCEPT !.pc = "prefix", !.k = Below(@)]
<1>1. /\ FrameOK(f) /\ DOMAIN f = Fields /\ BufferOK(buf) /\ f.value \in 0..(2 ^ WordBits - 1)
      /\ InSpec(f.IN_FORMAT_SPEC, f.spec_start, f.i) /\ Room(f.pc, f.base, f.value, f.k)
  BY FrameFacts
<1>2. /\ f.pc = "digits" /\ buf' = [buf EXCEPT ![f.k] = "0"] /\ Goto(c, g)
      /\ UNCHANGED <<put, SIE>>
  BY DEF zero_digit, At
<1>3. f.base \in {2, 10, 16} /\ f.k \in 2..(WordBits + 1) /\ WordBits \in Nat
  BY <1>1, <1>2, WordFacts DEF Room
<1>4. f.k \in 1..(WordBits + 1) /\ f.k \in 0..(WordBits + 1) /\ f.k - 1 \in 1..WordBits
  BY <1>3
<1>5. Below(f.k) \in 1..WordBits
  BY <1>4, BelowIs
<1>6. /\ DOMAIN g = Fields /\ g.pc = "prefix" /\ g.value = f.value /\ g.base = f.base
      /\ g.k = Below(f.k) /\ g.IN_FORMAT_SPEC = f.IN_FORMAT_SPEC
      /\ g.spec_start = f.spec_start /\ g.i = f.i
  BY <1>1 DEF Fields
<1>7. BufferOK(buf')
  BY <1>1, <1>2, <1>4, Stored
<1> HIDE DEF g, f
<1>8. Room(g.pc, g.base, g.value, g.k)
  BY <1>3, <1>5, <1>6 DEF Room
<1>9. FrameOK(g)
  BY <1>1, <1>6, <1>8 DEF FrameOK, Places
<1> QED
  BY <1>2, <1>7, <1>9, FrameStep

\* A digit.
LEMMA DigitStep ==
  ASSUME KprintInv, NEW c \in Contexts, next_digit(c)
  PROVE  KprintInv'
<1> DEFINE f == frame[c]
           rest == f.value \div f.base
           pc == IF rest = 0 \/ Below(f.k) = 0 THEN "prefix" ELSE "digits"
           g == [f EXCEPT !.k = Below(@), !.value = rest, !.pc = pc]
<1>1. /\ FrameOK(f) /\ DOMAIN f = Fields /\ BufferOK(buf) /\ f.value \in 0..(2 ^ WordBits - 1)
      /\ InSpec(f.IN_FORMAT_SPEC, f.spec_start, f.i) /\ Room(f.pc, f.base, f.value, f.k)
  BY FrameFacts
<1>2. /\ f.pc = "digits" /\ f.value # 0
      /\ buf' = [buf EXCEPT ![f.k] = Digit(f.value % f.base)] /\ Goto(c, g)
      /\ UNCHANGED <<put, SIE>>
  BY DEF next_digit, At
<1>3. /\ f.base \in {2, 10, 16} /\ f.k \in 2..(WordBits + 1) /\ f.value < 2 ^ (f.k - 1)
      /\ WordBits \in Nat /\ 2 ^ WordBits \in Nat
  BY <1>1, <1>2, WordFacts DEF Room
<1>4. f.value \in Nat /\ f.k \in 1..(WordBits + 1) /\ f.k \in 0..(WordBits + 1)
  BY <1>1, <1>3
<1>5. rest \in Nat /\ rest <= f.value /\ rest < 2 ^ (f.k - 2)
  BY <1>3, <1>4, DigitsShrink
<1>6. Below(f.k) = f.k - 1
  BY <1>4, BelowIs
<1>7. /\ DOMAIN g = Fields /\ g.pc = pc /\ g.value = rest /\ g.base = f.base
      /\ g.k = f.k - 1 /\ g.IN_FORMAT_SPEC = f.IN_FORMAT_SPEC
      /\ g.spec_start = f.spec_start /\ g.i = f.i
  BY <1>1, <1>6 DEF Fields
<1>8. BufferOK(buf')
  BY <1>1, <1>2, <1>4, Stored
<1>9. pc = IF rest = 0 THEN "prefix" ELSE "digits"
  BY <1>3, <1>6
<1> HIDE DEF pc, g, rest, f
<1>10. rest \in 0..(2 ^ WordBits - 1)
  BY <1>1, <1>3, <1>4, <1>5
<1>11. Room(pc, f.base, rest, f.k - 1)
  <2>1. f.k - 1 \in 1..WordBits /\ (f.k - 1) - 1 = f.k - 2
    BY <1>3
  <2>2. rest # 0 => f.k - 1 \in 2..(WordBits + 1)
    <3>1. SUFFICES ASSUME rest # 0, f.k = 2 PROVE FALSE
      BY <1>3
    <3>2. rest < 1
      BY <3>1, <1>5, PowerZero
    <3> QED
      BY <3>1, <3>2, <1>5
  <2> QED
    BY <2>1, <2>2, <1>3, <1>5, <1>9 DEF Room
<1>12. Room(g.pc, g.base, g.value, g.k) /\ g.pc \in Places
  BY <1>7, <1>9, <1>11 DEF Places
<1>13. FrameOK(g)
  BY <1>1, <1>7, <1>10, <1>12 DEF FrameOK
<1> QED
  BY <1>2, <1>8, <1>13, FrameStep

\* The prefix, two characters or none.
LEMMA PrefixStep ==
  ASSUME KprintInv, NEW c \in Contexts, prefix(c)
  PROVE  KprintInv'
<1> DEFINE f == frame[c]
           Go(k) == [f EXCEPT !.pc = "buffer", !.k = k]
<1>1. /\ FrameOK(f) /\ DOMAIN f = Fields /\ BufferOK(buf) /\ f.value \in 0..(2 ^ WordBits - 1)
      /\ InSpec(f.IN_FORMAT_SPEC, f.spec_start, f.i) /\ Room(f.pc, f.base, f.value, f.k)
  BY FrameFacts
<1>2. f.pc = "prefix" /\ UNCHANGED <<put, SIE>>
  BY DEF prefix, At
<1>3. f.k \in 1..WordBits /\ WordBits \in Nat
  BY <1>1, <1>2, WordFacts DEF Room
<1>4. ASSUME NEW k \in 0..(WordBits + 2) PROVE FrameOK(Go(k))
  <2>1. /\ DOMAIN Go(k) = Fields /\ Go(k).pc = "buffer" /\ Go(k).value = f.value
        /\ Go(k).k = k /\ Go(k).IN_FORMAT_SPEC = f.IN_FORMAT_SPEC
        /\ Go(k).spec_start = f.spec_start /\ Go(k).i = f.i
    BY <1>1 DEF Fields
  <2> HIDE DEF Go, f
  <2>2. Room(Go(k).pc, Go(k).base, Go(k).value, Go(k).k)
    BY <2>1 DEF Room
  <2> QED
    BY <2>1, <2>2, <1>1 DEF FrameOK, Places
<1>5. CASE buf' = buf /\ Goto(c, Go((f.k + 1) % 2 ^ WordBits))
  <2> DEFINE k == (f.k + 1) % 2 ^ WordBits
  <2>1. f.k \in 0..WordBits
    BY <1>3
  <2>2. k \in 0..(WordBits + 1)
    BY <2>1, BelowIs
  <2> HIDE DEF k
  <2>3. k \in 0..(WordBits + 2)
    BY <2>2, <1>3
  <2>4. FrameOK(Go(k)) /\ Goto(c, Go(k)) /\ BufferOK(buf')
    BY <2>3, <1>1, <1>4, <1>5 DEF k
  <2> HIDE DEF Go, f
  <2> QED
    BY <2>4, <1>2, FrameStep
<1>6. CASE /\ buf' = [buf EXCEPT ![f.k] = Letter(f.base)[1], ![Below(f.k)] = "0"]
           /\ Goto(c, Go((Below(Below(f.k)) + 1) % 2 ^ WordBits))
  <2> DEFINE k == (Below(Below(f.k)) + 1) % 2 ^ WordBits
             b == [buf EXCEPT ![f.k] = Letter(f.base)[1]]
  <2>1. /\ f.k \in 1..(WordBits + 1) /\ f.k \in 0..(WordBits + 1)
        /\ f.k - 1 \in 0..(WordBits + 1)
    BY <1>3
  <2>2. Below(f.k) = f.k - 1
    BY <2>1, BelowIs
  <2>3. BufferOK(b)
    BY <2>1, <1>1, Stored
  <2>4. BufferOK([b EXCEPT ![Below(f.k)] = "0"])
    <3> HIDE DEF b, f
    <3> QED
      BY <2>1, <2>2, <2>3, Stored
  <2>5. BufferOK(buf')
    BY <2>4, <1>6
  <2>6. k \in 0..(WordBits + 2)
    <3>1. CASE f.k = 1
      <4>1. Below(f.k) = 0
        BY <3>1, <2>2
      <4> QED
        BY <4>1, <1>3, BelowIs
    <3>2. CASE f.k # 1
      <4>1. f.k - 1 \in 1..(WordBits + 1) /\ f.k - 2 \in 0..(WordBits - 1) /\ (f.k - 1) - 1 = f.k - 2
        BY <3>2, <1>3
      <4>2. Below(Below(f.k)) = f.k - 2
        BY <4>1, <2>2, BelowIs
      <4>3. k = (f.k - 2) + 1
        BY <4>1, <4>2, BelowIs
      <4> QED
        BY <4>3, <1>3
    <3> QED
      BY <3>1, <3>2
  <2> HIDE DEF k
  <2>7. FrameOK(Go(k)) /\ Goto(c, Go(k))
    BY <2>6, <1>4, <1>6 DEF k
  <2> HIDE DEF Go, f
  <2> QED
    BY <2>5, <2>7, <1>2, FrameStep
<1> QED
  BY <1>5, <1>6 DEF prefix

\* A character of the buffer, or its end.
LEMMA BufferStep ==
  ASSUME KprintInv, NEW c \in Contexts, print_buffer(c)
  PROVE  KprintInv'
<1> DEFINE f == frame[c]
<1>1. /\ FrameOK(f) /\ DOMAIN f = Fields /\ BufferOK(buf) /\ f.value \in 0..(2 ^ WordBits - 1)
      /\ InSpec(f.IN_FORMAT_SPEC, f.spec_start, f.i) /\ Room(f.pc, f.base, f.value, f.k)
  BY FrameFacts
<1>2. f.pc = "buffer" /\ UNCHANGED <<put, SIE>> /\ buf' = buf
  BY DEF print_buffer, At
<1>3. f.k \in 0..(WordBits + 2) /\ WordBits \in Nat /\ buf[WordBits + 2] = "NUL"
  BY <1>1, <1>2, WordFacts DEF Room, BufferOK
<1>4. CASE buf[f.k] # "NUL" /\ Goto(c, [f EXCEPT !.k = @ + 1])
  <2> DEFINE g == [f EXCEPT !.k = @ + 1]
  <2>1. /\ DOMAIN g = Fields /\ g.pc = f.pc /\ g.value = f.value /\ g.base = f.base
        /\ g.k = f.k + 1 /\ g.IN_FORMAT_SPEC = f.IN_FORMAT_SPEC
        /\ g.spec_start = f.spec_start /\ g.i = f.i
    BY <1>1 DEF Fields
  <2>2. f.k # WordBits + 2
    BY <1>3, <1>4
  <2>3. f.k + 1 \in 0..(WordBits + 2)
    BY <2>2, <1>3
  <2>4. Goto(c, g)
    BY <1>4
  <2> HIDE DEF f, g
  <2>5. Room(g.pc, g.base, g.value, g.k)
    BY <2>1, <2>3, <1>2 DEF Room
  <2>6. FrameOK(g)
    BY <2>1, <2>5, <1>1, <1>2 DEF FrameOK, Places
  <2> QED
    BY <2>4, <2>6, <1>1, <1>2, FrameStep
<1>5. CASE Goto(c, [f EXCEPT !.pc = "scan"])
  <2> DEFINE g == [f EXCEPT !.pc = "scan"]
  <2>1. /\ DOMAIN g = Fields /\ g.pc = "scan" /\ g.value = f.value
        /\ g.IN_FORMAT_SPEC = f.IN_FORMAT_SPEC /\ g.spec_start = f.spec_start /\ g.i = f.i
    BY <1>1 DEF Fields
  <2>2. Goto(c, g)
    BY <1>5
  <2> HIDE DEF f, g
  <2>3. FrameOK(g)
    BY <2>1, <1>1, ScanFrame
  <2> QED
    BY <2>2, <2>3, <1>1, <1>2, FrameStep
<1> QED
  BY <1>4, <1>5 DEF print_buffer

\* A character of a string, or its end.
LEMMA StringStep ==
  ASSUME KprintInv, NEW c \in Contexts, print_string(c)
  PROVE  KprintInv'
<1> DEFINE f == frame[c]
<1>1. /\ FrameOK(f) /\ DOMAIN f = Fields /\ BufferOK(buf)
      /\ InSpec(f.IN_FORMAT_SPEC, f.spec_start, f.i)
  BY FrameFacts
<1>2. f.pc = "string" /\ UNCHANGED <<put, SIE>> /\ buf' = buf
  BY DEF print_string, At
<1>3. ASSUME NEW g, g = [f EXCEPT !.str = Tail(@)] \/ g = [f EXCEPT !.pc = "scan"]
      PROVE  FrameOK(g)
  <2>1. /\ DOMAIN g = Fields /\ g.pc \in {"scan", "string"} /\ g.value = f.value
        /\ g.IN_FORMAT_SPEC = f.IN_FORMAT_SPEC /\ g.spec_start = f.spec_start /\ g.i = f.i
    BY <1>1, <1>2, <1>3 DEF Fields
  <2> HIDE DEF f
  <2> QED
    BY <2>1, <1>1, ScanFrame
<1>4. \E g : FrameOK(g) /\ Goto(c, g)
  BY <1>3 DEF print_string
<1> QED
  BY <1>1, <1>2, <1>4, FrameStep

\* A brace that opens a directive, or the second one of an escape.
LEMMA OpenStep ==
  ASSUME KprintInv, NEW c \in Contexts, open_brace(c)
  PROVE  KprintInv'
<1> DEFINE f == frame[c]
           start == IF f.IN_FORMAT_SPEC THEN f.spec_start ELSE f.i
           g == [Advance(f) EXCEPT !.IN_FORMAT_SPEC = ~f.IN_FORMAT_SPEC,
                                   !.spec_start = IF f.IN_FORMAT_SPEC THEN @ ELSE f.i]
<1>1. /\ FrameOK(f) /\ DOMAIN f = Fields /\ BufferOK(buf)
      /\ InSpec(f.IN_FORMAT_SPEC, f.spec_start, f.i)
  BY FrameFacts
<1>2. f.pc = "scan" /\ UNCHANGED <<put, SIE>> /\ buf' = buf /\ Goto(c, g)
  BY DEF open_brace, Scan, At
<1>3. f.IN_FORMAT_SPEC \in BOOLEAN /\ f.i \in Nat \ {0}
  BY <1>1 DEF InSpec
<1>4. /\ DOMAIN g = Fields /\ g.pc = f.pc /\ g.value = f.value
      /\ g.spec_start = start /\ g.i = f.i + 1
  BY <1>1 DEF Fields, Advance
<1>5. g.IN_FORMAT_SPEC = ~f.IN_FORMAT_SPEC
  BY <1>1 DEF Fields, Advance
<1>6. InSpec(g.IN_FORMAT_SPEC, g.spec_start, g.i)
  <2>1. CASE f.IN_FORMAT_SPEC
    <3>1. g.IN_FORMAT_SPEC \in BOOLEAN /\ ~g.IN_FORMAT_SPEC
      <4> HIDE DEF f, g
      <4> QED
        BY <2>1, <1>3, <1>5, Zenon
    <3>2. g.i \in Nat \ {0}
      BY <1>3, <1>4
    <3> QED
      BY <3>1, <3>2 DEF InSpec
  <2>2. CASE ~f.IN_FORMAT_SPEC
    <3>1. g.IN_FORMAT_SPEC = TRUE
      BY <2>2, <1>3, <1>5
    <3>2. g.spec_start = f.i
      BY <2>2, <1>4
    <3>3. g.i \in Nat \ {0} /\ f.i \in 1..(g.i - 1)
      BY <1>3, <1>4
    <3> QED
      BY <3>1, <3>2, <3>3 DEF InSpec
  <2> QED
    BY <2>1, <2>2
<1> HIDE DEF f, g, start
<1>7. FrameOK(g)
  BY <1>1, <1>2, <1>4, <1>6, ScanFrame
<1> QED
  BY <1>1, <1>2, <1>7, FrameStep

\* A character that is no brace.
LEMMA OtherStep ==
  ASSUME KprintInv, NEW c \in Contexts, other_char(c)
  PROVE  KprintInv'
<1> DEFINE f == frame[c]
           g == Advance(f)
<1>1. /\ FrameOK(f) /\ DOMAIN f = Fields /\ BufferOK(buf)
      /\ InSpec(f.IN_FORMAT_SPEC, f.spec_start, f.i)
  BY FrameFacts
<1>2. f.pc = "scan" /\ UNCHANGED <<put, SIE>> /\ buf' = buf /\ Goto(c, g)
  BY DEF other_char, Scan, At
<1>3. /\ DOMAIN g = Fields /\ g.pc = f.pc /\ g.value = f.value
      /\ g.IN_FORMAT_SPEC = f.IN_FORMAT_SPEC /\ g.spec_start = f.spec_start /\ g.i = f.i + 1
  BY <1>1 DEF Fields, Advance
<1> HIDE DEF f, g
<1>4. InSpec(f.IN_FORMAT_SPEC, f.spec_start, f.i + 1)
  <2>1. f.i \in Nat \ {0} /\ f.i + 1 \in Nat \ {0}
    BY <1>1 DEF InSpec
  <2>2. ASSUME f.IN_FORMAT_SPEC PROVE f.spec_start \in 1..((f.i + 1) - 1)
    <3>1. f.spec_start \in 1..(f.i - 1)
      BY <2>2, <1>1 DEF InSpec
    <3> QED
      BY <3>1, <2>1
  <2> QED
    BY <2>1, <2>2, <1>1 DEF InSpec
<1>5. FrameOK(g)
  BY <1>1, <1>2, <1>3, <1>4, ScanFrame
<1> QED
  BY <1>1, <1>2, <1>5, FrameStep

\* A frame behind its directive.
LEMMA SpecStep ==
  ASSUME NEW f, FrameOK(f), f.pc = "scan", NEW spec,
         spec \in {<<"D">>, <<"X">>, <<"B">>} => f.args[1].word \in 0..(2 ^ WordBits - 1)
  PROVE  FrameOK(SpecFrame(f, spec))
<1>1. DOMAIN f = Fields /\ InSpec(f.IN_FORMAT_SPEC, f.spec_start, f.i)
  BY DEF FrameOK
<1>2. ASSUME NEW n PROVE FrameOK(Taken(f, n)) /\ DOMAIN Taken(f, n) = Fields
  <2> DEFINE g == Taken(f, n)
  <2>1. /\ DOMAIN g = Fields /\ g.pc = f.pc /\ g.value = f.value
        /\ g.IN_FORMAT_SPEC = f.IN_FORMAT_SPEC /\ g.spec_start = f.spec_start /\ g.i = f.i
    BY <1>1 DEF Fields, Taken
  <2> HIDE DEF g
  <2>2. FrameOK(g)
    BY <2>1, <1>1, ScanFrame
  <2> QED
    BY <2>1, <2>2 DEF g
<1>3. ASSUME NEW n, NEW s PROVE FrameOK([Taken(f, n) EXCEPT !.pc = "string", !.str = s])
  <2> DEFINE h == Taken(f, n)
             g == [h EXCEPT !.pc = "string", !.str = s]
  <2>1. FrameOK(h) /\ DOMAIN h = Fields
    BY <1>2
  <2> HIDE DEF h
  <2>2. /\ DOMAIN g = Fields /\ g.pc = "string" /\ g.value = h.value
        /\ g.IN_FORMAT_SPEC = h.IN_FORMAT_SPEC /\ g.spec_start = h.spec_start /\ g.i = h.i
    BY <2>1 DEF Fields
  <2>3. InSpec(h.IN_FORMAT_SPEC, h.spec_start, h.i)
    BY <2>1 DEF FrameOK
  <2> HIDE DEF g
  <2>4. FrameOK(g)
    BY <2>1, <2>2, <2>3, ScanFrame
  <2> QED
    BY <2>4 DEF g, h
<1>4. FrameOK([f EXCEPT !.pc = "halted"])
  <2> DEFINE g == [f EXCEPT !.pc = "halted"]
  <2>1. /\ DOMAIN g = Fields /\ g.pc = "halted" /\ g.value = f.value
        /\ g.IN_FORMAT_SPEC = f.IN_FORMAT_SPEC /\ g.spec_start = f.spec_start /\ g.i = f.i
    BY <1>1 DEF Fields
  <2> HIDE DEF g
  <2>2. FrameOK(g)
    BY <2>1, <1>1, ScanFrame
  <2> QED
    BY <2>2 DEF g
<1>5. ASSUME spec \in {<<"D">>, <<"X">>, <<"B">>}, NEW base \in {2, 10, 16}
      PROVE  FrameOK(kprint_print_int(Taken(f, 1), f.args[1].word, base))
  BY <1>2, <1>5, NumberFrame
<1>6. <<"S">> # <<"V">> /\ <<"S">> # <<"C">> /\ <<"S">> # <<"D">> /\ <<"S">> # <<"X">> /\ <<"S">> # <<"B">>
  OBVIOUS
<1>7. <<"V">> # <<"C">> /\ <<"V">> # <<"D">> /\ <<"V">> # <<"X">> /\ <<"V">> # <<"B">>
  OBVIOUS
<1>8. <<"C">> # <<"D">> /\ <<"C">> # <<"X">> /\ <<"C">> # <<"B">>
  OBVIOUS
<1>9. <<"D">> # <<"X">> /\ <<"D">> # <<"B">> /\ <<"X">> # <<"B">>
  OBVIOUS
<1> DEFINE Text1 == UpToNul(f.args[1].data)
           Text2 == SubSeq(f.args[1].data, 1, f.args[2].word)
           Text3 == SubSeq(f.args[1].data, 1, 1)
           word == f.args[1].word
<1>10. SpecFrame(f, spec) \in
         {[Taken(f, 1) EXCEPT !.pc = "string", !.str = Text1],
          [Taken(f, 2) EXCEPT !.pc = "string", !.str = Text2],
          [Taken(f, 1) EXCEPT !.pc = "string", !.str = Text3],
          [f EXCEPT !.pc = "halted"]}
       \/ (spec \in {<<"D">>, <<"X">>, <<"B">>}
           /\ SpecFrame(f, spec) \in {kprint_print_int(Taken(f, 1), word, b) : b \in {2, 10, 16}})
  <2> HIDE DEF Text1, Text2, Text3, word
  <2>1. CASE spec = <<"S">>
    BY <2>1, <1>6 DEF SpecFrame, Text1
  <2>2. CASE spec = <<"V">>
    BY <2>2, <1>6, <1>7 DEF SpecFrame, Text2
  <2>3. CASE spec = <<"C">>
    BY <2>3, <1>6, <1>7, <1>8 DEF SpecFrame, Text3
  <2>4. CASE spec = <<"D">>
    BY <2>4, <1>6, <1>7, <1>8, <1>9 DEF SpecFrame, word
  <2>5. CASE spec = <<"X">>
    BY <2>5, <1>6, <1>7, <1>8, <1>9 DEF SpecFrame, word
  <2>6. CASE spec = <<"B">>
    BY <2>6, <1>6, <1>7, <1>8, <1>9 DEF SpecFrame, word
  <2>7. CASE spec \notin {<<"S">>, <<"V">>, <<"C">>, <<"D">>, <<"X">>, <<"B">>}
    BY <2>7 DEF SpecFrame
  <2> QED
    BY <2>1, <2>2, <2>3, <2>4, <2>5, <2>6, <2>7
<1>11. ASSUME spec \in {<<"D">>, <<"X">>, <<"B">>},
              SpecFrame(f, spec) \in {kprint_print_int(Taken(f, 1), word, b) : b \in {2, 10, 16}}
       PROVE  FrameOK(SpecFrame(f, spec))
  BY <1>5, <1>11
<1>12. /\ FrameOK([Taken(f, 1) EXCEPT !.pc = "string", !.str = Text1])
       /\ FrameOK([Taken(f, 2) EXCEPT !.pc = "string", !.str = Text2])
       /\ FrameOK([Taken(f, 1) EXCEPT !.pc = "string", !.str = Text3])
  <2> HIDE DEF Text1, Text2, Text3
  <2> QED
    BY <1>3
<1> QED
  <2> HIDE DEF Text1, Text2, Text3, word
  <2> QED
    BY <1>4, <1>10, <1>11, <1>12

\* A brace that closes a directive, or stands alone.
LEMMA CloseStep ==
  ASSUME KprintInv, ArgumentsGiven, NEW c \in Contexts, close_brace(c)
  PROVE  KprintInv'
<1> DEFINE f == frame[c]
           spec == sv_substr(f.format, f.spec_start, f.i - f.spec_start - 1)
           h == [Advance(f) EXCEPT !.IN_FORMAT_SPEC = FALSE]
           g == Advance(f)
<1>1. /\ FrameOK(f) /\ DOMAIN f = Fields /\ BufferOK(buf)
      /\ InSpec(f.IN_FORMAT_SPEC, f.spec_start, f.i)
  BY FrameFacts
<1>2. /\ f.pc = "scan" /\ UNCHANGED <<put, SIE>> /\ buf' = buf
      /\ f.i <= Len(f.format) /\ f.format[f.i] = "}"
  BY DEF close_brace, Scan, At
<1>3. \/ f.IN_FORMAT_SPEC /\ Goto(c, SpecFrame(h, spec))
      \/ ~f.IN_FORMAT_SPEC /\ Goto(c, g)
  BY DEF close_brace
<1>4. f.i + 1 \in Nat \ {0}
  BY <1>1 DEF InSpec
<1>5. /\ DOMAIN h = Fields /\ h.pc = f.pc /\ h.value = f.value /\ h.args = f.args
      /\ h.spec_start = f.spec_start /\ h.i = f.i + 1
  BY <1>1 DEF Fields, Advance
<1>6. h.IN_FORMAT_SPEC = FALSE
  BY <1>1 DEF Fields, Advance
<1>7. /\ DOMAIN g = Fields /\ g.pc = f.pc /\ g.value = f.value
      /\ g.IN_FORMAT_SPEC = f.IN_FORMAT_SPEC /\ g.spec_start = f.spec_start /\ g.i = f.i + 1
  BY <1>1 DEF Fields, Advance
<1>8. CASE f.IN_FORMAT_SPEC
  <2>1. spec \in {<<"D">>, <<"X">>, <<"B">>} => f.args[1].word \in 0..(2 ^ WordBits - 1)
    BY <1>2, <1>8 DEF ArgumentsGiven
  <2>2. Goto(c, SpecFrame(h, spec))
    BY <1>3, <1>8
  <2> HIDE DEF f, h, g, spec
  <2>3. InSpec(h.IN_FORMAT_SPEC, h.spec_start, h.i)
    BY <1>4, <1>5, <1>6 DEF InSpec
  <2>4. FrameOK(h)
    BY <2>3, <1>1, <1>2, <1>5, ScanFrame
  <2>5. h.pc = "scan" /\ (spec \in {<<"D">>, <<"X">>, <<"B">>} => h.args[1].word \in 0..(2 ^ WordBits - 1))
    BY <2>1, <1>2, <1>5
  <2>6. FrameOK(SpecFrame(h, spec))
    BY <2>4, <2>5, SpecStep
  <2> QED
    BY <2>2, <2>6, <1>1, <1>2, FrameStep
<1>9. CASE ~f.IN_FORMAT_SPEC
  <2>1. Goto(c, g)
    BY <1>3, <1>9
  <2> HIDE DEF f, h, g, spec
  <2>2. InSpec(g.IN_FORMAT_SPEC, g.spec_start, g.i)
    BY <1>1, <1>4, <1>7, <1>9 DEF InSpec
  <2>3. FrameOK(g)
    BY <2>2, <1>1, <1>2, <1>7, ScanFrame
  <2> QED
    BY <2>1, <2>3, <1>1, <1>2, FrameStep
<1> QED
  BY <1>8, <1>9

\* Idle frames, and those of a call that begins.
LEMMA IdleFrames ==
  /\ FrameOK(Idle)
  /\ \A s : FrameOK([Idle EXCEPT !.pc = "string", !.str = s, !.newline = TRUE])
  /\ \A t, a, n : FrameOK([Idle EXCEPT !.pc = "scan", !.format = t, !.args = a, !.newline = n])
<1>1. 2 ^ WordBits \in Nat \ {0}
  BY WordFacts
<1>2. 0 \in 0..(2 ^ WordBits - 1)
  BY <1>1
<1>3. DOMAIN Idle = Fields /\ Idle.pc = "idle" /\ Idle.value = 0 /\ Idle.i = 1
  BY DEF Idle, Fields
<1>4. Idle.IN_FORMAT_SPEC = FALSE
  BY DEF Idle
<1>5. InSpec(FALSE, Idle.spec_start, 1)
  BY DEF InSpec
<1>6. InSpec(Idle.IN_FORMAT_SPEC, Idle.spec_start, Idle.i)
  BY <1>3, <1>4, <1>5
<1>7. FrameOK(Idle)
  BY <1>2, <1>3, <1>6 DEF FrameOK, Places, Room
<1>8. ASSUME NEW s PROVE FrameOK([Idle EXCEPT !.pc = "string", !.str = s, !.newline = TRUE])
  <2> DEFINE g == [Idle EXCEPT !.pc = "string", !.str = s, !.newline = TRUE]
  <2>1. /\ DOMAIN g = Fields /\ g.pc = "string" /\ g.value = Idle.value
        /\ g.IN_FORMAT_SPEC = Idle.IN_FORMAT_SPEC /\ g.spec_start = Idle.spec_start /\ g.i = Idle.i
    BY <1>3 DEF Fields
  <2> HIDE DEF g
  <2>2. FrameOK(g)
    BY <2>1, <1>6, <1>7, ScanFrame
  <2> QED
    BY <2>2 DEF g
<1>9. ASSUME NEW t, NEW a, NEW n
      PROVE  FrameOK([Idle EXCEPT !.pc = "scan", !.format = t, !.args = a, !.newline = n])
  <2> DEFINE g == [Idle EXCEPT !.pc = "scan", !.format = t, !.args = a, !.newline = n]
  <2>1. /\ DOMAIN g = Fields /\ g.pc = "scan" /\ g.value = Idle.value
        /\ g.IN_FORMAT_SPEC = Idle.IN_FORMAT_SPEC /\ g.spec_start = Idle.spec_start /\ g.i = Idle.i
    BY <1>3 DEF Fields
  <2> HIDE DEF g
  <2>2. FrameOK(g)
    BY <2>1, <1>6, <1>7, ScanFrame
  <2> QED
    BY <2>2 DEF g
<1> QED
  BY <1>7, <1>8, <1>9

\* A call begins.
LEMMA EnterStep ==
  ASSUME KprintInv, NEW c \in Contexts, NEW call, Enter(c, call)
  PROVE  KprintInv'
<1> DEFINE g == IF call.fn = "kprintln_string"
                THEN [Idle EXCEPT !.pc = "string", !.str = Text(call.items), !.newline = TRUE]
                ELSE [Idle EXCEPT !.pc = "scan", !.format = Text(call.items),
                                  !.args = Args(call.items), !.newline = (call.fn = "kprintln")]
<1>1. Goto(c, g) /\ UNCHANGED <<put, SIE, buf>>
  BY DEF Enter
<1>2. FrameOK(g)
  BY IdleFrames
<1>3. BufferOK(buf)
  BY DEF KprintInv
<1> HIDE DEF g
<1> QED
  BY <1>1, <1>2, <1>3, FrameStep

\* A call ends.
LEMMA EndStep ==
  ASSUME KprintInv, NEW c \in Contexts, finish(c)
  PROVE  KprintInv'
<1>1. Goto(c, Idle) /\ UNCHANGED <<put, SIE, buf>>
  BY DEF finish
<1>2. BufferOK(buf) /\ FrameOK(Idle)
  BY IdleFrames DEF KprintInv
<1> QED
  BY <1>1, <1>2, FrameStep

\* Printing starts in the invariant.
LEMMA KprintStart == Init => KprintInv
<1> SUFFICES ASSUME Init PROVE KprintInv
  OBVIOUS
<1>1. WordBits \in Nat \ {0} /\ MAX_INT_BUF_SIZE - 1 = WordBits + 2
  BY WordFacts
<1>2. WordBits + 2 \in 0..(WordBits + 2)
  BY <1>1
<1>3. buf = [n \in 0..(WordBits + 2) |-> "NUL"]
  BY <1>1 DEF Init
<1>4. BufferOK(buf)
  BY <1>2, <1>3 DEF BufferOK
<1>5. frame = [c \in Contexts |-> Idle]
  BY DEF Init
<1>6. DOMAIN frame = Contexts /\ \A c \in Contexts : FrameOK(frame[c])
  <2>1. \A c \in Contexts : frame[c] = Idle
    BY <1>5
  <2> QED
    BY <2>1, <1>5, IdleFrames
<1> QED
  BY <1>4, <1>6 DEF Init, KprintInv

\* Every step keeps the invariant, if the numbers are given.
LEMMA KprintStep ==
  ASSUME KprintInv, ArgumentsGiven, [Next]_vars
  PROVE  KprintInv'
<1>1. ASSUME NEW fn \in {"NULL", "uart_put_char"}, kprint_initialize(fn) PROVE KprintInv'
  BY <1>1 DEF kprint_initialize, KprintInv, Contexts, FrameOK
<1>2. CASE enable_interrupts
  BY <1>2 DEF enable_interrupts, KprintInv
<1>3. ASSUME NEW call \in ProgramCalls, program_prints(call) PROVE KprintInv'
  BY <1>3, EnterStep DEF program_prints, Contexts
<1>4. ASSUME NEW call \in TrapCalls, trap_prints(call) PROVE KprintInv'
  BY <1>4, EnterStep DEF trap_prints, Contexts
<1>5. ASSUME NEW c \in Contexts,
             \/ zero_digit(c) \/ next_digit(c) \/ prefix(c) \/ print_buffer(c) \/ print_string(c)
             \/ open_brace(c) \/ close_brace(c) \/ other_char(c) \/ finish(c)
      PROVE  KprintInv'
  BY <1>5, ZeroStep, DigitStep, PrefixStep, BufferStep, StringStep, OpenStep, CloseStep,
     OtherStep, EndStep
<1>6. CASE UNCHANGED vars
  BY <1>6 DEF vars, KprintInv
<1> QED
  BY <1>1, <1>2, <1>3, <1>4, <1>5, <1>6 DEF Next

(***************************************************************************)
(* Whatever the program and the trap handler print, in whatever order, and *)
(* however many bits a word has: as long as every directive of a number    *)
(* finds an argument, no digit and no prefix is stored outside the buffer, *)
(* the NUL at its end stays, and the index that wraps below 0 comes back   *)
(* to the first character.                                                 *)
(***************************************************************************)
THEOREM BufferSuffices == Spec /\ []ArgumentsGiven => []TypeOK
<1>1. KprintInv /\ ArgumentsGiven /\ [Next]_vars => KprintInv'
  BY KprintStep
<1> QED
  BY <1>1, KprintStart, KprintTypes, PTL DEF Spec
=============================================================================
