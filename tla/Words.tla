------------------------------- MODULE Words -------------------------------
(***************************************************************************)
(* The unsigned machine word every address and size of the kernel is held  *)
(* in (size_t, u64, paddr_t), and the alignment macros of types/number.h.  *)
(* Word is 2^64 in the kernel and a small power of two in a TLC run; all   *)
(* arithmetic wraps at it, as it does in C.                                *)
(***************************************************************************)
EXTENDS Integers

CONSTANT Word          \* number of values of a machine word

ASSUME WordAssumption == Word \in Nat \ {0}

WAdd(x, y) == (x + y) % Word
WSub(x, y) == (x - y) % Word

(***************************************************************************)
(* ALIGN_DOWN clears the bits below the alignment.  For a power of two,    *)
(* x & ~(a - 1) is x - x % a; the callers modelled with these operators    *)
(* only pass powers of two.                                                *)
(***************************************************************************)
ALIGN_DOWN(v, a) == v - (v % a)

ALIGN_UP(v, a) == ALIGN_DOWN(WAdd(v, a - 1), a)

\* (a & (a - 1)) == 0: no two bits of a are set (zero passes the test too).
IsPowerOfTwo(a) == \/ a = 0
                   \/ \E k \in 0..a : a = 2 ^ k
=============================================================================
