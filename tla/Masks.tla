------------------------------- MODULE Masks -------------------------------
(***************************************************************************)
(* ALIGN_UP and ALIGN_DOWN of types/number.h for every alignment: they     *)
(* clear the bits of alignment - 1, which rounds to a multiple only when   *)
(* the alignment is a power of two.  (Words has the form that holds for    *)
(* powers of two, for the modules that pass nothing else.)                 *)
(***************************************************************************)
EXTENDS Integers, FiniteSetsExt

CONSTANT WordBits        \* bits of a machine word, 64 in the kernel

ASSUME WordBitsAssumption == WordBits \in Nat

Bit(v, k) == (v \div 2 ^ k) % 2 = 1

\* Mutant of ALIGN_DOWN: the address is left as it is.
ALIGN_NONE(v, a) == v

ALIGN_DOWN(v, a) ==
  v - SumSet({2 ^ k : k \in {j \in 0..(WordBits - 1) : Bit(v, j) /\ Bit(a - 1, j)}})

ALIGN_UP(v, a) == ALIGN_DOWN(v + a - 1, a)
=============================================================================
