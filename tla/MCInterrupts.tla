---------------------------- MODULE MCInterrupts ----------------------------
(***************************************************************************)
(* A small instance of Interrupts: a FIFO for two characters, a message of *)
(* two, and timer interrupts two ticks apart, so that they fall anywhere.  *)
(***************************************************************************)
EXTENDS Interrupts

TwoCharacters == <<"m1", "m2">>
=============================================================================
