----------------------------- MODULE BlockPool -----------------------------
(***************************************************************************)
(* What an arena of types/slab.h promises its callers: a pool of blocks    *)
(* that do not overlap and that lie in the memory given to the arena.      *)
(* Every block is free or live; an allocation makes a free block live, and *)
(* new memory is taken for an allocation only when no block is free.       *)
(***************************************************************************)
EXTENDS Integers

CONSTANTS
  BlockSize,
  Owned(_)         \* Owned(b): the bytes of block b belong to the arena

VARIABLES free, live

pool == <<free, live>>

Separate(B) ==
  /\ \A b \in B : Owned(b)
  /\ \A b, c \in B : b < c => b + BlockSize <= c

Init == free = {} /\ live = {}

Grow ==
  /\ free \subseteq free'
  /\ live' = live
  /\ free' \intersect live = {}
  /\ Separate(free' \union live)

Allocate ==
  \E b \in live' \ live :
    /\ live' = live \union {b}
    /\ IF free = {}
         THEN b \notin free' /\ Separate(free' \union live')
         ELSE b \in free /\ free' = free \ {b}
    /\ free' \intersect live' = {}

Free ==
  \E b \in live :
    /\ live' = live \ {b}
    /\ free' = free \union {b}

Next == Grow \/ Allocate \/ Free

Spec == Init /\ [][Next]_pool
=============================================================================
