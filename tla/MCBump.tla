------------------------------- MODULE MCBump -------------------------------
(***************************************************************************)
(* Small instances of Bump: buffers of a page of 16 and of two pages, one  *)
(* too small for the ASSERT of bump_grow; alignments 1, 2, 8, and 3, as    *)
(* for the three address cells of a PCI bus.                               *)
(***************************************************************************)
EXTENDS Bump

ThreeBuffers == {[buffer |-> 16, size |-> 16], [buffer |-> 40, size |-> 18],
                 [buffer |-> 64, size |-> 16], [buffer |-> 96, size |-> 8]}

\* device_tree_parse_blob grows its allocator once, with two pages.
OneBuffer == {[buffer |-> 16, size |-> 32]}

SomeRequests == {[size |-> 3, alignment |-> 8], [size |-> 6, alignment |-> 2],
                 [size |-> 9, alignment |-> 3], [size |-> 0, alignment |-> 0]}

ASSUME BuffersDisjoint /\ AlignmentsPositive
=============================================================================
