------------------------------- MODULE MCSlab -------------------------------
(***************************************************************************)
(* Instances of Slab.  In the exact one a page of 16 holds a header of 3   *)
(* and three blocks of 4; callers may also grow the arena themselves, with *)
(* a page, a smaller buffer, or one too small for the ASSERT of slab_grow. *)
(***************************************************************************)
EXTENDS Slab

ExactBuffers == {[buffer |-> 16, size |-> 16], [buffer |-> 64, size |-> 8],
                 [buffer |-> 80, size |-> 4]}
ExactPages   == {[buffer |-> 32, size |-> 16]}

\* The arena of struct device_tree_node with the sizes it has in the kernel:
\* blocks of 72 bytes in pages of 4096, with a header of 32.
NodePages == {[buffer |-> 4096, size |-> 4096], [buffer |-> 8192, size |-> 4096]}

ASSUME BuffersDisjoint
ASSUME ObjSize = 4 => ExactGeometry
=============================================================================
