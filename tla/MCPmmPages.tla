----------------------------- MODULE MCPmmPages -----------------------------
(***************************************************************************)
(* Pmm as the kernel drives it: first fit, page alignment only, and an     *)
(* arena with a node for every region above the reserve.  The second and   *)
(* third region touch, the fourth finds the array full.                    *)
(***************************************************************************)
EXTENDS Pmm

PageRegions == {[base |-> 4,  size |-> 16],
                [base |-> 31, size |-> 13],
                [base |-> 44, size |-> 8],
                [base |-> 61, size |-> 15]}

PageRequests == {[size |-> 1, alignment |-> 4],
                 [size |-> 8, alignment |-> 4],
                 [size |-> 9, alignment |-> 4],
                 [size |-> 0, alignment |-> 4]}

ASSUME BootContract /\ PageAlignmentOnly /\ ArenaSuffices
=============================================================================
