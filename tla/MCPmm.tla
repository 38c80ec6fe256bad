------------------------------- MODULE MCPmm -------------------------------
(***************************************************************************)
(* Small instances of Pmm.  A page has 4 bytes and a word 7 bits.          *)
(***************************************************************************)
EXTENDS Pmm

\* Two entries of a memory map, the second with ragged ends, and one entry
\* too short for a page.
MapRegions == {[base |-> 4,  size |-> 24],
               [base |-> 34, size |-> 23],
               [base |-> 58, size |-> 5]}

MapRequests == {[size |-> 4,  alignment |-> 4],
                [size |-> 5,  alignment |-> 4],
                [size |-> 3,  alignment |-> 8],
                [size |-> 5,  alignment |-> 16],
                [size |-> 0,  alignment |-> 4],
                [size |-> 4,  alignment |-> 2],
                [size |-> 4,  alignment |-> 12]}

ASSUME BootContract
=============================================================================
