------------------------------- MODULE MCHeap -------------------------------
(***************************************************************************)
(* Instances of Heap for TLC.  The unit is 8 bytes of the real program: a   *)
(* header is 2 units, the alignment 2 units; UMAX is small, so that one     *)
(* request overflows the alignment and one product overflows root_calloc.   *)
(***************************************************************************)
EXTENDS Heap

MC_Requests == {0, 1, 3, 6, 30, 31}
MC_Counts == {0, 2}
=============================================================================
