------------------------------- MODULE MCHeap -------------------------------
(* A heap that holds up to four blocks, on the header of 16 bytes and the      *)
(* alignment of the processor, and two threads.                              *)
EXTENDS Heap, TLC

CONSTANTS t1, t2, none

\* The last one wraps when it is aligned.
MCRequests == {0, 10, 12, 40, 254}
Symmetric == Permutations({t1, t2})
=============================================================================
