-------------------------------- MODULE MCHeap --------------------------------
(* A page of a few minimal chunks, requests of every rounding: below the       *)
(* minimum, a power of two, just above one, more than the page, and one whose  *)
(* rounding overflows.                                                         *)
EXTENDS HeapStores

MCRequests == {0, 1, 5, 8, 9, 2^(Width - 1) + 1}
=============================================================================
