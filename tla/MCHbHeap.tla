------------------------------- MODULE MCHbHeap -------------------------------
(* A heap small enough to fill up, with requests that leave remainders on  *)
(* both sides of the splitting limit of HDR_SIZE + 1 units.                *)
EXTENDS HbHeap

MCRequests == 1..5

=============================================================================
