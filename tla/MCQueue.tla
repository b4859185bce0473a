------------------------------ MODULE MCQueue ------------------------------
(* Model checking instance of Queue: sizes 1 to 3 and two pointers, enough  *)
(* for every index to wrap with a full, a half-full and an empty ring.      *)
EXTENDS Queue
=============================================================================
