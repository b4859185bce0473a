---------------------------- MODULE MCThreadPool ----------------------------
(* Model checking instances of ThreadPool; the bounds are in the .cfg files. *)
EXTENDS ThreadPool, TLC

(* Thread ids are compared and nothing else, so any renaming of them gives   *)
(* the same behaviour; only runs without liveness properties use this.       *)
Symmetry == Permutations(Tids) \cup Permutations(Adders)
=============================================================================
