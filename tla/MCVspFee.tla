------------------------------ MODULE MCVspFee ------------------------------
(* Instances of VspFee for TLC. *)
EXTENDS VspFee, TLC

\* Goroutines are interchangeable (safety runs only).
Symmetry == Permutations(Threads)
=============================================================================
