------------------------------ MODULE MCTxIndex ------------------------------
(* Instances of TxIndex for TLC. *)
EXTENDS TxIndex, TLC

\* Listeners are interchangeable, and so are rescans.
Symmetry == Permutations(Listeners) \cup Permutations(Rescans)
==============================================================================
