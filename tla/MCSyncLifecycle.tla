--------------------------- MODULE MCSyncLifecycle ----------------------------
(* Instances of SyncLifecycle for TLC. *)
EXTENDS SyncLifecycle, TLC

\* Callers and wallets are interchangeable (safety runs only).
Symmetry == Permutations(Callers) \cup Permutations(Wallets)
===============================================================================
