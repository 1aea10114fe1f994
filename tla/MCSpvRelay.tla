----------------------------- MODULE MCSpvRelay -----------------------------
(* Instances of SpvRelay for TLC. *)
EXTENDS SpvRelay, TLC

CONSTANTS t1, t2

\* t1 has an output of every wallet of the application, t2 of none: it spends t1.
MCPaysTo == t1 :> Wallets @@ t2 :> {}
MCSpentBy == t1 :> {t2} @@ t2 :> {}
=============================================================================
