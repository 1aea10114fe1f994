----------------------------- MODULE MCSpvChain -----------------------------
(* Instances of SpvChain for TLC. *)
EXTENDS SpvChain

\* Two branches that fork at genesis.
MCBlocks == {<<>>, <<"a">>, <<"b">>, <<"b", "b">>}
MCInitTips == {<<>>}
\* One peer is ahead of the other.
MCPeerTips == {f \in [Peers -> {<<>>, <<"a">>}] : \E p \in Peers : f[p] = <<"a">>
                                          /\ \A q \in Peers \ {p} : f[q] = <<>>}
Symmetry == Permutations(Peers) \cup Permutations(Wallets) \cup Permutations(Handlers)
=============================================================================
