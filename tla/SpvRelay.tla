------------------------------- MODULE SpvRelay -------------------------------
(***************************************************************************)
(* The connections and the transaction relay of spv.Syncer (spv/sync.go,   *)
(* spv/backend.go, spv/rescan.go): the goroutines that connect to          *)
(* persistent peers or to candidates, the inv, getdata and mempool         *)
(* handlers, PublishTransactions, and the end of Run when its context is   *)
(* canceled.                                                               *)
(*                                                                         *)
(* A critical section of remotesMu or filterMu is one step.  Headers and   *)
(* the catch-up are in SpvChain; here startupSync only takes time, and a   *)
(* rescan of a wallet is pending or not.  p2p, the wallets' databases and  *)
(* the peers are external.                                                 *)
(***************************************************************************)
EXTENDS Naturals, FiniteSets

CONSTANTS
    Wallets,      \* wallet ids
    Peers,        \* addresses of remote peers
    Slots,        \* places of the semaphore of connectToCandidates, 8 in the code
    Txs,          \* transactions
    PaysTo,       \* PaysTo[t]: wallets with an output of t
    SpentBy,      \* SpentBy[t]: transactions that spend an output of t
    MayRescan,    \* wallets that may start with a rescan point
    External,     \* transactions no wallet keeps, published through the backend
    MaxDials,     \* bound: connections attempted in a behaviour
    MaxInvs       \* bound: inv messages received in a behaviour

ASSUME TxAssumption ==
    /\ PaysTo \in [Txs -> SUBSET Wallets]
    /\ SpentBy \in [Txs -> SUBSET Txs]
    /\ External \subseteq Txs
    /\ \A t \in External : PaysTo[t] = {}
ASSUME BoundsAssumption == MaxDials \in Nat /\ MaxInvs \in Nat

NoPeer == "nopeer"
ASSUME NoPeerAssumption == NoPeer \notin Peers

VARIABLES
    persistent,        \* Run was given persistent peers
    ctxDone,           \* the context of Run is canceled
    runDone,           \* g.Wait has returned, the backends are unset
    \* connections
    connectingRemotes, remotes,
    conn,              \* the goroutine of each place: its peer and where it is
                       \*   dial: in ConnectOutbound; up: in startupSync and rp.Err;
                       \*   lost: rp.Err has returned, startupSync is waited for
    \* transactions
    unspent,           \* rescanFilter: transactions with a watched output
    rescanning,        \* wallets with a rescan point
    walletTxs,         \* what each wallet has saved
    seenTxs,
    mempool,           \* the syncer's own mempool
    timed,             \* mempool transactions with an eviction timer
    invsSent,          \* what each peer was told we have
    inv,               \* the inv handler in progress
    pub,               \* PublishTransactions in progress
    \* history and bounds
    evicted,           \* transactions the mempool has evicted
    dials, invs

connVars == <<connectingRemotes, remotes, conn, dials>>
txVars   == <<unspent, rescanning, walletTxs, seenTxs, inv, invs>>
poolVars == <<mempool, timed, invsSent, pub, evicted>>
runVars  == <<persistent, ctxDone, runDone>>
vars == <<runVars, connVars, txVars, poolVars>>

----------------------------------------------------------------------------
IdleConn == [pc |-> "idle", peer |-> NoPeer]
IdleInv  == [pc |-> "idle", peer |-> NoPeer, hashes |-> {}, todo |-> {}]
IdlePub  == [pc |-> "idle", tx |-> {}]

\* NewSyncer, and Run up to the start of the goroutines.
Init ==
    /\ persistent \in BOOLEAN /\ ctxDone = FALSE /\ runDone = FALSE
    /\ connectingRemotes = {} /\ remotes = {}
    /\ conn = [g \in Slots |-> IdleConn]
    /\ unspent = [w \in Wallets |-> {}]
    /\ rescanning \in SUBSET MayRescan
    /\ walletTxs = [w \in Wallets |-> {}]
    /\ seenTxs = {} /\ mempool = {} /\ timed = {}
    /\ invsSent = [p \in Peers |-> {}]
    /\ inv = IdleInv /\ pub = IdlePub
    /\ evicted = {}
    /\ dials = 0 /\ invs = 0

----------------------------------------------------------------------------
(* Connections. *)

\* Mutant: only the connected peers are skipped.
NotRemote(p) == p \notin remotes

\* peerCandidate skips peers that are connected or being connected.
Candidate(p) == p \notin remotes /\ p \notin connectingRemotes

\* connectToCandidates takes a place of the semaphore and a candidate, which
\* is marked; connectToPersistent has a goroutine of its own for each peer.
\* The places are interchangeable: the first free one is taken.
Dial(g, p) ==
    /\ ~ctxDone /\ dials < MaxDials
    /\ conn[g].pc = "idle" /\ g = CHOOSE h \in Slots : conn[h].pc = "idle"
    /\ IF persistent
       THEN /\ \A h \in Slots : conn[h].peer # p
            /\ UNCHANGED connectingRemotes
       ELSE /\ Candidate(p)
            /\ connectingRemotes' = connectingRemotes \cup {p}
    /\ conn' = [conn EXCEPT ![g] = [pc |-> "dial", peer |-> p]]
    /\ dials' = dials + 1
    /\ UNCHANGED <<remotes, txVars, poolVars, runVars>>

\* Mutant: the mark is left when the connection fails.
KeepMark(p) == connectingRemotes

\* The mark is removed when the attempt is over.
Unmark(p) == connectingRemotes \ {p}

\* ConnectOutbound fails, or returns because the context is canceled.
DialFails(g) ==
    /\ conn[g].pc = "dial"
    /\ connectingRemotes' = Unmark(conn[g].peer)
    /\ conn' = [conn EXCEPT ![g] = IdleConn]
    /\ UNCHANGED <<remotes, dials, txVars, poolVars, runVars>>

\* The peer enters remotes, PeerConnected is notified, startupSync starts.
Connected(g) ==
    LET p == conn[g].peer IN
    /\ conn[g].pc = "dial"
    /\ connectingRemotes' = Unmark(p)
    /\ remotes' = remotes \cup {p}
    /\ conn' = [conn EXCEPT ![g].pc = "up"]
    /\ UNCHANGED <<dials, txVars, poolVars, runVars>>

\* The RemotePeer leaves remotes, and what it was told is dropped with it.
RemoveRemote(p) ==
    /\ remotes' = remotes \ {p}
    /\ invsSent' = [invsSent EXCEPT ![p] = {}]

\* rp.Err returns: the peer is gone, startupSync failed and disconnected it,
\* or the context is canceled.  A persistent peer leaves remotes at once.
PeerLost(g) ==
    /\ conn[g].pc = "up"
    /\ conn' = [conn EXCEPT ![g].pc = "lost"]
    /\ IF persistent THEN RemoveRemote(conn[g].peer) ELSE UNCHANGED <<remotes, invsSent>>
    /\ UNCHANGED <<connectingRemotes, dials, txVars, mempool, timed, pub, evicted, runVars>>

\* Mutant: startupSync does not signal its end once the context is canceled.
StartupEndsUnlessCanceled(g) == ~ctxDone

\* The goroutine of startupSync always signals wait when it returns.
StartupEnds(g) == TRUE

\* startupSync of a lost peer has ended: a candidate leaves remotes now.  The
\* goroutine frees its place; for a persistent peer it dials again.
ConnEnds(g) ==
    /\ conn[g].pc = "lost" /\ StartupEnds(g)
    /\ IF persistent THEN UNCHANGED <<remotes, invsSent>> ELSE RemoveRemote(conn[g].peer)
    /\ conn' = [conn EXCEPT ![g] = IdleConn]
    /\ UNCHANGED <<connectingRemotes, dials, txVars, mempool, timed, pub, evicted, runVars>>

----------------------------------------------------------------------------
(* Transactions peers announce. *)

\* filterRelevant: t pays an address of w or spends a watched output.
Relevant(w, t) == w \in PaysTo[t] \/ \E u \in unspent[w] : t \in SpentBy[u]

\* receiveInv: a peer announces transactions.
ReceiveInv(p, ts) ==
    /\ ~ctxDone /\ invs < MaxInvs /\ inv.pc = "idle" /\ p \in remotes
    /\ ts # {}
    /\ inv' = [pc |-> "wallet", peer |-> p, hashes |-> ts, todo |-> Wallets]
    /\ invs' = invs + 1
    /\ UNCHANGED <<unspent, rescanning, walletTxs, seenTxs,
                   connVars, poolVars, runVars>>

\* The handler goes on to the next wallet with the hashes left in the slice.
InvRest(w, left) ==
    IF inv.todo = {w} THEN IdleInv ELSE [inv EXCEPT !.todo = @ \ {w}, !.hashes = left]

\* handleTxInvsForWallet: nothing for a wallet that waits for a rescan; else
\* the unseen transactions are fetched, those found are marked as seen by all,
\* and the relevant ones are saved in this wallet.  The hashes found are moved
\* to the front of the caller's slice (hashes[:0]), over any of the others.
HandleTxInvs(w, got) ==
    LET unseen == inv.hashes \ seenTxs IN
    /\ ~ctxDone /\ inv.pc = "wallet" /\ w \in inv.todo
    /\ w \notin rescanning /\ got \subseteq unseen
    /\ seenTxs' = seenTxs \cup got
    /\ walletTxs' = [walletTxs EXCEPT ![w] = @ \cup {t \in got : Relevant(w, t)}]
    /\ \E left \in SUBSET inv.hashes : got \subseteq left /\ inv' = InvRest(w, left)
    /\ UNCHANGED <<unspent, rescanning, invs, connVars, poolVars, runVars>>

SkipTxInvs(w) ==
    /\ ~ctxDone /\ inv.pc = "wallet" /\ w \in inv.todo /\ w \in rescanning
    /\ inv' = InvRest(w, inv.hashes)
    /\ UNCHANGED <<unspent, rescanning, walletTxs, seenTxs,
                   invs, connVars, poolVars, runVars>>

\* rescanBlock: a block with t is scanned; outputs that pay the wallet are
\* watched from now on, and t is saved when it matches.
RescanBlock(w, t) ==
    /\ ~ctxDone /\ t \notin walletTxs[w] \cup External
    /\ Relevant(w, t)
    /\ unspent' = [unspent EXCEPT ![w] = IF w \in PaysTo[t] THEN @ \cup {t} ELSE @]
    /\ walletTxs' = [walletTxs EXCEPT ![w] = @ \cup {t}]
    /\ UNCHANGED <<rescanning, seenTxs, inv, invs,
                   connVars, poolVars, runVars>>

\* A pending rescan ends, in the catch-up of some peer.
RescanEnds(w) ==
    /\ ~ctxDone /\ w \in rescanning /\ remotes # {}
    /\ rescanning' = rescanning \ {w}
    /\ UNCHANGED <<unspent, walletTxs, seenTxs, inv, invs,
                   connVars, poolVars, runVars>>

----------------------------------------------------------------------------
(* Transactions the wallets publish. *)

\* PublishTransactions: a transaction no wallet keeps is put in the mempool;
\* when it was not there, the mempool handler is to start its timer.
Publish(t) ==
    LET held == \E w \in Wallets : t \in walletTxs[w] IN
    /\ pub.pc = "idle" /\ ~ctxDone
    /\ t \in External \/ held
    /\ IF held \/ t \in mempool
       THEN pub' = [pc |-> "announce", tx |-> {t}] /\ UNCHANGED mempool
       ELSE pub' = [pc |-> "add", tx |-> {t}] /\ mempool' = mempool \cup {t}
    /\ UNCHANGED <<timed, invsSent, evicted, connVars, txVars, runVars>>

\* Mutant: the handler forgets to start the timer.
NoTimer(ts) == timed

\* handleMempool starts a timer for the transaction it receives.
StartTimer(ts) == timed \cup ts

\* handleMempool receives the hash.
MempoolAdd ==
    /\ pub.pc = "add" /\ ~ctxDone
    /\ timed' = StartTimer(pub.tx)
    /\ pub' = [pub EXCEPT !.pc = "announce"]
    /\ UNCHANGED <<mempool, invsSent, evicted, connVars, txVars, runVars>>

\* The handler is gone: the publisher's context is canceled as well.
PublishCanceled ==
    /\ pub.pc = "add" /\ ctxDone
    /\ pub' = IdlePub
    /\ UNCHANGED <<mempool, timed, invsSent, evicted, connVars, txVars, runVars>>

\* forRemotes: every connected peer is told, or NoPeers is the error.
Announce ==
    /\ pub.pc = "announce"
    /\ invsSent' = [p \in Peers |-> IF p \in remotes THEN invsSent[p] \cup pub.tx
                                    ELSE invsSent[p]]
    /\ pub' = IdlePub
    /\ UNCHANGED <<mempool, timed, evicted, connVars, txVars, runVars>>

\* startupSync sends the unmined transactions of every wallet to the peer.
PublishUnmined(g) ==
    LET unmined == UNION {walletTxs[w] : w \in Wallets} IN
    /\ conn[g].pc = "up" /\ ~ctxDone /\ unmined # {}
    /\ invsSent' = [invsSent EXCEPT ![conn[g].peer] = @ \cup unmined]
    /\ UNCHANGED <<mempool, timed, pub, evicted, connVars, txVars, runVars>>

\* mempoolEvictionTimeout has passed.
Evict(t) ==
    /\ t \in timed /\ ~ctxDone
    /\ mempool' = mempool \ {t}
    /\ timed' = timed \ {t}
    /\ evicted' = evicted \cup {t}
    /\ UNCHANGED <<invsSent, pub, connVars, txVars, runVars>>

----------------------------------------------------------------------------
\* The context is canceled: timers end.
Cancel ==
    /\ ~ctxDone
    /\ ctxDone' = TRUE
    /\ timed' = {}
    /\ UNCHANGED <<persistent, runDone, connVars, txVars, mempool, invsSent, pub, evicted>>

\* The inv handlers see the error of the canceled context.
InvCanceled ==
    /\ ctxDone /\ inv.pc = "wallet"
    /\ inv' = IdleInv
    /\ UNCHANGED <<unspent, rescanning, walletTxs, seenTxs,
                   invs, connVars, poolVars, runVars>>

\* g.Wait returns when every goroutine has; the backends are unset.
RunReturns ==
    /\ ctxDone /\ ~runDone
    /\ \A g \in Slots : conn[g].pc = "idle"
    /\ inv.pc = "idle"
    /\ runDone' = TRUE
    /\ UNCHANGED <<persistent, ctxDone, connVars, txVars, poolVars>>

ConnStep(g) == DialFails(g) \/ Connected(g) \/ PeerLost(g) \/ ConnEnds(g)

InvStep == \E w \in Wallets : SkipTxInvs(w) \/ \E ts \in SUBSET Txs : HandleTxInvs(w, ts)

Next ==
    \/ \E g \in Slots, p \in Peers : Dial(g, p)
    \/ \E g \in Slots : ConnStep(g) \/ PublishUnmined(g)
    \/ \E p \in Peers, ts \in SUBSET Txs : ReceiveInv(p, ts)
    \/ InvStep \/ InvCanceled
    \/ \E w \in Wallets : RescanEnds(w) \/ \E t \in Txs : RescanBlock(w, t)
    \/ \E t \in Txs : Publish(t) \/ Evict(t)
    \/ MempoolAdd \/ PublishCanceled \/ Announce
    \/ Cancel \/ RunReturns

Spec == Init /\ [][Next]_vars

\* What a connection's goroutine does by itself: the calls into p2p return; a
\* peer is lost for sure only when the context is canceled.
ConnProceeds(g) == DialFails(g) \/ Connected(g) \/ ConnEnds(g) \/ (ctxDone /\ PeerLost(g))

\* Goroutines are scheduled and timers fire.
Fairness ==
    /\ \A g \in Slots : WF_vars(ConnProceeds(g))
    /\ WF_vars(InvStep \/ InvCanceled)
    /\ WF_vars(MempoolAdd \/ PublishCanceled \/ Announce)
    /\ \A t \in External : WF_vars(Evict(t))
    /\ WF_vars(RunReturns)

FairSpec == Spec /\ Fairness

----------------------------------------------------------------------------
(* Properties. *)

\* Mutant: the syncer's own mempool is not searched.
InWalletOnly(t) == \E w \in Wallets : t \in walletTxs[w]

\* receiveGetData answers a request for a transaction it has announced from
\* the wallets (getTransactionsByHashes) or the mempool, else with notfound.
Have(t) == t \in mempool \/ \E w \in Wallets : t \in walletTxs[w]

\* A peer has one connection at most: between the choice of a candidate and
\* the removal of the lost peer the address is always marked, in connectingRemotes
\* or in remotes, however the attempts interleave.
OneConnectionPerPeer ==
    \A g, h \in Slots : g # h /\ conn[g].pc # "idle" => conn[g].peer # conn[h].peer

\* The marks are those of the goroutines: no address stays in connectingRemotes
\* or in remotes when its goroutine has ended, so it can be tried again, and
\* forRemotes and pickRemote use live peers only.
MarksHaveGoroutines ==
    /\ \A p \in connectingRemotes : \E g \in Slots : conn[g].peer = p /\ conn[g].pc = "dial"
    /\ \A p \in Peers : p \in remotes <=>
          \E g \in Slots : /\ conn[g].peer = p
                           /\ conn[g].pc = "up" \/ (conn[g].pc = "lost" /\ ~persistent)

\* A peer that asks for a transaction we announced gets it, unless the mempool
\* has evicted it: it is stored before it is announced.
ServedUntilEvicted ==
    \A p \in remotes : \A t \in invsSent[p] : Have(t) \/ t \in evicted

\* Once its context is canceled Run returns: no connection, startupSync or inv
\* handler waits forever.
RunEnds == ctxDone ~> runDone

\* The mempool keeps no transaction forever while Run lives.
MempoolDrains == \A t \in External : t \in mempool ~> (t \notin mempool \/ ctxDone)
=============================================================================
