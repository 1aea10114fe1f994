------------------------------- MODULE SpvChain -------------------------------
(***************************************************************************)
(* How spv.Syncer brings the wallets to the best chain (spv/sync.go,       *)
(* spv/backend.go): the startupSync of each connected peer (missing        *)
(* filters, headers, the catch-up of discovery and rescan behind           *)
(* atomicCatchUpTryLock), interleaved with the goroutines that handle the  *)
(* blocks peers announce.                                                  *)
(*                                                                         *)
(* A block is named by the path that leads to it from genesis, so its      *)
(* parent, its height and its ancestors are those of a sequence.  What a   *)
(* block holds does not matter here: only whether a wallet has matched it  *)
(* against its filter, and whether that filter was loaded at the time.     *)
(* The wallets' databases, p2p and the peers are external.                 *)
(***************************************************************************)
EXTENDS Naturals, Sequences, FiniteSets, SequencesExt

CONSTANTS
    Wallets,       \* wallet ids, the keys of Syncer.wallets
    Peers,         \* remote peers
    Handlers,      \* bound: announcements in progress at a time
    Blocks,        \* the block tree: a finite, prefix closed set of paths
    InitTips,      \* tips the wallets may start from
    InitPeerTips,  \* tips the peers may start from, each a function of Peers
    HeightSlack,   \* 6 in the code: how far behind a peer may be
    MaxAnnDelta,   \* maxAnnHeaderTipDelta, 256 in the code
    MaxSessions,   \* bound: startupSync calls in a behaviour
    MaxFailures    \* bound: failed calls in a behaviour

NoBlock  == <<"none">>
NoPeer   == "nopeer"
NoWallet == "nowallet"

ASSUME BlocksAssumption == /\ <<>> \in Blocks
                           /\ \A b \in Blocks : b \in Seq(Range(b))
                           /\ \A b \in Blocks : Prefixes(b) \subseteq Blocks
                           /\ NoBlock \notin Blocks
                           /\ IsFiniteSet(Blocks)
ASSUME InitTipsAssumption == InitTips \subseteq Blocks /\ InitPeerTips \subseteq [Peers -> Blocks]
ASSUME NamesAssumption == /\ NoPeer \notin Peers /\ NoPeer \notin Handlers
                          /\ NoWallet \notin Wallets

VARIABLES
    \* the wallets' databases
    tip,             \* tip of the main chain, its ancestors are the chain
    marker,          \* the last main chain block with processed transactions
    scanned,         \* how each block was matched: "no", "empty", "loaded"
    rolledBack,      \* a reorganisation removed processed blocks
    \* Syncer
    sidechains,      \* blocks kept in each wallet's sidechain forest
    filter,          \* filterData: "empty" or "loaded"
    loadedFilters,
    synced,          \* atomicWalletsSynced
    catchUp,         \* who set atomicCatchUpTryLock, or NoPeer
    sidechainMu,     \* the handler that holds sidechainMu, or NoPeer
    currentLocators, \* the block the cached locators start from, or NoBlock
    required,        \* height a peer must advertise, given to lp
    \* the peers and the startupSync each connection runs
    peerTip,         \* tip of the chain the peer serves
    sendHeadersSent, \* the peer was sent a sendheaders message
    sess,            \* state of the startupSync goroutine
    \* handleBlockAnnouncements goroutines
    ann,
    \* bounds
    sessions, failures

walletVars == <<tip, marker, scanned, rolledBack>>
chainVars  == <<tip, marker, rolledBack, sidechains>>
flagVars   == <<filter, loadedFilters, synced>>
countVars  == <<sessions, failures>>
vars == <<walletVars, sidechains, flagVars, catchUp, sidechainMu,
          currentLocators, required, peerTip, sendHeadersSent, sess, ann,
          countVars>>

----------------------------------------------------------------------------
(* Chains. *)

InChain(b, t) == IsPrefix(b, t)
\* The last block two chains share.
ForkPoint(b, t) == SubSeq(b, 1, Max({n \in 0 .. Len(b) : InChain(SubSeq(b, 1, n), t)}))
\* The blocks after base on the way to last.
Segment(base, last) == {b \in Prefixes(last) : Len(b) > Len(base)}

HighestChainTip == CHOOSE n \in {Len(tip[w]) : w \in Wallets} :
                      \A w \in Wallets : Len(tip[w]) <= n
LowestWallets == {w \in Wallets : \A v \in Wallets : Len(tip[w]) <= Len(tip[v])}

\* RescanPoint: the main chain block after the marker, NoBlock at the tip.
RescanPoint(w) ==
    IF marker[w] = tip[w] THEN NoBlock
                          ELSE SubSeq(tip[w], 1, Len(marker[w]) + 1)

\* EvaluateBestChain: a tip in the forest that connects to the main chain and
\* is longer, or the present tip when there is none.
EvaluateBestChain(w, forest) ==
    LET better == {b \in forest : /\ Len(b) > Len(tip[w])
                                  /\ Segment(ForkPoint(b, tip[w]), b) \subseteq forest}
    IN IF better = {} THEN tip[w]
       ELSE CHOOSE b \in better : \A c \in better : Len(c) <= Len(b)

\* ChainSwitch: the forest gives up the new main chain and gets the blocks
\* that left it; the marker follows the new tip when the matching
\* transactions came along, and never stays on a block that was removed.
ChainSwitch(w, best, forest, matched) ==
    LET fork == ForkPoint(best, tip[w])
        kept == IF InChain(marker[w], best) THEN marker[w]
                ELSE ForkPoint(marker[w], best)
    IN /\ tip' = [tip EXCEPT ![w] = best]
       /\ sidechains' = [sidechains EXCEPT ![w] =
                           (forest \ Prefixes(best)) \cup Segment(fork, tip[w])]
       /\ marker' = [marker EXCEPT ![w] = IF matched THEN best ELSE kept]
       /\ rolledBack' = [rolledBack EXCEPT ![w] =
                           @ \/ (~matched /\ kept # marker[w])]

\* setRequiredHeight
RequiredHeight(h) == IF h > HeightSlack THEN h - HeightSlack ELSE h

----------------------------------------------------------------------------
(* The states of the goroutines. *)

\* startupSync of a connection: todo holds the wallets the present loop has
\* still to visit, cur the one it visits, err the variable err of the catch-up
\* loop; [base, last] is a range of headers or of blocks to rescan.
Offline == [pc |-> "off", todo |-> {}, cur |-> NoWallet, err |-> FALSE,
            low |-> NoWallet, loc |-> NoBlock, base |-> NoBlock, last |-> NoBlock]

\* handleBlockAnnouncements: the announced range, and for the wallet w in hand
\* the best chain and whether its matching transactions are looked for.
IdleAnn == [pc |-> "idle", peer |-> NoPeer, base |-> NoBlock, last |-> NoBlock,
            todo |-> {}, w |-> NoWallet, best |-> NoBlock, scan |-> FALSE]

\* The states of the catch-up loop, inside atomicCatchUpTryLock.
CatchUpStates == {"catchup", "load", "fill", "rescan", "scan"}

\* NewSyncer, and Run up to the errgroup: the databases hold what earlier runs
\* of the program left, everything in memory is empty.
Init ==
    /\ tip \in [Wallets -> InitTips]
    /\ marker \in {m \in [Wallets -> Blocks] : \A w \in Wallets : InChain(m[w], tip[w])}
    /\ scanned = [w \in Wallets |-> [b \in Blocks |->
                    IF InChain(b, marker[w]) THEN "loaded" ELSE "no"]]
    /\ rolledBack = [w \in Wallets |-> FALSE]
    /\ sidechains = [w \in Wallets |-> {}]
    /\ filter = [w \in Wallets |-> "empty"]
    /\ loadedFilters = [w \in Wallets |-> FALSE]
    /\ synced = [w \in Wallets |-> FALSE]
    /\ catchUp = NoPeer /\ sidechainMu = NoPeer
    /\ \E w \in LowestWallets : currentLocators = tip[w]
    /\ required = RequiredHeight(HighestChainTip)
    /\ peerTip \in InitPeerTips
    /\ sendHeadersSent = [p \in Peers |-> FALSE]
    /\ sess = [p \in Peers |-> Offline]
    /\ ann = [h \in Handlers |-> IdleAnn]
    /\ sessions = 0 /\ failures = 0

----------------------------------------------------------------------------
(* startupSync: headers. *)

At(p, label) == sess[p].pc = label
Goto(p, label) == sess' = [sess EXCEPT ![p].pc = label]
Fail == failures < MaxFailures /\ failures' = failures + 1

\* Mutant: sidechainMu is not taken.
SidechainsUnlocked == TRUE

\* Nobody holds sidechainMu.
SidechainsFree == sidechainMu = NoPeer

\* A peer is connected and passes the handshake and the check of its height;
\* fetchMissingCFilters; then getHeaders picks a wallet with the lowest tip,
\* and takes the cached locators or makes them from that wallet.
StartupSync(p) ==
    /\ At(p, "off") /\ sessions < MaxSessions
    /\ Len(peerTip[p]) >= required
    /\ Len(peerTip[p]) + HeightSlack >= HighestChainTip
    /\ \E w \in LowestWallets :
          /\ currentLocators' = IF currentLocators # NoBlock THEN currentLocators
                                ELSE tip[w]
          /\ sess' = [sess EXCEPT ![p].pc = "headers", ![p].low = w,
                                  ![p].loc = currentLocators']
    /\ sessions' = sessions + 1
    /\ UNCHANGED <<walletVars, sidechains, flagVars, catchUp, sidechainMu,
                   required, peerTip, sendHeadersSent, ann, failures>>

\* The peer answers with the headers after the block it shares with us.
FetchHeaders(p) ==
    /\ At(p, "headers")
    /\ ForkPoint(sess[p].loc, peerTip[p]) # peerTip[p]
    /\ sess' = [sess EXCEPT ![p].pc = "connect", ![p].todo = Wallets,
                            ![p].base = ForkPoint(sess[p].loc, peerTip[p]),
                            ![p].last = peerTip[p]]
    /\ UNCHANGED <<walletVars, sidechains, flagVars, catchUp, sidechainMu,
                   currentLocators, required, peerTip, sendHeadersSent, ann, countVars>>

\* Only the peer that sets atomicCatchUpTryLock does the catch-up.
CatchUpTryLock(p) ==
    IF catchUp = NoPeer
    THEN /\ catchUp' = p
         /\ sess' = [sess EXCEPT ![p] = [Offline EXCEPT !.pc = "catchup", !.todo = Wallets]]
    ELSE /\ sess' = [sess EXCEPT ![p] = [Offline EXCEPT !.pc = "up"]]
         /\ UNCHANGED catchUp

\* The peer has no more headers: it is sent sendheaders, and startupSync goes
\* on to the catch-up.
SendHeaders(p) ==
    /\ At(p, "headers")
    /\ ForkPoint(sess[p].loc, peerTip[p]) = peerTip[p]
    /\ sendHeadersSent' = [sendHeadersSent EXCEPT ![p] = TRUE]
    /\ CatchUpTryLock(p)
    /\ UNCHANGED <<walletVars, sidechains, flagVars, sidechainMu,
                   currentLocators, required, peerTip, ann, countVars>>

\* The headers are added to the forest of one wallet, whose main chain moves
\* to the best chain; no transactions are looked for.
ConnectHeaders(p, w) ==
    /\ At(p, "connect") /\ w \in sess[p].todo
    /\ SidechainsFree
    /\ LET forest == sidechains[w] \cup
                       {b \in Segment(sess[p].base, sess[p].last) : ~InChain(b, tip[w])}
           best == EvaluateBestChain(w, forest)
       IN IF best = tip[w]
          THEN /\ sidechains' = [sidechains EXCEPT ![w] = forest]
               /\ UNCHANGED <<tip, marker, rolledBack>>
          ELSE ChainSwitch(w, best, forest, FALSE)
    /\ sess' = [sess EXCEPT ![p].todo = @ \ {w},
                            ![p].pc = IF sess[p].todo = {w} THEN "relocate" ELSE @]
    /\ UNCHANGED <<scanned, flagVars, catchUp, sidechainMu, currentLocators,
                   required, peerTip, sendHeadersSent, ann, countVars>>

\* New locators are made from the wallet picked at the start.
GenerateLocators(p) ==
    /\ At(p, "relocate")
    /\ currentLocators' = tip[sess[p].low]
    /\ sess' = [sess EXCEPT ![p].pc = "headers", ![p].loc = tip[sess[p].low],
                            ![p].base = NoBlock, ![p].last = NoBlock]
    /\ UNCHANGED <<walletVars, sidechains, flagVars, catchUp, sidechainMu,
                   required, peerTip, sendHeadersSent, ann, countVars>>

\* A call fails before the catch-up: startupSync returns the error and the
\* peer is disconnected.
StartupFails(p) ==
    /\ sess[p].pc \in {"headers", "connect", "relocate"}
    /\ Fail
    /\ sess' = [sess EXCEPT ![p] = Offline]
    /\ sendHeadersSent' = [sendHeadersSent EXCEPT ![p] = FALSE]
    /\ UNCHANGED <<walletVars, sidechains, flagVars, catchUp, sidechainMu,
                   currentLocators, required, peerTip, ann, sessions>>

----------------------------------------------------------------------------
(* startupSync: the catch-up of the wallets. *)

\* The loop goes on to the next wallet; err is that of the last one visited.
NextWallet(p, failed) ==
    sess' = [sess EXCEPT ![p] = [Offline EXCEPT !.pc = "catchup",
                                   !.todo = sess[p].todo, !.err = failed]]

\* Mutant: the filters are taken for loaded.
NeverNeedsFilters(w) == FALSE

\* The filters of a wallet are loaded once in the life of the syncer, and
\* again before every rescan.
NeedsFilters(w) == ~loadedFilters[w]

\* The loop visits wallet w.  With nothing to rescan it is synced, once its
\* filters are loaded; otherwise it is unsynced and addresses are discovered.
CatchUpWallet(p, w) ==
    /\ At(p, "catchup") /\ w \in sess[p].todo
    /\ LET rest == sess[p].todo \ {w} IN
       CASE RescanPoint(w) = NoBlock /\ ~NeedsFilters(w) ->
              /\ synced' = [synced EXCEPT ![w] = TRUE]
              /\ sess' = [sess EXCEPT ![p] = [Offline EXCEPT !.pc = "catchup", !.todo = rest]]
         [] RescanPoint(w) = NoBlock /\ NeedsFilters(w) ->
              /\ sess' = [sess EXCEPT ![p].pc = "load", ![p].todo = rest, ![p].cur = w]
              /\ UNCHANGED synced
         [] OTHER ->
              /\ synced' = [synced EXCEPT ![w] = FALSE]
              /\ sess' = [sess EXCEPT ![p].pc = "load", ![p].todo = rest,
                                      ![p].cur = w, ![p].base = RescanPoint(w)]
    /\ UNCHANGED <<walletVars, sidechains, filter, loadedFilters, catchUp,
                   sidechainMu, currentLocators, required, peerTip,
                   sendHeadersSent, ann, countVars>>

\* DiscoverActiveAddresses when there is something to rescan; then
\* LoadActiveDataFilters, which calls LoadTxFilter first with reload, which
\* empties the filter, and then with the addresses.
DiscoverAndReload(p) ==
    /\ At(p, "load")
    /\ filter' = [filter EXCEPT ![sess[p].cur] = "empty"]
    /\ Goto(p, "fill")
    /\ UNCHANGED <<walletVars, sidechains, loadedFilters, synced, catchUp,
                   sidechainMu, currentLocators, required, peerTip,
                   sendHeadersSent, ann, countVars>>

FillTxFilter(p) ==
    LET w == sess[p].cur IN
    /\ At(p, "fill")
    /\ filter' = [filter EXCEPT ![w] = "loaded"]
    /\ loadedFilters' = [loadedFilters EXCEPT ![w] = TRUE]
    /\ IF sess[p].base = NoBlock
       THEN synced' = [synced EXCEPT ![w] = TRUE] /\ NextWallet(p, FALSE)
       ELSE UNCHANGED synced /\ Goto(p, "rescan")
    /\ UNCHANGED <<walletVars, sidechains, catchUp, sidechainMu, currentLocators,
                   required, peerTip, sendHeadersSent, ann, countVars>>

\* The wallet's rescan reads the hashes of the main chain: from the height of
\* the rescan point at first, after the last block of the batch later.
RescanRead(p) ==
    LET w == sess[p].cur
        from == IF sess[p].last = NoBlock
                THEN SubSeq(tip[w], 1, Len(sess[p].base) - 1) ELSE sess[p].last
    IN /\ At(p, "rescan")
       /\ InChain(from, tip[w]) /\ from # tip[w]
       /\ sess' = [sess EXCEPT ![p].pc = "scan", ![p].base = from, ![p].last = tip[w]]
       /\ UNCHANGED <<walletVars, sidechains, flagVars, catchUp, sidechainMu,
                      currentLocators, required, peerTip, sendHeadersSent, ann, countVars>>

\* WalletBackend.Rescan matches a batch against the filter and saves what it
\* finds, and the wallet moves the marker, never back: an announcement may have
\* taken it further.
RescanBatch(p) ==
    LET w == sess[p].cur IN
    /\ At(p, "scan") /\ InChain(sess[p].last, tip[w])
    /\ scanned' = [scanned EXCEPT ![w] = [b \in Blocks |->
                     IF b \in Segment(sess[p].base, sess[p].last)
                     THEN filter[w] ELSE @[b]]]
    /\ marker' = [marker EXCEPT ![w] = IF Len(@) < Len(sess[p].last) THEN sess[p].last
                                      ELSE @]
    /\ Goto(p, "rescan")
    /\ UNCHANGED <<tip, rolledBack, sidechains, flagVars, catchUp, sidechainMu,
                   currentLocators, required, peerTip, sendHeadersSent, ann, countVars>>

\* No blocks after the last batch: the wallet is synced.
RescanFinished(p) ==
    LET w == sess[p].cur IN
    /\ At(p, "rescan") /\ sess[p].last = tip[w]
    /\ synced' = [synced EXCEPT ![w] = TRUE]
    /\ NextWallet(p, FALSE)
    /\ UNCHANGED <<walletVars, sidechains, filter, loadedFilters, catchUp,
                   sidechainMu, currentLocators, required, peerTip,
                   sendHeadersSent, ann, countVars>>

\* The block the rescan is at has left the main chain.
RescanReorged(p) ==
    LET w == sess[p].cur IN
    /\ sess[p].pc \in {"rescan", "scan"} /\ sess[p].last # NoBlock
    /\ ~InChain(sess[p].last, tip[w])
    /\ NextWallet(p, TRUE)
    /\ UNCHANGED <<walletVars, sidechains, flagVars, catchUp, sidechainMu,
                   currentLocators, required, peerTip, sendHeadersSent, ann, countVars>>

\* A call made for this wallet fails, the reading of its rescan point included.
CatchUpFails(p) ==
    /\ sess[p].pc \in CatchUpStates
    /\ Fail
    /\ \E rest \in IF At(p, "catchup") THEN {sess[p].todo \ {w} : w \in sess[p].todo}
                   ELSE {sess[p].todo} :
          sess' = [sess EXCEPT ![p] = [Offline EXCEPT !.pc = "catchup",
                                         !.todo = rest, !.err = TRUE]]
    /\ UNCHANGED <<walletVars, sidechains, flagVars, catchUp, sidechainMu,
                   currentLocators, required, peerTip, sendHeadersSent, ann, sessions>>

\* Mutant: a failed catch-up returns before the lock is reset.
CatchUpUnlockOnSuccess(p) == IF sess[p].err THEN catchUp ELSE NoPeer

\* atomicCatchUpTryLock after the loop.
CatchUpUnlock(p) == NoPeer

\* The lock is released; the error of the last wallet disconnects the peer.
CatchUpDone(p) ==
    /\ At(p, "catchup") /\ sess[p].todo = {}
    /\ catchUp' = CatchUpUnlock(p)
    /\ sess' = [sess EXCEPT ![p] = IF sess[p].err THEN Offline
                                   ELSE [Offline EXCEPT !.pc = "up"]]
    /\ sendHeadersSent' = [sendHeadersSent EXCEPT ![p] = ~sess[p].err]
    /\ UNCHANGED <<walletVars, sidechains, flagVars, sidechainMu,
                   currentLocators, required, peerTip, ann, countVars>>

\* rp.Err returns for a peer whose startupSync has ended.
LostPeer(p) ==
    /\ At(p, "up") /\ Fail
    /\ sess' = [sess EXCEPT ![p] = Offline]
    /\ sendHeadersSent' = [sendHeadersSent EXCEPT ![p] = FALSE]
    /\ UNCHANGED <<walletVars, sidechains, flagVars, catchUp, sidechainMu,
                   currentLocators, required, peerTip, ann, sessions>>

----------------------------------------------------------------------------
(* Announced blocks. *)

\* What rp.Disconnect does to the goroutine of a peer: one that waits in
\* rp.Err ends, one still in startupSync meets the error in its next call.
Disconnected(p) == IF At(p, "up") THEN [sess EXCEPT ![p] = Offline] ELSE sess
Unannounced(p) == IF At(p, "up") THEN [sendHeadersSent EXCEPT ![p] = FALSE]
                  ELSE sendHeadersSent

Announcement(p, base, last) ==
    [IdleAnn EXCEPT !.pc = "wallet", !.peer = p, !.base = base, !.last = last,
                    !.todo = Wallets]

\* The peer's chain grows or reorganizes; a peer that was sent sendheaders
\* announces the new headers, and a goroutine is started to handle them.
PeerAdvance(p, b) ==
    /\ Len(b) = Len(peerTip[p]) + 1
    /\ peerTip' = [peerTip EXCEPT ![p] = b]
    /\ IF sendHeadersSent[p]
       THEN \E h \in Handlers :
              /\ ann[h].pc = "idle"
              /\ ann' = [ann EXCEPT ![h] =
                           Announcement(p, ForkPoint(peerTip[p], b), b)]
       ELSE UNCHANGED ann
    /\ UNCHANGED <<walletVars, sidechains, flagVars, catchUp, sidechainMu,
                   currentLocators, required, sendHeadersSent, sess, countVars>>

\* A header far behind our tip.
OldHeader(h) == Len(ann[h].base) + 1 + MaxAnnDelta < HighestChainTip

\* handleBlockAnnouncements: an old header is a protocol error.
AnnOldHeader(h) ==
    LET p == ann[h].peer IN
    /\ ann[h].pc = "wallet" /\ ann[h].todo = Wallets /\ OldHeader(h)
    /\ ann' = [ann EXCEPT ![h] = IdleAnn]
    /\ sess' = Disconnected(p) /\ sendHeadersSent' = Unannounced(p)
    /\ UNCHANGED <<walletVars, sidechains, flagVars, catchUp, sidechainMu,
                   currentLocators, required, peerTip, countVars>>

\* The wallets are visited in any order, after that check.
AnnVisits(h, w) ==
    /\ ann[h].pc = "wallet" /\ w \in ann[h].todo
    /\ ann[h].todo = Wallets => ~OldHeader(h)
    /\ SidechainsFree

Known(w, b) == InChain(b, tip[w]) \/ b \in sidechains[w]

\* The handler is done with wallet w.
AnnRest(h, w) == IF ann[h].todo = {w} THEN IdleAnn
                 ELSE [ann[h] EXCEPT !.pc = "wallet", !.todo = @ \ {w},
                                     !.w = NoWallet, !.best = NoBlock, !.scan = FALSE]

\* The parent of the first header is unknown: headers are requested with the
\* wallet's own locators.  The answer, if one comes, is a new announcement.
AnnOrphan(h, w) ==
    LET p == ann[h].peer
        idle == {g \in Handlers \ {h} : ann[g].pc = "idle"}
    IN /\ AnnVisits(h, w)
       /\ ~Known(w, ann[h].base)
       /\ \/ ann' = [ann EXCEPT ![h] = AnnRest(h, w)]
          \/ \E g \in idle :
               /\ ForkPoint(tip[w], peerTip[p]) # peerTip[p]
               /\ ann' = [ann EXCEPT ![h] = AnnRest(h, w),
                            ![g] = Announcement(p, ForkPoint(tip[w], peerTip[p]), peerTip[p])]
       /\ UNCHANGED <<walletVars, sidechains, flagVars, catchUp, sidechainMu,
                      currentLocators, required, peerTip, sendHeadersSent, sess, countVars>>

\* The new headers enter the forest under sidechainMu.  When they make a
\* better chain its filters are fetched, and whether the wallet has a rescan
\* point is read; the lock is kept until the switch.
AnnAddBlocks(h, w) ==
    LET forest == sidechains[w] \cup {b \in Segment(ann[h].base, ann[h].last) : ~Known(w, b)}
        best == EvaluateBestChain(w, forest)
    IN /\ AnnVisits(h, w)
       /\ Known(w, ann[h].base)
       /\ sidechains' = [sidechains EXCEPT ![w] = forest]
       /\ IF best = tip[w]
          THEN /\ ann' = [ann EXCEPT ![h] = AnnRest(h, w)]
               /\ UNCHANGED sidechainMu
          ELSE /\ ann' = [ann EXCEPT ![h].pc = "switch", ![h].w = w, ![h].best = best,
                                     ![h].scan = (RescanPoint(w) = NoBlock)]
               /\ sidechainMu' = h
       /\ UNCHANGED <<walletVars, flagVars, catchUp, currentLocators, required,
                      peerTip, sendHeadersSent, sess, countVars>>

\* Mutant: an empty map of matches is passed when nothing was scanned.
AlwaysMatched(h) == TRUE

\* ChainSwitch is given matching transactions only if scanChain ran.
Matched(h) == ann[h].scan

\* scanChain matches the blocks of the best chain against the filter when
\* there was no rescan point, the wallet switches to that chain, and the
\* cached locators are dropped.
AnnSwitch(h) ==
    LET w == ann[h].w
        best == ann[h].best
    IN /\ ann[h].pc = "switch"
       /\ ChainSwitch(w, best, sidechains[w], Matched(h))
       /\ scanned' = [scanned EXCEPT ![w] = [b \in Blocks |->
                        IF ann[h].scan /\ b \in Segment(ForkPoint(best, tip[w]), best)
                        THEN filter[w] ELSE @[b]]]
       /\ required' = RequiredHeight(Len(best))
       /\ sidechainMu' = NoPeer
       /\ currentLocators' = NoBlock
       /\ ann' = [ann EXCEPT ![h] = AnnRest(h, w)]
       /\ UNCHANGED <<flagVars, catchUp, peerTip, sendHeadersSent, sess, countVars>>

\* A call fails: the other wallets are not visited, and a protocol or
\* consensus error disconnects the peer.
AnnFails(h) ==
    LET p == ann[h].peer IN
    /\ ann[h].pc \in {"wallet", "switch"} /\ Fail
    /\ ann' = [ann EXCEPT ![h] = IdleAnn]
    /\ sidechainMu' = IF sidechainMu = h THEN NoPeer ELSE sidechainMu
    /\ \/ UNCHANGED <<sess, sendHeadersSent>>
       \/ sess' = Disconnected(p) /\ sendHeadersSent' = Unannounced(p)
    /\ UNCHANGED <<walletVars, sidechains, flagVars, catchUp, currentLocators,
                   required, peerTip, sessions>>

----------------------------------------------------------------------------
SessionStep(p) ==
    \/ FetchHeaders(p) \/ SendHeaders(p) \/ \E w \in Wallets : ConnectHeaders(p, w)
    \/ GenerateLocators(p) \/ StartupFails(p)
    \/ \E w \in Wallets : CatchUpWallet(p, w)
    \/ DiscoverAndReload(p) \/ FillTxFilter(p)
    \/ RescanRead(p) \/ RescanBatch(p) \/ RescanFinished(p) \/ RescanReorged(p)
    \/ CatchUpFails(p) \/ CatchUpDone(p)

AnnStep(h) ==
    \/ AnnOldHeader(h) \/ AnnSwitch(h) \/ AnnFails(h)
    \/ \E w \in Wallets : AnnOrphan(h, w) \/ AnnAddBlocks(h, w)

Next ==
    \/ \E p \in Peers : StartupSync(p) \/ SessionStep(p) \/ LostPeer(p)
    \/ \E p \in Peers, b \in Blocks : PeerAdvance(p, b)
    \/ \E h \in Handlers : AnnStep(h)

Spec == Init /\ [][Next]_vars

----------------------------------------------------------------------------
(* Properties. *)

\* One peer at a time is in the catch-up loop, and atomicCatchUpTryLock is set
\* exactly while one is: every way out of the loop, errors included, resets it,
\* so that a later peer can always catch the wallets up.
CatchUpExclusive ==
    \A p \in Peers : sess[p].pc \in CatchUpStates <=> catchUp = p

\* A wallet reported synced has its filter loaded, whatever reloads and
\* failures other connections met: its new blocks and transactions are matched
\* against its addresses.
SyncedHasFilters ==
    \A w \in Wallets : synced[w] => loadedFilters[w] /\ filter[w] = "loaded"

\* Every main chain block that counts as processed was matched against the
\* wallet's filter, by scanChain or by the rescan, as long as no
\* reorganisation removed processed blocks while a rescan was due.
ProcessedWereScanned ==
    \A w \in Wallets : ~rolledBack[w] =>
        \A b \in Prefixes(marker[w]) : scanned[w][b] # "no"

\* No step shortens a wallet's main chain: the best chain a handler has found
\* is still the better one when it switches, whatever headers others connect.
TipNeverRecedes ==
    [][\A w \in Wallets : Len(tip'[w]) >= Len(tip[w])]_vars
==============================================================================
