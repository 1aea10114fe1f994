---------------------------- MODULE SpvRelay_proof ----------------------------
(***************************************************************************)
(* Proofs about SpvRelay, for any number of peers, places, wallets and     *)
(* transactions: a peer has one connection, the marks are those of live    *)
(* goroutines, and what was announced is served until it is evicted.       *)
(***************************************************************************)
EXTENDS SpvRelay, TLAPS

ConnType ==
    /\ persistent \in BOOLEAN
    /\ connectingRemotes \subseteq Peers /\ remotes \subseteq Peers
    /\ conn \in [Slots -> [pc : {"idle", "dial", "up", "lost"}, peer : Peers \cup {NoPeer}]]
    /\ \A g \in Slots : conn[g].pc = "idle" <=> conn[g].peer = NoPeer

\* A candidate that is being dialed is marked; without candidates nothing is.
DialsAreMarked ==
    /\ ~persistent => \A g \in Slots : conn[g].pc = "dial" => conn[g].peer \in connectingRemotes
    /\ persistent => connectingRemotes = {}

\* The two properties are inductive together with the marks of the dials.
ConnInv == ConnType /\ DialsAreMarked /\ OneConnectionPerPeer /\ MarksHaveGoroutines

LEMMA ConnInvInit == Init => ConnInv
<1> SUFFICES ASSUME Init PROVE ConnInv
    OBVIOUS
<1>1. ConnType /\ DialsAreMarked
    BY DEF Init, ConnType, DialsAreMarked, IdleConn
<1>2. OneConnectionPerPeer
    BY DEF Init, OneConnectionPerPeer, IdleConn
<1>3. MarksHaveGoroutines
    BY DEF Init, MarksHaveGoroutines, IdleConn
<1> QED BY <1>1, <1>2, <1>3 DEF ConnInv

\* A goroutine takes a place for a peer that no other goroutine has.
LEMMA DialKeepsConnInv ==
    ASSUME ConnInv, NEW g \in Slots, NEW p \in Peers, Dial(g, p)
    PROVE  ConnInv'
<1> USE NoPeerAssumption
<1>0. /\ conn[g].pc = "idle" /\ conn' = [conn EXCEPT ![g] = [pc |-> "dial", peer |-> p]]
      /\ remotes' = remotes /\ persistent' = persistent
    BY DEF Dial, runVars
<1>1. \A h \in Slots : conn[h].peer # p
  <2>1. CASE persistent
    BY <2>1 DEF Dial
  <2>2. CASE ~persistent
    BY <2>2 DEF Dial, Candidate, ConnInv, ConnType, DialsAreMarked, MarksHaveGoroutines
  <2> QED BY <2>1, <2>2
<1>2. connectingRemotes' = IF persistent THEN connectingRemotes ELSE connectingRemotes \cup {p}
    BY DEF Dial
<1>3. ConnType'
    BY <1>0, <1>2 DEF ConnInv, ConnType
<1>4. DialsAreMarked'
    BY <1>0, <1>2 DEF ConnInv, ConnType, DialsAreMarked
<1>5. OneConnectionPerPeer'
    BY <1>0, <1>1 DEF ConnInv, ConnType, OneConnectionPerPeer
<1>6. MarksHaveGoroutines'
  <2>1. \A q \in connectingRemotes' : \E h \in Slots : conn'[h].peer = q /\ conn'[h].pc = "dial"
      BY <1>0, <1>2 DEF ConnInv, ConnType, MarksHaveGoroutines
  <2>2. \A h \in Slots : h # g => conn'[h] = conn[h]
      BY <1>0 DEF ConnInv, ConnType
  <2>3. conn'[g].pc = "dial"
      BY <1>0 DEF ConnInv, ConnType
  <2> QED BY <1>0, <2>1, <2>2, <2>3 DEF ConnInv, ConnType, MarksHaveGoroutines
<1> QED BY <1>3, <1>4, <1>5, <1>6 DEF ConnInv

LEMMA DialFailsKeepsConnInv ==
    ASSUME ConnInv, NEW g \in Slots, DialFails(g)
    PROVE  ConnInv'
<1> USE NoPeerAssumption
<1>0. /\ conn[g].pc = "dial" /\ conn' = [conn EXCEPT ![g] = IdleConn]
      /\ connectingRemotes' = connectingRemotes \ {conn[g].peer}
      /\ remotes' = remotes /\ persistent' = persistent
    BY DEF DialFails, Unmark, runVars
<1>1. \A h \in Slots : h # g => conn'[h] = conn[h] /\ conn[h].peer # conn[g].peer
    BY <1>0 DEF ConnInv, ConnType, OneConnectionPerPeer
<1>2. conn'[g] = [pc |-> "idle", peer |-> NoPeer]
    BY <1>0 DEF ConnInv, ConnType, IdleConn
<1>3. ConnType'
    BY <1>0, <1>1, <1>2 DEF ConnInv, ConnType, IdleConn
<1>4. DialsAreMarked'
    BY <1>0, <1>1, <1>2 DEF ConnInv, ConnType, DialsAreMarked
<1>5. OneConnectionPerPeer'
    BY <1>0, <1>1, <1>2 DEF ConnInv, ConnType, OneConnectionPerPeer
<1>6. MarksHaveGoroutines'
    BY <1>0, <1>1, <1>2 DEF ConnInv, ConnType, MarksHaveGoroutines
<1> QED BY <1>3, <1>4, <1>5, <1>6 DEF ConnInv

LEMMA ConnectedKeepsConnInv ==
    ASSUME ConnInv, NEW g \in Slots, Connected(g)
    PROVE  ConnInv'
<1> USE NoPeerAssumption
<1>0. /\ conn[g].pc = "dial" /\ conn' = [conn EXCEPT ![g].pc = "up"]
      /\ connectingRemotes' = connectingRemotes \ {conn[g].peer}
      /\ remotes' = remotes \cup {conn[g].peer} /\ persistent' = persistent
    BY DEF Connected, Unmark, runVars
<1>1. \A h \in Slots : h # g => conn'[h] = conn[h] /\ conn[h].peer # conn[g].peer
    BY <1>0 DEF ConnInv, ConnType, OneConnectionPerPeer
<1>2. conn'[g] = [pc |-> "up", peer |-> conn[g].peer] /\ conn[g].peer \in Peers
    BY <1>0 DEF ConnInv, ConnType
<1>3. ConnType'
    BY <1>0, <1>1, <1>2 DEF ConnInv, ConnType
<1>4. DialsAreMarked'
    BY <1>0, <1>1, <1>2 DEF ConnInv, ConnType, DialsAreMarked
<1>5. OneConnectionPerPeer'
    BY <1>0, <1>1, <1>2 DEF ConnInv, ConnType, OneConnectionPerPeer
<1>6. MarksHaveGoroutines'
    BY <1>0, <1>1, <1>2 DEF ConnInv, ConnType, MarksHaveGoroutines
<1> QED BY <1>3, <1>4, <1>5, <1>6 DEF ConnInv

LEMMA PeerLostKeepsConnInv ==
    ASSUME ConnInv, NEW g \in Slots, PeerLost(g)
    PROVE  ConnInv'
<1> USE NoPeerAssumption
<1>0. /\ conn[g].pc = "up" /\ conn' = [conn EXCEPT ![g].pc = "lost"]
      /\ connectingRemotes' = connectingRemotes
      /\ remotes' = (IF persistent THEN remotes \ {conn[g].peer} ELSE remotes)
      /\ persistent' = persistent
    BY DEF PeerLost, RemoveRemote, runVars
<1>1. \A h \in Slots : h # g => conn'[h] = conn[h] /\ conn[h].peer # conn[g].peer
    BY <1>0 DEF ConnInv, ConnType, OneConnectionPerPeer
<1>2. conn'[g] = [pc |-> "lost", peer |-> conn[g].peer] /\ conn[g].peer \in Peers
    BY <1>0 DEF ConnInv, ConnType
<1>3. ConnType'
    BY <1>0, <1>1, <1>2 DEF ConnInv, ConnType
<1>4. DialsAreMarked'
    BY <1>0, <1>1, <1>2 DEF ConnInv, ConnType, DialsAreMarked
<1>5. OneConnectionPerPeer'
    BY <1>0, <1>1, <1>2 DEF ConnInv, ConnType, OneConnectionPerPeer
<1>6. MarksHaveGoroutines'
    BY <1>0, <1>1, <1>2 DEF ConnInv, ConnType, MarksHaveGoroutines
<1> QED BY <1>3, <1>4, <1>5, <1>6 DEF ConnInv

LEMMA ConnEndsKeepsConnInv ==
    ASSUME ConnInv, NEW g \in Slots, ConnEnds(g)
    PROVE  ConnInv'
<1> USE NoPeerAssumption
<1>0. /\ conn[g].pc = "lost" /\ conn' = [conn EXCEPT ![g] = IdleConn]
      /\ connectingRemotes' = connectingRemotes
      /\ remotes' = (IF persistent THEN remotes ELSE remotes \ {conn[g].peer})
      /\ persistent' = persistent
    BY DEF ConnEnds, RemoveRemote, runVars
<1>1. \A h \in Slots : h # g => conn'[h] = conn[h] /\ conn[h].peer # conn[g].peer
    BY <1>0 DEF ConnInv, ConnType, OneConnectionPerPeer
<1>2. conn'[g] = [pc |-> "idle", peer |-> NoPeer]
    BY <1>0 DEF ConnInv, ConnType, IdleConn
<1>3. ConnType'
    BY <1>0, <1>1, <1>2 DEF ConnInv, ConnType, IdleConn
<1>4. DialsAreMarked'
    BY <1>0, <1>1, <1>2 DEF ConnInv, ConnType, DialsAreMarked
<1>5. OneConnectionPerPeer'
    BY <1>0, <1>1, <1>2 DEF ConnInv, ConnType, OneConnectionPerPeer
<1>6. MarksHaveGoroutines'
    BY <1>0, <1>1, <1>2 DEF ConnInv, ConnType, MarksHaveGoroutines
<1> QED BY <1>3, <1>4, <1>5, <1>6 DEF ConnInv

\* The other steps leave the connections alone.
LEMMA ConnInvUnchanged ==
    ASSUME ConnInv, UNCHANGED <<connVars, persistent>>
    PROVE  ConnInv'
BY DEF ConnInv, ConnType, DialsAreMarked, OneConnectionPerPeer, MarksHaveGoroutines, connVars

LEMMA ConnInvStep == ConnInv /\ [Next]_vars => ConnInv'
<1> SUFFICES ASSUME ConnInv, [Next]_vars PROVE ConnInv'
    OBVIOUS
<1>1. CASE UNCHANGED vars
    BY <1>1, ConnInvUnchanged DEF vars, runVars
<1>2. ASSUME NEW g \in Slots, NEW p \in Peers, Dial(g, p) PROVE ConnInv'
    BY <1>2, DialKeepsConnInv
<1>3. ASSUME NEW g \in Slots, ConnStep(g) PROVE ConnInv'
    BY <1>3, DialFailsKeepsConnInv, ConnectedKeepsConnInv, PeerLostKeepsConnInv,
       ConnEndsKeepsConnInv DEF ConnStep
<1>4. ASSUME NEW g \in Slots, PublishUnmined(g) PROVE ConnInv'
    BY <1>4, ConnInvUnchanged DEF PublishUnmined, runVars
<1>5. ASSUME NEW p \in Peers, NEW ts \in SUBSET Txs, ReceiveInv(p, ts) PROVE ConnInv'
    BY <1>5, ConnInvUnchanged DEF ReceiveInv, runVars
<1>6. CASE InvStep
  <2>1. ASSUME NEW w \in Wallets, SkipTxInvs(w) PROVE ConnInv'
    BY <2>1, ConnInvUnchanged DEF SkipTxInvs, runVars
  <2>2. ASSUME NEW w \in Wallets, NEW ts \in SUBSET Txs, HandleTxInvs(w, ts) PROVE ConnInv'
    BY <2>2, ConnInvUnchanged DEF HandleTxInvs, runVars
  <2> QED BY <1>6, <2>1, <2>2 DEF InvStep
<1>7. CASE InvCanceled
    BY <1>7, ConnInvUnchanged DEF InvCanceled, runVars
<1>8. ASSUME NEW w \in Wallets, RescanEnds(w) PROVE ConnInv'
    BY <1>8, ConnInvUnchanged DEF RescanEnds, runVars
<1>9. ASSUME NEW w \in Wallets, NEW t \in Txs, RescanBlock(w, t) PROVE ConnInv'
    BY <1>9, ConnInvUnchanged DEF RescanBlock, runVars
<1>10. ASSUME NEW t \in Txs, Publish(t) \/ Evict(t) PROVE ConnInv'
    BY <1>10, ConnInvUnchanged DEF Publish, Evict, runVars
<1>11. CASE MempoolAdd \/ PublishCanceled \/ Announce
    BY <1>11, ConnInvUnchanged DEF MempoolAdd, PublishCanceled, Announce, runVars
<1>12. CASE Cancel \/ RunReturns
    BY <1>12, ConnInvUnchanged DEF Cancel, RunReturns
<1> QED BY <1>1, <1>2, <1>3, <1>4, <1>5, <1>6, <1>7, <1>8, <1>9, <1>10, <1>11, <1>12 DEF Next

\* spv/sync.go peerCandidate, connectToCandidates, connectToPersistent: however
\* attempts, failures and lost peers interleave, no peer is connected twice.
THEOREM PeersAreConnectedOnce == Spec => []OneConnectionPerPeer
<1>1. ConnInv => OneConnectionPerPeer
    BY DEF ConnInv
<1> QED BY <1>1, ConnInvInit, ConnInvStep, PTL DEF Spec

\* No address stays in connectingRemotes or in remotes without its goroutine,
\* so that a peer can always be tried again.
THEOREM MarksAreOfLiveGoroutines == Spec => []MarksHaveGoroutines
<1>1. ConnInv => MarksHaveGoroutines
    BY DEF ConnInv
<1> QED BY <1>1, ConnInvInit, ConnInvStep, PTL DEF Spec

----------------------------------------------------------------------------
(* Announced transactions. *)

\* A transaction is stored before it is on its way to the peers, and neither
\* the wallets nor the mempool lose it without an eviction.
Stored(t) == Have(t) \/ t \in evicted

ServeType ==
    /\ walletTxs \in [Wallets -> SUBSET Txs] /\ invsSent \in [Peers -> SUBSET Txs]
    /\ mempool \subseteq Txs
    /\ pub \in [pc : {"idle", "add", "announce"}, tx : SUBSET Txs]

\* What a peer was told and what is about to be announced is stored.
ToldIsStored == \A p \in Peers : \A t \in invsSent[p] : Stored(t)
PubIsStored == pub.pc \in {"add", "announce"} => \A t \in pub.tx : Stored(t)

ServeInv == ServeType /\ ToldIsStored /\ PubIsStored

LEMMA ServeInvInit == Init => ServeInv
BY DEF Init, ServeInv, ServeType, ToldIsStored, PubIsStored, IdlePub

\* The stores grow, but for what is evicted.
StoresGrow ==
    /\ \A w \in Wallets : walletTxs[w] \subseteq walletTxs'[w]
    /\ mempool \subseteq mempool' \cup evicted'
    /\ evicted \subseteq evicted'

LEMMA StoredStays ==
    ASSUME StoresGrow, NEW t, Stored(t)
    PROVE  Stored(t)'
BY DEF StoresGrow, Stored, Have

\* A step that tells nobody anything, and takes nothing up to be announced.
LEMMA QuietStep ==
    ASSUME ServeInv, StoresGrow,
           walletTxs' \in [Wallets -> SUBSET Txs], mempool' \subseteq Txs,
           invsSent' \in [Peers -> SUBSET Txs],
           \A p \in Peers : invsSent'[p] \subseteq invsSent[p],
           pub' = pub \/ pub' = IdlePub \/ (pub' = [pub EXCEPT !.pc = "announce"] /\ pub.pc = "add")
    PROVE  ServeInv'
<1>1. ServeType'
    BY DEF ServeInv, ServeType, IdlePub
<1>2. ToldIsStored'
    BY StoredStays DEF ServeInv, ToldIsStored
<1>3. PubIsStored'
  <2> SUFFICES ASSUME pub'.pc \in {"add", "announce"}, NEW t \in pub'.tx PROVE Stored(t)'
      BY DEF PubIsStored
  <2>1. pub.pc \in {"add", "announce"} /\ t \in pub.tx
      BY DEF ServeInv, ServeType, IdlePub
  <2>2. Stored(t)
      BY <2>1 DEF ServeInv, PubIsStored
  <2> QED BY <2>2, StoredStays
<1> QED BY <1>1, <1>2, <1>3 DEF ServeInv

\* Connections: a lost peer forgets what it was told.
LEMMA ConnStepServes ==
    ASSUME ServeInv, ConnInv, NEW g \in Slots, ConnStep(g)
    PROVE  ServeInv'
<1>1. /\ walletTxs' = walletTxs /\ mempool' = mempool /\ evicted' = evicted /\ pub' = pub
    BY DEF ConnStep, DialFails, Connected, PeerLost, ConnEnds, txVars, poolVars
<1>2. invsSent' = invsSent \/ invsSent' = [invsSent EXCEPT ![conn[g].peer] = {}]
    BY DEF ConnStep, DialFails, Connected, PeerLost, ConnEnds, RemoveRemote, poolVars
<1>3. /\ invsSent' \in [Peers -> SUBSET Txs]
      /\ \A p \in Peers : invsSent'[p] \subseteq invsSent[p]
    BY <1>2 DEF ServeInv, ServeType
<1>4. StoresGrow
    BY <1>1 DEF StoresGrow
<1>5. walletTxs' \in [Wallets -> SUBSET Txs] /\ mempool' \subseteq Txs
    BY <1>1 DEF ServeInv, ServeType
<1> QED BY <1>1, <1>3, <1>4, <1>5, QuietStep

\* The inv handler and rescans save transactions in the wallets.
LEMMA SaveServes ==
    ASSUME ServeInv, NEW w \in Wallets, NEW ts \in SUBSET Txs,
           walletTxs' = [walletTxs EXCEPT ![w] = @ \cup ts], UNCHANGED poolVars
    PROVE  ServeInv'
<1>1. StoresGrow
    BY DEF StoresGrow, ServeInv, ServeType, poolVars
<1>2. /\ walletTxs' \in [Wallets -> SUBSET Txs] /\ mempool' \subseteq Txs
      /\ invsSent' \in [Peers -> SUBSET Txs] /\ pub' = pub /\ invsSent' = invsSent
    BY DEF ServeInv, ServeType, poolVars
<1> QED BY <1>1, <1>2, QuietStep

LEMMA ServeInvUnchanged ==
    ASSUME ServeInv, UNCHANGED <<walletTxs, invsSent, mempool, evicted, pub>>
    PROVE  ServeInv'
BY DEF ServeInv, ServeType, ToldIsStored, PubIsStored, Stored, Have

\* A transaction is in a wallet or in the mempool before it is taken up.
LEMMA PublishServes ==
    ASSUME ServeInv, NEW t \in Txs, Publish(t)
    PROVE  ServeInv'
<1>1. /\ walletTxs' = walletTxs /\ invsSent' = invsSent /\ evicted' = evicted
      /\ mempool' = mempool \/ mempool' = mempool \cup {t}
    BY DEF Publish, txVars
<1>2. pub' \in [pc : {"add", "announce"}, tx : {{t}}]
    BY DEF Publish
<1>3. Stored(t)'
    BY <1>1 DEF Publish, Stored, Have
<1>4. StoresGrow
    BY <1>1 DEF StoresGrow
<1>5. ServeType'
    BY <1>1, <1>2 DEF ServeInv, ServeType
<1>6. ToldIsStored'
    BY <1>1, <1>4, StoredStays DEF ServeInv, ToldIsStored
<1>7. PubIsStored'
    BY <1>2, <1>3 DEF PubIsStored
<1> QED BY <1>5, <1>6, <1>7 DEF ServeInv

LEMMA AnnounceServes ==
    ASSUME ServeInv, Announce
    PROVE  ServeInv'
<1>1. /\ walletTxs' = walletTxs /\ mempool' = mempool /\ evicted' = evicted /\ pub' = IdlePub
      /\ invsSent' = [p \in Peers |-> IF p \in remotes THEN invsSent[p] \cup pub.tx
                                      ELSE invsSent[p]]
    BY DEF Announce, txVars
<1>2. \A t : Stored(t) => Stored(t)'
    BY <1>1 DEF Stored, Have
<1>3. \A p \in Peers : \A t \in invsSent'[p] : t \in invsSent[p] \/ t \in pub.tx
    BY <1>1 DEF ServeInv, ServeType
<1>4. \A t \in pub.tx : Stored(t)
    BY DEF Announce, ServeInv, PubIsStored
<1>5. ToldIsStored'
    BY <1>2, <1>3, <1>4 DEF ServeInv, ToldIsStored
<1>6. ServeType'
    BY <1>1 DEF ServeInv, ServeType, IdlePub
<1>7. PubIsStored'
    BY <1>1 DEF PubIsStored, IdlePub
<1> QED BY <1>5, <1>6, <1>7 DEF ServeInv

LEMMA PublishUnminedServes ==
    ASSUME ServeInv, ConnInv, NEW g \in Slots, PublishUnmined(g)
    PROVE  ServeInv'
<1> DEFINE unmined == UNION {walletTxs[w] : w \in Wallets}
<1>1. /\ walletTxs' = walletTxs /\ mempool' = mempool /\ evicted' = evicted /\ pub' = pub
      /\ invsSent' = [invsSent EXCEPT ![conn[g].peer] = @ \cup unmined]
    BY DEF PublishUnmined, txVars
<1>2. conn[g].peer \in Peers
    BY DEF PublishUnmined, ConnInv, ConnType
<1>3. \A t \in unmined : Stored(t) /\ t \in Txs
    BY DEF Stored, Have, ServeInv, ServeType
<1>4. \A t : Stored(t) => Stored(t)'
    BY <1>1 DEF Stored, Have
<1> HIDE DEF unmined
<1>5. \A p \in Peers : \A t \in invsSent'[p] : t \in invsSent[p] \/ t \in unmined
    BY <1>1, <1>2 DEF ServeInv, ServeType
<1>6. ToldIsStored'
    BY <1>3, <1>4, <1>5 DEF ServeInv, ToldIsStored
<1>7. ServeType'
    BY <1>1, <1>2, <1>3 DEF ServeInv, ServeType
<1>8. PubIsStored'
    BY <1>1, <1>4 DEF ServeInv, PubIsStored
<1> QED BY <1>6, <1>7, <1>8 DEF ServeInv

\* The mempool handler: an evicted transaction is remembered as evicted.
LEMMA MempoolServes ==
    ASSUME ServeInv,
           \/ \E t \in Txs : Evict(t)
           \/ MempoolAdd \/ PublishCanceled \/ Cancel
    PROVE  ServeInv'
<1>1. walletTxs' = walletTxs /\ invsSent' = invsSent
    BY DEF Evict, MempoolAdd, PublishCanceled, Cancel, txVars
<1>2. \/ mempool' = mempool /\ evicted' = evicted
      \/ \E t \in Txs : mempool' = mempool \ {t} /\ evicted' = evicted \cup {t}
    BY DEF Evict, MempoolAdd, PublishCanceled, Cancel
<1>3. pub' = pub \/ pub' = IdlePub \/ (pub' = [pub EXCEPT !.pc = "announce"] /\ pub.pc = "add")
    BY Zenon DEF Evict, MempoolAdd, PublishCanceled, Cancel
<1>4. StoresGrow
    BY <1>1, <1>2 DEF StoresGrow
<1>5. mempool' \subseteq Txs /\ walletTxs' \in [Wallets -> SUBSET Txs] /\ invsSent' \in [Peers -> SUBSET Txs]
    BY <1>1, <1>2 DEF ServeInv, ServeType
<1> QED BY <1>1, <1>3, <1>4, <1>5, QuietStep

LEMMA ServeInvStep == ServeInv /\ ConnInv /\ [Next]_vars => ServeInv'
<1> SUFFICES ASSUME ServeInv, ConnInv, [Next]_vars PROVE ServeInv'
    OBVIOUS
<1>1. CASE UNCHANGED vars
    BY <1>1, ServeInvUnchanged DEF vars, txVars, poolVars
<1>2. ASSUME NEW g \in Slots, NEW p \in Peers, Dial(g, p) PROVE ServeInv'
    BY <1>2, ServeInvUnchanged DEF Dial, txVars, poolVars
<1>3. ASSUME NEW g \in Slots, ConnStep(g) PROVE ServeInv'
    BY <1>3, ConnStepServes
<1>4. ASSUME NEW g \in Slots, PublishUnmined(g) PROVE ServeInv'
    BY <1>4, PublishUnminedServes
<1>5. ASSUME NEW p \in Peers, NEW ts \in SUBSET Txs, ReceiveInv(p, ts) PROVE ServeInv'
    BY <1>5, ServeInvUnchanged DEF ReceiveInv, poolVars
<1>6. CASE InvStep
  <2>1. ASSUME NEW w \in Wallets, SkipTxInvs(w) PROVE ServeInv'
    BY <2>1, ServeInvUnchanged DEF SkipTxInvs, poolVars
  <2>2. ASSUME NEW w \in Wallets, NEW ts \in SUBSET Txs, HandleTxInvs(w, ts) PROVE ServeInv'
    <3> DEFINE rel == {t \in ts : Relevant(w, t)}
    <3>1. rel \in SUBSET Txs
        OBVIOUS
    <3>2. walletTxs' = [walletTxs EXCEPT ![w] = @ \cup rel] /\ UNCHANGED poolVars
        BY <2>2 DEF HandleTxInvs
    <3> HIDE DEF rel
    <3> QED BY <3>1, <3>2, SaveServes
  <2> QED BY <1>6, <2>1, <2>2 DEF InvStep
<1>7. CASE InvCanceled
    BY <1>7, ServeInvUnchanged DEF InvCanceled, poolVars
<1>8. ASSUME NEW w \in Wallets, RescanEnds(w) PROVE ServeInv'
    BY <1>8, ServeInvUnchanged DEF RescanEnds, poolVars
<1>9. ASSUME NEW w \in Wallets, NEW t \in Txs, RescanBlock(w, t) PROVE ServeInv'
  <2>1. walletTxs' = [walletTxs EXCEPT ![w] = @ \cup {t}] /\ UNCHANGED poolVars /\ {t} \in SUBSET Txs
      BY <1>9 DEF RescanBlock
  <2> QED BY <2>1, SaveServes
<1>10. ASSUME NEW t \in Txs, Publish(t) PROVE ServeInv'
    BY <1>10, PublishServes
<1>11. CASE \/ \E t \in Txs : Evict(t)
            \/ MempoolAdd \/ PublishCanceled \/ Cancel
    BY <1>11, MempoolServes
<1>12. CASE Announce
    BY <1>12, AnnounceServes
<1>13. CASE RunReturns
    BY <1>13, ServeInvUnchanged DEF RunReturns, txVars, poolVars
<1> QED BY <1>1, <1>2, <1>3, <1>4, <1>5, <1>6, <1>7, <1>8, <1>9, <1>10, <1>11, <1>12, <1>13 DEF Next

\* spv/backend.go PublishTransactions, spv/sync.go receiveGetData: a connected
\* peer that asks for a transaction it was told of gets it, unless the mempool
\* has evicted it.
THEOREM AnnouncedIsServed == Spec => []ServedUntilEvicted
<1>1. ServeInv /\ ConnInv => ServedUntilEvicted
    BY DEF ServeInv, ConnInv, ConnType, ToldIsStored, Stored, ServedUntilEvicted
<1>2. Init => ServeInv /\ ConnInv
    BY ServeInvInit, ConnInvInit
<1>3. ServeInv /\ ConnInv /\ [Next]_vars => (ServeInv /\ ConnInv)'
    BY ServeInvStep, ConnInvStep
<1> QED BY <1>1, <1>2, <1>3, PTL DEF Spec
==============================================================================
