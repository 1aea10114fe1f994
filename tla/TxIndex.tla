------------------------------- MODULE TxIndex -------------------------------
(***************************************************************************)
(* The transaction index of one wallet: who writes it and what survives.   *)
(*                                                                         *)
(*   txindex.go                   IndexTransactions, reindexTransactions   *)
(*   txandblocknotifications.go   listenForTransactions                    *)
(*   txparser.go                  decodeTransactionWithTxSummary           *)
(*   walletdata/*.go              SaveOrUpdate, the last index point       *)
(*   rescan.go                    RescanBlocksFromHeight, CancelRescan     *)
(*   syncnotification.go          synced, resetSyncData (listeners)        *)
(*                                                                         *)
(* The writers run concurrently: the indexing that synced starts, the one  *)
(* that ends a rescan, and every transaction listener.  Each decodes a     *)
(* transaction of the wallet and saves the record; nothing orders the      *)
(* saves.  The wallet database and its notification server (dcrwallet) are *)
(* external: the chain switches and unmined transactions they report.      *)
(***************************************************************************)
EXTENDS TxFilters, Sequences, FiniteSets

CONSTANTS Ticket, Vote,    \* a ticket purchase and the vote that spends it
          Rescans,         \* goroutines of RescanBlocksFromHeight
          Listeners,       \* goroutines of listenForTransactions
          MaxReOrgBlocks,  \* walletdata/read.go
          MaxHeight, MaxEvents  \* bounds: the chain; reorgs, failures, stops, rescans

Txs == {Ticket, Vote}
Indexers == {"sync"} \cup Rescans
Writers == Indexers \cup Listeners

ASSUME BoundsAssumption == MaxReOrgBlocks \in Nat /\ MaxHeight \in Nat /\ MaxEvents \in Nat
ASSUME NamesAssumption == Ticket # Vote /\ "sync" \notin Rescans /\ Indexers \cap Listeners = {}

Absent == -2                \* the wallet does not know the transaction
Heights == 1..MaxHeight
NoRecord == [height |-> Absent, spender |-> NoSpender]

VARIABLES
  best, where,     \* the wallet database: tip height; block of each transaction
  index, point,    \* walletDataDB: a record for each transaction, KeyEndBlock
  writer,          \* what each goroutine that decodes and saves is doing
  pend,            \* the notification being sent to a listener
  chan,            \* the syncCanceled channel a listener selects on
  sync,            \* "off", "syncing", "synced", "closed" (canceled, not reset)
  rescan, from,    \* each rescan: "none", "scanning", "clear", "indexing"; its start height
  events,          \* how many of the bounded events have happened
  lossy            \* history: something happened that the index does not absorb

dbVars == <<best, where>>
idxVars == <<index, point>>
rescanVars == <<rescan, from>>
vars == <<best, where, index, point, writer, pend, chan, sync, rescan, from, events, lossy>>

Idle == [pc |-> "none", todo |-> {}, cur |-> Ticket, rec |-> NoRecord, end |-> 0]

(***************************************************************************)
(* Records.  Decoding a transaction takes its height from its block and no *)
(* spender; decoding a vote also decodes the ticket again and saves it     *)
(* with the vote as its spender.                                           *)
(***************************************************************************)
Decoded(height) == [height |-> height, spender |-> NoSpender]

\* The index after decodeTransactionWithTxSummary of tx.
SpentTicket(idx, tx) ==
  IF tx = Vote THEN [idx EXCEPT ![Ticket] = [height |-> where[Ticket], spender |-> Vote]]
  ELSE idx

\* The transactions the wallet database lists for the heights a to b, with
\* their heights; unmined ones are not in a range that ends at a height.
RangeTransactions(a, b) == {<<tx, where[tx]>> : tx \in {x \in Txs : where[x] \in a..b}}

\* Block order: the next transaction of a list, lowest block first.
NextOf(todo) == CHOOSE e \in todo : \A f \in todo : e[2] <= f[2]

\* A variant of ReadIndexingStartBlock: indexing goes on after the saved point.
AfterPoint(p) == p + 1

\* ReadIndexingStartBlock.
IndexingStartBlock(p) == IF p - MaxReOrgBlocks < 0 THEN 0 ELSE p - MaxReOrgBlocks

Running(i) == writer[i].pc # "none"
Live(l) == writer[l].pc \in {"select", "decode", "save"}
Registered(l) == writer[l].pc # "none"

(***************************************************************************)
(* The writers.                                                            *)
(***************************************************************************)
\* The next transaction is decoded; for a vote its ticket is saved on the way.
Decode(w) ==
  /\ writer[w].pc = "decode"
  /\ writer[w].todo # {}
  /\ LET e == NextOf(writer[w].todo)
     IN /\ index' = SpentTicket(index, e[1])
        /\ writer' = [writer EXCEPT ![w].pc = "save", ![w].cur = e[1],
                                    ![w].todo = @ \ {e}, ![w].rec = Decoded(e[2])]
  /\ UNCHANGED <<dbVars, point, pend, chan, sync, rescanVars, events, lossy>>

\* What a select on mw.syncData.syncCanceled waits for in a state of the sync.
CanceledChan(s) == IF s = "off" THEN "nil" ELSE IF s = "closed" THEN "closed" ELSE "open"

\* listenForTransactions: the goroutine l registers with the notification server.
Listen(l, ws) == [ws EXCEPT ![l] = [Idle EXCEPT !.pc = "select"]]

\* SaveOrUpdate.
Save(w) ==
  /\ writer[w].pc = "save"
  /\ index' = [index EXCEPT ![writer[w].cur] = writer[w].rec]
  /\ UNCHANGED <<dbVars, pend, sync, rescanVars, events, lossy>>

\* An indexing saves the height of a finished block as the point.
IndexSave(i) ==
  /\ i \in Indexers
  /\ Save(i)
  /\ point' = IF \E e \in writer[i].todo : e[2] = writer[i].rec.height THEN point
              ELSE writer[i].rec.height
  /\ writer' = [writer EXCEPT ![i] = [@ EXCEPT !.pc = "decode", !.cur = Ticket, !.rec = NoRecord]]
  /\ UNCHANGED chan

\* A listener saves; after the last transaction of a notification it is back in
\* its select, on the channel of that moment.
ListenerSave(l) ==
  /\ l \in Listeners
  /\ Save(l)
  /\ IF writer[l].todo = {}
     THEN writer' = Listen(l, writer) /\ chan' = [chan EXCEPT ![l] = CanceledChan(sync)]
     ELSE /\ writer' = [writer EXCEPT ![l] = [@ EXCEPT !.pc = "decode", !.cur = Ticket,
                                                       !.rec = NoRecord]]
          /\ chan' = chan
  /\ point' = point

(***************************************************************************)
(* IndexTransactions.                                                      *)
(***************************************************************************)
\* A writer that has read where to begin and the tip, and then opened its view
\* of the wallet database.
Indexing(begin) == [Idle EXCEPT !.pc = "decode", !.end = best,
                                !.todo = RangeTransactions(begin, best)]

\* The range is done: the deferred function saves the end height.
IndexEnds(i) ==
  /\ i \in Indexers
  /\ writer[i].pc = "decode"
  /\ writer[i].todo = {}
  /\ point' = writer[i].end
  /\ writer' = [writer EXCEPT ![i] = Idle]
  /\ UNCHANGED <<dbVars, index, pend, chan, sync, rescanVars, events, lossy>>

\* A decode or save fails, or the wallet's shutdown context is done: the
\* deferred function saves the end height all the same.
IndexAborts(i) ==
  /\ events < MaxEvents
  /\ i \in Indexers
  /\ writer[i].pc \in {"decode", "save"}
  /\ point' = writer[i].end
  /\ writer' = [writer EXCEPT ![i] = Idle]
  /\ events' = events + 1
  /\ lossy' = TRUE
  /\ UNCHANGED <<dbVars, index, pend, chan, sync, rescanVars>>

(***************************************************************************)
(* Listeners.                                                              *)
(***************************************************************************)
Free == CHOOSE l \in Listeners : ~Registered(l)

\* It receives the notification the server is sending; one without transactions
\* of the wallet leaves nothing to save.
Receive(l) ==
  /\ l \in Listeners
  /\ writer[l].pc = "select"
  /\ pend[l] # <<>>
  /\ pend' = [pend EXCEPT ![l] = <<>>]
  /\ IF Head(pend[l]) = {}
     THEN writer' = writer /\ chan' = [chan EXCEPT ![l] = CanceledChan(sync)]
     ELSE /\ writer' = [writer EXCEPT ![l].pc = "decode", ![l].todo = Head(pend[l])]
          /\ chan' = [chan EXCEPT ![l] = "nil"]
  /\ UNCHANGED <<dbVars, idxVars, sync, rescanVars, events, lossy>>

\* n.Done: the client is removed from the server, its channel drained and closed,
\* and the goroutine returns.
Unregister(l, ws) == [ws EXCEPT ![l] = Idle]

\* The syncCanceled channel is closed.
ListenerCanceled(l) ==
  /\ l \in Listeners
  /\ writer[l].pc = "select"
  /\ chan[l] = "closed"
  /\ writer' = Unregister(l, writer)
  /\ pend' = [pend EXCEPT ![l] = <<>>]
  /\ chan' = [chan EXCEPT ![l] = "nil"]
  /\ UNCHANGED <<dbVars, idxVars, sync, rescanVars, events, lossy>>

\* A decode or save fails: the goroutine returns, still registered.
ListenerFails(l) ==
  /\ events < MaxEvents
  /\ l \in Listeners
  /\ writer[l].pc \in {"decode", "save"}
  /\ writer' = [writer EXCEPT ![l] = [Idle EXCEPT !.pc = "dead"]]
  /\ events' = events + 1
  /\ UNCHANGED <<dbVars, idxVars, pend, chan, sync, rescanVars, lossy>>

(***************************************************************************)
(* The sync session as the listeners and the index see it.                 *)
(***************************************************************************)
Connected == sync \in {"syncing", "synced", "unsynced"}

StartSync ==
  /\ sync = "off"
  /\ sync' = "syncing"
  /\ UNCHANGED <<dbVars, idxVars, writer, pend, chan, rescanVars, events, lossy>>

\* synced(true) of the only wallet: a listener and an indexing are started; once
\* all wallets are synced, later calls only index.
Synced ==
  /\ sync \in {"syncing", "unsynced"}
  /\ ~Running("sync")
  /\ sync' = "synced"
  /\ LET indexed == [writer EXCEPT !["sync"] = Indexing(IndexingStartBlock(point))]
     IN IF sync = "unsynced" THEN writer' = indexed /\ chan' = chan
        ELSE /\ \E l \in Listeners : ~Registered(l)
             /\ writer' = Listen(Free, indexed)
             /\ chan' = [chan EXCEPT ![Free] = "open"]
  /\ UNCHANGED <<dbVars, idxVars, pend, rescanVars, events, lossy>>

\* synced(false), when all peers are lost: one more listener is started.
Unsynced ==
  /\ sync = "synced"
  /\ events < MaxEvents
  /\ sync' = "unsynced"
  /\ \E l \in Listeners : ~Registered(l)
  /\ writer' = Listen(Free, writer)
  /\ chan' = [chan EXCEPT ![Free] = "open"]
  /\ events' = events + 1
  /\ UNCHANGED <<dbVars, idxVars, pend, rescanVars, lossy>>

\* The sync run ends: canceled (the channel is closed, resetSyncData follows) or
\* with another error (the channel is only forgotten).
SyncCanceled ==
  /\ Connected
  /\ events < MaxEvents
  /\ events' = events + 1
  /\ sync' = "closed"
  /\ chan' = [l \in Listeners |-> IF chan[l] = "open" THEN "closed" ELSE chan[l]]
  /\ UNCHANGED <<dbVars, idxVars, writer, pend, rescanVars, lossy>>

ResetSyncData ==
  /\ sync = "closed"
  /\ sync' = "off"
  /\ UNCHANGED <<dbVars, idxVars, writer, pend, chan, rescanVars, events, lossy>>

SyncFails ==
  /\ Connected
  /\ events < MaxEvents
  /\ sync' = "off"
  /\ chan' = [l \in Listeners |-> IF chan[l] = "open" THEN "nil" ELSE chan[l]]
  /\ events' = events + 1
  /\ UNCHANGED <<dbVars, idxVars, writer, pend, rescanVars, lossy>>

(***************************************************************************)
(* Rescan (its flag and its cancel handle are in module Services).         *)
(***************************************************************************)
RescanBlocksFromHeight(r, height) ==
  /\ events < MaxEvents
  /\ rescan[r] = "none"
  /\ sync \in {"synced", "unsynced"}
  /\ rescan' = [rescan EXCEPT ![r] = "scanning"]
  /\ from' = [from EXCEPT ![r] = height]
  /\ events' = events + 1
  /\ UNCHANGED <<dbVars, idxVars, writer, pend, chan, sync, lossy>>

\* The scan fails or is canceled: nothing is indexed.
RescanStops(r) ==
  /\ rescan[r] = "scanning"
  /\ rescan' = [rescan EXCEPT ![r] = "none"]
  /\ from' = [from EXCEPT ![r] = 0]
  /\ UNCHANGED <<dbVars, idxVars, writer, pend, chan, sync, events, lossy>>

\* The scan is complete: the index is cleared, or its point set to the start
\* height, unconditionally ...
RescanScanned(r) ==
  /\ rescan[r] = "scanning"
  /\ rescan' = [rescan EXCEPT ![r] = "clear"]
  /\ point' = from[r]
  /\ index' = IF from[r] = 0 THEN [tx \in Txs |-> NoRecord] ELSE index
  /\ lossy' = \/ from[r] > point
              \/ from[r] # 0 /\ lossy
              \/ \E i \in Indexers : Running(i)
  /\ UNCHANGED <<dbVars, writer, pend, chan, sync, from, events>>

\* ... and an indexing starts from whatever the point is by now.
RescanIndexes(r) ==
  /\ rescan[r] = "clear"
  /\ rescan' = [rescan EXCEPT ![r] = "indexing"]
  /\ writer' = [writer EXCEPT ![r] = Indexing(IndexingStartBlock(point))]
  /\ UNCHANGED <<dbVars, idxVars, pend, chan, sync, from, events, lossy>>

RescanEnds(r) ==
  /\ rescan[r] = "indexing"
  /\ ~Running(r)
  /\ rescan' = [rescan EXCEPT ![r] = "none"]
  /\ from' = [from EXCEPT ![r] = 0]
  /\ UNCHANGED <<dbVars, idxVars, writer, pend, chan, sync, events, lossy>>

(***************************************************************************)
(* The wallet database and its notification server (external).  A change   *)
(* is committed, then sent to every registered listener; the next change   *)
(* waits until all have taken it.                                          *)
(***************************************************************************)
Sendable == Connected /\ \A l \in Listeners : pend[l] = <<>>
Notify(items) == pend' = [l \in Listeners |-> IF Registered(l) THEN <<items>> ELSE <<>>]

\* What a change adds to the history while an indexing reads an older view.
Raced == lossy' = (lossy \/ \E i \in Indexers : Running(i))

\* A transaction may appear: the vote only once its ticket is in a block.
MayAppear(tx) == tx = Vote => where[Ticket] > 0

UnminedTransaction(tx) ==
  /\ Sendable
  /\ where[tx] = Absent /\ MayAppear(tx)
  /\ where' = [where EXCEPT ![tx] = BlockHeightInvalid]
  /\ Notify({<<tx, BlockHeightInvalid>>})
  /\ IF tx = Vote THEN Raced ELSE lossy' = lossy
  /\ UNCHANGED <<best, idxVars, writer, chan, sync, rescanVars, events>>

AttachBlock(txs) ==
  /\ Sendable
  /\ best < MaxHeight
  /\ Cardinality(txs) <= 1
  /\ \A tx \in txs : where[tx] <= 0 /\ MayAppear(tx)
  /\ best' = best + 1
  /\ where' = [tx \in Txs |-> IF tx \in txs THEN best + 1 ELSE where[tx]]
  /\ Notify({<<tx, best + 1>> : tx \in txs})
  /\ IF Vote \in txs THEN Raced ELSE lossy' = lossy
  /\ UNCHANGED <<idxVars, writer, chan, sync, rescanVars, events>>

\* A chain switch to a branch one block higher, from at most MaxReOrgBlocks deep:
\* what the detached blocks held is mined again on the new branch, or unmined.
Reorg(fork, mined) ==
  /\ Sendable
  /\ best < MaxHeight
  /\ events < MaxEvents
  /\ fork \in (best - MaxReOrgBlocks)..(best - 1)
  /\ where[Vote] # Absent => where[Ticket] <= fork
  /\ mined \subseteq {tx \in Txs : where[tx] > fork}
  /\ best' = best + 1
  /\ \E h \in [mined -> (fork + 1)..(best + 1)] :
       /\ where' = [tx \in Txs |-> IF tx \in mined THEN h[tx]
                                   ELSE IF where[tx] > fork THEN BlockHeightInvalid
                                   ELSE where[tx]]
       /\ Notify({<<tx, h[tx]>> : tx \in mined})
  /\ events' = events + 1
  /\ Raced
  /\ UNCHANGED <<idxVars, writer, chan, sync, rescanVars>>

(***************************************************************************)
(* The process ends without notice: databases stay, goroutines do not.     *)
(***************************************************************************)
Stopped ==
  /\ events < MaxEvents
  /\ events' = events + 1
  /\ writer' = [w \in Writers |-> Idle]
  /\ pend' = [l \in Listeners |-> <<>>]
  /\ chan' = [l \in Listeners |-> "nil"]
  /\ sync' = "off"
  /\ rescan' = [r \in Rescans |-> "none"]
  /\ from' = [r \in Rescans |-> 0]
  /\ UNCHANGED <<dbVars, point>>

\* An indexing is overtaken when another one that ran beside it has saved a
\* point so high that the next indexing begins above what it has still to save.
Overtaken ==
  \E i \in Indexers :
    \/ \E e \in writer[i].todo : e[2] < IndexingStartBlock(point)
    \/ writer[i].pc = "save" /\ writer[i].rec.height < IndexingStartBlock(point)

Crash == Stopped /\ index' = index /\ lossy' = (lossy \/ Overtaken)

\* SaveOrUpdate deletes the old record before it saves the new one, and decoding
\* a vote saves its ticket: a stop in between loses a record that the next
\* indexing may begin above.
CrashInSave(w) ==
  /\ Stopped
  /\ \E tx \in Txs :
       /\ \/ writer[w].pc = "save" /\ tx = writer[w].cur
          \/ /\ writer[w].pc = "decode" /\ writer[w].todo # {}
             /\ NextOf(writer[w].todo)[1] = Vote /\ tx = Ticket
       /\ index[tx] # NoRecord
       /\ index' = [index EXCEPT ![tx] = NoRecord]
       /\ lossy' = (lossy \/ Overtaken \/ where[tx] < IndexingStartBlock(point))

(***************************************************************************)
(* The specification.                                                      *)
(***************************************************************************)
Init ==
  /\ best = 1
  /\ \E h \in {Absent, 1} : where = [tx \in Txs |-> IF tx = Ticket THEN h ELSE Absent]
  /\ index = [tx \in Txs |-> NoRecord] /\ point = 0
  /\ writer = [w \in Writers |-> Idle]
  /\ pend = [l \in Listeners |-> <<>>] /\ chan = [l \in Listeners |-> "nil"]
  /\ sync = "off"
  /\ rescan = [r \in Rescans |-> "none"] /\ from = [r \in Rescans |-> 0]
  /\ events = 0
  /\ lossy = FALSE

Next ==
  \/ StartSync \/ Synced \/ Unsynced \/ SyncCanceled \/ ResetSyncData \/ SyncFails
  \/ \E w \in Writers : Decode(w) \/ CrashInSave(w)
  \/ \E i \in Indexers : IndexSave(i) \/ IndexEnds(i) \/ IndexAborts(i)
  \/ \E l \in Listeners : Receive(l) \/ ListenerSave(l) \/ ListenerCanceled(l) \/ ListenerFails(l)
  \/ \E r \in Rescans :
       \/ \E height \in {0, best} : RescanBlocksFromHeight(r, height)
       \/ RescanStops(r) \/ RescanScanned(r) \/ RescanIndexes(r) \/ RescanEnds(r)
  \/ \E tx \in Txs : UnminedTransaction(tx)
  \/ \E txs \in SUBSET Txs : AttachBlock(txs)
  \/ \E fork \in 0..MaxHeight, mined \in SUBSET Txs : Reorg(fork, mined)
  \/ Crash

Spec == Init /\ [][Next]_vars

(***************************************************************************)
(* Properties.                                                             *)
(***************************************************************************)
\* Nothing is being written or about to be.
Quiet ==
  /\ sync = "synced"
  /\ \A i \in Indexers : ~Running(i)
  /\ \A r \in Rescans : rescan[r] # "clear"
  /\ \A l \in Listeners : writer[l].pc \in {"none", "select"} /\ pend[l] = <<>>

\* Once the wallet is synced and everything in flight is saved, every mined
\* transaction is indexed at its height and a voted ticket carries its vote: the
\* indexing of the last MaxReOrgBlocks blocks and the listeners between them
\* absorb offline blocks, reorganizations, cancellations and crashes.  lossy
\* names what they do not absorb.
IndexComplete ==
  Quiet /\ ~lossy =>
    /\ \A tx \in Txs : where[tx] > 0 => index[tx].height = where[tx]
    /\ where[Vote] > 0 => index[Ticket].spender = Vote

\* The records the index holds, as Query and TxMatchesFilter see them.
Records ==
  {[type |-> IF tx = Ticket THEN "ticket" ELSE "vote", direction |-> "invalid",
    height |-> index[tx].height, spender |-> index[tx].spender] :
     tx \in {x \in Txs : index[x] # NoRecord}}

\* At every tip and for every filter the database query and TxMatchesFilter
\* agree on what the index holds, and the status shown for a ticket agrees with
\* the filter that lists it: live, unmined, expired (unless it voted) and, once
\* the chain is higher than TicketMaturity, immature.
ClassificationsAgree ==
  LET records == Records
  IN /\ \A f \in Filters : Query(f, records, best) = {r \in records : TxMatchesFilter(r, f, best)}
     /\ \A r \in {x \in records : x.type = "ticket"} :
          LET status == TicketStatus(r, best)
          IN /\ TxMatchesFilter(r, "live", best) <=> status = "live"
             /\ TxMatchesFilter(r, "unmined", best) <=> status = "unmined"
             /\ TxMatchesFilter(r, "expired", best) <=> status = "expired" /\ r.spender = NoSpender
             /\ r.height <= best /\ best > TicketMaturity =>
                  (TxMatchesFilter(r, "immature", best) <=> status = "immature")
==============================================================================
