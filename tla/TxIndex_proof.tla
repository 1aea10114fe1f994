---------------------------- MODULE TxIndex_proof -----------------------------
(***************************************************************************)
(* Proofs about TxIndex, for any listeners and rescans, any chain and any  *)
(* MaxReOrgBlocks: the index is complete once nothing is in flight, and    *)
(* its records are classified alike by the query, the filter and the       *)
(* ticket status.                                                          *)
(***************************************************************************)
EXTENDS TxIndex, TLAPS

----------------------------------------------------------------------------
(* The inductive invariant: types and phases.                               *)

Known == {BlockHeightInvalid} \cup 1..best
WriterState ==
    [pc : {"none", "select", "decode", "save", "dead"}, todo : SUBSET (Txs \X Int),
     cur : Txs, rec : [height : Int, spender : {NoSpender}], end : Int]

ChainType == /\ best \in Nat /\ where \in [Txs -> Int]
             /\ \A tx \in Txs : where[tx] = Absent \/ where[tx] \in Known
IndexType == /\ index \in [Txs -> [height : Int, spender : {NoSpender, Vote}]]
             /\ \A tx \in Txs : index[tx] = NoRecord \/ index[tx].height \in Known
             /\ point \in Nat /\ point <= best
PendType == /\ pend \in [Listeners -> {<<>>} \cup {<<items>> : items \in SUBSET (Txs \X Int)}]
            /\ chan \in [Listeners -> {"nil", "open", "closed"}]
RestType == /\ sync \in {"off", "syncing", "synced", "unsynced", "closed"}
            /\ rescan \in [Rescans -> {"none", "scanning", "clear", "indexing"}]
            /\ from \in [Rescans -> Nat] /\ (\A r \in Rescans : from[r] <= best)
            /\ lossy \in BOOLEAN

\* The ticket is mined before its vote is known of.
TicketFirst == /\ where[Vote] # Absent => where[Ticket] > 0
               /\ where[Vote] > 0 => where[Ticket] < where[Vote]

\* What a writer has still to decode, or has decoded and not saved.
WriterOk(w) ==
    /\ writer[w].pc \notin {"decode", "save"} => writer[w].todo = {}
    /\ \A e, f \in writer[w].todo : e[1] = f[1] => e = f
    /\ \A e \in writer[w].todo : e[2] \in Known /\ (e[1] = Vote => where[Vote] # Absent)
    /\ writer[w].pc = "save" =>
         /\ writer[w].rec.height \in Known
         /\ writer[w].cur = Vote => where[Vote] # Absent

\* An indexing goes through its range from the lowest block to its end.
IndexerOk(i) ==
    /\ writer[i].pc \in {"none", "decode", "save"}
    /\ writer[i].end \in 0..best
    /\ \A e \in writer[i].todo : e[2] \in 0..writer[i].end
    /\ writer[i].pc = "save" => writer[i].rec.height \in 0..writer[i].end

WritersType == /\ writer \in [Writers -> WriterState]
               /\ \A w \in Writers : WriterOk(w)
               /\ \A i \in Indexers : IndexerOk(i)
               /\ \A r \in Rescans : Running(r) => rescan[r] = "indexing"

TypeInv == ChainType /\ IndexType /\ PendType /\ RestType /\ TicketFirst /\ WritersType

----------------------------------------------------------------------------
(* The inductive invariant: what is in flight is current, or followed by    *)
(* what is.                                                                 *)

\* The change a listener is being sent is the last one.
Sent(l, tx) == pend[l] # <<>> /\ <<tx, where[tx]>> \in Head(pend[l])

PendCurrent ==
    \A l \in Listeners : pend[l] # <<>> =>
      \A e \in Head(pend[l]) :
        /\ e[2] = where[e[1]] /\ e[2] \in Known
        /\ e[2] > 0 => e[2] >= best - MaxReOrgBlocks
        /\ e[1] = Ticket => where[Vote] = Absent

\* A transaction that w has still to save, at the height h.
Has(w, tx, h) == \/ <<tx, h>> \in writer[w].todo
                 \/ writer[w].pc = "save" /\ writer[w].cur = tx /\ writer[w].rec.height = h

\* A listener that holds an older height, or a ticket without its vote, is about
\* to be sent the newer one.
ListenerFollows(l) ==
    \A tx \in Txs, h \in Int : Has(l, tx, h) =>
      /\ where[tx] > 0 /\ where[tx] # h => Sent(l, tx)
      /\ tx = Ticket /\ where[Vote] > 0 => Sent(l, Vote)

\* The view of an indexing is still the chain's, as far as it has to go.
IndexerCurrent(i) ==
    \A tx \in Txs, h \in Int : Has(i, tx, h) =>
      /\ h = where[tx] /\ h > 0
      /\ tx = Ticket /\ where[Vote] > 0 => <<Vote, where[Vote]>> \in writer[i].todo

FlightInv == /\ PendCurrent
             /\ \A l \in Listeners : ListenerFollows(l)
             /\ ~lossy => \A i \in Indexers : IndexerCurrent(i)

----------------------------------------------------------------------------
(* The inductive invariant: what is not in the index is saved, or read again. *)

Holds(w, tx) == Has(w, tx, where[tx])
HoldsVote(w) == <<Vote, where[Vote]>> \in writer[w].todo

\* An indexing that begins at the point p reads what the index does not have and
\* no running one is going to save.
Covered(p) ==
    /\ \A tx \in Txs : where[tx] > 0 =>
         \/ index[tx].height = where[tx]
         \/ \E i \in Indexers : Holds(i, tx)
         \/ where[tx] >= IndexingStartBlock(p)
    /\ where[Vote] > 0 =>
         \/ index[Ticket].spender = Vote
         \/ \E i \in Indexers : HoldsVote(i)
         \/ where[Vote] >= IndexingStartBlock(p)

CoveredInv == ~lossy => /\ Covered(point)
                        /\ \A i \in Indexers : Running(i) => Covered(writer[i].end)

\* A listener that takes what it is sent: not one that is about to leave.
Reliable(l) == \/ writer[l].pc \in {"decode", "save"}
               \/ writer[l].pc = "select" /\ chan[l] # "closed"
Dead(l) == writer[l].pc = "dead"

ListenerThere ==
    sync \in {"synced", "unsynced"} => \E l \in Listeners : Reliable(l) \/ Dead(l)

OnItsWay(l, tx) == Reliable(l) /\ (Holds(l, tx) \/ Sent(l, tx))
VoteOnItsWay(l) == Reliable(l) /\ (HoldsVote(l) \/ Sent(l, Vote))

\* While the wallet is synced, what the index does not have is on its way.
Underway ==
    /\ \A tx \in Txs : where[tx] > 0 =>
         \/ index[tx].height = where[tx]
         \/ \E i \in Indexers : Holds(i, tx)
         \/ \E l \in Listeners : OnItsWay(l, tx)
    /\ where[Vote] > 0 =>
         \/ index[Ticket].spender = Vote
         \/ \E i \in Indexers : HoldsVote(i)
         \/ \E l \in Listeners : VoteOnItsWay(l)

SyncedInv ==
    sync = "synced" /\ ~lossy =>
      \/ Underway
      \/ \E r \in Rescans : rescan[r] = "clear"
      \/ \E l \in Listeners : Dead(l)

IndexInv == TypeInv /\ FlightInv /\ CoveredInv /\ ListenerThere /\ SyncedInv

----------------------------------------------------------------------------
(* What the steps of the writers do.                                        *)

\* Only w moves, to a state v.
Becomes(w, v) == /\ writer' \in [Writers -> WriterState] /\ v \in WriterState
                 /\ writer'[w] = v
                 /\ \A x \in Writers \ {w} : writer'[x] = writer[x]

LEMMA BecomesByExcept ==
    ASSUME writer \in [Writers -> WriterState], NEW w \in Writers, NEW v \in WriterState,
           writer' = [writer EXCEPT ![w] = v]
    PROVE  Becomes(w, v)
BY DEF Becomes

LEMMA IdleState == Idle \in WriterState
BY DEF Idle, WriterState, NoRecord, Txs, Absent

\* One transaction has one height in a list, so a lowest one can be found.
LEMMA NextOfList ==
    ASSUME NEW todo \in SUBSET (Txs \X Int), todo # {},
           \A e, f \in todo : e[1] = f[1] => e = f
    PROVE  NextOf(todo) \in todo /\ \A f \in todo : NextOf(todo)[2] <= f[2]
<1>1. \E e \in todo : \A f \in todo : e[2] <= f[2]
  <2>1. PICK e \in todo : TRUE
    OBVIOUS
  <2>2. CASE \A f \in todo : f = e
    BY <2>1, <2>2
  <2>3. CASE \E f \in todo : f # e
    <3>1. PICK f \in todo : f # e
      BY <2>3
    <3>2. e[1] # f[1] /\ \A g \in todo : g[1] = e[1] \/ g[1] = f[1]
      BY <3>1 DEF Txs
    <3>3. \A g \in todo : g = e \/ g = f
      BY <3>2
    <3>4. e[2] \in Int /\ f[2] \in Int
      OBVIOUS
    <3>5. CASE e[2] <= f[2]
      BY <3>3, <3>4, <3>5
    <3>6. CASE f[2] <= e[2]
      BY <3>3, <3>4, <3>6
    <3> QED BY <3>4, <3>5, <3>6
  <2> QED BY <2>2, <2>3
<1> QED BY <1>1 DEF NextOf

\* The state of a writer that has decoded e.
Decoding(w, e) == [writer[w] EXCEPT !.pc = "save", !.cur = e[1], !.todo = @ \ {e},
                                    !.rec = Decoded(e[2])]

LEMMA DecodingState ==
    ASSUME NEW w, writer[w] \in WriterState, NEW e \in Txs \X Int
    PROVE  /\ Decoding(w, e) \in WriterState
           /\ Decoding(w, e).pc = "save" /\ Decoding(w, e).cur = e[1]
           /\ Decoding(w, e).todo = writer[w].todo \ {e}
           /\ Decoding(w, e).rec.height = e[2] /\ Decoding(w, e).end = writer[w].end
BY DEF Decoding, WriterState, Decoded

LEMMA DecodeEffect ==
    ASSUME TypeInv, NEW w \in Writers, Decode(w)
    PROVE  \E e \in writer[w].todo :
              /\ \A f \in writer[w].todo : e[2] <= f[2]
              /\ e \in Txs \X Int
              /\ index' = SpentTicket(index, e[1])
              /\ Becomes(w, Decoding(w, e))
<1> DEFINE e == NextOf(writer[w].todo)
<1>1. /\ writer \in [Writers -> WriterState] /\ writer[w] \in WriterState
      /\ \A x, f \in writer[w].todo : x[1] = f[1] => x = f
    BY DEF TypeInv, WritersType, WriterOk
<1>2. writer[w].todo \in SUBSET (Txs \X Int) /\ writer[w].todo # {}
    BY <1>1 DEF WriterState, Decode
<1>3. e \in writer[w].todo /\ \A f \in writer[w].todo : e[2] <= f[2]
    BY <1>1, <1>2, NextOfList
<1>4. /\ index' = SpentTicket(index, e[1])
      /\ writer' = [writer EXCEPT ![w].pc = "save", ![w].cur = e[1],
                                  ![w].todo = @ \ {e}, ![w].rec = Decoded(e[2])]
    BY DEF Decode
<1> HIDE DEF e
<1>5. e \in Txs \X Int
    BY <1>2, <1>3
<1>6. Decoding(w, e) \in WriterState
    BY <1>1, <1>5, DecodingState
<1>7. writer' = [writer EXCEPT ![w] = Decoding(w, e)]
    BY <1>1, <1>4 DEF Decoding
<1> QED BY <1>1, <1>3, <1>4, <1>5, <1>6, <1>7, BecomesByExcept

\* The state of a writer that has saved and goes on.
Saved(w) == [writer[w] EXCEPT !.pc = "decode", !.cur = Ticket, !.rec = NoRecord]

LEMMA SavedState ==
    ASSUME writer \in [Writers -> WriterState], NEW w \in Writers
    PROVE  /\ Saved(w) \in WriterState /\ Saved(w).pc = "decode"
           /\ Saved(w).todo = writer[w].todo /\ Saved(w).end = writer[w].end
<1>1. writer[w] \in WriterState
    OBVIOUS
<1>2. NoRecord \in [height : Int, spender : {NoSpender}] /\ Ticket \in Txs
    BY DEF NoRecord, Absent, Txs
<1> QED BY <1>1, <1>2 DEF Saved, WriterState

LEMMA IndexSaveEffect ==
    ASSUME TypeInv, NEW i \in Indexers, IndexSave(i)
    PROVE  Becomes(i, Saved(i)) /\ index' = [index EXCEPT ![writer[i].cur] = writer[i].rec]
<1>1. writer \in [Writers -> WriterState] /\ i \in Writers
    BY DEF TypeInv, WritersType, Writers
<1>2. writer' = [writer EXCEPT ![i] = Saved(i)]
    BY <1>1 DEF IndexSave, Saved
<1> QED BY <1>1, <1>2, SavedState, BecomesByExcept DEF IndexSave, Save

Selecting == [Idle EXCEPT !.pc = "select"]

LEMMA SelectingState ==
    Selecting \in WriterState /\ Selecting.pc = "select" /\ Selecting.todo = {}
BY DEF Selecting, Idle, WriterState, NoRecord, Txs, Absent

LEMMA ListenerSaveEffect ==
    ASSUME TypeInv, NEW l \in Listeners, ListenerSave(l)
    PROVE  /\ index' = [index EXCEPT ![writer[l].cur] = writer[l].rec]
           /\ \/ writer[l].todo = {} /\ Becomes(l, Selecting)
                 /\ chan' = [chan EXCEPT ![l] = CanceledChan(sync)]
              \/ writer[l].todo # {} /\ Becomes(l, Saved(l)) /\ chan' = chan
<1>1. writer \in [Writers -> WriterState] /\ l \in Writers
    BY DEF TypeInv, WritersType, Writers
<1>2. CASE writer[l].todo = {}
  <2>1. writer' = [writer EXCEPT ![l] = Selecting] /\ chan' = [chan EXCEPT ![l] = CanceledChan(sync)]
    BY <1>2 DEF ListenerSave, Listen, Selecting
  <2> QED BY <1>1, <1>2, <2>1, SelectingState, BecomesByExcept DEF ListenerSave, Save
<1>3. CASE writer[l].todo # {}
  <2>1. writer' = [writer EXCEPT ![l] = Saved(l)] /\ chan' = chan
    BY <1>1, <1>3 DEF ListenerSave, Saved
  <2> QED BY <1>1, <1>3, <2>1, SavedState, BecomesByExcept DEF ListenerSave, Save
<1> QED BY <1>2, <1>3

Receiving(w, items) == [writer[w] EXCEPT !.pc = "decode", !.todo = items]

LEMMA ReceivingState ==
    ASSUME NEW w, writer[w] \in WriterState, NEW items \in SUBSET (Txs \X Int)
    PROVE  /\ Receiving(w, items) \in WriterState /\ Receiving(w, items).pc = "decode"
           /\ Receiving(w, items).todo = items /\ Receiving(w, items).end = writer[w].end
BY DEF Receiving, WriterState

LEMMA ReceiveEffect ==
    ASSUME TypeInv, NEW l \in Listeners, Receive(l)
    PROVE  LET items == Head(pend[l])
           IN /\ items \in SUBSET (Txs \X Int)
              /\ \/ items = {} /\ writer' = writer /\ chan' = [chan EXCEPT ![l] = CanceledChan(sync)]
                 \/ items # {} /\ Becomes(l, Receiving(l, items)) /\ chan' = [chan EXCEPT ![l] = "nil"]
<1> DEFINE items == Head(pend[l])
<1>1. writer \in [Writers -> WriterState] /\ l \in Writers /\ writer[l] \in WriterState
    BY DEF TypeInv, WritersType, Writers
<1>2. items \in SUBSET (Txs \X Int)
    BY DEF TypeInv, PendType, Receive
<1>3. \/ items = {} /\ writer' = writer /\ chan' = [chan EXCEPT ![l] = CanceledChan(sync)]
      \/ /\ items # {} /\ chan' = [chan EXCEPT ![l] = "nil"]
         /\ writer' = [writer EXCEPT ![l].pc = "decode", ![l].todo = items]
    BY DEF Receive
<1> HIDE DEF items
<1>4. Receiving(l, items) \in WriterState
    BY <1>1, <1>2, ReceivingState
<1>5. ASSUME writer' = [writer EXCEPT ![l].pc = "decode", ![l].todo = items]
      PROVE  writer' = [writer EXCEPT ![l] = Receiving(l, items)]
    BY <1>1, <1>5 DEF Receiving
<1> QED BY <1>1, <1>2, <1>3, <1>4, <1>5, BecomesByExcept DEF items

\* The three ways a writer ends.
LEMMA EndsEffect ==
    ASSUME TypeInv
    PROVE  /\ \A i \in Indexers : IndexEnds(i) \/ IndexAborts(i) => Becomes(i, Idle)
           /\ \A l \in Listeners : ListenerCanceled(l) => Becomes(l, Idle)
           /\ \A l \in Listeners : ListenerFails(l) => Becomes(l, [Idle EXCEPT !.pc = "dead"])
<1>1. writer \in [Writers -> WriterState] /\ Indexers \subseteq Writers /\ Listeners \subseteq Writers
    BY DEF TypeInv, WritersType, Writers
<1>2. ASSUME NEW w \in Writers, NEW v \in WriterState, writer' = [writer EXCEPT ![w] = v]
      PROVE  Becomes(w, v)
    BY <1>1, <1>2, BecomesByExcept
<1>3. [Idle EXCEPT !.pc = "dead"] \in WriterState
    BY IdleState DEF WriterState
<1> QED BY <1>1, <1>2, <1>3, IdleState DEF IndexEnds, IndexAborts, ListenerCanceled, Unregister, ListenerFails

LEMMA IndexingState ==
    ASSUME ChainType, NEW begin \in Nat
    PROVE  /\ Indexing(begin) \in WriterState /\ Indexing(begin).pc = "decode"
           /\ Indexing(begin).todo = RangeTransactions(begin, best) /\ Indexing(begin).end = best
<1>1. RangeTransactions(begin, best) \in SUBSET (Txs \X Int) /\ best \in Int
    BY DEF ChainType, RangeTransactions
<1> QED BY <1>1, IdleState DEF Indexing, WriterState

\* The list of an indexing: what is mined from begin on.
LEMMA RangeList ==
    ASSUME ChainType, NEW begin \in Nat
    PROVE  LET todo == RangeTransactions(begin, best)
           IN /\ \A tx \in Txs : where[tx] > 0 /\ where[tx] >= begin => <<tx, where[tx]>> \in todo
              /\ \A e \in todo : /\ e[1] \in Txs /\ e[2] = where[e[1]]
                                 /\ e[2] > 0 /\ e[2] >= begin /\ e[2] <= best /\ e[2] \in Known
              /\ \A e, f \in todo : e[1] = f[1] => e = f
<1> DEFINE todo == RangeTransactions(begin, best)
<1>1. todo = {<<tx, where[tx]>> : tx \in {x \in Txs : where[x] \in begin..best}}
    BY DEF RangeTransactions
<1>2. \A tx \in Txs : where[tx] \in Int /\ best \in Nat
    BY DEF ChainType
<1>3. \A tx \in Txs : where[tx] > 0 => where[tx] <= best
    BY DEF ChainType, Known, Absent, BlockHeightInvalid
<1>4. \A tx \in Txs : where[tx] \in begin..best => where[tx] > 0 /\ where[tx] \in Known
    BY DEF ChainType, Known, Absent, BlockHeightInvalid
<1>5. \A tx \in Txs : where[tx] > 0 /\ where[tx] >= begin => <<tx, where[tx]>> \in todo
    BY <1>1, <1>2, <1>3
<1>6. \A e \in todo : \E tx \in Txs : e = <<tx, where[tx]>> /\ where[tx] \in begin..best
    BY <1>1
<1> HIDE DEF todo
<1>7. \A e \in todo : /\ e[1] \in Txs /\ e[2] = where[e[1]]
                      /\ e[2] > 0 /\ e[2] >= begin /\ e[2] <= best /\ e[2] \in Known
    BY <1>2, <1>4, <1>6
<1>8. \A e, f \in todo : e[1] = f[1] => e = f
    BY <1>6
<1> QED BY <1>5, <1>7, <1>8 DEF todo

LEMMA StartBlock ==
    ASSUME NEW p \in Nat
    PROVE  /\ IndexingStartBlock(p) \in Nat /\ IndexingStartBlock(p) <= p
           /\ \A q \in Nat : p <= q => IndexingStartBlock(p) <= IndexingStartBlock(q)
           /\ \A h \in Int : h > 0 /\ h >= p - MaxReOrgBlocks => h >= IndexingStartBlock(p)
BY BoundsAssumption DEF IndexingStartBlock

\* The free goroutine that becomes a listener.
LEMMA FreeListener ==
    ASSUME \E l \in Listeners : ~Registered(l)
    PROVE  Free \in Listeners /\ writer[Free].pc = "none"
BY DEF Free, Registered

LEMMA SyncedEffect ==
    ASSUME TypeInv, Synced
    PROVE  LET v == Indexing(IndexingStartBlock(point))
           IN /\ writer' \in [Writers -> WriterState] /\ v \in WriterState
              /\ writer'["sync"] = v /\ (\A r \in Rescans : writer'[r] = writer[r])
              /\ \/ /\ sync = "unsynced" /\ chan' = chan
                    /\ \A l \in Listeners : writer'[l] = writer[l]
                 \/ /\ sync = "syncing" /\ Free \in Listeners /\ writer[Free].pc = "none"
                    /\ chan' = [chan EXCEPT ![Free] = "open"] /\ writer'[Free] = Selecting
                    /\ \A l \in Listeners \ {Free} : writer'[l] = writer[l]
<1> DEFINE v == Indexing(IndexingStartBlock(point))
<1>1. /\ writer \in [Writers -> WriterState] /\ "sync" \in Writers
      /\ Rescans \subseteq Writers /\ Listeners \subseteq Writers
      /\ "sync" \notin Rescans /\ "sync" \notin Listeners /\ Rescans \cap Listeners = {}
    BY NamesAssumption DEF TypeInv, WritersType, Writers, Indexers
<1>2. v \in WriterState
    BY IndexingState, StartBlock DEF TypeInv, IndexType
<1> HIDE DEF v
<1>3. CASE sync = "unsynced"
  <2>1. writer' = [writer EXCEPT !["sync"] = v] /\ chan' = chan
    BY <1>3 DEF Synced, v
  <2> QED BY <1>1, <1>2, <1>3, <2>1 DEF v
<1>4. CASE sync = "syncing"
  <2>1. /\ writer' = [[writer EXCEPT !["sync"] = v] EXCEPT ![Free] = Selecting]
        /\ chan' = [chan EXCEPT ![Free] = "open"] /\ \E l \in Listeners : ~Registered(l)
    BY <1>4 DEF Synced, Listen, Selecting, v
  <2>2. Free \in Listeners /\ writer[Free].pc = "none"
    BY <2>1, FreeListener
  <2> QED BY <1>1, <1>2, <1>4, <2>1, <2>2, SelectingState DEF v
<1> QED BY <1>3, <1>4 DEF Synced

LEMMA UnsyncedEffect ==
    ASSUME TypeInv, Unsynced
    PROVE  /\ Free \in Listeners /\ writer[Free].pc = "none" /\ Becomes(Free, Selecting)
           /\ chan' = [chan EXCEPT ![Free] = "open"]
<1>1. Free \in Listeners /\ writer[Free].pc = "none"
    BY FreeListener DEF Unsynced
<1>2. writer' = [writer EXCEPT ![Free] = Selecting] /\ chan' = [chan EXCEPT ![Free] = "open"]
    BY DEF Unsynced, Listen, Selecting
<1> QED BY <1>1, <1>2, SelectingState, BecomesByExcept DEF TypeInv, WritersType, Writers

LEMMA RescanIndexesEffect ==
    ASSUME TypeInv, NEW r \in Rescans, RescanIndexes(r)
    PROVE  Becomes(r, Indexing(IndexingStartBlock(point)))
<1>1. Indexing(IndexingStartBlock(point)) \in WriterState
    BY IndexingState, StartBlock DEF TypeInv, IndexType
<1> QED BY <1>1, BecomesByExcept DEF RescanIndexes, TypeInv, WritersType, Writers, Indexers

----------------------------------------------------------------------------
(* The classifications.                                                     *)

\* Whatever the records are, prepareTxQuery selects those TxMatchesFilter matches.
LEMMA QueryIsFilter ==
    ASSUME NEW f \in Filters, NEW records, NEW b
    PROVE  Query(f, records, b) = {r \in records : TxMatchesFilter(r, f, b)}
<1>1. CASE f \in TypeFilters
  <2>1. f \notin DirectionFilters /\ f \notin TicketFilters
    BY <1>1 DEF TypeFilters, DirectionFilters, TicketFilters
  <2>2. \A r : TxMatchesFilter(r, f, b) <=> r.type \in TypesOf(f)
    BY <2>1 DEF TxMatchesFilter, TicketFilters
  <2>3. Query(f, records, b) = {r \in records : r.type \in TypesOf(f)}
    BY <1>1, <2>1 DEF Query, TicketFilters
  <2> QED BY <2>2, <2>3
<1>2. CASE f \in DirectionFilters
  <2>1. f \notin TypeFilters /\ f \notin TicketFilters
    BY <1>2 DEF TypeFilters, DirectionFilters, TicketFilters
  <2>2. \A r : TxMatchesFilter(r, f, b) <=> r.type = "regular" /\ r.direction = f
    BY <1>2, <2>1 DEF TxMatchesFilter, TicketFilters
  <2>3. Query(f, records, b) = {r \in records : r.type = "regular" /\ r.direction = f}
    BY <1>2, <2>1 DEF Query, TicketFilters
  <2> QED BY <2>2, <2>3
<1>3. CASE f \in TicketFilters
  <2>1. f \notin TypeFilters /\ f \notin DirectionFilters
    BY <1>3 DEF TypeFilters, DirectionFilters, TicketFilters
  <2>2. CASE f = "immature"
    BY <2>1, <2>2 DEF Query, TxMatchesFilter
  <2>3. CASE f = "live"
    BY <2>1, <2>3 DEF Query, TxMatchesFilter, SelectLive
  <2>4. CASE f = "unmined"
    BY <2>1, <2>4 DEF Query, TxMatchesFilter
  <2>5. CASE f = "expired"
    BY <2>1, <2>5 DEF Query, TxMatchesFilter
  <2> QED BY <1>3, <2>2, <2>3, <2>4, <2>5 DEF TicketFilters
<1> QED BY <1>1, <1>2, <1>3 DEF Filters

\* The status of a ticket that is unmined or in a block of the chain.
LEMMA StatusIsFilter ==
    ASSUME NEW b \in Nat, NEW r, r.type = "ticket", r.height \in {BlockHeightInvalid} \cup 1..b
    PROVE  LET status == TicketStatus(r, b)
           IN /\ TxMatchesFilter(r, "live", b) <=> status = "live"
              /\ TxMatchesFilter(r, "unmined", b) <=> status = "unmined"
              /\ TxMatchesFilter(r, "expired", b) <=> status = "expired" /\ r.spender = NoSpender
              /\ r.height <= b /\ b > TicketMaturity =>
                   (TxMatchesFilter(r, "immature", b) <=> status = "immature")
<1> DEFINE c == Confirmations(r, b)
           h == r.height
           M == TicketMaturity
           E == TicketExpiry
<1>1. M \in Nat \ {0} /\ E \in Nat \ {0}
    BY ParamsAssumption
<1>2. /\ TxMatchesFilter(r, "live", b) <=>
           r.spender = NoSpender /\ h > 0 /\ h <= b - M /\ h > b - (M + E)
      /\ TxMatchesFilter(r, "unmined", b) <=> h = -1
      /\ TxMatchesFilter(r, "expired", b) <=> r.spender = NoSpender /\ h > 0 /\ h <= b - (M + E)
      /\ TxMatchesFilter(r, "immature", b) <=> h > b - M
    BY DEF TxMatchesFilter, MaturityBlock, ExpiryBlock, DirectionFilters, BlockHeightInvalid
<1>3. h = -1 \/ h \in 1..b
    BY DEF BlockHeightInvalid
<1>4. c = (IF h = -1 THEN 0 ELSE (b - h) + 1)
    BY DEF Confirmations, BlockHeightInvalid
<1>5. TicketStatus(r, b) = CASE c = 0 -> "unmined"
                             [] c # 0 /\ c <= M -> "immature"
                             [] c > M + E -> "expired"
                             [] OTHER -> IF r.spender # NoSpender THEN "votedrevoked" ELSE "live"
    BY DEF TicketStatus
<1> HIDE DEF c, h, M, E
<1>6. CASE h = -1
    BY <1>1, <1>2, <1>4, <1>5, <1>6 DEF h, M
<1>7. CASE h \in 1..b
  <2>1. c \in Nat /\ c # 0 /\ c = (b - h) + 1
    BY <1>4, <1>7
  <2>2. CASE c <= M
    <3>1. TicketStatus(r, b) = "immature" /\ h > b - M /\ ~(h <= b - (M + E))
      BY <1>1, <1>5, <1>7, <2>1, <2>2
    <3> QED BY <1>1, <1>2, <1>7, <3>1 DEF h, M
  <2>3. CASE c > M + E
    <3>1. ~(c <= M) /\ c # 0
      BY <1>1, <2>1, <2>3
    <3>2. TicketStatus(r, b) = "expired"
      BY <1>5, <2>3, <3>1
    <3>3. h <= b - (M + E) /\ ~(h > b - M)
      BY <1>1, <1>7, <2>1, <2>3
    <3> QED BY <1>1, <1>2, <1>7, <3>2, <3>3 DEF h, M
  <2>4. CASE ~(c <= M) /\ ~(c > M + E)
    <3>1. TicketStatus(r, b) = IF r.spender # NoSpender THEN "votedrevoked" ELSE "live"
      BY <1>5, <2>1, <2>4
    <3>2. h <= b - M /\ h > b - (M + E)
      BY <1>1, <1>7, <2>1, <2>4
    <3> QED BY <1>1, <1>2, <1>7, <3>1, <3>2 DEF h, M
  <2> QED BY <2>2, <2>3, <2>4
<1> QED BY <1>3, <1>6, <1>7

LEMMA ClassificationsFollow == TypeInv => ClassificationsAgree
<1> SUFFICES ASSUME TypeInv PROVE ClassificationsAgree
    OBVIOUS
<1>1. \A f \in Filters : Query(f, Records, best) = {r \in Records : TxMatchesFilter(r, f, best)}
    BY QueryIsFilter
<1>2. ASSUME NEW r \in Records
      PROVE  r.height \in {BlockHeightInvalid} \cup 1..best
  <2>1. PICK tx \in Txs : index[tx] # NoRecord /\ r.height = index[tx].height
    BY DEF Records
  <2> QED BY <2>1 DEF TypeInv, IndexType, Known
<1>3. best \in Nat
    BY DEF TypeInv, ChainType
<1> QED BY <1>1, <1>2, <1>3, StatusIsFilter DEF ClassificationsAgree

----------------------------------------------------------------------------
(* The types are kept.                                                      *)

ChainGrows == /\ best \in Nat /\ best' \in Nat /\ best <= best'
              /\ where[Vote] # Absent => where'[Vote] # Absent

LEMMA KnownGrows == ChainGrows => Known \subseteq Known'
BY DEF ChainGrows, Known

LEMMA SameWriter ==
    ASSUME TypeInv, ChainGrows, NEW w \in Writers, writer'[w] = writer[w]
    PROVE  WriterOk(w)' /\ (w \in Indexers => IndexerOk(w)')
<1>1. WriterOk(w)'
    BY KnownGrows DEF TypeInv, WritersType, WriterOk, ChainGrows
<1>2. ASSUME w \in Indexers PROVE IndexerOk(w)'
  <2>1. IndexerOk(w)
    BY <1>2 DEF TypeInv, WritersType
  <2>2. writer[w].end \in 0..best => writer[w].end \in 0..best'
    BY DEF ChainGrows
  <2> QED BY <2>1, <2>2 DEF IndexerOk
<1> QED BY <1>1, <1>2

LEMMA WriterMoves ==
    ASSUME TypeInv, ChainGrows, NEW w \in Writers, NEW v, Becomes(w, v),
           WriterOk(w)', w \in Indexers => IndexerOk(w)',
           \A r \in Rescans : r # w => rescan'[r] = rescan[r],
           w \in Rescans => v.pc = "none" \/ rescan'[w] = "indexing"
    PROVE  WritersType'
<1>1. \A x \in Writers : x # w => writer'[x] = writer[x]
    BY DEF Becomes
<1>2. \A x \in Writers : WriterOk(x)' /\ (x \in Indexers => IndexerOk(x)')
    BY <1>1, SameWriter
<1>3. \A r \in Rescans : Running(r)' => rescan'[r] = "indexing"
    BY <1>1 DEF TypeInv, WritersType, Running, Becomes, Writers, Indexers
<1> QED BY <1>2, <1>3 DEF WritersType, Becomes, Writers

LEMMA WritersStay ==
    ASSUME TypeInv, ChainGrows, writer' = writer,
           \A r \in Rescans : Running(r) => rescan'[r] = "indexing"
    PROVE  WritersType'
<1>1. \A x \in Writers : WriterOk(x)' /\ (x \in Indexers => IndexerOk(x)')
    BY SameWriter
<1> QED BY <1>1 DEF TypeInv, WritersType, Running, Writers

LEMMA SameChain ==
    ASSUME TypeInv, UNCHANGED dbVars
    PROVE  ChainGrows /\ ChainType' /\ TicketFirst' /\ Known' = Known
BY DEF TypeInv, ChainGrows, ChainType, TicketFirst, Known, dbVars

LEMMA SameIndex ==
    ASSUME TypeInv, ChainGrows, UNCHANGED idxVars
    PROVE  IndexType'
BY KnownGrows DEF TypeInv, IndexType, ChainGrows, idxVars

\* The steps of the sync session and of a rescan that start no goroutine.
LEMMA SessionKeepsType ==
    ASSUME TypeInv, \/ StartSync \/ SyncCanceled \/ ResetSyncData \/ SyncFails
                    \/ \E r \in Rescans : \/ \E height \in {0, best} : RescanBlocksFromHeight(r, height)
                                          \/ RescanStops(r) \/ RescanEnds(r)
    PROVE  TypeInv'
<1>1. UNCHANGED <<dbVars, idxVars, writer, pend, lossy>>
    BY DEF StartSync, SyncCanceled, ResetSyncData, SyncFails, RescanBlocksFromHeight, RescanStops,
           RescanEnds, idxVars
<1>2. ChainGrows /\ ChainType' /\ TicketFirst' /\ IndexType'
    BY <1>1, SameChain, SameIndex
<1>3. chan' \in [Listeners -> {"nil", "open", "closed"}]
    BY DEF TypeInv, PendType, StartSync, SyncCanceled, ResetSyncData, SyncFails,
           RescanBlocksFromHeight, RescanStops, RescanEnds
<1>4. RestType'
  <2>1. CASE StartSync \/ SyncCanceled \/ ResetSyncData \/ SyncFails
    BY <1>1, <2>1 DEF TypeInv, RestType, StartSync, SyncCanceled, ResetSyncData, SyncFails,
                      rescanVars, dbVars
  <2>2. ASSUME NEW r \in Rescans, NEW height \in {0, best}, RescanBlocksFromHeight(r, height)
        PROVE  RestType'
    BY <1>1, <2>2 DEF TypeInv, RestType, ChainType, RescanBlocksFromHeight, dbVars
  <2>3. ASSUME NEW r \in Rescans, RescanStops(r) \/ RescanEnds(r)
        PROVE  RestType'
    BY <1>1, <2>3 DEF TypeInv, RestType, ChainType, RescanStops, RescanEnds, dbVars
  <2> QED BY <2>1, <2>2, <2>3
<1>5. ASSUME NEW r \in Rescans, Running(r) PROVE rescan'[r] = "indexing"
  <2>1. rescan[r] = "indexing" /\ rescan \in [Rescans -> {"none", "scanning", "clear", "indexing"}]
    BY <1>5 DEF TypeInv, WritersType, RestType
  <2> QED BY <1>5, <2>1 DEF StartSync, SyncCanceled, ResetSyncData, SyncFails, rescanVars,
                            RescanBlocksFromHeight, RescanStops, RescanEnds
<1>6. WritersType'
    BY <1>1, <1>2, <1>5, WritersStay
<1> QED BY <1>1, <1>2, <1>3, <1>4, <1>6 DEF TypeInv, PendType

LEMMA DecodeKeepsType ==
    ASSUME TypeInv, NEW w \in Writers, Decode(w)
    PROVE  TypeInv'
<1>1. UNCHANGED <<dbVars, point, pend, chan, sync, rescanVars, lossy>>
    BY DEF Decode
<1>2. ChainGrows /\ ChainType' /\ TicketFirst' /\ Known' = Known /\ best' = best /\ where' = where
    BY <1>1, SameChain DEF dbVars
<1>3. PICK e \in writer[w].todo :
        /\ e \in Txs \X Int /\ index' = SpentTicket(index, e[1]) /\ Becomes(w, Decoding(w, e))
    BY DecodeEffect
<1>4. writer[w] \in WriterState /\ WriterOk(w) /\ (w \in Indexers => IndexerOk(w))
    BY DEF TypeInv, WritersType
<1>5. /\ writer'[w].pc = "save" /\ writer'[w].cur = e[1] /\ writer'[w].todo = writer[w].todo \ {e}
      /\ writer'[w].rec.height = e[2] /\ writer'[w].end = writer[w].end
    BY <1>3, <1>4, DecodingState DEF Becomes
<1>6. WriterOk(w)'
    BY <1>2, <1>4, <1>5 DEF WriterOk
<1>7. w \in Indexers => IndexerOk(w)'
    BY <1>2, <1>4, <1>5 DEF IndexerOk
<1>8. WritersType'
  <2>1. ASSUME w \in Rescans PROVE rescan'[w] = "indexing"
    BY <1>1, <2>1 DEF TypeInv, WritersType, Running, Decode, rescanVars
  <2> QED BY <1>1, <1>2, <1>3, <1>6, <1>7, <2>1, WriterMoves DEF rescanVars
<1>9. IndexType'
  <2>1. CASE e[1] = Vote
    <3>1. where[Ticket] \in Known /\ where[Ticket] \in Int
      BY <1>3, <1>4, <2>1 DEF WriterOk, TypeInv, TicketFirst, ChainType, Absent, Txs
    <3>2. index' = [index EXCEPT ![Ticket] = [height |-> where[Ticket], spender |-> Vote]]
      BY <1>3, <2>1 DEF SpentTicket
    <3> QED BY <1>1, <1>2, <3>1, <3>2 DEF TypeInv, IndexType
  <2>2. CASE e[1] # Vote
    BY <1>1, <1>2, <1>3, <2>2 DEF SpentTicket, TypeInv, IndexType
  <2> QED BY <2>1, <2>2
<1> QED BY <1>1, <1>2, <1>8, <1>9 DEF TypeInv, PendType, RestType, rescanVars

\* What a writer that saves leaves in the index.
LEMMA SaveKeepsIndex ==
    ASSUME TypeInv, UNCHANGED dbVars, NEW w \in Writers, writer[w].pc = "save",
           index' = [index EXCEPT ![writer[w].cur] = writer[w].rec],
           point' \in Nat, point' <= best
    PROVE  IndexType'
<1>1. /\ writer[w] \in WriterState /\ writer[w].rec.height \in Known
      /\ writer[w].rec \in [height : Int, spender : {NoSpender}]
    BY DEF TypeInv, WritersType, WriterOk, WriterState
<1> QED BY <1>1, SameChain DEF TypeInv, IndexType, dbVars

LEMMA IndexSaveKeepsType ==
    ASSUME TypeInv, NEW i \in Indexers, IndexSave(i)
    PROVE  TypeInv'
<1>0. i \in Writers
    BY DEF Writers
<1>1. UNCHANGED <<dbVars, pend, chan, sync, rescanVars, lossy>> /\ writer[i].pc = "save"
    BY DEF IndexSave, Save
<1>2. ChainGrows /\ ChainType' /\ TicketFirst' /\ Known' = Known /\ best' = best /\ where' = where
    BY <1>1, SameChain DEF dbVars
<1>3. Becomes(i, Saved(i)) /\ index' = [index EXCEPT ![writer[i].cur] = writer[i].rec]
    BY IndexSaveEffect
<1>4. writer \in [Writers -> WriterState] /\ WriterOk(i) /\ IndexerOk(i)
    BY <1>0 DEF TypeInv, WritersType
<1>5. /\ writer'[i].pc = "decode" /\ writer'[i].todo = writer[i].todo
      /\ writer'[i].end = writer[i].end
    BY <1>0, <1>3, <1>4, SavedState DEF Becomes
<1>6. WriterOk(i)' /\ IndexerOk(i)'
    BY <1>1, <1>2, <1>4, <1>5 DEF WriterOk, IndexerOk
<1>7. WritersType'
  <2>1. ASSUME i \in Rescans PROVE rescan'[i] = "indexing"
    BY <1>1, <2>1 DEF TypeInv, WritersType, Running, rescanVars
  <2> QED BY <1>0, <1>1, <1>2, <1>3, <1>6, <2>1, WriterMoves DEF rescanVars
<1>8. point' \in Nat /\ point' <= best
    BY <1>1, <1>4 DEF IndexSave, IndexerOk, TypeInv, IndexType, ChainType
<1>9. IndexType'
    BY <1>0, <1>1, <1>3, <1>8, SaveKeepsIndex
<1> QED BY <1>1, <1>2, <1>7, <1>9 DEF TypeInv, PendType, RestType, rescanVars

LEMMA ListenerSaveKeepsType ==
    ASSUME TypeInv, NEW l \in Listeners, ListenerSave(l)
    PROVE  TypeInv'
<1>0. l \in Writers /\ l \notin Indexers
    BY NamesAssumption DEF Writers
<1>1. UNCHANGED <<dbVars, pend, point, sync, rescanVars, lossy>> /\ writer[l].pc = "save"
    BY DEF ListenerSave, Save
<1>2. ChainGrows /\ ChainType' /\ TicketFirst' /\ Known' = Known /\ best' = best /\ where' = where
    BY <1>1, SameChain DEF dbVars
<1>3. PICK v \in WriterState :
        /\ Becomes(l, v) /\ index' = [index EXCEPT ![writer[l].cur] = writer[l].rec]
        /\ v.pc # "save" /\ v.todo = writer[l].todo
        /\ v.pc = "decode" \/ v.todo = {}
        /\ chan' = chan \/ chan' = [chan EXCEPT ![l] = CanceledChan(sync)]
    BY <1>0, ListenerSaveEffect, SelectingState, SavedState DEF Becomes, TypeInv, WritersType
<1>4. WriterOk(l)
    BY <1>0 DEF TypeInv, WritersType
<1>5. WriterOk(l)'
    BY <1>2, <1>3, <1>4 DEF WriterOk, Becomes
<1>6. WritersType'
    BY <1>0, <1>1, <1>2, <1>3, <1>5, WriterMoves DEF rescanVars, Indexers
<1>7. IndexType'
    BY <1>0, <1>1, <1>3, SaveKeepsIndex DEF TypeInv, IndexType
<1>8. PendType'
    BY <1>1, <1>3 DEF TypeInv, PendType, CanceledChan
<1> QED BY <1>1, <1>2, <1>6, <1>7, <1>8 DEF TypeInv, RestType, rescanVars

LEMMA RestingWriter ==
    ASSUME TypeInv, ChainGrows, NEW w \in Writers,
           writer'[w].todo = {}, writer'[w].pc \in {"none", "select", "dead"}
    PROVE  /\ WriterOk(w)'
           /\ w \in Indexers /\ writer'[w] = Idle => IndexerOk(w)'
BY DEF WriterOk, IndexerOk, Idle, ChainGrows

LEMMA IndexingWriter ==
    ASSUME TypeInv, UNCHANGED dbVars, NEW i \in Indexers,
           writer'[i] = Indexing(IndexingStartBlock(point))
    PROVE  WriterOk(i)' /\ IndexerOk(i)'
<1> DEFINE begin == IndexingStartBlock(point)
           todo == RangeTransactions(begin, best)
<1>1. ChainType /\ begin \in Nat
    BY StartBlock DEF TypeInv, IndexType
<1> HIDE DEF begin, todo
<1>2. /\ \A e \in todo : e[1] \in Txs /\ e[2] = where[e[1]] /\ e[2] > 0 /\ e[2] <= best /\ e[2] \in Known
      /\ \A e, f \in todo : e[1] = f[1] => e = f
    BY <1>1, RangeList DEF todo
<1>3. /\ writer'[i].pc = "decode" /\ writer'[i].todo = todo /\ writer'[i].end = best
    BY <1>1, IndexingState DEF begin, todo
<1>4. best \in Nat /\ best' = best /\ where' = where /\ Known' = Known
    BY SameChain DEF TypeInv, ChainType, dbVars
<1>5. \A e \in todo : (e[1] = Vote => where[Vote] # Absent) /\ e[2] \in 0..best
    BY <1>2, <1>4 DEF Absent, Known, BlockHeightInvalid
<1> QED BY <1>2, <1>3, <1>4, <1>5 DEF WriterOk, IndexerOk

LEMMA IndexEndsKeepsType ==
    ASSUME TypeInv, NEW i \in Indexers, IndexEnds(i) \/ IndexAborts(i)
    PROVE  TypeInv'
<1>0. i \in Writers
    BY DEF Writers
<1>1. UNCHANGED <<dbVars, index, pend, chan, sync, rescanVars>> /\ point' = writer[i].end
      /\ lossy' \in BOOLEAN
    BY DEF IndexEnds, IndexAborts, TypeInv, RestType
<1>2. ChainGrows /\ ChainType' /\ TicketFirst' /\ Known' = Known /\ best' = best
    BY <1>1, SameChain DEF dbVars
<1>3. Becomes(i, Idle)
    BY EndsEffect
<1>4. WriterOk(i)' /\ IndexerOk(i)'
    BY <1>0, <1>2, <1>3, RestingWriter DEF Becomes, Idle
<1>5. WritersType'
    BY <1>0, <1>1, <1>2, <1>3, <1>4, WriterMoves DEF rescanVars, Idle
<1>6. IndexType'
    BY <1>0, <1>1, <1>2 DEF TypeInv, IndexType, WritersType, IndexerOk, ChainType
<1> QED BY <1>1, <1>2, <1>5, <1>6 DEF TypeInv, PendType, RestType, rescanVars

LEMMA ListenerEndsKeepsType ==
    ASSUME TypeInv, NEW l \in Listeners, ListenerCanceled(l) \/ ListenerFails(l)
    PROVE  TypeInv'
<1>0. l \in Writers /\ l \notin Indexers
    BY NamesAssumption DEF Writers
<1>1. UNCHANGED <<dbVars, idxVars, sync, rescanVars, lossy>>
    BY DEF ListenerCanceled, ListenerFails
<1>2. ChainGrows /\ ChainType' /\ TicketFirst' /\ IndexType'
    BY <1>1, SameChain, SameIndex
<1>3. PICK v \in WriterState : Becomes(l, v) /\ v.todo = {} /\ v.pc \in {"none", "dead"}
    BY EndsEffect DEF Becomes, Idle
<1>4. WriterOk(l)'
    BY <1>0, <1>2, <1>3, RestingWriter DEF Becomes
<1>5. WritersType'
    BY <1>0, <1>1, <1>2, <1>3, <1>4, WriterMoves DEF rescanVars, Indexers
<1>6. PendType'
    BY DEF TypeInv, PendType, ListenerCanceled, ListenerFails
<1> QED BY <1>1, <1>2, <1>5, <1>6 DEF TypeInv, RestType, rescanVars, dbVars

LEMMA ReceiveKeepsType ==
    ASSUME TypeInv, PendCurrent, NEW l \in Listeners, Receive(l)
    PROVE  TypeInv'
<1> DEFINE items == Head(pend[l])
<1>0. l \in Writers /\ l \notin Indexers
    BY NamesAssumption DEF Writers
<1>1. UNCHANGED <<dbVars, idxVars, sync, rescanVars, lossy>> /\ pend[l] # <<>>
    BY DEF Receive
<1>2. ChainGrows /\ ChainType' /\ TicketFirst' /\ IndexType' /\ Known' = Known /\ where' = where
    BY <1>1, SameChain, SameIndex DEF dbVars
<1>3. /\ items \in SUBSET (Txs \X Int)
      /\ \/ writer' = writer /\ chan' = [chan EXCEPT ![l] = CanceledChan(sync)]
         \/ Becomes(l, Receiving(l, items)) /\ chan' = [chan EXCEPT ![l] = "nil"]
    BY ReceiveEffect
<1>4. \A e \in items : e[2] = where[e[1]] /\ e[2] \in Known
    BY <1>1 DEF PendCurrent
<1> HIDE DEF items
<1>5. WritersType'
  <2>1. CASE writer' = writer
    BY <1>1, <1>2, <2>1, WritersStay DEF TypeInv, WritersType, rescanVars
  <2>2. CASE Becomes(l, Receiving(l, items))
    <3>1. writer'[l].pc = "decode" /\ writer'[l].todo = items
      BY <1>0, <1>3, <2>2, ReceivingState DEF Becomes, TypeInv, WritersType
    <3>2. \A e, f \in items : e[1] = f[1] => e = f
      BY <1>3, <1>4
    <3>3. Absent \notin Known
      BY DEF Absent, Known, BlockHeightInvalid
    <3>4. WriterOk(l)'
      BY <1>2, <1>4, <3>1, <3>2, <3>3 DEF WriterOk
    <3> QED BY <1>0, <1>1, <1>2, <2>2, <3>4, WriterMoves DEF rescanVars, Indexers
  <2> QED BY <1>3, <2>1, <2>2
<1>6. PendType'
    BY <1>3 DEF TypeInv, PendType, Receive, CanceledChan
<1> QED BY <1>1, <1>2, <1>5, <1>6 DEF TypeInv, RestType, rescanVars, dbVars

LEMMA SyncedKeepsType ==
    ASSUME TypeInv, Synced
    PROVE  TypeInv'
<1>0. "sync" \in Indexers /\ "sync" \in Writers /\ Indexers \subseteq Writers
    BY DEF Writers, Indexers
<1>1. UNCHANGED <<dbVars, idxVars, pend, rescanVars, lossy>> /\ sync' = "synced"
    BY DEF Synced
<1>2. ChainGrows /\ ChainType' /\ TicketFirst' /\ IndexType'
    BY <1>1, SameChain, SameIndex
<1>3. /\ writer' \in [Writers -> WriterState]
      /\ writer'["sync"] = Indexing(IndexingStartBlock(point))
      /\ \A r \in Rescans : writer'[r] = writer[r]
      /\ \A l \in Listeners : writer'[l] = writer[l] \/ writer'[l] = Selecting
      /\ chan' = chan \/ (Free \in Listeners /\ chan' = [chan EXCEPT ![Free] = "open"])
    BY SyncedEffect
<1>4. WriterOk("sync")' /\ IndexerOk("sync")'
    BY <1>0, <1>1, <1>3, IndexingWriter
<1>5. ASSUME NEW w \in Writers PROVE WriterOk(w)' /\ (w \in Indexers => IndexerOk(w)')
  <2>1. CASE writer'[w] = writer[w]
    BY <1>2, <2>1, SameWriter
  <2>2. CASE w \in Listeners /\ writer'[w] = Selecting
    BY <1>2, <2>2, SelectingState, RestingWriter, NamesAssumption
  <2> QED BY <1>3, <1>4, <2>1, <2>2 DEF Writers, Indexers
<1>6. WritersType'
  <2>1. \A r \in Rescans : Running(r)' => rescan'[r] = "indexing"
    BY <1>1, <1>3 DEF TypeInv, WritersType, Running, rescanVars
  <2> QED BY <1>0, <1>3, <1>5, <2>1 DEF WritersType
<1> QED BY <1>1, <1>2, <1>3, <1>6 DEF TypeInv, PendType, RestType, rescanVars, dbVars

LEMMA UnsyncedKeepsType ==
    ASSUME TypeInv, Unsynced
    PROVE  TypeInv'
<1>1. UNCHANGED <<dbVars, idxVars, pend, rescanVars, lossy>> /\ sync' = "unsynced"
    BY DEF Unsynced
<1>2. ChainGrows /\ ChainType' /\ TicketFirst' /\ IndexType'
    BY <1>1, SameChain, SameIndex
<1>3. PICK f \in Listeners : Becomes(f, Selecting) /\ chan' = [chan EXCEPT ![f] = "open"]
    BY UnsyncedEffect
<1>4. f \in Writers /\ f \notin Indexers
    BY <1>3, NamesAssumption DEF Writers
<1>5. WriterOk(f)'
    BY <1>2, <1>3, <1>4, SelectingState, RestingWriter DEF Becomes
<1>6. WritersType'
    BY <1>1, <1>2, <1>3, <1>4, <1>5, WriterMoves DEF rescanVars, Indexers
<1> QED BY <1>1, <1>2, <1>3, <1>6 DEF TypeInv, PendType, RestType, rescanVars, dbVars

LEMMA RescanScannedKeepsType ==
    ASSUME TypeInv, NEW r \in Rescans, RescanScanned(r)
    PROVE  TypeInv'
<1>1. UNCHANGED <<dbVars, writer, pend, chan, sync, from>> /\ point' = from[r]
      /\ rescan[r] = "scanning" /\ rescan' = [rescan EXCEPT ![r] = "clear"]
      /\ lossy' \in BOOLEAN
    BY DEF RescanScanned, TypeInv, RestType
<1>2. ChainGrows /\ ChainType' /\ TicketFirst' /\ Known' = Known /\ best' = best
    BY <1>1, SameChain DEF dbVars
<1>3. index' = index \/ index' = [tx \in Txs |-> NoRecord]
    BY DEF RescanScanned
<1>4. IndexType'
  <2>1. NoRecord \in [height : Int, spender : {NoSpender, Vote}]
    BY DEF NoRecord, Absent
  <2> QED BY <1>1, <1>2, <1>3, <2>1 DEF TypeInv, IndexType, RestType
<1>5. \A s \in Rescans : Running(s) => rescan'[s] = "indexing"
    BY <1>1 DEF TypeInv, WritersType, RestType
<1>6. WritersType'
    BY <1>1, <1>2, <1>5, WritersStay
<1> QED BY <1>1, <1>2, <1>4, <1>6 DEF TypeInv, PendType, RestType

LEMMA RescanIndexesKeepsType ==
    ASSUME TypeInv, NEW r \in Rescans, RescanIndexes(r)
    PROVE  TypeInv'
<1>0. r \in Indexers /\ r \in Writers
    BY DEF Writers, Indexers
<1>1. UNCHANGED <<dbVars, idxVars, pend, chan, sync, from, lossy>>
      /\ rescan' = [rescan EXCEPT ![r] = "indexing"]
    BY DEF RescanIndexes
<1>2. ChainGrows /\ ChainType' /\ TicketFirst' /\ IndexType'
    BY <1>1, SameChain, SameIndex
<1>3. Becomes(r, Indexing(IndexingStartBlock(point)))
    BY RescanIndexesEffect
<1>4. WriterOk(r)' /\ IndexerOk(r)'
    BY <1>0, <1>1, <1>3, IndexingWriter DEF Becomes
<1>5. rescan' \in [Rescans -> {"none", "scanning", "clear", "indexing"}] /\ rescan'[r] = "indexing"
      /\ \A s \in Rescans : s # r => rescan'[s] = rescan[s]
    BY <1>1 DEF TypeInv, RestType
<1>6. WritersType'
    BY <1>0, <1>2, <1>3, <1>4, <1>5, WriterMoves
<1> QED BY <1>1, <1>2, <1>5, <1>6 DEF TypeInv, PendType, RestType, dbVars

----------------------------------------------------------------------------
(* The changes of the chain, taken together: what is newly mined is near the *)
(* tip and sent to the listeners; the vote and what is mined already are     *)
(* only moved when no indexing reads an older view, or the race is noted.    *)

ChainStep(items) ==
    /\ Sendable /\ Notify(items) /\ items \in SUBSET (Txs \X Int)
    /\ ChainGrows /\ ChainType' /\ TicketFirst'
    /\ \A tx \in Txs : where'[tx] > 0 /\ where'[tx] # where[tx] => <<tx, where'[tx]>> \in items
    /\ \A e \in items : /\ e[2] = where'[e[1]] /\ e[2] \in Known'
                        /\ e[2] > 0 => e[2] >= best' - MaxReOrgBlocks
                        /\ e[1] = Ticket => where'[Vote] = Absent
    /\ lossy' \in BOOLEAN /\ (~lossy' => ~lossy)
    /\ ~lossy' /\ (\E i \in Indexers : Running(i)) =>
         where'[Vote] = where[Vote] /\ \A tx \in Txs : where[tx] > 0 => where'[tx] = where[tx]
    /\ UNCHANGED <<idxVars, writer, chan, sync, rescanVars>>

LEMMA UnminedTransactionStep ==
    ASSUME TypeInv, NEW tx \in Txs, UnminedTransaction(tx)
    PROVE  ChainStep({<<tx, BlockHeightInvalid>>})
<1>1. /\ Sendable /\ where[tx] = Absent /\ MayAppear(tx)
      /\ where' = [where EXCEPT ![tx] = BlockHeightInvalid]
      /\ Notify({<<tx, BlockHeightInvalid>>})
      /\ UNCHANGED <<best, idxVars, writer, chan, sync, rescanVars>>
    BY DEF UnminedTransaction
<1>2. best \in Nat /\ where \in [Txs -> Int] /\ Ticket \in Txs /\ Vote \in Txs /\ Ticket # Vote
    BY NamesAssumption DEF TypeInv, ChainType, Txs
<1>3. where'[tx] = -1 /\ where[tx] = -2 /\ \A x \in Txs : x # tx => where'[x] = where[x]
    BY <1>1, <1>2 DEF Absent, BlockHeightInvalid
<1>4. ChainGrows
    BY <1>1, <1>2, <1>3 DEF ChainGrows, Absent
<1>5. Known' = Known
    BY <1>1 DEF Known
<1>6. ChainType'
    BY <1>1, <1>2, <1>3, <1>5 DEF TypeInv, ChainType, Known, BlockHeightInvalid
<1>7. tx = Ticket => where[Vote] = Absent
    BY <1>2, <1>3 DEF TypeInv, TicketFirst
<1>8. TicketFirst'
    BY <1>1, <1>2, <1>3, <1>7 DEF TypeInv, TicketFirst, MayAppear, Txs, Absent
<1>9. /\ lossy' \in BOOLEAN /\ (~lossy' => ~lossy)
      /\ tx = Vote /\ ~lossy' => ~ \E i \in Indexers : Running(i)
    BY DEF UnminedTransaction, Raced, TypeInv, RestType
<1>10. \A x \in Txs : where'[x] > 0 => where'[x] = where[x]
    BY <1>3
<1>11. -1 \in Known' /\ ~(-1 > 0)
    BY DEF Known, BlockHeightInvalid
<1>12. ~lossy' /\ (\E i \in Indexers : Running(i)) =>
         where'[Vote] = where[Vote] /\ \A x \in Txs : where[x] > 0 => where'[x] = where[x]
    BY <1>2, <1>3, <1>9
<1>13. \A e \in {<<tx, BlockHeightInvalid>>} : e[1] = tx /\ e[2] = -1
    BY DEF BlockHeightInvalid
<1>14. tx = Ticket => where'[Vote] = Absent
    BY <1>2, <1>3, <1>7
<1>15. {<<tx, BlockHeightInvalid>>} \in SUBSET (Txs \X Int)
    BY DEF BlockHeightInvalid
<1> QED BY <1>1, <1>3, <1>4, <1>6, <1>8, <1>9, <1>10, <1>11, <1>12, <1>13, <1>14, <1>15 DEF ChainStep

LEMMA AttachBlockStep ==
    ASSUME TypeInv, NEW txs \in SUBSET Txs, AttachBlock(txs)
    PROVE  ChainStep({<<tx, best + 1>> : tx \in txs})
<1> DEFINE items == {<<tx, best + 1>> : tx \in txs}
<1>1. /\ Sendable /\ best' = best + 1 /\ \A tx \in txs : where[tx] <= 0 /\ MayAppear(tx)
      /\ where' = [tx \in Txs |-> IF tx \in txs THEN best + 1 ELSE where[tx]]
      /\ Notify(items)
      /\ UNCHANGED <<idxVars, writer, chan, sync, rescanVars>>
    BY DEF AttachBlock
<1>2. best \in Nat /\ where \in [Txs -> Int] /\ Ticket \in Txs /\ Vote \in Txs /\ Ticket # Vote
    BY NamesAssumption DEF TypeInv, ChainType, Txs
<1>3. \A x \in Txs : where'[x] = IF x \in txs THEN best + 1 ELSE where[x]
    BY <1>1
<1>4. ChainGrows
    BY <1>1, <1>2, <1>3 DEF ChainGrows, Absent
<1>5. ChainType'
    BY <1>1, <1>2, <1>3, <1>4, KnownGrows DEF TypeInv, ChainType, Known
<1>6. where[Ticket] <= best
    BY <1>2 DEF TypeInv, ChainType, Known, Absent, BlockHeightInvalid
<1>7. Ticket \in txs => where[Vote] = Absent /\ Vote \notin txs
    BY <1>1, <1>2 DEF TypeInv, TicketFirst, MayAppear
<1>8. TicketFirst'
    BY <1>1, <1>2, <1>3, <1>6, <1>7 DEF TypeInv, TicketFirst, MayAppear, Absent
<1>9. /\ lossy' \in BOOLEAN /\ (~lossy' => ~lossy)
      /\ Vote \in txs /\ ~lossy' => ~ \E i \in Indexers : Running(i)
    BY DEF AttachBlock, Raced, TypeInv, RestType
<1>10. \A x \in Txs : where'[x] # where[x] => <<x, where'[x]>> \in items
    BY <1>3
<1>11. \A e \in items : e[1] \in txs /\ e[2] = best + 1
    OBVIOUS
<1>12. best + 1 \in Known' /\ best + 1 >= best' - MaxReOrgBlocks
    BY <1>1, <1>2, BoundsAssumption DEF Known
<1>13. ~lossy' /\ (\E i \in Indexers : Running(i)) =>
         where'[Vote] = where[Vote] /\ \A x \in Txs : where[x] > 0 => where'[x] = where[x]
    BY <1>1, <1>2, <1>3, <1>9
<1>14. items \in SUBSET (Txs \X Int)
    BY <1>2
<1> HIDE DEF items
<1>15. \A e \in items : /\ e[2] = where'[e[1]] /\ e[2] \in Known'
                        /\ e[2] > 0 => e[2] >= best' - MaxReOrgBlocks
                        /\ e[1] = Ticket => where'[Vote] = Absent
    BY <1>2, <1>3, <1>7, <1>11, <1>12
<1> QED BY <1>1, <1>4, <1>5, <1>8, <1>9, <1>10, <1>13, <1>14, <1>15 DEF ChainStep, items

LEMMA ReorgStep ==
    ASSUME TypeInv, NEW fork \in Nat, NEW mined \in SUBSET Txs, Reorg(fork, mined)
    PROVE  \E items : ChainStep(items)
<1>1. PICK h \in [mined -> (fork + 1)..(best + 1)] :
        /\ where' = [tx \in Txs |-> IF tx \in mined THEN h[tx]
                                    ELSE IF where[tx] > fork THEN BlockHeightInvalid
                                    ELSE where[tx]]
        /\ Notify({<<tx, h[tx]>> : tx \in mined})
    BY DEF Reorg
<1> DEFINE items == {<<tx, h[tx]>> : tx \in mined}
<1>2. /\ Sendable /\ best' = best + 1 /\ fork >= best - MaxReOrgBlocks /\ fork <= best - 1
      /\ where[Vote] # Absent => where[Ticket] <= fork
      /\ \A tx \in mined : where[tx] > fork
      /\ UNCHANGED <<idxVars, writer, chan, sync, rescanVars>>
    BY BoundsAssumption DEF Reorg, TypeInv, ChainType
<1>3. best \in Nat /\ where \in [Txs -> Int] /\ Ticket \in Txs /\ Vote \in Txs /\ Ticket # Vote
    BY NamesAssumption DEF TypeInv, ChainType, Txs
<1>4. \A x \in mined : where'[x] = h[x] /\ h[x] \in Int /\ h[x] > fork /\ h[x] <= best + 1
    BY <1>1, <1>3
<1>5. \A x \in Txs : x \notin mined => where'[x] = IF where[x] > fork THEN -1 ELSE where[x]
    BY <1>1 DEF BlockHeightInvalid
<1>6. \A x \in Txs : where[x] # Absent => where'[x] # Absent
    BY <1>3, <1>4, <1>5 DEF Absent
<1>7. ChainGrows
    BY <1>2, <1>3, <1>6 DEF ChainGrows
<1>8. \A x \in mined : h[x] \in Known'
    BY <1>2, <1>3, <1>4 DEF Known
<1>9. ChainType'
  <2>1. \A x \in Txs : where'[x] = Absent \/ where'[x] \in Known'
    BY <1>3, <1>4, <1>5, <1>7, <1>8, KnownGrows DEF TypeInv, ChainType, Known, BlockHeightInvalid
  <2>2. where' \in [Txs -> Int]
    BY <1>1, <1>3, <1>4 DEF BlockHeightInvalid
  <2> QED BY <1>2, <1>3, <2>1, <2>2 DEF ChainType
<1>10. Ticket \in mined => where[Vote] = Absent /\ Vote \notin mined
    BY <1>2, <1>3 DEF Absent
<1>11. where[Vote] = Absent => where'[Vote] = Absent
    BY <1>2, <1>3, <1>5 DEF Absent
<1>12. TicketFirst'
  <2>1. CASE where[Vote] = Absent
    BY <2>1, <1>11 DEF TicketFirst, Absent
  <2>2. CASE where[Vote] # Absent
    <3>1. Ticket \notin mined /\ where'[Ticket] = where[Ticket] /\ where[Ticket] > 0 /\ where[Ticket] <= fork
      BY <1>2, <1>3, <1>5, <1>10, <2>2 DEF TypeInv, TicketFirst
    <3>2. where'[Vote] > 0 => where[Ticket] < where'[Vote]
      BY <1>3, <1>4, <1>5, <3>1, <2>2 DEF TypeInv, TicketFirst
    <3> QED BY <3>1, <3>2 DEF TicketFirst
  <2> QED BY <2>1, <2>2
<1>13. \A x \in Txs : where'[x] > 0 /\ where'[x] # where[x] => <<x, where'[x]>> \in items
    BY <1>4, <1>5
<1>14. \A e \in items : e[1] \in mined /\ e[2] = h[e[1]]
    OBVIOUS
<1>15. items \in SUBSET (Txs \X Int)
    BY <1>4
<1>16. /\ lossy' \in BOOLEAN /\ (~lossy' => ~lossy)
       /\ ~lossy' => ~ \E i \in Indexers : Running(i)
    BY DEF Reorg, Raced, TypeInv, RestType
<1>17. Notify(items)
    BY <1>1
<1> HIDE DEF items
<1>18. \A e \in items : e[2] = where'[e[1]] /\ e[2] \in Known'
    BY <1>4, <1>8, <1>14
<1>19. \A e \in items : e[2] >= best' - MaxReOrgBlocks
    BY <1>2, <1>3, <1>4, <1>14, BoundsAssumption
<1>20. \A e \in items : e[1] = Ticket => where'[Vote] = Absent
    BY <1>10, <1>11, <1>14
<1> QED BY <1>2, <1>7, <1>9, <1>12, <1>13, <1>15, <1>16, <1>17, <1>18, <1>19, <1>20 DEF ChainStep

LEMMA ChainStepKeepsType ==
    ASSUME TypeInv, NEW items, ChainStep(items)
    PROVE  TypeInv'
<1>1. UNCHANGED <<idxVars, writer, chan, sync, rescanVars>> /\ ChainGrows /\ lossy' \in BOOLEAN
    BY DEF ChainStep
<1>2. ChainType' /\ TicketFirst'
    BY DEF ChainStep
<1>3. IndexType'
    BY <1>1, SameIndex
<1>4. WritersType'
    BY <1>1, WritersStay DEF TypeInv, WritersType, rescanVars
<1>5. PendType'
  <2>1. items \in SUBSET (Txs \X Int) /\ pend' = [l \in Listeners |-> IF Registered(l) THEN <<items>> ELSE <<>>]
    BY DEF ChainStep, Notify
  <2> QED BY <1>1, <2>1 DEF TypeInv, PendType
<1>6. RestType'
  <2>1. \A r \in Rescans : from[r] \in Nat /\ from[r] <= best /\ best <= best' /\ best' \in Nat /\ best \in Nat
    BY <1>1 DEF TypeInv, RestType, ChainGrows
  <2> QED BY <1>1, <2>1 DEF TypeInv, RestType, rescanVars
<1> QED BY <1>2, <1>3, <1>4, <1>5, <1>6 DEF TypeInv

----------------------------------------------------------------------------
(* A stop of the process.                                                   *)

\* A crash keeps the databases, or loses one record of the index.
CrashEffect ==
    /\ UNCHANGED <<dbVars, point>> /\ sync' = "off"
    /\ writer' = [w \in Writers |-> Idle] /\ pend' = [l \in Listeners |-> <<>>]
    /\ lossy' \in BOOLEAN /\ (~lossy' => ~lossy /\ ~Overtaken)
    /\ \/ index' = index
       \/ \E tx \in Txs : /\ index' = [index EXCEPT ![tx] = NoRecord]
                          /\ ~lossy' => ~(where[tx] < IndexingStartBlock(point))

LEMMA CrashIsEffect ==
    ASSUME TypeInv, Crash \/ \E w \in Writers : CrashInSave(w)
    PROVE  CrashEffect
BY DEF Crash, CrashInSave, Stopped, CrashEffect, TypeInv, RestType

LEMMA CrashKeepsType ==
    ASSUME TypeInv, Crash \/ \E w \in Writers : CrashInSave(w)
    PROVE  TypeInv'
<1>1. CrashEffect
    BY CrashIsEffect
<1>2. UNCHANGED <<dbVars, point>> /\ ChainGrows /\ ChainType' /\ TicketFirst' /\ Known' = Known
    BY <1>1, SameChain DEF CrashEffect
<1>3. IndexType'
  <2>1. NoRecord \in [height : Int, spender : {NoSpender, Vote}]
    BY DEF NoRecord, Absent
  <2> QED BY <1>1, <1>2, <2>1 DEF CrashEffect, TypeInv, IndexType, dbVars
<1>4. WritersType'
  <2>1. \A w \in Writers : writer'[w] = Idle
    BY <1>1 DEF CrashEffect
  <2>2. writer' \in [Writers -> WriterState]
    BY <1>1, IdleState DEF CrashEffect
  <2>3. Idle.todo = {} /\ Idle.pc = "none"
    BY DEF Idle
  <2>4. \A w \in Writers : WriterOk(w)' /\ (w \in Indexers => IndexerOk(w)')
    BY <1>2, <2>1, <2>3, RestingWriter
  <2>5. \A r \in Rescans : ~Running(r)'
    BY <2>1, <2>3 DEF Running, Writers, Indexers
  <2> QED BY <2>2, <2>4, <2>5 DEF WritersType, Writers
<1>5. PendType' /\ RestType'
    BY <1>1, <1>2 DEF CrashEffect, Crash, CrashInSave, Stopped, TypeInv, PendType, RestType, ChainType
<1> QED BY <1>2, <1>3, <1>4, <1>5 DEF TypeInv

LEMMA TypeInvStep ==
    ASSUME TypeInv, PendCurrent, [Next]_vars
    PROVE  TypeInv'
<1>1. CASE Synced \/ Unsynced
    BY <1>1, SyncedKeepsType, UnsyncedKeepsType
<1>2. ASSUME NEW w \in Writers, Decode(w) PROVE TypeInv'
    BY <1>2, DecodeKeepsType
<1>3. ASSUME NEW i \in Indexers, IndexSave(i) \/ IndexEnds(i) \/ IndexAborts(i) PROVE TypeInv'
    BY <1>3, IndexSaveKeepsType, IndexEndsKeepsType
<1>4. ASSUME NEW l \in Listeners, Receive(l) \/ ListenerSave(l) \/ ListenerCanceled(l) \/ ListenerFails(l)
      PROVE  TypeInv'
    BY <1>4, ReceiveKeepsType, ListenerSaveKeepsType, ListenerEndsKeepsType
<1>5. ASSUME NEW r \in Rescans, RescanScanned(r) \/ RescanIndexes(r) PROVE TypeInv'
    BY <1>5, RescanScannedKeepsType, RescanIndexesKeepsType
<1>6. ASSUME NEW tx \in Txs, UnminedTransaction(tx) PROVE TypeInv'
    BY <1>6, UnminedTransactionStep, ChainStepKeepsType
<1>7. ASSUME NEW txs \in SUBSET Txs, AttachBlock(txs) PROVE TypeInv'
    BY <1>7, AttachBlockStep, ChainStepKeepsType
<1>8. ASSUME NEW fork \in 0..MaxHeight, NEW mined \in SUBSET Txs, Reorg(fork, mined) PROVE TypeInv'
    BY <1>8, ReorgStep, ChainStepKeepsType
<1>9. CASE UNCHANGED vars
  <2>1. ChainGrows /\ ChainType' /\ TicketFirst' /\ IndexType'
    BY <1>9, SameChain, SameIndex DEF vars, dbVars, idxVars
  <2>2. WritersType'
    BY <1>9, <2>1, WritersStay DEF vars, TypeInv, WritersType
  <2> QED BY <1>9, <2>1, <2>2 DEF vars, TypeInv, PendType, RestType
<1> QED BY <1>1, <1>2, <1>3, <1>4, <1>5, <1>6, <1>7, <1>8, <1>9, SessionKeepsType, CrashKeepsType
        DEF Next

----------------------------------------------------------------------------
(* What the steps of the writers do to what is in flight.                   *)

LEMMA RestingHasNothing ==
    ASSUME NEW w, writer[w].todo = {}, writer[w].pc # "save"
    PROVE  \A tx, h : ~Has(w, tx, h)
BY DEF Has

LEMMA DecodeHas ==
    ASSUME TypeInv, NEW w \in Writers, Decode(w), NEW e \in writer[w].todo,
           e \in Txs \X Int, Becomes(w, Decoding(w, e))
    PROVE  /\ \A tx, h : Has(w, tx, h)' <=> Has(w, tx, h)
           /\ \A x \in Writers : x # w => writer'[x] = writer[x]
           /\ writer'[w].todo = writer[w].todo \ {e} /\ writer'[w].cur = e[1] /\ writer'[w].pc = "save"
<1>1. writer[w] \in WriterState /\ writer[w].pc = "decode"
    BY DEF TypeInv, WritersType, Decode
<1>2. /\ writer'[w].pc = "save" /\ writer'[w].cur = e[1] /\ writer'[w].todo = writer[w].todo \ {e}
      /\ writer'[w].rec.height = e[2]
    BY <1>1, DecodingState DEF Becomes
<1>3. e = <<e[1], e[2]>>
    OBVIOUS
<1> QED BY <1>1, <1>2, <1>3 DEF Has, Becomes

LEMMA SaveHas ==
    ASSUME TypeInv, NEW w \in Writers, NEW v, Becomes(w, v), writer[w].pc = "save",
           v.todo = writer[w].todo, v.pc # "save"
    PROVE  /\ \A tx, h : Has(w, tx, h)' <=> <<tx, h>> \in writer[w].todo
           /\ \A x \in Writers : x # w => writer'[x] = writer[x]
           /\ writer'[w].todo = writer[w].todo
BY DEF Has, Becomes

----------------------------------------------------------------------------
(* What is in flight stays current.                                         *)

VoteFollows(i) == \A h \in Int : Has(i, Ticket, h) /\ where[Vote] > 0 =>
                                   <<Vote, where[Vote]>> \in writer[i].todo

LEMMA SentStays ==
    ASSUME UNCHANGED <<dbVars, pend>>
    PROVE  \A l, tx : Sent(l, tx)' <=> Sent(l, tx)
BY DEF Sent, dbVars

LEMMA FollowsStays ==
    ASSUME UNCHANGED <<dbVars, pend>>, NEW l \in Listeners, ListenerFollows(l),
           \A tx \in Txs, h \in Int : Has(l, tx, h)' => Has(l, tx, h)
    PROVE  ListenerFollows(l)'
BY SentStays DEF ListenerFollows, dbVars

LEMMA CurrentStays ==
    ASSUME UNCHANGED dbVars, NEW i \in Indexers, IndexerCurrent(i),
           \A tx \in Txs, h \in Int : Has(i, tx, h)' => Has(i, tx, h),
           VoteFollows(i)'
    PROVE  IndexerCurrent(i)'
BY DEF IndexerCurrent, VoteFollows, dbVars

LEMMA PendStays ==
    ASSUME PendCurrent, UNCHANGED <<dbVars, pend>>
    PROVE  PendCurrent'
BY DEF PendCurrent, Known, dbVars

LEMMA FlightStays ==
    ASSUME FlightInv, UNCHANGED <<dbVars, pend>>, ~lossy' => ~lossy,
           \A w \in Writers, tx \in Txs, h \in Int : Has(w, tx, h)' => Has(w, tx, h),
           ~lossy' => \A i \in Indexers : VoteFollows(i)'
    PROVE  FlightInv'
<1>1. PendCurrent'
    BY PendStays DEF FlightInv
<1>2. \A l \in Listeners : ListenerFollows(l)'
    BY FollowsStays DEF FlightInv, Writers
<1>3. ~lossy' => \A i \in Indexers : IndexerCurrent(i)'
    BY CurrentStays DEF FlightInv, Writers
<1> QED BY <1>1, <1>2, <1>3 DEF FlightInv

LEMMA CurrentFollows ==
    ASSUME FlightInv, ~lossy, NEW i \in Indexers
    PROVE  VoteFollows(i)
BY DEF FlightInv, IndexerCurrent, VoteFollows, Txs

\* Steps that touch no indexing, and give no writer anything.
LEMMA OthersKeepFlight ==
    ASSUME FlightInv, UNCHANGED <<dbVars, pend>>, ~lossy' => ~lossy,
           \A i \in Indexers : writer'[i] = writer[i],
           \A w \in Writers, tx \in Txs, h \in Int : Has(w, tx, h)' => Has(w, tx, h)
    PROVE  FlightInv'
<1>1. ASSUME ~lossy', NEW i \in Indexers PROVE VoteFollows(i)'
    BY <1>1, CurrentFollows DEF VoteFollows, Writers, Txs, dbVars
<1> QED BY <1>1, FlightStays

LEMMA DecodeKeepsFlight ==
    ASSUME TypeInv, FlightInv, NEW w \in Writers, Decode(w)
    PROVE  FlightInv'
<1>1. PICK e \in writer[w].todo :
        /\ \A f \in writer[w].todo : e[2] <= f[2]
        /\ e \in Txs \X Int /\ Becomes(w, Decoding(w, e))
    BY DecodeEffect
<1>2. /\ \A tx, h : Has(w, tx, h)' <=> Has(w, tx, h)
      /\ \A x \in Writers : x # w => writer'[x] = writer[x]
      /\ writer'[w].todo = writer[w].todo \ {e}
    BY <1>1, DecodeHas
<1>3. UNCHANGED <<dbVars, pend, lossy>> /\ writer[w].pc = "decode"
    BY DEF Decode
<1>4. \A x \in Writers, tx \in Txs, h \in Int : Has(x, tx, h)' => Has(x, tx, h)
    BY <1>2 DEF Has
<1>5. ASSUME ~lossy', NEW i \in Indexers PROVE VoteFollows(i)'
  <2>1. i \in Writers
    BY DEF Writers
  <2>2. VoteFollows(i)
    BY <1>3, <1>5, CurrentFollows
  <2>3. CASE i # w
    BY <1>2, <1>3, <2>1, <2>2, <2>3 DEF VoteFollows, Has, dbVars
  <2>4. CASE i = w
    <3>1. ASSUME NEW h \in Int, Has(i, Ticket, h), where[Vote] > 0
          PROVE  <<Vote, where[Vote]>> \in writer[i].todo \ {e}
      <4>1. <<Ticket, h>> \in writer[i].todo /\ h = where[Ticket]
        BY <1>3, <1>5, <2>4, <3>1 DEF Has, FlightInv, IndexerCurrent, Txs
      <4>2. <<Vote, where[Vote]>> \in writer[i].todo
        BY <2>2, <3>1 DEF VoteFollows
      <4>3. where[Ticket] < where[Vote] /\ where[Ticket] \in Int /\ where[Vote] \in Int
        BY <3>1 DEF TypeInv, TicketFirst, ChainType, Txs
      <4>4. e[2] <= h
        BY <1>1, <2>4, <4>1
      <4>5. e[2] # where[Vote]
        BY <1>1, <4>1, <4>3, <4>4
      <4> QED BY <4>2, <4>5
    <3> QED BY <1>2, <1>3, <2>4, <3>1 DEF VoteFollows, dbVars
  <2> QED BY <2>3, <2>4
<1> QED BY <1>3, <1>4, <1>5, FlightStays

LEMMA IndexSaveKeepsFlight ==
    ASSUME TypeInv, FlightInv, NEW i \in Indexers, IndexSave(i)
    PROVE  FlightInv'
<1>0. i \in Writers
    BY DEF Writers
<1>1. UNCHANGED <<dbVars, pend, lossy>> /\ writer[i].pc = "save"
    BY DEF IndexSave, Save
<1>2. Becomes(i, Saved(i)) /\ Saved(i).todo = writer[i].todo /\ Saved(i).pc = "decode"
    BY <1>0, IndexSaveEffect, SavedState DEF TypeInv, WritersType
<1>3. /\ \A tx, h : Has(i, tx, h)' <=> <<tx, h>> \in writer[i].todo
      /\ \A x \in Writers : x # i => writer'[x] = writer[x]
      /\ writer'[i].todo = writer[i].todo
    BY <1>0, <1>1, <1>2, SaveHas
<1>4. \A x \in Writers, tx \in Txs, h \in Int : Has(x, tx, h)' => Has(x, tx, h)
    BY <1>3 DEF Has
<1>5. ASSUME ~lossy', NEW j \in Indexers PROVE VoteFollows(j)'
  <2>1. VoteFollows(j) /\ writer'[j].todo = writer[j].todo /\ j \in Writers
    BY <1>1, <1>3, <1>5, CurrentFollows DEF Writers
  <2> QED BY <1>1, <1>4, <2>1 DEF VoteFollows, dbVars, Txs
<1> QED BY <1>1, <1>4, <1>5, FlightStays

LEMMA ListenerSaveKeepsFlight ==
    ASSUME TypeInv, FlightInv, NEW l \in Listeners, ListenerSave(l)
    PROVE  FlightInv'
<1>0. l \in Writers /\ l \notin Indexers
    BY NamesAssumption DEF Writers
<1>1. UNCHANGED <<dbVars, pend, lossy>> /\ writer[l].pc = "save"
    BY DEF ListenerSave, Save
<1>2. PICK v \in WriterState : Becomes(l, v) /\ v.todo = writer[l].todo /\ v.pc # "save"
    BY <1>0, ListenerSaveEffect, SelectingState, SavedState DEF Becomes, TypeInv, WritersType
<1>3. /\ \A tx, h : Has(l, tx, h)' <=> <<tx, h>> \in writer[l].todo
      /\ \A x \in Writers : x # l => writer'[x] = writer[x]
    BY <1>0, <1>1, <1>2, SaveHas
<1>4. \A x \in Writers, tx \in Txs, h \in Int : Has(x, tx, h)' => Has(x, tx, h)
    BY <1>3 DEF Has
<1> QED BY <1>0, <1>1, <1>3, <1>4, OthersKeepFlight DEF Writers

\* A writer that comes to rest has nothing, the others what they had.
LEMMA RestHas ==
    ASSUME NEW w \in Writers, NEW v, Becomes(w, v), v.todo = {}, v.pc # "save"
    PROVE  /\ \A tx, h : ~Has(w, tx, h)'
           /\ \A x \in Writers, tx \in Txs, h \in Int : Has(x, tx, h)' => Has(x, tx, h)
           /\ \A x \in Writers : x # w => writer'[x] = writer[x]
BY DEF Has, Becomes

LEMMA IndexEndsKeepsFlight ==
    ASSUME TypeInv, FlightInv, NEW i \in Indexers, IndexEnds(i) \/ IndexAborts(i)
    PROVE  FlightInv'
<1>1. UNCHANGED <<dbVars, pend>> /\ (~lossy' => ~lossy)
    BY DEF IndexEnds, IndexAborts
<1>2. /\ \A tx, h : ~Has(i, tx, h)'
      /\ \A x \in Writers, tx \in Txs, h \in Int : Has(x, tx, h)' => Has(x, tx, h)
      /\ \A x \in Writers : x # i => writer'[x] = writer[x]
    BY EndsEffect, RestHas DEF Idle, Writers
<1>3. ASSUME ~lossy', NEW j \in Indexers PROVE VoteFollows(j)'
  <2>1. VoteFollows(j) /\ j \in Writers
    BY <1>1, <1>3, CurrentFollows DEF Writers
  <2> QED BY <1>1, <1>2, <2>1 DEF VoteFollows, dbVars, Txs
<1> QED BY <1>1, <1>2, <1>3, FlightStays

LEMMA ListenerFailsKeepsFlight ==
    ASSUME TypeInv, FlightInv, NEW l \in Listeners, ListenerFails(l)
    PROVE  FlightInv'
<1>0. l \in Writers /\ l \notin Indexers
    BY NamesAssumption DEF Writers
<1>1. UNCHANGED <<dbVars, pend, lossy>>
    BY DEF ListenerFails
<1>2. /\ \A x \in Writers, tx \in Txs, h \in Int : Has(x, tx, h)' => Has(x, tx, h)
      /\ \A x \in Writers : x # l => writer'[x] = writer[x]
    BY <1>0, EndsEffect, RestHas DEF Idle
<1> QED BY <1>0, <1>1, <1>2, OthersKeepFlight DEF Writers

LEMMA UnsyncedKeepsFlight ==
    ASSUME TypeInv, FlightInv, Unsynced
    PROVE  FlightInv'
<1>1. PICK l \in Listeners : Becomes(l, Selecting)
    BY UnsyncedEffect
<1>2. l \in Writers /\ l \notin Indexers /\ UNCHANGED <<dbVars, pend, lossy>>
    BY NamesAssumption DEF Writers, Unsynced
<1>3. /\ \A x \in Writers, tx \in Txs, h \in Int : Has(x, tx, h)' => Has(x, tx, h)
      /\ \A x \in Writers : x # l => writer'[x] = writer[x]
    BY <1>1, <1>2, SelectingState, RestHas
<1> QED BY <1>2, <1>3, OthersKeepFlight DEF Writers

LEMMA ReceiveKeepsFlight ==
    ASSUME TypeInv, FlightInv, NEW l \in Listeners, Receive(l)
    PROVE  FlightInv'
<1> DEFINE items == Head(pend[l])
<1>0. l \in Writers /\ l \notin Indexers /\ Indexers \subseteq Writers
    BY NamesAssumption DEF Writers
<1>1. /\ UNCHANGED <<dbVars, lossy>> /\ writer[l].pc = "select" /\ pend[l] # <<>>
      /\ pend' = [pend EXCEPT ![l] = <<>>]
    BY DEF Receive
<1>2. /\ items \in SUBSET (Txs \X Int)
      /\ writer' = writer \/ Becomes(l, Receiving(l, items))
    BY ReceiveEffect
<1>3. \A e \in items : e[2] = where[e[1]] /\ (e[1] = Ticket => where[Vote] = Absent)
    BY <1>1 DEF FlightInv, PendCurrent
<1> HIDE DEF items
<1>4. writer[l].todo = {}
    BY <1>0, <1>1 DEF TypeInv, WritersType, WriterOk
<1>5. \A x \in Writers : x # l => writer'[x] = writer[x]
    BY <1>2 DEF Becomes
<1>6. ASSUME NEW tx \in Txs, NEW h \in Int, Has(l, tx, h)' PROVE <<tx, h>> \in items
  <2>1. CASE writer' = writer
    BY <1>1, <1>4, <1>6, <2>1 DEF Has
  <2>2. CASE Becomes(l, Receiving(l, items))
    <3>1. writer'[l].pc = "decode" /\ writer'[l].todo = items
      BY <1>0, <1>2, <2>2, ReceivingState DEF Becomes, TypeInv, WritersType
    <3> QED BY <1>6, <3>1 DEF Has
  <2> QED BY <1>2, <2>1, <2>2
<1>7. PendCurrent'
    BY <1>1 DEF FlightInv, PendCurrent, TypeInv, PendType, Known, dbVars
<1>8. ListenerFollows(l)'
  <2>1. \A tx \in Txs, h \in Int : Has(l, tx, h)' => where[tx] = h /\ (tx = Ticket => where[Vote] = Absent)
    BY <1>3, <1>6
  <2> QED BY <1>1, <2>1 DEF ListenerFollows, dbVars, Absent
<1>9. ASSUME NEW x \in Listeners, x # l PROVE ListenerFollows(x)'
  <2>1. pend'[x] = pend[x] /\ writer'[x] = writer[x] /\ ListenerFollows(x)
    BY <1>1, <1>5, <1>9 DEF TypeInv, PendType, FlightInv, Writers
  <2> QED BY <1>1, <2>1 DEF ListenerFollows, Has, Sent, dbVars
<1>10. ASSUME ~lossy', NEW i \in Indexers PROVE IndexerCurrent(i)'
  <2>1. IndexerCurrent(i) /\ writer'[i] = writer[i]
    BY <1>0, <1>1, <1>5, <1>10 DEF FlightInv
  <2> QED BY <1>1, <2>1 DEF IndexerCurrent, Has, dbVars
<1> QED BY <1>7, <1>8, <1>9, <1>10 DEF FlightInv

LEMMA ListenerCanceledKeepsFlight ==
    ASSUME TypeInv, FlightInv, NEW l \in Listeners, ListenerCanceled(l)
    PROVE  FlightInv'
<1>0. l \in Writers /\ l \notin Indexers /\ Indexers \subseteq Writers
    BY NamesAssumption DEF Writers
<1>1. UNCHANGED <<dbVars, lossy>> /\ pend' = [pend EXCEPT ![l] = <<>>]
    BY DEF ListenerCanceled
<1>2. /\ \A tx, h : ~Has(l, tx, h)'
      /\ \A x \in Writers : x # l => writer'[x] = writer[x]
    BY <1>0, EndsEffect, RestHas DEF Idle
<1>3. PendCurrent'
    BY <1>1 DEF FlightInv, PendCurrent, TypeInv, PendType, Known, dbVars
<1>4. ListenerFollows(l)'
    BY <1>2 DEF ListenerFollows
<1>5. ASSUME NEW x \in Listeners, x # l PROVE ListenerFollows(x)'
  <2>1. pend'[x] = pend[x] /\ writer'[x] = writer[x] /\ ListenerFollows(x)
    BY <1>1, <1>2, <1>5 DEF TypeInv, PendType, FlightInv, Writers
  <2> QED BY <1>1, <2>1 DEF ListenerFollows, Has, Sent, dbVars
<1>6. ASSUME ~lossy', NEW i \in Indexers PROVE IndexerCurrent(i)'
  <2>1. IndexerCurrent(i) /\ writer'[i] = writer[i]
    BY <1>0, <1>1, <1>2, <1>6 DEF FlightInv
  <2> QED BY <1>1, <2>1 DEF IndexerCurrent, Has, dbVars
<1> QED BY <1>3, <1>4, <1>5, <1>6 DEF FlightInv

\* What an indexing begins with is the chain's, and a ticket comes with its vote.
LEMMA IndexingIsCurrent ==
    ASSUME TypeInv, UNCHANGED dbVars, NEW i \in Indexers,
           writer'[i] = Indexing(IndexingStartBlock(point))
    PROVE  IndexerCurrent(i)'
<1> DEFINE begin == IndexingStartBlock(point)
           todo == RangeTransactions(begin, best)
<1>1. ChainType /\ begin \in Nat
    BY StartBlock DEF TypeInv, IndexType
<1> HIDE DEF begin, todo
<1>2. /\ \A tx \in Txs : where[tx] > 0 /\ where[tx] >= begin => <<tx, where[tx]>> \in todo
      /\ \A e \in todo : e[2] = where[e[1]] /\ e[2] > 0 /\ e[2] >= begin
    BY <1>1, RangeList DEF todo
<1>3. writer'[i].pc = "decode" /\ writer'[i].todo = todo
    BY <1>1, IndexingState DEF begin, todo
<1>4. \A tx, h : Has(i, tx, h)' => <<tx, h>> \in todo
    BY <1>3 DEF Has
<1>5. <<Ticket, where[Ticket]>> \in todo /\ where[Vote] > 0 => <<Vote, where[Vote]>> \in todo
  <2>1. where[Ticket] \in Int /\ where[Vote] \in Int /\ begin \in Nat /\ Vote \in Txs
    BY <1>1 DEF ChainType, Txs
  <2>2. <<Ticket, where[Ticket]>> \in todo => where[Ticket] >= begin
    BY <1>2
  <2>3. where[Vote] > 0 => where[Ticket] < where[Vote]
    BY DEF TypeInv, TicketFirst
  <2>4. where[Vote] > 0 /\ where[Vote] >= begin => <<Vote, where[Vote]>> \in todo
    BY <1>2, <2>1
  <2> QED BY <2>1, <2>2, <2>3, <2>4
<1>6. ASSUME NEW tx \in Txs, NEW h \in Int, Has(i, tx, h)'
      PROVE  h = where[tx] /\ h > 0 /\ <<tx, where[tx]>> \in todo
  <2>1. <<tx, h>> \in todo
    BY <1>4, <1>6
  <2>2. <<tx, h>>[1] = tx /\ <<tx, h>>[2] = h
    OBVIOUS
  <2> QED BY <1>2, <2>1, <2>2
<1> QED BY <1>3, <1>5, <1>6 DEF IndexerCurrent, dbVars

LEMMA SyncedKeepsFlight ==
    ASSUME TypeInv, FlightInv, Synced
    PROVE  FlightInv'
<1>0. "sync" \in Indexers /\ Indexers = {"sync"} \cup Rescans
    BY DEF Indexers
<1>1. UNCHANGED <<dbVars, pend, lossy>>
    BY DEF Synced
<1>2. /\ writer'["sync"] = Indexing(IndexingStartBlock(point))
      /\ \A r \in Rescans : writer'[r] = writer[r]
      /\ \A l \in Listeners : writer'[l] = writer[l] \/ writer'[l] = Selecting
    BY SyncedEffect
<1>3. PendCurrent'
    BY <1>1, PendStays DEF FlightInv
<1>4. ASSUME NEW l \in Listeners PROVE ListenerFollows(l)'
  <2>1. \A tx \in Txs, h \in Int : Has(l, tx, h)' => Has(l, tx, h)
    BY <1>2, SelectingState DEF Has
  <2> QED BY <1>1, <2>1, FollowsStays DEF FlightInv
<1>5. ASSUME ~lossy', NEW i \in Indexers PROVE IndexerCurrent(i)'
  <2>1. CASE i = "sync"
    BY <1>1, <1>2, <2>1, IndexingIsCurrent
  <2>2. CASE i \in Rescans
    BY <1>1, <1>2, <1>5, <2>2 DEF FlightInv, IndexerCurrent, Has, dbVars
  <2> QED BY <1>0, <2>1, <2>2
<1> QED BY <1>3, <1>4, <1>5 DEF FlightInv

LEMMA RescanIndexesKeepsFlight ==
    ASSUME TypeInv, FlightInv, NEW r \in Rescans, RescanIndexes(r)
    PROVE  FlightInv'
<1>0. r \in Indexers /\ r \notin Listeners /\ r \in Writers
    BY NamesAssumption DEF Indexers, Writers
<1>1. UNCHANGED <<dbVars, pend, lossy>>
    BY DEF RescanIndexes
<1>2. /\ writer'[r] = Indexing(IndexingStartBlock(point))
      /\ \A x \in Writers : x # r => writer'[x] = writer[x]
    BY RescanIndexesEffect DEF Becomes
<1>3. PendCurrent'
    BY <1>1, PendStays DEF FlightInv
<1>4. ASSUME NEW l \in Listeners PROVE ListenerFollows(l)'
  <2>1. writer'[l] = writer[l]
    BY <1>0, <1>2 DEF Writers
  <2> QED BY <1>1, <2>1, FollowsStays DEF FlightInv, Has
<1>5. ASSUME ~lossy', NEW i \in Indexers PROVE IndexerCurrent(i)'
  <2>1. CASE i = r
    BY <1>1, <1>2, <2>1, IndexingIsCurrent
  <2>2. CASE i # r
    BY <1>1, <1>2, <1>5, <2>2 DEF FlightInv, IndexerCurrent, Has, dbVars, Writers
  <2> QED BY <2>1, <2>2
<1> QED BY <1>3, <1>4, <1>5 DEF FlightInv

LEMMA RescanScannedKeepsFlight ==
    ASSUME TypeInv, FlightInv, NEW r \in Rescans, RescanScanned(r)
    PROVE  FlightInv'
<1>1. UNCHANGED <<dbVars, pend, writer>> /\ (~lossy' => \A i \in Indexers : ~Running(i))
    BY DEF RescanScanned
<1>2. PendCurrent'
    BY <1>1, PendStays DEF FlightInv
<1>3. \A l \in Listeners : ListenerFollows(l)'
    BY <1>1, FollowsStays DEF FlightInv, Has
<1>4. ASSUME ~lossy', NEW i \in Indexers PROVE IndexerCurrent(i)'
  <2>1. writer'[i].todo = {} /\ writer'[i].pc = "none"
    BY <1>1, <1>4 DEF Running, TypeInv, WritersType, WriterOk, Writers
  <2> QED BY <2>1 DEF IndexerCurrent, Has
<1> QED BY <1>2, <1>3, <1>4 DEF FlightInv

LEMMA ChainStepKeepsFlight ==
    ASSUME TypeInv, FlightInv, NEW items, ChainStep(items)
    PROVE  FlightInv'
<1>1. /\ writer' = writer /\ (~lossy' => ~lossy) /\ items \in SUBSET (Txs \X Int)
      /\ \A l \in Listeners : pend[l] = <<>>
      /\ pend' = [l \in Listeners |-> IF Registered(l) THEN <<items>> ELSE <<>>]
    BY DEF ChainStep, Sendable, Notify
<1>2. \A e \in items : /\ e[2] = where'[e[1]] /\ e[2] \in Known'
                       /\ e[2] > 0 => e[2] >= best' - MaxReOrgBlocks
                       /\ e[1] = Ticket => where'[Vote] = Absent
    BY DEF ChainStep
<1>3. \A tx \in Txs : where'[tx] > 0 /\ where'[tx] # where[tx] => <<tx, where'[tx]>> \in items
    BY DEF ChainStep
<1>4. PendCurrent'
    BY <1>1, <1>2 DEF PendCurrent
<1>5. ASSUME NEW l \in Listeners PROVE ListenerFollows(l)'
  <2>1. ASSUME NEW tx \in Txs, NEW h \in Int, Has(l, tx, h)'
        PROVE  /\ where'[tx] > 0 /\ where'[tx] # h => Sent(l, tx)'
               /\ tx = Ticket /\ where'[Vote] > 0 => Sent(l, Vote)'
    <3>1. Has(l, tx, h) /\ ListenerFollows(l) /\ pend[l] = <<>>
      BY <1>1, <2>1 DEF Has, FlightInv
    <3>2. /\ where[tx] > 0 => where[tx] = h
          /\ tx = Ticket => ~(where[Vote] > 0)
      BY <3>1 DEF ListenerFollows, Sent
    <3>3. Registered(l)
      BY <3>1 DEF Has, Registered, TypeInv, WritersType, WriterOk, Writers
    <3>4. pend'[l] = <<items>>
      BY <1>1, <3>3
    <3>5. \A x \in Txs : <<x, where'[x]>> \in items => Sent(l, x)'
      BY <3>4 DEF Sent
    <3> QED BY <1>3, <3>2, <3>5 DEF Txs
  <2> QED BY <2>1 DEF ListenerFollows
<1>6. ASSUME ~lossy', NEW i \in Indexers PROVE IndexerCurrent(i)'
  <2>1. IndexerCurrent(i) /\ i \in Writers
    BY <1>1, <1>6 DEF FlightInv, Writers
  <2>2. CASE Running(i)
    <3>1. where'[Vote] = where[Vote] /\ \A tx \in Txs : where[tx] > 0 => where'[tx] = where[tx]
      BY <1>6, <2>2 DEF ChainStep
    <3> QED BY <1>1, <2>1, <3>1 DEF IndexerCurrent, Has
  <2>3. CASE ~Running(i)
    <3>1. writer'[i].todo = {} /\ writer'[i].pc = "none"
      BY <1>1, <2>1, <2>3 DEF Running, TypeInv, WritersType, WriterOk
    <3> QED BY <3>1 DEF IndexerCurrent, Has
  <2> QED BY <2>2, <2>3
<1> QED BY <1>4, <1>5, <1>6 DEF FlightInv

LEMMA CrashKeepsFlight ==
    ASSUME CrashEffect
    PROVE  FlightInv'
<1>1. /\ \A w \in Writers : writer'[w].todo = {} /\ writer'[w].pc = "none"
      /\ \A l \in Listeners : pend'[l] = <<>>
    BY DEF CrashEffect, Idle
<1>2. \A w \in Writers, tx \in Txs, h \in Int : ~Has(w, tx, h)'
    BY <1>1 DEF Has
<1> QED BY <1>1, <1>2 DEF FlightInv, PendCurrent, ListenerFollows, IndexerCurrent, Writers

LEMMA SessionIsQuiet ==
    ASSUME \/ StartSync \/ SyncCanceled \/ ResetSyncData \/ SyncFails
           \/ \E r \in Rescans : \/ \E height \in {0, best} : RescanBlocksFromHeight(r, height)
                                 \/ RescanStops(r) \/ RescanEnds(r)
           \/ UNCHANGED vars
    PROVE  UNCHANGED <<dbVars, idxVars, writer, pend, lossy>>
BY DEF StartSync, SyncCanceled, ResetSyncData, SyncFails, RescanBlocksFromHeight, RescanStops,
       RescanEnds, vars, dbVars, idxVars

LEMMA FlightInvStep ==
    ASSUME TypeInv, FlightInv, [Next]_vars
    PROVE  FlightInv'
<1>1. CASE Synced \/ Unsynced
    BY <1>1, SyncedKeepsFlight, UnsyncedKeepsFlight
<1>2. ASSUME NEW w \in Writers, Decode(w) PROVE FlightInv'
    BY <1>2, DecodeKeepsFlight
<1>3. ASSUME NEW i \in Indexers, IndexSave(i) \/ IndexEnds(i) \/ IndexAborts(i) PROVE FlightInv'
    BY <1>3, IndexSaveKeepsFlight, IndexEndsKeepsFlight
<1>4. ASSUME NEW l \in Listeners, Receive(l) \/ ListenerSave(l) \/ ListenerCanceled(l) \/ ListenerFails(l)
      PROVE  FlightInv'
    BY <1>4, ReceiveKeepsFlight, ListenerSaveKeepsFlight, ListenerCanceledKeepsFlight,
       ListenerFailsKeepsFlight
<1>5. ASSUME NEW r \in Rescans, RescanScanned(r) \/ RescanIndexes(r) PROVE FlightInv'
    BY <1>5, RescanScannedKeepsFlight, RescanIndexesKeepsFlight
<1>6. ASSUME NEW tx \in Txs, UnminedTransaction(tx) PROVE FlightInv'
    BY <1>6, UnminedTransactionStep, ChainStepKeepsFlight
<1>7. ASSUME NEW txs \in SUBSET Txs, AttachBlock(txs) PROVE FlightInv'
    BY <1>7, AttachBlockStep, ChainStepKeepsFlight
<1>8. ASSUME NEW fork \in 0..MaxHeight, NEW mined \in SUBSET Txs, Reorg(fork, mined) PROVE FlightInv'
    BY <1>8, ReorgStep, ChainStepKeepsFlight
<1>9. CASE UNCHANGED <<dbVars, idxVars, writer, pend, lossy>>
  <2>1. /\ \A i \in Indexers : writer'[i] = writer[i]
        /\ \A w \in Writers, tx \in Txs, h \in Int : Has(w, tx, h)' => Has(w, tx, h)
    BY <1>9 DEF Has
  <2> QED BY <1>9, <2>1, OthersKeepFlight
<1> QED BY <1>1, <1>2, <1>3, <1>4, <1>5, <1>6, <1>7, <1>8, <1>9, SessionIsQuiet, CrashIsEffect,
           CrashKeepsFlight DEF Next

----------------------------------------------------------------------------
(* An indexing that begins now reads all that the index has not.            *)

LEMMA CoveredBelow ==
    ASSUME ChainType, NEW p \in Nat, NEW q \in Nat, p <= q, Covered(q)
    PROVE  Covered(p)
<1>1. IndexingStartBlock(p) <= IndexingStartBlock(q)
    BY StartBlock
<1>2. IndexingStartBlock(p) \in Nat /\ IndexingStartBlock(q) \in Nat
    BY StartBlock
<1>3. Vote \in Txs /\ \A tx \in Txs : where[tx] \in Int
    BY DEF ChainType, Txs
<1>4. \A tx \in Txs : where[tx] >= IndexingStartBlock(q) => where[tx] >= IndexingStartBlock(p)
    BY <1>1, <1>2, <1>3
<1> QED BY <1>3, <1>4 DEF Covered

\* What a step may do with what the index has and the writers are going to save.
LEMMA CoveredStays ==
    ASSUME NEW q \in Nat, Covered(q), UNCHANGED dbVars,
           \A tx \in Txs : where[tx] > 0 /\ index[tx].height = where[tx] =>
             index'[tx].height = where[tx] \/ where[tx] >= IndexingStartBlock(q),
           \A i \in Indexers, tx \in Txs : where[tx] > 0 /\ Holds(i, tx) =>
             index'[tx].height = where[tx] \/ Holds(i, tx)' \/ where[tx] >= IndexingStartBlock(q),
           where[Vote] > 0 /\ index[Ticket].spender = Vote =>
             \/ index'[Ticket].spender = Vote \/ (\E i \in Indexers : HoldsVote(i)')
             \/ where[Vote] >= IndexingStartBlock(q),
           \A i \in Indexers : where[Vote] > 0 /\ HoldsVote(i) =>
             index'[Ticket].spender = Vote \/ HoldsVote(i)' \/ where[Vote] >= IndexingStartBlock(q)
    PROVE  Covered(q)'
<1>1. where' = where
    BY DEF dbVars
<1>2. ASSUME NEW tx \in Txs, where[tx] > 0
      PROVE  \/ index'[tx].height = where[tx]
             \/ \E i \in Indexers : Holds(i, tx)'
             \/ where[tx] >= IndexingStartBlock(q)
    BY <1>2 DEF Covered
<1>3. ASSUME where[Vote] > 0
      PROVE  \/ index'[Ticket].spender = Vote
             \/ \E i \in Indexers : HoldsVote(i)'
             \/ where[Vote] >= IndexingStartBlock(q)
    BY <1>3 DEF Covered
<1> QED BY <1>1, <1>2, <1>3 DEF Covered

LEMMA CoveredInvStays ==
    ASSUME TypeInv, CoveredInv, ~lossy' => ~lossy, point' = point,
           \A i \in Indexers : Running(i)' => Running(i) /\ writer'[i].end = writer[i].end,
           ~lossy => \A q \in Nat : q <= best /\ Covered(q) => Covered(q)'
    PROVE  CoveredInv'
<1> SUFFICES ASSUME ~lossy' PROVE Covered(point)' /\ \A i \in Indexers : Running(i)' => Covered(writer[i].end)'
    BY DEF CoveredInv
<1>1. ~lossy /\ point \in Nat /\ point <= best /\ Covered(point)
    BY DEF CoveredInv, TypeInv, IndexType
<1>2. Covered(point)'
  <2>1. \A q \in Nat : q = point => Covered(q)'
    BY <1>1
  <2> QED BY <1>1, <2>1
<1>3. ASSUME NEW i \in Indexers, Running(i)' PROVE Covered(writer[i].end)'
  <2>1. writer[i].end \in Nat /\ writer[i].end <= best /\ Covered(writer[i].end)
    BY <1>1, <1>3 DEF CoveredInv, TypeInv, WritersType, IndexerOk, ChainType, Writers
  <2>2. writer'[i].end = writer[i].end
    BY <1>3
  <2>3. \A q \in Nat : q = writer[i].end => Covered(q)'
    BY <1>1, <2>1
  <2> QED BY <2>1, <2>2, <2>3
<1> QED BY <1>2, <1>3

\* Steps that touch neither the index nor an indexing.
LEMMA OthersKeepCovered ==
    ASSUME TypeInv, CoveredInv, UNCHANGED <<dbVars, idxVars>>, ~lossy' => ~lossy,
           \A i \in Indexers : writer'[i] = writer[i]
    PROVE  CoveredInv'
<1>1. /\ \A i \in Indexers, tx \in Txs : Holds(i, tx) => Holds(i, tx)'
      /\ \A i \in Indexers : HoldsVote(i) => HoldsVote(i)'
    BY DEF Holds, HoldsVote, Has, dbVars
<1>2. \A q \in Nat : q <= best /\ Covered(q) => Covered(q)'
    BY <1>1, CoveredStays DEF idxVars
<1> QED BY <1>2, CoveredInvStays DEF Running, idxVars

LEMMA DecodeKeepsCovered ==
    ASSUME TypeInv, CoveredInv, NEW w \in Writers, Decode(w)
    PROVE  CoveredInv'
<1>1. PICK e \in writer[w].todo :
        /\ e \in Txs \X Int /\ Becomes(w, Decoding(w, e)) /\ index' = SpentTicket(index, e[1])
    BY DecodeEffect
<1>2. /\ \A tx, h : Has(w, tx, h)' <=> Has(w, tx, h)
      /\ \A x \in Writers : x # w => writer'[x] = writer[x]
      /\ writer'[w].todo = writer[w].todo \ {e} /\ writer'[w].pc = "save"
    BY <1>1, DecodeHas
<1>3. UNCHANGED <<dbVars, point, lossy>> /\ writer[w].pc = "decode" /\ where' = where
    BY DEF Decode, dbVars
<1>4. index \in [Txs -> [height : Int, spender : {NoSpender, Vote}]] /\ Ticket \in Txs
    BY DEF TypeInv, IndexType, Txs
<1>5. /\ \A tx \in Txs : index'[tx].height = index[tx].height \/ index'[tx].height = where[tx]
      /\ index[Ticket].spender = Vote => index'[Ticket].spender = Vote
      /\ e[1] = Vote => index'[Ticket].spender = Vote
    BY <1>1, <1>4 DEF SpentTicket
<1>6. ASSUME NEW i \in Indexers
      PROVE  /\ \A tx \in Txs : Holds(i, tx) => Holds(i, tx)'
             /\ HoldsVote(i) => HoldsVote(i)' \/ index'[Ticket].spender = Vote
  <2>1. i \in Writers
    BY DEF Writers
  <2>2. \A tx \in Txs : Holds(i, tx) => Holds(i, tx)'
    BY <1>2, <1>3, <2>1 DEF Holds, Has
  <2>3. HoldsVote(i) => HoldsVote(i)' \/ index'[Ticket].spender = Vote
    <3>1. <<Vote, where[Vote]>>[1] = Vote
      OBVIOUS
    <3> QED BY <1>2, <1>3, <1>5, <2>1, <3>1 DEF HoldsVote
  <2> QED BY <2>2, <2>3
<1>7. \A q \in Nat : q <= best /\ Covered(q) => Covered(q)'
    BY <1>3, <1>5, <1>6, CoveredStays
<1>8. \A i \in Indexers : Running(i)' => Running(i) /\ writer'[i].end = writer[i].end
  <2>1. writer'[w].end = writer[w].end
    BY <1>1, DecodingState DEF Becomes, TypeInv, WritersType
  <2> QED BY <1>2, <1>3, <2>1 DEF Running, Writers
<1> QED BY <1>3, <1>7, <1>8, CoveredInvStays

\* What the save of an indexing leaves covered, besides what it saves.
LEMMA IndexSaveKeeps ==
    ASSUME TypeInv, FlightInv, ~lossy, NEW i \in Indexers, IndexSave(i)
    PROVE  /\ \A tx \in Txs : where[tx] > 0 /\ index[tx].height = where[tx] =>
                 index'[tx].height = where[tx]
           /\ \A j \in Indexers, tx \in Txs : Holds(j, tx) =>
                 index'[tx].height = where[tx] \/ Holds(j, tx)'
           /\ where[Vote] > 0 /\ index[Ticket].spender = Vote =>
                 index'[Ticket].spender = Vote \/ HoldsVote(i)'
           /\ \A j \in Indexers : HoldsVote(j) => HoldsVote(j)'
           /\ \A x \in Writers : x # i => writer'[x] = writer[x]
           /\ writer'[i].pc = "decode" /\ writer'[i].end = writer[i].end
<1>0. i \in Writers /\ Indexers \subseteq Writers
    BY DEF Writers
<1>1. UNCHANGED <<dbVars, pend, lossy>> /\ writer[i].pc = "save" /\ where' = where
    BY DEF IndexSave, Save, dbVars
<1>2. /\ Becomes(i, Saved(i)) /\ index' = [index EXCEPT ![writer[i].cur] = writer[i].rec]
      /\ Saved(i).todo = writer[i].todo /\ Saved(i).pc = "decode" /\ Saved(i).end = writer[i].end
    BY <1>0, IndexSaveEffect, SavedState DEF TypeInv, WritersType
<1>3. /\ \A tx, h : Has(i, tx, h)' <=> <<tx, h>> \in writer[i].todo
      /\ \A x \in Writers : x # i => writer'[x] = writer[x]
      /\ writer'[i].todo = writer[i].todo
    BY <1>0, <1>1, <1>2, SaveHas
<1>4. writer'[i].pc = "decode" /\ writer'[i].end = writer[i].end
    BY <1>2 DEF Becomes
<1>5. /\ writer[i].cur \in Txs /\ writer[i].rec.height \in Int
      /\ index \in [Txs -> [height : Int, spender : {NoSpender, Vote}]] /\ Ticket \in Txs
    BY <1>0 DEF TypeInv, WritersType, WriterState, IndexType, Txs
<1>6. Has(i, writer[i].cur, writer[i].rec.height)
    BY <1>1 DEF Has
<1>7. /\ writer[i].rec.height = where[writer[i].cur]
      /\ writer[i].cur = Ticket /\ where[Vote] > 0 => HoldsVote(i)
    BY <1>5, <1>6 DEF FlightInv, IndexerCurrent, HoldsVote
<1>8. /\ index'[writer[i].cur].height = where[writer[i].cur]
      /\ \A tx \in Txs : tx # writer[i].cur => index'[tx] = index[tx]
    BY <1>2, <1>5, <1>7
<1>9. \A j \in Indexers : HoldsVote(j) => HoldsVote(j)'
    BY <1>0, <1>1, <1>3 DEF HoldsVote
<1>10. ASSUME NEW j \in Indexers, NEW tx \in Txs, Holds(j, tx)
       PROVE  index'[tx].height = where[tx] \/ Holds(j, tx)'
  <2>1. CASE j = i
    <3>1. \/ <<tx, where[tx]>> \in writer[i].todo
          \/ tx = writer[i].cur
      BY <1>10, <2>1 DEF Holds, Has
    <3>2. <<tx, where[tx]>> \in writer[i].todo => Has(i, tx, where[tx])'
      BY <1>1, <1>3 DEF Has
    <3> QED BY <1>8, <2>1, <3>1, <3>2 DEF Holds
  <2>2. CASE j # i
    BY <1>0, <1>1, <1>3, <1>10, <2>2 DEF Holds, Has
  <2> QED BY <2>1, <2>2
<1>11. where[Vote] > 0 /\ index[Ticket].spender = Vote =>
         index'[Ticket].spender = Vote \/ HoldsVote(i)'
    BY <1>5, <1>7, <1>8, <1>9
<1>12. \A tx \in Txs : index[tx].height = where[tx] => index'[tx].height = where[tx]
    BY <1>8
<1> QED BY <1>3, <1>4, <1>9, <1>10, <1>11, <1>12

LEMMA IndexSaveKeepsCovered ==
    ASSUME TypeInv, FlightInv, CoveredInv, NEW i \in Indexers, IndexSave(i)
    PROVE  CoveredInv'
<1> SUFFICES ASSUME ~lossy'
             PROVE  Covered(point)' /\ \A j \in Indexers : Running(j)' => Covered(writer[j].end)'
    BY DEF CoveredInv
<1>0. i \in Writers /\ Indexers \subseteq Writers
    BY DEF Writers
<1>1. UNCHANGED <<dbVars, lossy>> /\ writer[i].pc = "save" /\ ~lossy
    BY DEF IndexSave, Save
<1>2. \A q \in Nat : Covered(q) => Covered(q)'
    BY <1>1, IndexSaveKeeps, CoveredStays
<1>3. /\ point \in Nat /\ Covered(point) /\ ChainType
      /\ \A j \in Indexers : writer[j].end \in Nat /\ (Running(j) => Covered(writer[j].end))
    BY <1>0, <1>1 DEF CoveredInv, TypeInv, IndexType, WritersType, IndexerOk
<1>4. writer[i].rec.height \in Nat /\ Covered(writer[i].rec.height)
  <2>1. writer[i].rec.height \in Nat /\ writer[i].rec.height <= writer[i].end
    BY <1>0, <1>1, <1>3 DEF TypeInv, WritersType, IndexerOk
  <2> QED BY <1>1, <1>3, <2>1, CoveredBelow DEF Running
<1>5. Covered(point)'
  <2>1. point' \in Nat /\ Covered(point')
    BY <1>3, <1>4 DEF IndexSave
  <2>2. \A q \in Nat : Covered(q) /\ q = point' => Covered(q)'
    BY <1>2
  <2> QED BY <2>1, <2>2
<1>6. ASSUME NEW j \in Indexers, Running(j)' PROVE Covered(writer[j].end)'
  <2>1. writer'[j].end = writer[j].end /\ Running(j)
    BY <1>0, <1>1, <1>6, IndexSaveKeeps DEF Running
  <2>2. \A q \in Nat : Covered(q) /\ q = writer[j].end => Covered(q)'
    BY <1>2
  <2> QED BY <1>3, <2>1, <2>2
<1> QED BY <1>5, <1>6

LEMMA IndexEndsKeepsCovered ==
    ASSUME TypeInv, CoveredInv, NEW i \in Indexers, IndexEnds(i) \/ IndexAborts(i)
    PROVE  CoveredInv'
<1> SUFFICES ASSUME ~lossy'
             PROVE  Covered(point)' /\ \A j \in Indexers : Running(j)' => Covered(writer[j].end)'
    BY DEF CoveredInv
<1>0. i \in Writers /\ Indexers \subseteq Writers
    BY DEF Writers
<1>1. /\ UNCHANGED <<dbVars, index, lossy>> /\ ~lossy /\ point' = writer[i].end /\ where' = where
      /\ writer[i].pc = "decode" /\ writer[i].todo = {}
    BY DEF IndexEnds, IndexAborts, dbVars
<1>2. writer'[i].pc = "none" /\ \A x \in Writers : x # i => writer'[x] = writer[x]
    BY EndsEffect DEF Becomes, Idle
<1>3. \A tx, h : ~Has(i, tx, h) /\ ~HoldsVote(i)
    BY <1>1 DEF Has, HoldsVote
<1>4. \A j \in Indexers : (\A tx \in Txs : Holds(j, tx) => Holds(j, tx)') /\ (HoldsVote(j) => HoldsVote(j)')
    BY <1>0, <1>1, <1>2, <1>3 DEF Holds, HoldsVote, Has
<1>5. \A q \in Nat : Covered(q) => Covered(q)'
    BY <1>1, <1>4, CoveredStays
<1>6. \A j \in Indexers : writer[j].end \in Nat /\ (Running(j) => Covered(writer[j].end))
    BY <1>0, <1>1 DEF CoveredInv, TypeInv, WritersType, IndexerOk
<1>7. Covered(point)'
  <2>1. point' \in Nat /\ Covered(point')
    BY <1>1, <1>6 DEF Running
  <2>2. \A q \in Nat : Covered(q) /\ q = point' => Covered(q)'
    BY <1>5
  <2> QED BY <2>1, <2>2
<1>8. ASSUME NEW j \in Indexers, Running(j)' PROVE Covered(writer[j].end)'
  <2>1. writer'[j].end = writer[j].end /\ Running(j)
    BY <1>0, <1>2, <1>8 DEF Running
  <2>2. \A q \in Nat : Covered(q) /\ q = writer[j].end => Covered(q)'
    BY <1>5
  <2> QED BY <1>6, <2>1, <2>2
<1> QED BY <1>7, <1>8

\* What a listener is being sent is among what the next indexing reads.
LEMMA SentIsRecent ==
    ASSUME TypeInv, PendCurrent, NEW l \in Listeners, NEW tx \in Txs, Sent(l, tx), where[tx] > 0,
           NEW q \in Nat, q <= best
    PROVE  where[tx] >= IndexingStartBlock(q)
<1>1. where[tx] >= best - MaxReOrgBlocks
  <2>1. <<tx, where[tx]>>[2] = where[tx]
    OBVIOUS
  <2> QED BY <2>1 DEF Sent, PendCurrent
<1>2. where[tx] \in Int /\ best \in Nat
    BY DEF TypeInv, ChainType
<1>3. where[tx] >= q - MaxReOrgBlocks
    BY <1>1, <1>2, BoundsAssumption
<1> QED BY <1>2, <1>3, StartBlock

\* What the save of a listener leaves, besides what it saves.
LEMMA ListenerSaveKeeps ==
    ASSUME TypeInv, FlightInv, NEW l \in Listeners, ListenerSave(l)
    PROVE  /\ \A tx \in Txs : where[tx] > 0 /\ index[tx].height = where[tx] =>
                 index'[tx].height = where[tx] \/ Sent(l, tx)
           /\ \A tx \in Txs : Holds(l, tx) => index'[tx].height = where[tx] \/ Holds(l, tx)'
           /\ where[Vote] > 0 /\ index[Ticket].spender = Vote =>
                 index'[Ticket].spender = Vote \/ Sent(l, Vote)
           /\ HoldsVote(l) => HoldsVote(l)'
           /\ \A x \in Writers : x # l => writer'[x] = writer[x]
<1>0. l \in Writers /\ l \notin Indexers
    BY NamesAssumption DEF Writers
<1>1. UNCHANGED <<dbVars, pend, lossy>> /\ writer[l].pc = "save" /\ where' = where
    BY DEF ListenerSave, Save, dbVars
<1>2. /\ index' = [index EXCEPT ![writer[l].cur] = writer[l].rec]
      /\ \E v \in WriterState : Becomes(l, v) /\ v.todo = writer[l].todo /\ v.pc # "save"
    BY <1>0, ListenerSaveEffect, SelectingState, SavedState DEF Becomes, TypeInv, WritersType
<1>3. /\ \A tx, h : Has(l, tx, h)' <=> <<tx, h>> \in writer[l].todo
      /\ \A x \in Writers : x # l => writer'[x] = writer[x]
      /\ writer'[l].todo = writer[l].todo
    BY <1>0, <1>1, <1>2, SaveHas
<1>4. /\ writer[l].cur \in Txs /\ writer[l].rec.height \in Int
      /\ index \in [Txs -> [height : Int, spender : {NoSpender, Vote}]] /\ Ticket \in Txs
    BY <1>0 DEF TypeInv, WritersType, WriterState, IndexType, Txs
<1>5. Has(l, writer[l].cur, writer[l].rec.height)
    BY <1>1 DEF Has
<1>6. /\ where[writer[l].cur] > 0 /\ where[writer[l].cur] # writer[l].rec.height => Sent(l, writer[l].cur)
      /\ writer[l].cur = Ticket /\ where[Vote] > 0 => Sent(l, Vote)
    BY <1>4, <1>5 DEF FlightInv, ListenerFollows
<1>7. /\ index'[writer[l].cur].height = writer[l].rec.height
      /\ \A tx \in Txs : tx # writer[l].cur => index'[tx] = index[tx]
    BY <1>2, <1>4
<1>8. HoldsVote(l) => HoldsVote(l)'
    BY <1>1, <1>3 DEF HoldsVote
<1>9. ASSUME NEW tx \in Txs, Holds(l, tx) PROVE index'[tx].height = where[tx] \/ Holds(l, tx)'
  <2>1. \/ <<tx, where[tx]>> \in writer[l].todo
        \/ tx = writer[l].cur /\ writer[l].rec.height = where[tx]
    BY <1>9 DEF Holds, Has
  <2>2. <<tx, where[tx]>> \in writer[l].todo => Has(l, tx, where[tx])'
    BY <1>1, <1>3 DEF Has
  <2> QED BY <1>7, <2>1, <2>2 DEF Holds
<1>10. \A tx \in Txs : where[tx] > 0 /\ index[tx].height = where[tx] =>
         index'[tx].height = where[tx] \/ Sent(l, tx)
    BY <1>6, <1>7
<1>11. where[Vote] > 0 /\ index[Ticket].spender = Vote =>
         index'[Ticket].spender = Vote \/ Sent(l, Vote)
    BY <1>4, <1>6, <1>7
<1> QED BY <1>3, <1>8, <1>9, <1>10, <1>11

LEMMA ListenerSaveKeepsCovered ==
    ASSUME TypeInv, FlightInv, CoveredInv, NEW l \in Listeners, ListenerSave(l)
    PROVE  CoveredInv'
<1>0. l \notin Indexers /\ Indexers \subseteq Writers
    BY NamesAssumption DEF Writers
<1>1. UNCHANGED <<dbVars, point, lossy>> /\ where' = where /\ Vote \in Txs
    BY DEF ListenerSave, Save, dbVars, Txs
<1>2. \A i \in Indexers : writer'[i] = writer[i]
    BY <1>0, ListenerSaveKeeps
<1>3. /\ \A i \in Indexers, tx \in Txs : Holds(i, tx) => Holds(i, tx)'
      /\ \A i \in Indexers : HoldsVote(i) => HoldsVote(i)'
    BY <1>1, <1>2 DEF Holds, HoldsVote, Has
<1>4. ASSUME NEW q \in Nat, q <= best, Covered(q) PROVE Covered(q)'
  <2>1. \A tx \in Txs : Sent(l, tx) /\ where[tx] > 0 => where[tx] >= IndexingStartBlock(q)
    BY <1>4, SentIsRecent DEF FlightInv
  <2>2. /\ \A tx \in Txs : where[tx] > 0 /\ index[tx].height = where[tx] =>
             index'[tx].height = where[tx] \/ where[tx] >= IndexingStartBlock(q)
        /\ where[Vote] > 0 /\ index[Ticket].spender = Vote =>
             index'[Ticket].spender = Vote \/ where[Vote] >= IndexingStartBlock(q)
    BY <1>1, <2>1, ListenerSaveKeeps
  <2> QED BY <1>1, <1>3, <1>4, <2>2, CoveredStays
<1> QED BY <1>1, <1>2, <1>4, CoveredInvStays DEF Running

----------------------------------------------------------------------------
(* An indexing begins.                                                      *)

\* The index has everything, or an indexing reads it.
Read == /\ \A tx \in Txs : where[tx] > 0 =>
             index[tx].height = where[tx] \/ \E i \in Indexers : Holds(i, tx)
        /\ where[Vote] > 0 =>
             index[Ticket].spender = Vote \/ \E i \in Indexers : HoldsVote(i)

Begins(i) == /\ UNCHANGED <<dbVars, idxVars, lossy>> /\ ~Running(i)
             /\ writer'[i] = Indexing(IndexingStartBlock(point))
             /\ \A j \in Indexers : j # i => writer'[j] = writer[j]

LEMMA SyncedBegins ==
    ASSUME TypeInv, Synced
    PROVE  "sync" \in Indexers /\ Begins("sync")
<1>1. \A r \in Rescans : writer'[r] = writer[r]
    BY SyncedEffect
<1>2. writer'["sync"] = Indexing(IndexingStartBlock(point))
    BY SyncedEffect
<1> QED BY <1>1, <1>2 DEF Synced, Begins, Indexers, idxVars

LEMMA RescanIndexesBegins ==
    ASSUME TypeInv, NEW r \in Rescans, RescanIndexes(r)
    PROVE  r \in Indexers /\ Begins(r)
<1>1. /\ writer'[r] = Indexing(IndexingStartBlock(point))
      /\ \A x \in Writers : x # r => writer'[x] = writer[x]
    BY RescanIndexesEffect DEF Becomes
<1>2. ~Running(r)
    BY DEF RescanIndexes, TypeInv, WritersType
<1> QED BY <1>1, <1>2 DEF RescanIndexes, Begins, Indexers, Writers

LEMMA IndexingReads ==
    ASSUME TypeInv, Covered(point), NEW i \in Indexers, Begins(i)
    PROVE  Read'
<1> DEFINE begin == IndexingStartBlock(point)
           todo == RangeTransactions(begin, best)
<1>1. ChainType /\ begin \in Nat
    BY StartBlock DEF TypeInv, IndexType
<1>2. /\ where' = where /\ index' = index /\ writer'[i] = Indexing(begin)
      /\ \A j \in Indexers : j # i => writer'[j] = writer[j]
      /\ writer[i].todo = {} /\ writer[i].pc = "none"
    BY DEF Begins, dbVars, idxVars, Running, TypeInv, WritersType, WriterOk, Writers
<1>3. /\ \A tx \in Txs : where[tx] > 0 =>
           index[tx].height = where[tx] \/ (\E j \in Indexers : Holds(j, tx)) \/ where[tx] >= begin
      /\ where[Vote] > 0 =>
           index[Ticket].spender = Vote \/ (\E j \in Indexers : HoldsVote(j)) \/ where[Vote] >= begin
    BY DEF Covered
<1> HIDE DEF begin, todo
<1>4. \A tx \in Txs : where[tx] > 0 /\ where[tx] >= begin => <<tx, where[tx]>> \in todo
    BY <1>1, RangeList DEF todo
<1>5. writer'[i].todo = todo
    BY <1>1, <1>2, IndexingState DEF todo
<1>6. ASSUME NEW tx \in Txs, where[tx] > 0, where[tx] >= begin PROVE Holds(i, tx)'
    BY <1>2, <1>4, <1>5, <1>6 DEF Holds, Has
<1>7. where[Vote] > 0 /\ where[Vote] >= begin => HoldsVote(i)'
    BY <1>2, <1>4, <1>5 DEF HoldsVote, Txs
<1>8. ASSUME NEW j \in Indexers PROVE (\A tx \in Txs : Holds(j, tx) => Holds(j, tx)')
                                      /\ (HoldsVote(j) => HoldsVote(j)')
    BY <1>2 DEF Holds, HoldsVote, Has
<1> QED BY <1>2, <1>3, <1>6, <1>7, <1>8 DEF Read

LEMMA ReadCovers ==
    ASSUME Read, NEW q PROVE Covered(q)
BY DEF Read, Covered

LEMMA BeginsKeepsCovered ==
    ASSUME TypeInv, CoveredInv, NEW i \in Indexers, Begins(i)
    PROVE  CoveredInv'
<1> SUFFICES ASSUME ~lossy' PROVE CoveredInv'
    BY DEF CoveredInv
<1>1. Covered(point)
    BY DEF CoveredInv, Begins
<1>2. Read'
    BY <1>1, IndexingReads
<1>3. \A q : Covered(q)'
    BY <1>2 DEF Read, Covered
<1> QED BY <1>3 DEF CoveredInv

LEMMA RescanScannedKeepsCovered ==
    ASSUME TypeInv, CoveredInv, NEW r \in Rescans, RescanScanned(r)
    PROVE  CoveredInv'
<1> SUFFICES ASSUME ~lossy'
             PROVE  Covered(point)' /\ \A i \in Indexers : Running(i)' => Covered(writer[i].end)'
    BY DEF CoveredInv
<1>1. /\ UNCHANGED <<dbVars, writer>> /\ point' = from[r] /\ from[r] <= point
      /\ (from[r] # 0 => ~lossy /\ index' = index) /\ \A i \in Indexers : ~Running(i)
    BY DEF RescanScanned, TypeInv, IndexType, RestType
<1>2. from[r] \in Nat /\ point \in Nat /\ ChainType /\ where' = where /\ Vote \in Txs
    BY <1>1 DEF TypeInv, IndexType, RestType, dbVars, Txs
<1>3. CASE from[r] = 0
  <2>1. IndexingStartBlock(0) = 0
    BY BoundsAssumption DEF IndexingStartBlock
  <2>2. \A tx \in Txs : where[tx] > 0 => where[tx] >= 0
    BY <1>2 DEF ChainType
  <2>3. \A q : q = 0 => Covered(q)'
    BY <1>2, <2>1, <2>2 DEF Covered
  <2> QED BY <1>1, <1>3, <2>3 DEF Running
<1>4. CASE from[r] # 0
  <2>1. Covered(from[r])
    BY <1>1, <1>2, <1>4, CoveredBelow DEF CoveredInv
  <2>2. \A q : q = point' /\ Covered(q) => Covered(q)'
    BY <1>1, <1>4 DEF Covered, Holds, HoldsVote, Has, dbVars
  <2> QED BY <1>1, <2>1, <2>2 DEF Running
<1> QED BY <1>3, <1>4

LEMMA ChainStepKeepsCovered ==
    ASSUME TypeInv, CoveredInv, NEW items, ChainStep(items)
    PROVE  CoveredInv'
<1> SUFFICES ASSUME ~lossy'
             PROVE  Covered(point)' /\ \A i \in Indexers : Running(i)' => Covered(writer[i].end)'
    BY DEF CoveredInv
<1>1. /\ UNCHANGED <<idxVars, writer>> /\ index' = index /\ point' = point /\ ~lossy
      /\ ChainGrows /\ ChainType'
    BY DEF ChainStep, idxVars
<1>2. \A tx \in Txs : where'[tx] > 0 /\ where'[tx] # where[tx] => where'[tx] >= best' - MaxReOrgBlocks
  <2>1. \A tx \in Txs : where'[tx] > 0 /\ where'[tx] # where[tx] => <<tx, where'[tx]>> \in items
    BY DEF ChainStep
  <2>2. \A e \in items : e[2] > 0 => e[2] >= best' - MaxReOrgBlocks
    BY DEF ChainStep
  <2>3. \A tx : <<tx, where'[tx]>>[2] = where'[tx]
    OBVIOUS
  <2> QED BY <2>1, <2>2, <2>3
<1>3. ASSUME NEW q \in Nat, q <= best, Covered(q) PROVE Covered(q)'
  <2>1. ASSUME NEW tx \in Txs, where'[tx] > 0, where'[tx] # where[tx]
        PROVE  where'[tx] >= IndexingStartBlock(q)
    <3>1. where'[tx] \in Int /\ best' \in Nat /\ q <= best' /\ where'[tx] >= best' - MaxReOrgBlocks
      BY <1>1, <1>2, <1>3, <2>1 DEF ChainType, ChainGrows
    <3>2. where'[tx] >= q - MaxReOrgBlocks
      BY <3>1, BoundsAssumption
    <3> QED BY <2>1, <3>1, <3>2, StartBlock
  <2>2. ASSUME NEW tx \in Txs, NEW i \in Indexers, where'[tx] = where[tx]
        PROVE  Holds(i, tx)' <=> Holds(i, tx)
    BY <1>1, <2>2 DEF Holds, Has
  <2>3. ASSUME NEW i \in Indexers, where'[Vote] = where[Vote]
        PROVE  HoldsVote(i)' <=> HoldsVote(i)
    BY <1>1, <2>3 DEF HoldsVote
  <2>4. ASSUME NEW tx \in Txs, where'[tx] > 0
        PROVE  \/ index'[tx].height = where'[tx] \/ (\E i \in Indexers : Holds(i, tx)')
               \/ where'[tx] >= IndexingStartBlock(q)
    BY <1>1, <1>3, <2>1, <2>2, <2>4 DEF Covered
  <2>5. ASSUME where'[Vote] > 0
        PROVE  \/ index'[Ticket].spender = Vote \/ (\E i \in Indexers : HoldsVote(i)')
               \/ where'[Vote] >= IndexingStartBlock(q)
    BY <1>1, <1>3, <2>1, <2>3, <2>5 DEF Covered, Txs
  <2> QED BY <2>4, <2>5 DEF Covered
<1>4. \A i \in Indexers : Running(i)' => Running(i) /\ writer'[i].end = writer[i].end
    BY <1>1 DEF Running
<1>5. CoveredInv'
    BY <1>1, <1>3, <1>4, CoveredInvStays
<1> QED BY <1>5 DEF CoveredInv

LEMMA CrashKeepsCovered ==
    ASSUME TypeInv, CoveredInv, CrashEffect
    PROVE  CoveredInv'
<1> SUFFICES ASSUME ~lossy'
             PROVE  Covered(point)' /\ \A i \in Indexers : Running(i)' => Covered(writer[i].end)'
    BY DEF CoveredInv
<1> DEFINE begin == IndexingStartBlock(point)
<1>1. /\ where' = where /\ point' = point /\ ~lossy /\ ~Overtaken
      /\ \A w \in Writers : writer'[w].pc = "none"
    BY DEF CrashEffect, dbVars, Idle
<1>2. /\ index \in [Txs -> [height : Int, spender : {NoSpender, Vote}]] /\ Ticket \in Txs /\ Vote \in Txs
      /\ begin \in Nat /\ \A tx \in Txs : where[tx] \in Int
    BY StartBlock DEF TypeInv, IndexType, ChainType, Txs
<1>3. \A i \in Indexers, tx \in Txs : Holds(i, tx) => where[tx] >= begin
  <2>1. ASSUME NEW i \in Indexers, NEW tx \in Txs, Holds(i, tx) PROVE ~(where[tx] < begin)
    <3>1. <<tx, where[tx]>>[2] = where[tx]
      OBVIOUS
    <3> QED BY <1>1, <2>1, <3>1 DEF Overtaken, Holds, Has
  <2> QED BY <1>2, <2>1
<1>4. \A i \in Indexers : HoldsVote(i) => where[Vote] >= begin
    BY <1>2, <1>3 DEF Holds, HoldsVote, Has
<1>5. \A tx \in Txs : index'[tx] = index[tx] \/ where[tx] >= begin
    BY <1>1, <1>2 DEF CrashEffect
<1>6. where[Vote] > 0 /\ where[Ticket] >= begin => where[Vote] >= begin
  <2>1. where[Vote] > 0 => where[Ticket] < where[Vote]
    BY DEF TypeInv, TicketFirst
  <2> QED BY <1>2, <2>1
<1>7. /\ \A tx \in Txs : where[tx] > 0 => index[tx].height = where[tx] \/ where[tx] >= begin
      /\ where[Vote] > 0 => index[Ticket].spender = Vote \/ where[Vote] >= begin
    BY <1>1, <1>3, <1>4 DEF CoveredInv, Covered
<1>8. Covered(point)'
    BY <1>1, <1>2, <1>5, <1>6, <1>7 DEF Covered
<1> QED BY <1>1, <1>8 DEF Running, Writers

LEMMA CoveredInvStep ==
    ASSUME TypeInv, FlightInv, CoveredInv, [Next]_vars
    PROVE  CoveredInv'
<1>1. CASE Synced
    BY <1>1, SyncedBegins, BeginsKeepsCovered
<1>2. CASE Unsynced
  <2>1. PICK l \in Listeners : Becomes(l, Selecting)
    BY <1>2, UnsyncedEffect
  <2>2. \A i \in Indexers : writer'[i] = writer[i]
    BY <2>1, NamesAssumption DEF Becomes, Writers
  <2> QED BY <1>2, <2>2, OthersKeepCovered DEF Unsynced
<1>3. ASSUME NEW w \in Writers, Decode(w) PROVE CoveredInv'
    BY <1>3, DecodeKeepsCovered
<1>4. ASSUME NEW i \in Indexers, IndexSave(i) \/ IndexEnds(i) \/ IndexAborts(i) PROVE CoveredInv'
    BY <1>4, IndexSaveKeepsCovered, IndexEndsKeepsCovered
<1>5. ASSUME NEW l \in Listeners, Receive(l) \/ ListenerCanceled(l) \/ ListenerFails(l)
      PROVE  CoveredInv'
  <2>1. \E v : writer' = writer \/ Becomes(l, v)
    BY <1>5, ReceiveEffect, EndsEffect
  <2>2. \A i \in Indexers : writer'[i] = writer[i]
    BY <2>1, NamesAssumption DEF Becomes, Writers
  <2>3. UNCHANGED <<dbVars, idxVars, lossy>>
    BY <1>5 DEF Receive, ListenerCanceled, ListenerFails
  <2> QED BY <2>2, <2>3, OthersKeepCovered
<1>6. ASSUME NEW l \in Listeners, ListenerSave(l) PROVE CoveredInv'
    BY <1>6, ListenerSaveKeepsCovered
<1>7. ASSUME NEW r \in Rescans, RescanScanned(r) \/ RescanIndexes(r) PROVE CoveredInv'
    BY <1>7, RescanScannedKeepsCovered, RescanIndexesBegins, BeginsKeepsCovered
<1>8. ASSUME NEW tx \in Txs, UnminedTransaction(tx) PROVE CoveredInv'
    BY <1>8, UnminedTransactionStep, ChainStepKeepsCovered
<1>9. ASSUME NEW txs \in SUBSET Txs, AttachBlock(txs) PROVE CoveredInv'
    BY <1>9, AttachBlockStep, ChainStepKeepsCovered
<1>10. ASSUME NEW fork \in 0..MaxHeight, NEW mined \in SUBSET Txs, Reorg(fork, mined) PROVE CoveredInv'
    BY <1>10, ReorgStep, ChainStepKeepsCovered
<1>11. CASE UNCHANGED <<dbVars, idxVars, writer, pend, lossy>>
    BY <1>11, OthersKeepCovered
<1> QED BY <1>1, <1>2, <1>3, <1>4, <1>5, <1>6, <1>7, <1>8, <1>9, <1>10, <1>11, SessionIsQuiet,
           CrashIsEffect, CrashKeepsCovered DEF Next

----------------------------------------------------------------------------
(* A wallet that is synced has a listener.                                  *)

\* What a reliable listener becomes while the sync goes on.
Stays(l) == (Reliable(l) => Reliable(l)' \/ Dead(l)') /\ (Dead(l) => Dead(l)')

LEMMA UntouchedStays ==
    ASSUME NEW l, writer'[l] = writer[l], chan'[l] = chan[l]
    PROVE  Stays(l) /\ (Reliable(l) => Reliable(l)')
BY DEF Stays, Reliable, Dead

\* A step of the listener l itself.
LEMMA ListenerStays ==
    ASSUME TypeInv, NEW l \in Listeners, sync \in {"synced", "unsynced"},
           Decode(l) \/ ListenerSave(l) \/ Receive(l) \/ ListenerCanceled(l) \/ ListenerFails(l)
    PROVE  /\ Stays(l) /\ (ListenerFails(l) => Dead(l)')
           /\ Reliable(l) /\ ~ListenerFails(l) => Reliable(l)'
<1>0. l \in Writers /\ chan \in [Listeners -> {"nil", "open", "closed"}]
      /\ writer \in [Writers -> WriterState]
    BY DEF Writers, TypeInv, PendType, WritersType
<1>1. ASSUME ListenerFails(l) PROVE Dead(l)' /\ ~Dead(l) /\ Reliable(l)
  <2>1. writer'[l] = [Idle EXCEPT !.pc = "dead"]
    BY <1>1, EndsEffect DEF Becomes
  <2>2. writer'[l].pc = "dead"
    BY <2>1 DEF Idle
  <2> QED BY <1>1, <2>2 DEF Dead, Reliable, ListenerFails
<1>2. CASE Decode(l)
  <2>1. \E e : e \in Txs \X Int /\ Becomes(l, Decoding(l, e))
    BY <1>0, <1>2, DecodeEffect
  <2>2. writer'[l].pc = "save" /\ writer[l].pc = "decode"
    BY <1>0, <1>2, <2>1, DecodingState DEF Becomes, Decode
  <2>3. Reliable(l)' /\ ~Dead(l)
    BY <2>2 DEF Reliable, Dead
  <2> QED BY <1>1, <2>3 DEF Stays
<1>3. CASE ListenerSave(l)
  <2>1. writer[l].pc = "save" /\ writer'[l].pc \in {"decode", "select"}
        /\ (writer'[l].pc = "select" => chan'[l] = "open")
    BY <1>0, <1>3, ListenerSaveEffect, SavedState, SelectingState
       DEF Becomes, CanceledChan, ListenerSave, Save
  <2>2. Reliable(l)' /\ ~Dead(l)
    BY <2>1 DEF Reliable, Dead
  <2> QED BY <1>1, <2>2 DEF Stays
<1>4. CASE Receive(l)
  <2>1. writer[l].pc = "select"
    BY <1>4 DEF Receive
  <2>2. writer'[l].pc = "decode" \/ (writer'[l] = writer[l] /\ chan' = [chan EXCEPT ![l] = "open"])
    BY <1>0, <1>4, ReceiveEffect, ReceivingState DEF Becomes, CanceledChan
  <2>3. Reliable(l)' /\ ~Dead(l)
    BY <1>0, <2>1, <2>2 DEF Reliable, Dead
  <2> QED BY <1>1, <2>3 DEF Stays
<1>5. CASE ListenerCanceled(l)
  <2>1. ~Reliable(l) /\ ~Dead(l)
    BY <1>5 DEF ListenerCanceled, Reliable, Dead
  <2> QED BY <1>1, <2>1 DEF Stays
<1>6. CASE ListenerFails(l)
    BY <1>1, <1>6 DEF Stays
<1> QED BY <1>1, <1>2, <1>3, <1>4, <1>5, <1>6

LEMMA ListenerThereStays ==
    ASSUME ListenerThere, \A l \in Listeners : Stays(l), sync' = sync
    PROVE  ListenerThere'
BY DEF ListenerThere, Stays

LEMMA WriterStepStays ==
    ASSUME TypeInv, NEW w \in Writers, sync \in {"synced", "unsynced"},
           \/ Decode(w)
           \/ w \in Indexers /\ (IndexSave(w) \/ IndexEnds(w) \/ IndexAborts(w))
           \/ w \in Listeners /\ (ListenerSave(w) \/ Receive(w) \/ ListenerCanceled(w) \/ ListenerFails(w))
    PROVE  \A l \in Listeners : Stays(l) /\ (Reliable(l) /\ ~(l = w /\ ListenerFails(l)) => Reliable(l)')
<1> SUFFICES ASSUME NEW l \in Listeners
             PROVE  Stays(l) /\ (Reliable(l) /\ ~(l = w /\ ListenerFails(l)) => Reliable(l)')
    OBVIOUS
<1>1. CASE l = w
    BY <1>1, ListenerStays, NamesAssumption
<1>2. CASE l # w
  <2>1. \E v : writer' = writer \/ Becomes(w, v)
    BY DecodeEffect, IndexSaveEffect, EndsEffect, ReceiveEffect, ListenerSaveEffect
  <2>2. writer'[l] = writer[l]
    BY <1>2, <2>1 DEF Becomes, Writers
  <2>3. chan'[l] = chan[l]
    BY <1>2 DEF TypeInv, PendType, Decode, IndexSave, IndexEnds, IndexAborts, ListenerSave, Receive,
                ListenerCanceled, ListenerFails
  <2> QED BY <1>2, <2>2, <2>3, UntouchedStays
<1> QED BY <1>1, <1>2

LEMMA ListenerThereStep ==
    ASSUME TypeInv, ListenerThere, [Next]_vars
    PROVE  ListenerThere'
<1>1. CASE Synced
  <2>1. CASE sync = "unsynced"
    <3>1. \A l \in Listeners : writer'[l] = writer[l] /\ chan'[l] = chan[l]
      BY <1>1, <2>1, SyncedEffect
    <3> QED BY <2>1, <3>1, UntouchedStays DEF ListenerThere, Stays
  <2>2. CASE sync = "syncing"
    <3>1. \E l \in Listeners : writer'[l] = Selecting /\ chan' = [chan EXCEPT ![l] = "open"]
      BY <1>1, <2>2, SyncedEffect
    <3>2. \E l \in Listeners : Reliable(l)'
      BY <3>1, SelectingState DEF Reliable, TypeInv, PendType
    <3> QED BY <3>2 DEF ListenerThere
  <2> QED BY <1>1, <2>1, <2>2 DEF Synced
<1>2. CASE Unsynced
  <2>1. \E l \in Listeners : writer'[l] = Selecting /\ chan' = [chan EXCEPT ![l] = "open"]
    BY <1>2, UnsyncedEffect DEF Becomes
  <2>2. \E l \in Listeners : Reliable(l)'
    BY <2>1, SelectingState DEF Reliable, TypeInv, PendType
  <2> QED BY <2>2 DEF ListenerThere
<1>3. ASSUME NEW w \in Writers,
             \/ Decode(w)
             \/ w \in Indexers /\ (IndexSave(w) \/ IndexEnds(w) \/ IndexAborts(w))
             \/ w \in Listeners /\ (ListenerSave(w) \/ Receive(w) \/ ListenerCanceled(w) \/ ListenerFails(w))
      PROVE  ListenerThere'
  <2>1. sync' = sync
    BY <1>3 DEF Decode, IndexSave, IndexEnds, IndexAborts, ListenerSave, Save, Receive,
                ListenerCanceled, ListenerFails
  <2>2. CASE sync \in {"synced", "unsynced"}
    BY <1>3, <2>1, <2>2, WriterStepStays, ListenerThereStays
  <2>3. CASE sync \notin {"synced", "unsynced"}
    BY <2>1, <2>3 DEF ListenerThere
  <2> QED BY <2>2, <2>3
<1>4. CASE UNCHANGED <<writer, chan, sync>>
    BY <1>4, UntouchedStays, ListenerThereStays
<1>5. ASSUME NEW r \in Rescans, RescanIndexes(r) PROVE ListenerThere'
  <2>1. \A l \in Listeners : writer'[l] = writer[l]
    BY <1>5, RescanIndexesEffect, NamesAssumption DEF Becomes, Writers, Indexers
  <2> QED BY <1>5, <2>1, UntouchedStays, ListenerThereStays DEF RescanIndexes
<1>6. CASE sync' \notin {"synced", "unsynced"}
    BY <1>6 DEF ListenerThere
<1>7. ASSUME NEW w \in Writers, CrashInSave(w) PROVE ListenerThere'
    BY <1>6, <1>7 DEF CrashInSave, Stopped
<1>8. CASE StartSync \/ SyncCanceled \/ ResetSyncData \/ SyncFails \/ Crash
    BY <1>6, <1>8 DEF StartSync, SyncCanceled, ResetSyncData, SyncFails, Crash, Stopped
<1>9. ASSUME NEW r \in Rescans, \/ \E height \in {0, best} : RescanBlocksFromHeight(r, height)
                                \/ RescanStops(r) \/ RescanScanned(r) \/ RescanEnds(r)
      PROVE  ListenerThere'
    BY <1>4, <1>9 DEF RescanBlocksFromHeight, RescanStops, RescanScanned, RescanEnds
<1>10. ASSUME \/ \E tx \in Txs : UnminedTransaction(tx)
              \/ \E txs \in SUBSET Txs : AttachBlock(txs)
              \/ \E fork \in 0..MaxHeight, mined \in SUBSET Txs : Reorg(fork, mined)
       PROVE  ListenerThere'
    BY <1>4, <1>10 DEF UnminedTransaction, AttachBlock, Reorg
<1>11. CASE UNCHANGED vars
    BY <1>4, <1>11 DEF vars
<1>12. Indexers \subseteq Writers /\ Listeners \subseteq Writers
    BY DEF Writers
<1> QED BY <1>1, <1>2, <1>3, <1>5, <1>7, <1>8, <1>9, <1>10, <1>11, <1>12 DEF Next

----------------------------------------------------------------------------
(* While the wallet is synced, what the index has not is on its way.        *)

LEMMA SyncedInvStays ==
    ASSUME SyncedInv, sync' = sync, ~lossy' => ~lossy,
           \A r \in Rescans : rescan[r] = "clear" => rescan'[r] = "clear",
           \A l \in Listeners : Dead(l) => Dead(l)',
           sync = "synced" /\ ~lossy /\ Underway => Underway' \/ \E l \in Listeners : Dead(l)'
    PROVE  SyncedInv'
BY DEF SyncedInv

LEMMA UnderwayStays ==
    ASSUME Underway, UNCHANGED dbVars,
           \A tx \in Txs : where[tx] > 0 /\ index[tx].height = where[tx] =>
             index'[tx].height = where[tx] \/ \E l \in Listeners : OnItsWay(l, tx)',
           \A i \in Indexers, tx \in Txs : where[tx] > 0 /\ Holds(i, tx) =>
             index'[tx].height = where[tx] \/ Holds(i, tx)',
           \A l \in Listeners, tx \in Txs : where[tx] > 0 /\ OnItsWay(l, tx) =>
             index'[tx].height = where[tx] \/ OnItsWay(l, tx)',
           where[Vote] > 0 /\ index[Ticket].spender = Vote =>
             \/ index'[Ticket].spender = Vote \/ (\E i \in Indexers : HoldsVote(i)')
             \/ \E l \in Listeners : VoteOnItsWay(l)',
           \A i \in Indexers : where[Vote] > 0 /\ HoldsVote(i) =>
             index'[Ticket].spender = Vote \/ HoldsVote(i)',
           \A l \in Listeners : where[Vote] > 0 /\ VoteOnItsWay(l) =>
             index'[Ticket].spender = Vote \/ VoteOnItsWay(l)'
    PROVE  Underway'
<1>1. where' = where
    BY DEF dbVars
<1>2. ASSUME NEW tx \in Txs, where[tx] > 0
      PROVE  \/ index'[tx].height = where[tx]
             \/ \E i \in Indexers : Holds(i, tx)'
             \/ \E l \in Listeners : OnItsWay(l, tx)'
    BY <1>2 DEF Underway
<1>3. ASSUME where[Vote] > 0
      PROVE  \/ index'[Ticket].spender = Vote
             \/ \E i \in Indexers : HoldsVote(i)'
             \/ \E l \in Listeners : VoteOnItsWay(l)'
    BY <1>3 DEF Underway
<1> QED BY <1>1, <1>2, <1>3 DEF Underway

LEMMA ReadIsUnderway == Read => Underway
BY DEF Read, Underway

\* A writer the step does not touch has what it had.
LEMMA SameHolds ==
    ASSUME NEW w, writer'[w] = writer[w], UNCHANGED dbVars
    PROVE  /\ \A tx \in Txs : Holds(w, tx) <=> Holds(w, tx)'
           /\ HoldsVote(w) <=> HoldsVote(w)'
BY DEF Holds, HoldsVote, Has, dbVars

LEMMA SameOnItsWay ==
    ASSUME NEW l \in Listeners, writer'[l] = writer[l], pend'[l] = pend[l], chan'[l] = chan[l],
           UNCHANGED dbVars
    PROVE  /\ \A tx \in Txs : OnItsWay(l, tx) => OnItsWay(l, tx)'
           /\ VoteOnItsWay(l) => VoteOnItsWay(l)'
<1>1. Reliable(l) => Reliable(l)'
    BY DEF Reliable
<1>2. \A tx : Sent(l, tx) => Sent(l, tx)'
    BY DEF Sent, dbVars
<1> QED BY <1>1, <1>2, SameHolds DEF OnItsWay, VoteOnItsWay

LEMMA DecodeKeepsUnderway ==
    ASSUME TypeInv, sync = "synced", Underway, NEW w \in Writers, Decode(w)
    PROVE  Underway'
<1>1. PICK e \in writer[w].todo :
        /\ e \in Txs \X Int /\ Becomes(w, Decoding(w, e)) /\ index' = SpentTicket(index, e[1])
    BY DecodeEffect
<1>2. /\ \A tx, h : Has(w, tx, h)' <=> Has(w, tx, h)
      /\ \A x \in Writers : x # w => writer'[x] = writer[x]
      /\ writer'[w].todo = writer[w].todo \ {e} /\ writer'[w].pc = "save"
    BY <1>1, DecodeHas
<1>3. UNCHANGED <<dbVars, pend, chan>> /\ writer[w].pc = "decode" /\ where' = where
      /\ Indexers \subseteq Writers /\ Listeners \subseteq Writers
    BY DEF Decode, dbVars, Writers
<1>4. index \in [Txs -> [height : Int, spender : {NoSpender, Vote}]] /\ Ticket \in Txs
    BY DEF TypeInv, IndexType, Txs
<1>5. /\ \A tx \in Txs : index[tx].height = where[tx] => index'[tx].height = where[tx]
      /\ index[Ticket].spender = Vote => index'[Ticket].spender = Vote
      /\ e[1] = Vote => index'[Ticket].spender = Vote
    BY <1>1, <1>4 DEF SpentTicket
<1>6. \A x \in Writers, tx \in Txs : Holds(x, tx) => Holds(x, tx)'
    BY <1>2, <1>3 DEF Holds, Has
<1>7. \A x \in Writers : HoldsVote(x) => HoldsVote(x)' \/ index'[Ticket].spender = Vote
  <2>1. <<Vote, where[Vote]>>[1] = Vote
    OBVIOUS
  <2> QED BY <1>2, <1>3, <1>5, <2>1 DEF HoldsVote
<1>8. /\ \A l \in Listeners : Reliable(l) => Reliable(l)'
      /\ \A l, tx : Sent(l, tx) <=> Sent(l, tx)'
  <2>1. Decode(w) => \A l \in Listeners : ~(l = w /\ ListenerFails(l))
    BY <1>2, EndsEffect DEF Becomes, Idle
  <2> QED BY <1>3, <2>1, WriterStepStays, SentStays
<1>9. /\ \A l \in Listeners, tx \in Txs : OnItsWay(l, tx) => OnItsWay(l, tx)'
      /\ \A l \in Listeners : VoteOnItsWay(l) => VoteOnItsWay(l)' \/ index'[Ticket].spender = Vote
    BY <1>3, <1>6, <1>7, <1>8 DEF OnItsWay, VoteOnItsWay
<1> QED BY <1>3, <1>5, <1>6, <1>7, <1>9, UnderwayStays

LEMMA IndexSaveKeepsUnderway ==
    ASSUME TypeInv, FlightInv, ~lossy, Underway, NEW i \in Indexers, IndexSave(i)
    PROVE  Underway'
<1>1. UNCHANGED <<dbVars, pend, chan>>
    BY DEF IndexSave, Save
<1>2. \A l \in Listeners : writer'[l] = writer[l]
    BY IndexSaveKeeps, NamesAssumption DEF Writers
<1>3. /\ \A l \in Listeners, tx \in Txs : OnItsWay(l, tx) => OnItsWay(l, tx)'
      /\ \A l \in Listeners : VoteOnItsWay(l) => VoteOnItsWay(l)'
    BY <1>1, <1>2, SameOnItsWay
<1> QED BY <1>1, <1>3, IndexSaveKeeps, UnderwayStays

LEMMA IndexEndsKeepsUnderway ==
    ASSUME TypeInv, Underway, NEW i \in Indexers, IndexEnds(i)
    PROVE  Underway'
<1>0. Indexers \subseteq Writers /\ Listeners \subseteq Writers /\ \A l \in Listeners : l # i
    BY NamesAssumption DEF Writers
<1>1. UNCHANGED <<dbVars, index, pend, chan>> /\ writer[i].pc = "decode" /\ writer[i].todo = {}
    BY DEF IndexEnds
<1>2. \A x \in Writers : x # i => writer'[x] = writer[x]
    BY EndsEffect DEF Becomes
<1>3. \A tx : ~Holds(i, tx) /\ ~HoldsVote(i)
    BY <1>1 DEF Holds, Has, HoldsVote
<1>4. ASSUME NEW j \in Indexers PROVE (\A tx \in Txs : Holds(j, tx) => Holds(j, tx)') /\ (HoldsVote(j) => HoldsVote(j)')
    BY <1>0, <1>1, <1>2, <1>3, SameHolds
<1>5. /\ \A l \in Listeners, tx \in Txs : OnItsWay(l, tx) => OnItsWay(l, tx)'
      /\ \A l \in Listeners : VoteOnItsWay(l) => VoteOnItsWay(l)'
    BY <1>0, <1>1, <1>2, SameOnItsWay
<1> QED BY <1>1, <1>4, <1>5, UnderwayStays

LEMMA ListenerSaveKeepsUnderway ==
    ASSUME TypeInv, FlightInv, sync = "synced", Underway, NEW l \in Listeners, ListenerSave(l)
    PROVE  Underway'
<1>0. Indexers \subseteq Writers /\ l \notin Indexers /\ l \in Writers /\ Listeners \subseteq Writers
    BY NamesAssumption DEF Writers
<1>1. UNCHANGED <<dbVars, pend>> /\ writer[l].pc = "save" /\ Vote \in Txs
    BY DEF ListenerSave, Save, Txs
<1>2. \A x \in Writers : x # l => writer'[x] = writer[x]
    BY ListenerSaveKeeps
<1>3. \A i \in Indexers : (\A tx \in Txs : Holds(i, tx) => Holds(i, tx)') /\ (HoldsVote(i) => HoldsVote(i)')
    BY <1>0, <1>1, <1>2, SameHolds
<1>4. Reliable(l)' /\ \A x \in Listeners : x # l => (Reliable(x) => Reliable(x)')
  <2>1. ~ListenerFails(l)
    BY <1>0, SelectingState, SavedState, EndsEffect, ListenerSaveEffect
       DEF Becomes, Idle, TypeInv, WritersType
  <2>2. Reliable(l)
    BY <1>1 DEF Reliable
  <2> QED BY <1>0, <2>1, <2>2, WriterStepStays
<1>5. \A x, tx : Sent(x, tx) <=> Sent(x, tx)'
    BY <1>1, SentStays
<1>6. /\ \A tx \in Txs : where[tx] > 0 /\ index[tx].height = where[tx] =>
           index'[tx].height = where[tx] \/ OnItsWay(l, tx)'
      /\ where[Vote] > 0 /\ index[Ticket].spender = Vote =>
           index'[Ticket].spender = Vote \/ VoteOnItsWay(l)'
    BY <1>4, <1>5, ListenerSaveKeeps DEF OnItsWay, VoteOnItsWay
<1>7. ASSUME NEW x \in Listeners
      PROVE  /\ \A tx \in Txs : where[tx] > 0 /\ OnItsWay(x, tx) => index'[tx].height = where[tx] \/ OnItsWay(x, tx)'
             /\ VoteOnItsWay(x) => VoteOnItsWay(x)'
  <2>1. CASE x = l
    <3>1. /\ \A tx \in Txs : Holds(l, tx) => index'[tx].height = where[tx] \/ Holds(l, tx)'
          /\ HoldsVote(l) => HoldsVote(l)'
      BY ListenerSaveKeeps
    <3> QED BY <1>4, <1>5, <2>1, <3>1 DEF OnItsWay, VoteOnItsWay
  <2>2. CASE x # l
    <3>1. (\A tx \in Txs : Holds(x, tx) => Holds(x, tx)') /\ (HoldsVote(x) => HoldsVote(x)')
      BY <1>0, <1>1, <1>2, <2>2, SameHolds
    <3> QED BY <1>4, <1>5, <2>2, <3>1 DEF OnItsWay, VoteOnItsWay
  <2> QED BY <2>1, <2>2
<1>8. \A i \in Indexers, tx \in Txs : where[tx] > 0 /\ Holds(i, tx) => index'[tx].height = where[tx] \/ Holds(i, tx)'
    BY <1>3
<1> QED BY <1>1, <1>3, <1>6, <1>7, <1>8, UnderwayStays

LEMMA ReceiveKeepsUnderway ==
    ASSUME TypeInv, FlightInv, sync = "synced", Underway, NEW l \in Listeners, Receive(l)
    PROVE  Underway'
<1> DEFINE items == Head(pend[l])
<1>0. Indexers \subseteq Writers /\ l \notin Indexers /\ l \in Writers /\ Listeners \subseteq Writers
    BY NamesAssumption DEF Writers
<1>1. /\ UNCHANGED <<dbVars, index>> /\ writer[l].pc = "select" /\ pend[l] # <<>> /\ where' = where
      /\ \A x \in Listeners : x # l => pend'[x] = pend[x] /\ chan'[x] = chan[x]
    BY DEF Receive, idxVars, dbVars, TypeInv, PendType
<1>2. /\ (items = {} /\ writer' = writer) \/ Becomes(l, Receiving(l, items))
      /\ items \in SUBSET (Txs \X Int)
    BY ReceiveEffect
<1> HIDE DEF items
<1>3. \A x \in Writers : x # l => writer'[x] = writer[x]
    BY <1>2 DEF Becomes
<1>4. writer[l].todo = {}
    BY <1>0, <1>1 DEF TypeInv, WritersType, WriterOk
<1>5. items = {} \/ (writer'[l].todo = items /\ writer'[l].pc = "decode")
    BY <1>0, <1>2, ReceivingState DEF Becomes, TypeInv, WritersType
<1>6. ASSUME NEW i \in Indexers
      PROVE  (\A tx \in Txs : Holds(i, tx) => Holds(i, tx)') /\ (HoldsVote(i) => HoldsVote(i)')
    BY <1>0, <1>1, <1>3, SameHolds
<1>7. ASSUME NEW x \in Listeners
      PROVE  /\ \A tx \in Txs : OnItsWay(x, tx) => OnItsWay(x, tx)'
             /\ VoteOnItsWay(x) => VoteOnItsWay(x)'
  <2>1. CASE x = l
    <3>1. \A tx : ~Holds(l, tx) /\ ~HoldsVote(l)
      BY <1>1, <1>4 DEF Holds, HoldsVote, Has
    <3>2. \A tx : Sent(l, tx) => <<tx, where[tx]>> \in items
      BY DEF Sent, items
    <3>3. ASSUME NEW tx, Sent(l, tx)
          PROVE  Reliable(l)' /\ Holds(l, tx)' /\ <<tx, where[tx]>> \in writer'[l].todo
      <4>1. writer'[l].todo = items /\ writer'[l].pc = "decode" /\ <<tx, where[tx]>> \in items
        BY <1>5, <3>2, <3>3
      <4> QED BY <1>1, <4>1 DEF Reliable, Holds, Has
    <3>4. Sent(l, Vote) => Reliable(l)' /\ HoldsVote(l)'
      BY <1>1, <3>3 DEF HoldsVote
    <3> QED BY <2>1, <3>1, <3>3, <3>4 DEF OnItsWay, VoteOnItsWay
  <2>2. CASE x # l
    BY <1>0, <1>1, <1>3, <2>2, SameOnItsWay
  <2> QED BY <2>1, <2>2
<1> QED BY <1>1, <1>6, <1>7, UnderwayStays

LEMMA ListenerCanceledKeepsUnderway ==
    ASSUME TypeInv, Underway, NEW l \in Listeners, ListenerCanceled(l)
    PROVE  Underway'
<1>0. Indexers \subseteq Writers /\ l \notin Indexers /\ l \in Writers /\ Listeners \subseteq Writers
    BY NamesAssumption DEF Writers
<1>1. /\ UNCHANGED <<dbVars, index>> /\ ~Reliable(l)
      /\ \A x \in Listeners : x # l => pend'[x] = pend[x] /\ chan'[x] = chan[x]
    BY DEF ListenerCanceled, Reliable, idxVars, TypeInv, PendType
<1>2. \A x \in Writers : x # l => writer'[x] = writer[x]
    BY EndsEffect DEF Becomes
<1>3. ASSUME NEW i \in Indexers
      PROVE  (\A tx \in Txs : Holds(i, tx) => Holds(i, tx)') /\ (HoldsVote(i) => HoldsVote(i)')
    BY <1>0, <1>1, <1>2, SameHolds
<1>4. ASSUME NEW x \in Listeners
      PROVE  /\ \A tx \in Txs : OnItsWay(x, tx) => OnItsWay(x, tx)'
             /\ VoteOnItsWay(x) => VoteOnItsWay(x)'
  <2>1. CASE x = l
    BY <1>1, <2>1 DEF OnItsWay, VoteOnItsWay
  <2>2. CASE x # l
    BY <1>0, <1>1, <1>2, <2>2, SameOnItsWay
  <2> QED BY <2>1, <2>2
<1> QED BY <1>1, <1>3, <1>4, UnderwayStays

LEMMA ChainStepKeepsUnderway ==
    ASSUME TypeInv, sync = "synced", ListenerThere, Underway, NEW items, ChainStep(items)
    PROVE  Underway' \/ \E l \in Listeners : Dead(l)'
<1>1. /\ UNCHANGED <<index, writer, chan>>
      /\ \A l \in Listeners : pend[l] = <<>>
      /\ pend' = [l \in Listeners |-> IF Registered(l) THEN <<items>> ELSE <<>>]
    BY DEF ChainStep, Sendable, Notify, idxVars
<1>2. \A tx \in Txs : where'[tx] > 0 /\ where'[tx] # where[tx] => <<tx, where'[tx]>> \in items
    BY DEF ChainStep
<1>3. PICK r \in Listeners : Reliable(r) \/ Dead(r)
    BY DEF ListenerThere
<1>4. CASE Dead(r)
    BY <1>1, <1>4 DEF Dead
<1>5. CASE Reliable(r)
  <2>1. Reliable(r)' /\ pend'[r] = <<items>>
    BY <1>1, <1>5 DEF Reliable, Registered
  <2>2. \A tx : <<tx, where'[tx]>> \in items => Sent(r, tx)'
    BY <2>1 DEF Sent
  <2>3. ASSUME NEW tx \in Txs, where'[tx] > 0, where'[tx] # where[tx]
        PROVE  OnItsWay(r, tx)' /\ (tx = Vote => VoteOnItsWay(r)')
    BY <1>2, <2>1, <2>2, <2>3 DEF OnItsWay, VoteOnItsWay
  <2>4. ASSUME NEW tx \in Txs, where'[tx] = where[tx]
        PROVE  /\ \A i \in Indexers : Holds(i, tx) => Holds(i, tx)'
               /\ \A l \in Listeners : OnItsWay(l, tx) => OnItsWay(l, tx)'
    BY <1>1, <2>4 DEF Holds, Has, OnItsWay, Reliable, Sent
  <2>5. ASSUME where'[Vote] = where[Vote]
        PROVE  /\ \A i \in Indexers : HoldsVote(i) => HoldsVote(i)'
               /\ \A l \in Listeners : VoteOnItsWay(l) => VoteOnItsWay(l)'
    BY <1>1, <2>5 DEF HoldsVote, VoteOnItsWay, Reliable, Sent
  <2>6. ASSUME NEW tx \in Txs, where'[tx] > 0
        PROVE  \/ index'[tx].height = where'[tx]
               \/ \E i \in Indexers : Holds(i, tx)'
               \/ \E l \in Listeners : OnItsWay(l, tx)'
    BY <1>1, <2>3, <2>4, <2>6 DEF Underway
  <2>7. ASSUME where'[Vote] > 0
        PROVE  \/ index'[Ticket].spender = Vote
               \/ \E i \in Indexers : HoldsVote(i)'
               \/ \E l \in Listeners : VoteOnItsWay(l)'
    BY <1>1, <2>3, <2>5, <2>7 DEF Underway, Txs
  <2> QED BY <2>6, <2>7 DEF Underway
<1> QED BY <1>3, <1>4, <1>5

LEMMA ChainStepKeepsSynced ==
    ASSUME TypeInv, ListenerThere, SyncedInv, NEW items, ChainStep(items)
    PROVE  SyncedInv'
<1>1. /\ sync' = sync /\ (~lossy' => ~lossy) /\ rescan' = rescan /\ writer' = writer
    BY DEF ChainStep, rescanVars
<1>2. \A l \in Listeners : Dead(l) => Dead(l)'
    BY <1>1 DEF Dead
<1> QED BY <1>1, <1>2, ChainStepKeepsUnderway, SyncedInvStays

LEMMA WriterStepKeepsSynced ==
    ASSUME TypeInv, FlightInv, SyncedInv, NEW w \in Writers,
           \/ Decode(w)
           \/ w \in Indexers /\ (IndexSave(w) \/ IndexEnds(w) \/ IndexAborts(w))
           \/ w \in Listeners /\ (ListenerSave(w) \/ Receive(w) \/ ListenerCanceled(w) \/ ListenerFails(w))
    PROVE  SyncedInv'
<1>1. sync' = sync /\ rescan' = rescan /\ (~lossy' => ~lossy)
    BY DEF Decode, IndexSave, IndexEnds, IndexAborts, ListenerSave, Save, Receive,
           ListenerCanceled, ListenerFails, rescanVars
<1>2. CASE sync = "synced" /\ ~lossy'
  <2>1. \A l \in Listeners : Dead(l) => Dead(l)'
    BY <1>2, WriterStepStays DEF Stays
  <2>2. ~IndexAborts(w)
    BY <1>2 DEF IndexAborts
  <2>3. w \in Listeners /\ ListenerFails(w) => Dead(w)'
    BY <1>2, ListenerStays
  <2>4. Underway => Underway' \/ \E l \in Listeners : Dead(l)'
    BY <1>1, <1>2, <2>2, <2>3, DecodeKeepsUnderway, IndexSaveKeepsUnderway, IndexEndsKeepsUnderway,
       ListenerSaveKeepsUnderway, ReceiveKeepsUnderway, ListenerCanceledKeepsUnderway
  <2> QED BY <1>1, <2>1, <2>4, SyncedInvStays
<1>3. CASE sync # "synced" \/ lossy'
    BY <1>1, <1>3 DEF SyncedInv
<1> QED BY <1>2, <1>3

LEMMA SyncedInvStep ==
    ASSUME TypeInv, FlightInv, CoveredInv, ListenerThere, SyncedInv, [Next]_vars
    PROVE  SyncedInv'
<1>1. ASSUME NEW i \in Indexers, Begins(i) PROVE SyncedInv'
  <2>1. ~lossy' => Covered(point)
    BY <1>1 DEF Begins, CoveredInv
  <2>2. ~lossy' => Read'
    BY <1>1, <2>1, IndexingReads
  <2>3. Read' => Underway'
    BY DEF Read, Underway
  <2> QED BY <2>2, <2>3 DEF SyncedInv
<1>2. CASE Synced
    BY <1>1, <1>2, SyncedBegins
<1>3. ASSUME NEW r \in Rescans, RescanIndexes(r) PROVE SyncedInv'
    BY <1>1, <1>3, RescanIndexesBegins
<1>4. ASSUME NEW r \in Rescans, RescanScanned(r) PROVE SyncedInv'
  <2>1. rescan'[r] = "clear"
    BY <1>4 DEF RescanScanned, TypeInv, RestType
  <2> QED BY <2>1 DEF SyncedInv
<1>5. CASE sync' # "synced"
    BY <1>5 DEF SyncedInv
<1>6. CASE Unsynced \/ StartSync \/ SyncCanceled \/ ResetSyncData \/ SyncFails \/ Crash
    BY <1>5, <1>6 DEF Unsynced, StartSync, SyncCanceled, ResetSyncData, SyncFails, Crash, Stopped
<1>7. ASSUME NEW w \in Writers, CrashInSave(w) PROVE SyncedInv'
    BY <1>5, <1>7 DEF CrashInSave, Stopped
<1>8. ASSUME NEW w \in Writers,
             \/ Decode(w)
             \/ w \in Indexers /\ (IndexSave(w) \/ IndexEnds(w) \/ IndexAborts(w))
             \/ w \in Listeners /\ (ListenerSave(w) \/ Receive(w) \/ ListenerCanceled(w) \/ ListenerFails(w))
      PROVE  SyncedInv'
    BY <1>8, WriterStepKeepsSynced
<1>9. ASSUME UNCHANGED <<dbVars, index, writer, pend, chan, sync, lossy>>,
             \A r \in Rescans : rescan[r] = "clear" => rescan'[r] = "clear"
      PROVE  SyncedInv'
  <2>1. /\ \A x : writer'[x] = writer[x]
        /\ \A l \in Listeners : Dead(l) => Dead(l)'
        /\ index' = index
    BY <1>9 DEF Dead
  <2>2. /\ \A i \in Indexers : (\A tx \in Txs : Holds(i, tx) => Holds(i, tx)') /\ (HoldsVote(i) => HoldsVote(i)')
    BY <1>9, <2>1, SameHolds
  <2>3. /\ \A l \in Listeners, tx \in Txs : OnItsWay(l, tx) => OnItsWay(l, tx)'
        /\ \A l \in Listeners : VoteOnItsWay(l) => VoteOnItsWay(l)'
    BY <1>9, <2>1, SameOnItsWay
  <2>4. Underway => Underway'
    BY <1>9, <2>1, <2>2, <2>3, UnderwayStays
  <2> QED BY <1>9, <2>1, <2>4, SyncedInvStays
<1>10. ASSUME NEW r \in Rescans, \/ \E height \in {0, best} : RescanBlocksFromHeight(r, height)
                                 \/ RescanStops(r) \/ RescanEnds(r)
       PROVE  SyncedInv'
  <2>1. UNCHANGED <<dbVars, index, writer, pend, chan, sync, lossy>>
    BY <1>10 DEF RescanBlocksFromHeight, RescanStops, RescanEnds, idxVars
  <2>2. \A s \in Rescans : rescan[s] = "clear" => rescan'[s] = "clear"
    BY <1>10 DEF RescanBlocksFromHeight, RescanStops, RescanEnds, TypeInv, RestType
  <2> QED BY <1>9, <2>1, <2>2
<1>11. CASE UNCHANGED vars
    BY <1>9, <1>11 DEF vars, dbVars
<1>12. ASSUME NEW tx \in Txs, UnminedTransaction(tx) PROVE SyncedInv'
    BY <1>12, UnminedTransactionStep, ChainStepKeepsSynced
<1>13. ASSUME NEW txs \in SUBSET Txs, AttachBlock(txs) PROVE SyncedInv'
    BY <1>13, AttachBlockStep, ChainStepKeepsSynced
<1>14. ASSUME NEW fork \in 0..MaxHeight, NEW mined \in SUBSET Txs, Reorg(fork, mined) PROVE SyncedInv'
    BY <1>14, ReorgStep, ChainStepKeepsSynced
<1>15. Indexers \subseteq Writers /\ Listeners \subseteq Writers
    BY DEF Writers
<1> QED BY <1>2, <1>3, <1>4, <1>6, <1>7, <1>8, <1>10, <1>11, <1>12, <1>13, <1>14, <1>15 DEF Next

----------------------------------------------------------------------------
LEMMA IndexInvInit == Init => IndexInv
<1> SUFFICES ASSUME Init PROVE IndexInv
    OBVIOUS
<1>1. /\ best = 1 /\ where \in [Txs -> {Absent, 1}] /\ where[Vote] = Absent
      /\ index = [tx \in Txs |-> NoRecord] /\ point = 0
      /\ writer = [w \in Writers |-> Idle] /\ pend = [l \in Listeners |-> <<>>]
      /\ sync = "off" /\ lossy = FALSE
    BY NamesAssumption DEF Init, Txs
<1>2. ChainType /\ TicketFirst
    BY <1>1 DEF ChainType, TicketFirst, Known, Absent
<1>3. IndexType
    BY <1>1 DEF IndexType, NoRecord, Absent
<1>4. PendType /\ RestType
  <2>1. /\ chan = [l \in Listeners |-> "nil"]
        /\ rescan = [r \in Rescans |-> "none"] /\ from = [r \in Rescans |-> 0]
    BY DEF Init
  <2>2. PendType
    BY <1>1, <2>1 DEF PendType
  <2>3. /\ rescan \in [Rescans -> {"none", "scanning", "clear", "indexing"}]
        /\ from \in [Rescans -> Nat] /\ \A r \in Rescans : from[r] <= best
    BY <1>1, <2>1
  <2>4. lossy \in BOOLEAN
    BY <1>1
  <2> QED BY <1>1, <2>2, <2>3, <2>4 DEF RestType
<1>5. Idle.pc = "none" /\ Idle.todo = {} /\ Idle.end = 0
    BY DEF Idle
<1>6. \A w \in Writers : writer[w] = Idle
    BY <1>1
<1>7. WritersType
  <2>1. writer \in [Writers -> WriterState]
    BY <1>1, IdleState
  <2> QED BY <1>1, <1>5, <1>6, <2>1 DEF WritersType, WriterOk, IndexerOk, Running, Writers, Indexers
<1>8. \A w \in Writers : \A tx, h : ~Has(w, tx, h)
    BY <1>5, <1>6 DEF Has
<1>9. FlightInv
    BY <1>1, <1>8 DEF FlightInv, PendCurrent, ListenerFollows, IndexerCurrent, Writers
<1>10. CoveredInv
  <2>1. IndexingStartBlock(point) = 0
    BY <1>1, BoundsAssumption DEF IndexingStartBlock
  <2>2. \A tx \in Txs : where[tx] \in Int
    BY <1>2 DEF ChainType
  <2>3. Covered(point)
    BY <1>1, <2>1, <2>2 DEF Covered, Txs
  <2> QED BY <1>5, <1>6, <2>3 DEF CoveredInv, Running, Writers
<1> QED BY <1>1, <1>2, <1>3, <1>4, <1>7, <1>9, <1>10 DEF IndexInv, TypeInv, ListenerThere, SyncedInv

LEMMA IndexInvariant == Spec => []IndexInv
<1>1. IndexInv /\ [Next]_vars => IndexInv'
    BY TypeInvStep, FlightInvStep, CoveredInvStep, ListenerThereStep, SyncedInvStep
       DEF IndexInv, FlightInv
<1> QED BY IndexInvInit, <1>1, PTL DEF Spec

\* Whatever order the indexing after synced, those of rescans and the listeners
\* save in, through reorganizations, cancellations, failures and crashes: once
\* the wallet is synced and nothing is in flight, IndexTransactions and
\* listenForTransactions have every mined transaction at its height, and a voted
\* ticket with its vote, unless the history was lossy.
THEOREM QuietIndexIsComplete == Spec => []IndexComplete
<1>1. ASSUME IndexInv, Quiet, ~lossy PROVE Underway
  <2>1. \A l \in Listeners : ~Dead(l)
    BY <1>1 DEF Quiet, Dead
  <2> QED BY <1>1, <2>1 DEF IndexInv, SyncedInv, Quiet
<1>2. ASSUME IndexInv, Quiet, NEW w \in Writers PROVE \A tx, h : ~Has(w, tx, h) /\ ~HoldsVote(w)
  <2>1. writer[w].pc \notin {"decode", "save"}
    BY <1>2 DEF Quiet, Running, Writers
  <2>2. writer[w].todo = {}
    BY <1>2, <2>1 DEF IndexInv, TypeInv, WritersType, WriterOk
  <2> QED BY <2>1, <2>2 DEF Has, HoldsVote
<1>3. ASSUME Quiet, NEW l \in Listeners PROVE \A tx : ~Sent(l, tx)
    BY <1>3 DEF Quiet, Sent
<1>4. IndexInv => IndexComplete
    BY <1>1, <1>2, <1>3 DEF IndexComplete, Underway, OnItsWay, VoteOnItsWay, Holds, Writers
<1> QED BY IndexInvariant, <1>4, PTL

\* Whatever the index holds, prepareTxQuery selects what TxMatchesFilter matches,
\* and TicketStatus tells of a ticket what the filter that lists it does.
THEOREM QueryAndStatusAgree == Spec => []ClassificationsAgree
<1>1. IndexInv => ClassificationsAgree
    BY ClassificationsFollow DEF IndexInv
<1> QED BY IndexInvariant, <1>1, PTL
==============================================================================
