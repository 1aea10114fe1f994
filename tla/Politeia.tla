------------------------------- MODULE Politeia -------------------------------
(***************************************************************************)
(* The proposals kept from a Politeia server (internal/politeia): Sync and *)
(* StopSync with the contexts and the mutex they share, the update of the  *)
(* saved proposals page by page, the fetch of new ones, the description    *)
(* that is fetched on demand, and the notifications of votes.              *)
(*                                                                         *)
(* The server is external: a proposal is announced ("pre"), is voted on,   *)
(* and ends approved, rejected or abandoned; every request may fail.       *)
(***************************************************************************)
EXTENDS Naturals, FiniteSets

CONSTANTS Syncs,      \* calls of Sync
          Token,      \* proposals, numbered in the order of PublishedAt
          PageSize,   \* policy.ProposalListPageSize
          MaxEvents,  \* bound: failed requests, stops, clears and descriptions
          MaxMoves,   \* bound: changes on the server
          None

ASSUME PageSizeAssumption == PageSize \in Nat \ {0} /\ MaxEvents \in Nat /\ MaxMoves \in Nat
ASSUME NoneAssumption == None \notin Syncs
ASSUME TokenAssumption == Token \subseteq Nat /\ IsFiniteSet(Token)

Categories == {"pre", "active", "approved", "rejected", "abandoned"}

VARIABLES
  server,       \* category of each proposal on the server, "none" before it exists
  db,           \* the saved record of each proposal
  client,       \* p.client is set
  ctx,          \* p.ctx: the call whose context the loops test
  cancelSync,   \* p.cancelSync: the call whose context it cancels
  canceled,     \* calls whose context is canceled
  mu,           \* read locks of p.mu held, per call
  pc, offset, page, todo,  \* of each call of Sync
  reader,       \* FetchProposalDescription: the record it has read
  told,         \* OnProposalVoteFinished notifications, per proposal
  events, moves,
  fresh,        \* history: what the server had when the call began to check
  stale,        \* history: proposals saved under a category they had left
  shifted,      \* history: calls under which the list of proposals changed
  rewound,      \* history: a description was saved over a newer record
  overlap       \* history: a Sync began while another was still running

vars == <<server, db, client, ctx, cancelSync, canceled, mu, pc, offset, page, todo, reader,
          told, events, moves, fresh, stale, shifted, rewound, overlap>>
syncVars == <<ctx, cancelSync, canceled, overlap, moves>>
dbVars == <<db, told, stale, shifted, rewound>>

(***************************************************************************)
(* Proposals.                                                              *)
(***************************************************************************)
VoteStatus(c) == CASE c = "active" -> "started"
                   [] c \in {"approved", "rejected"} -> "finished"
                   [] OTHER -> "none"

\* What batchProposals and batchVoteSummary say of a proposal in category c.
Fetched(c) == [vote |-> VoteStatus(c), approved |-> c = "approved", abandoned |-> c = "abandoned"]

NoProposal == [category |-> "none", vote |-> "none", approved |-> FALSE, abandoned |-> FALSE,
               file |-> FALSE]

\* The record fetchBatchProposals saves: the category is the inventory's.
NewProposal(category, f) ==
  [category |-> category, vote |-> f.vote, approved |-> f.approved, abandoned |-> f.abandoned,
   file |-> FALSE]

\* A variant of CategoryAfter that only looks at the vote.
CategoryOfVote(old, f) ==
  IF old.vote = f.vote THEN old.category
  ELSE CASE f.vote = "finished" -> IF f.approved THEN "approved" ELSE "rejected"
         [] f.vote = "started" -> "active"
         [] OTHER -> "pre"

\* updateProposalDetails: a category changes with the status or with the vote.
CategoryAfter(old, f) ==
  IF old.abandoned # f.abandoned /\ f.abandoned THEN "abandoned"
  ELSE IF old.vote = f.vote THEN old.category
  ELSE CASE f.vote = "finished" -> IF f.approved THEN "approved" ELSE "rejected"
         [] f.vote = "started" -> "active"
         [] OTHER -> "pre"

\* The change that publishVoteFinished reports.
Finishes(old, f) == old.vote # f.vote /\ f.vote = "finished"

\* A variant of Updated that saves the category but not the vote.
CategoryUpdated(old, f) == [old EXCEPT !.category = CategoryAfter(old, f)]

\* The record updateProposalDetails saves.
Updated(old, f) ==
  [old EXCEPT !.category = CategoryAfter(old, f), !.vote = f.vote, !.approved = f.approved,
              !.abandoned = f.abandoned]

Saved == {t \in Token : db[t] # NoProposal}

\* getProposalsRaw(ProposalCategoryAll, ..., skipAbandoned): what is listed, and
\* the place of a proposal in the list, the newest first.
Listed == {t \in Token : db[t].category \notin {"none", "abandoned"}}
Place(t) == Cardinality({u \in Listed : u > t})

\* A variant of Page: a query without the offset's last proposal.
PageAfterOne(n) == {t \in Listed : Place(t) \in n + 1 .. n + PageSize}

\* The page of at most PageSize proposals from an offset.
Page(n) == {t \in Listed : Place(t) \in n .. n + PageSize - 1}

(***************************************************************************)
(* The mutex p.mu.  Requests under a read lock span actions; the other     *)
(* critical sections are one action each.                                  *)
(***************************************************************************)
CanLock == \A s \in Syncs : mu[s] = 0
\* The loops test p.ctx, which the latest Sync has set.
CtxErr == ctx \in canceled
Running(s) == pc[s] \notin {"idle", "done"}
Goto(s, label) == pc' = [pc EXCEPT ![s] = label]
Event == events < MaxEvents /\ events' = events + 1

(***************************************************************************)
(* Sync.                                                                   *)
(***************************************************************************)
\* Under p.mu: refused while a handle is set.
SyncBegin(s) ==
  /\ pc[s] = "idle"
  /\ CanLock
  /\ cancelSync = None
  /\ ctx' = s
  /\ cancelSync' = s
  /\ Goto(s, "client")
  /\ overlap' = (overlap \/ \E q \in Syncs : Running(q))
  /\ UNCHANGED <<server, dbVars, client, canceled, moves, mu, offset, page, todo, reader, events, fresh>>

\* getClient: version and policy are fetched under p.mu once, then kept.
GetClient(s) ==
  /\ pc[s] = "client"
  /\ CanLock
  /\ client' = TRUE
  /\ Goto(s, "check")
  /\ UNCHANGED <<server, dbVars, syncVars, mu, offset, page, todo, reader, events, fresh>>

\* A request fails: the call sleeps retryInterval and tries again.
GetClientFails(s) ==
  /\ pc[s] = "client"
  /\ CanLock
  /\ ~client
  /\ Event
  /\ UNCHANGED <<server, dbVars, client, syncVars, mu, pc, offset, page, todo, reader, fresh>>

\* A variant of HandleAfter: the handle outlives the call.
HandleKept == cancelSync

\* The deferred function of Sync: p.cancelSync = nil, whoever set it.
HandleAfter == None

Returns(s) ==
  /\ Goto(s, "done")
  /\ cancelSync' = HandleAfter
  /\ offset' = [offset EXCEPT ![s] = 0]
  /\ fresh' = [fresh EXCEPT ![s] = [t \in Token |-> "none"]]
  /\ UNCHANGED <<server, dbVars, client, ctx, canceled, overlap, moves, mu, page, todo, reader, events>>

\* The test of the context before every round.
SyncCanceled(s) ==
  /\ pc[s] = "check"
  /\ CtxErr
  /\ Returns(s)

CheckForUpdates(s) ==
  /\ pc[s] = "check"
  /\ ~CtxErr
  /\ Goto(s, "page")
  /\ offset' = [offset EXCEPT ![s] = 0]
  /\ fresh' = [fresh EXCEPT ![s] = server]
  /\ shifted' = shifted \ {s}
  /\ UNCHANGED <<server, db, told, stale, rewound, client, syncVars, mu, page, todo, reader, events>>

\* A page of saved proposals, and handleProposalsUpdate up to its requests.
NextPage(s) ==
  /\ pc[s] = "page"
  /\ LET p == Page(offset[s])
     IN /\ p # {}
        /\ page' = [page EXCEPT ![s] = {<<t, db[t]>> : t \in p}]
        /\ offset' = [offset EXCEPT ![s] = @ + Cardinality(p)]
  /\ mu' = [mu EXCEPT ![s] = 1]
  /\ Goto(s, "update")
  /\ UNCHANGED <<server, dbVars, client, syncVars, todo, reader, events, fresh>>

\* A variant of Unlocked: an early return that forgets the lock.
StillLocked(s) == mu

\* The deferred RUnlock of handleProposalsUpdate.
Unlocked(s) == [mu EXCEPT ![s] = 0]

\* The answers arrive: every proposal of the page is updated, votes that have
\* finished are published, the read lock is released.  An update of a proposal
\* that was cleared meanwhile is an error.
HandleProposalsUpdate(s) ==
  /\ pc[s] = "update"
  /\ LET of(t) == CHOOSE r \in page[s] : r[1] = t
         updated == {t \in Token : (\E r \in page[s] : r[1] = t) /\ db[t] # NoProposal}
         next(t) == Updated(of(t)[2], Fetched(server[t]))
     IN /\ db' = [t \in Token |-> IF t \in updated THEN next(t) ELSE db[t]]
        /\ told' = [t \in Token |-> IF t \in updated /\ Finishes(of(t)[2], Fetched(server[t]))
                                    THEN told[t] + 1 ELSE told[t]]
        /\ shifted' = IF \E t \in updated : db[t].category # "abandoned"
                                            /\ next(t).category = "abandoned"
                      THEN {q \in Syncs : Running(q)} \cup shifted ELSE shifted
        /\ Goto(s, IF \E r \in page[s] : db[r[1]] = NoProposal /\ next(r[1]) # r[2]
                   THEN "client" ELSE "page")
  /\ page' = [page EXCEPT ![s] = {}]
  /\ mu' = Unlocked(s)
  /\ UNCHANGED <<server, stale, rewound, client, syncVars, offset, todo, reader, events, fresh>>

\* A request of a round fails: the read lock is released, the round starts over.
RoundFails(s) ==
  /\ pc[s] \in {"update", "page", "fetching"}
  /\ Event
  /\ mu' = Unlocked(s)
  /\ page' = [page EXCEPT ![s] = {}]
  /\ todo' = [todo EXCEPT ![s] = {}]
  /\ Goto(s, "client")
  /\ UNCHANGED <<server, dbVars, client, syncVars, offset, reader, fresh>>

\* handleNewProposals: the inventory against all saved proposals.
HandleNewProposals(s) ==
  /\ pc[s] = "page"
  /\ Page(offset[s]) = {}
  /\ LET new == {t \in Token : server[t] # "none" /\ t \notin Saved}
     IN /\ todo' = [todo EXCEPT ![s] = IF CtxErr THEN {} ELSE {<<t, server[t]>> : t \in new}]
        /\ Goto(s, IF new # {} /\ CtxErr THEN "client" ELSE "fetch")
  /\ UNCHANGED <<server, dbVars, client, syncVars, mu, offset, page, reader, events, fresh>>

\* fetchBatchProposals takes the read lock and tests the context: canceled, it
\* returns without RUnlock.
FetchBatch(s) ==
  /\ pc[s] = "fetch"
  /\ todo[s] # {}
  /\ IF CtxErr THEN mu' = [mu EXCEPT ![s] = 1] /\ Goto(s, "client") /\ todo' = [todo EXCEPT ![s] = {}]
               ELSE Goto(s, "fetching") /\ UNCHANGED <<mu, todo>>
  /\ UNCHANGED <<server, dbVars, client, syncVars, offset, page, reader, events, fresh>>

\* Canceled while the requests were under way.
FetchCanceled(s) ==
  /\ pc[s] = "fetching"
  /\ CtxErr
  /\ todo' = [todo EXCEPT ![s] = {}]
  /\ Goto(s, "client")
  /\ UNCHANGED <<server, dbVars, client, syncVars, mu, offset, page, reader, events, fresh>>

\* One batch is fetched and saved.  saveOrOverwiteProposal passes DeleteStruct a
\* value, which storm refuses, so a token that was saved meanwhile breaks the
\* unique index.
FetchSaves(s) ==
  /\ pc[s] = "fetching"
  /\ ~CtxErr
  /\ \E batch \in SUBSET todo[s] :
       /\ Cardinality({e[2] : e \in batch}) = 1
       /\ Cardinality(batch) <= PageSize
       /\ IF \E e \in batch : e[1] \in Saved
          THEN /\ todo' = [todo EXCEPT ![s] = {}]
               /\ Goto(s, "client")
               /\ UNCHANGED dbVars
          ELSE /\ todo' = [todo EXCEPT ![s] = @ \ batch]
               /\ Goto(s, "fetch")
               /\ db' = [t \in Token |-> IF \E e \in batch : e[1] = t
                                         THEN NewProposal((CHOOSE e \in batch : e[1] = t)[2],
                                                          Fetched(server[t]))
                                         ELSE db[t]]
               /\ stale' = stale \cup {e[1] : e \in {f \in batch : server[f[1]] # f[2]}}
               /\ UNCHANGED <<told, shifted, rewound>>
  /\ UNCHANGED <<server, client, syncVars, mu, offset, page, reader, events, fresh>>

\* saveLastSyncedTimestamp, publishSynced.
SyncCompletes(s) ==
  /\ pc[s] = "fetch"
  /\ todo[s] = {}
  /\ Returns(s)

\* StopSync, under p.mu.
StopSync ==
  /\ CanLock
  /\ cancelSync # None
  /\ Event
  /\ canceled' = canceled \cup {cancelSync}
  /\ cancelSync' = None
  /\ UNCHANGED <<server, dbVars, client, ctx, overlap, moves, mu, pc, offset, page, todo, reader, fresh>>

(***************************************************************************)
(* FetchProposalDescription and ClearSavedProposals.                       *)
(***************************************************************************)
FetchDescription(t) ==
  /\ reader = <<>>
  /\ t \in Saved
  /\ Event
  /\ reader' = <<t, db[t], "client">>
  /\ UNCHANGED <<server, dbVars, client, syncVars, mu, pc, offset, page, todo, fresh>>

\* getClient needs p.mu, also when the client is there.
DescriptionClient ==
  /\ reader # <<>> /\ reader[3] = "client"
  /\ CanLock
  /\ client' = TRUE
  /\ reader' = [reader EXCEPT ![3] = "details"]
  /\ UNCHANGED <<server, dbVars, syncVars, mu, pc, offset, page, todo, events, fresh>>

\* The details arrive: the whole record that was read is saved.
DescriptionSaved ==
  /\ reader # <<>> /\ reader[3] = "details"
  /\ db' = [db EXCEPT ![reader[1]] = [reader[2] EXCEPT !.file = TRUE]]
  /\ rewound' = (rewound \/ db[reader[1]] # reader[2])
  /\ shifted' = IF db[reader[1]] = reader[2] THEN shifted ELSE shifted \cup {s \in Syncs : Running(s)}
  /\ reader' = <<>>
  /\ UNCHANGED <<server, told, stale, client, syncVars, mu, pc, offset, page, todo, events, fresh>>

\* A request fails, or there is no index.md: nothing is saved.
DescriptionFails ==
  /\ reader # <<>>
  /\ reader[3] = "client" => CanLock /\ ~client
  /\ reader' = <<>>
  /\ UNCHANGED <<server, dbVars, client, syncVars, mu, pc, offset, page, todo, events, fresh>>

ClearSavedProposals ==
  /\ Event
  /\ db' = [t \in Token |-> NoProposal]
  /\ shifted' = shifted \cup {s \in Syncs : Running(s)}
  /\ UNCHANGED <<server, told, stale, rewound, client, syncVars, mu, pc, offset, page, todo, reader, fresh>>

(***************************************************************************)
(* The server (external).                                                  *)
(***************************************************************************)
Moves == {<<"none", "pre">>, <<"pre", "active">>, <<"pre", "abandoned">>,
          <<"active", "approved">>, <<"active", "rejected">>}

ServerMoves(t) ==
  /\ moves < MaxMoves
  /\ moves' = moves + 1
  /\ \E m \in Moves : server[t] = m[1] /\ server' = [server EXCEPT ![t] = m[2]]
  /\ UNCHANGED <<dbVars, client, ctx, cancelSync, canceled, overlap, mu, pc, offset, page, todo, reader, events, fresh>>

(***************************************************************************)
(* The specification.                                                      *)
(***************************************************************************)
Init ==
  /\ \E c \in {"none", "pre"} :  \* nothing yet, or all saved by an earlier run
       /\ server = [t \in Token |-> c]
       /\ db = [t \in Token |-> IF c = "pre" THEN NewProposal(c, Fetched(c)) ELSE NoProposal]
  /\ client = FALSE /\ ctx = None /\ cancelSync = None /\ canceled = {}
  /\ mu = [s \in Syncs |-> 0]
  /\ pc = [s \in Syncs |-> "idle"] /\ offset = [s \in Syncs |-> 0]
  /\ page = [s \in Syncs |-> {}] /\ todo = [s \in Syncs |-> {}]
  /\ reader = <<>> /\ told = [t \in Token |-> 0] /\ events = 0 /\ moves = 0
  /\ fresh = [s \in Syncs |-> [t \in Token |-> "none"]]
  /\ stale = {} /\ shifted = {} /\ rewound = FALSE /\ overlap = FALSE

SyncStep(s) ==
  \/ GetClient(s) \/ SyncCanceled(s) \/ CheckForUpdates(s) \/ NextPage(s)
  \/ HandleProposalsUpdate(s) \/ HandleNewProposals(s)
  \/ FetchBatch(s) \/ FetchCanceled(s) \/ FetchSaves(s) \/ SyncCompletes(s)

Next ==
  \/ \E s \in Syncs : SyncBegin(s) \/ SyncStep(s) \/ GetClientFails(s) \/ RoundFails(s)
  \/ StopSync
  \/ \E t \in Token : FetchDescription(t) \/ ServerMoves(t)
  \/ DescriptionClient \/ DescriptionSaved \/ DescriptionFails
  \/ ClearSavedProposals

Spec == Init /\ [][Next]_vars

(***************************************************************************)
(* Properties.                                                             *)
(***************************************************************************)
\* IsSyncing tells whether a call of Sync is running that was not stopped, as
\* long as no Sync began while a stopped one was still on its way out.
SyncingIsAccurate ==
  ~overlap => (cancelSync # None <=> \E s \in Syncs : Running(s) /\ s \notin canceled)

\* The category under which a proposal is listed follows from its own status and
\* vote, unless it was saved under an inventory it had already left.
CategoryFollowsVote ==
  \A t \in Saved \ stale :
    /\ db[t].category = "abandoned" <=> db[t].abandoned
    /\ db[t].category = "active" <=> db[t].vote = "started"
    /\ db[t].category \in {"approved", "rejected"} <=> db[t].vote = "finished"

\* Nobody is told twice that a vote has finished, unless a description that was
\* being fetched put the record of an earlier state back, or syncs overlapped.
VoteFinishedToldOnce == ~rewound /\ ~overlap => \A t \in Token : told[t] <= 1

Rank(vote) == CASE vote = "none" -> 0 [] vote = "started" -> 1 [] vote = "finished" -> 2

\* When Sync reports completion, every proposal the server had when the round
\* began is saved in a state at least as recent, unless a proposal left the
\* paged list during the round (the offset then skips another one) or the index
\* was changed from outside.
SyncedIsFresh ==
  [][\A s \in Syncs : pc[s] = "fetch" /\ pc'[s] = "done" /\ s \notin shifted =>
       \A t \in Token : fresh[s][t] # "none" =>
         /\ t \in Saved
         /\ Rank(db[t].vote) >= Rank(VoteStatus(fresh[s][t]))
         /\ fresh[s][t] = "abandoned" => db[t].abandoned]_vars

\* The read lock of p.mu outlives a round of updates only if the call was stopped
\* before a batch of fetchBatchProposals, which then returns without RUnlock;
\* getClient and StopSync wait for it for ever.
MuLostOnlyByStop ==
  \A s \in Syncs : mu[s] = 1 /\ pc[s] # "update" => pc[s] = "client" /\ canceled # {}
==============================================================================
