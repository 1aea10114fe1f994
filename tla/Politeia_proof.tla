---------------------------- MODULE Politeia_proof ----------------------------
(***************************************************************************)
(* Proofs about Politeia, for any calls of Sync, any proposals and any     *)
(* page size: what IsSyncing reports, where the lock p.mu may be lost, the *)
(* category a proposal is listed under, the notifications of votes, and    *)
(* that the proposals of a completed call are fresh.                       *)
(***************************************************************************)
EXTENDS Politeia, FiniteSetTheorems, TLAPS

Stages == Categories \cup {"none"}
Decided == {"approved", "rejected"}
Labels == {"idle", "client", "check", "page", "update", "fetch", "fetching", "done"}
Record == [category : Stages, vote : {"none", "started", "finished"},
           approved : BOOLEAN, abandoned : BOOLEAN, file : BOOLEAN]

----------------------------------------------------------------------------
(* The inductive invariant: contexts and locks.                             *)

ControlType ==
    /\ pc \in [Syncs -> Labels] /\ mu \in [Syncs -> {0, 1}]
    /\ ctx \in Syncs \cup {None} /\ cancelSync \in Syncs \cup {None}
    /\ canceled \subseteq Syncs /\ overlap \in BOOLEAN

\* A call that has not begun has no context.
IdleIsUnknown == \A s \in Syncs : pc[s] = "idle" => s \notin canceled /\ cancelSync # s

\* Unless calls overlapped, one is running and the handle is its own until it
\* is stopped.
OneSync ==
    ~overlap => /\ \A s, q \in Syncs : Running(s) /\ Running(q) => s = q
                /\ \A s \in Syncs : cancelSync = s <=> Running(s) /\ s \notin canceled

ControlInv == ControlType /\ IdleIsUnknown /\ OneSync /\ MuLostOnlyByStop

----------------------------------------------------------------------------
(* The inductive invariant: records.                                        *)

\* What a vote and a status say of the category.
Consistent(r) ==
    /\ r.category = "abandoned" <=> r.abandoned
    /\ r.category = "active" <=> r.vote = "started"
    /\ r.category \in {"approved", "rejected"} <=> r.vote = "finished"

\* A record of t that was read or saved at some time: a proposal the record has
\* as abandoned is, since no proposal leaves that status.
Known(t, r) == /\ r \in Record
               /\ r.abandoned => server[t] = "abandoned"
               /\ t \notin stale => Consistent(r)

ServerType == server \in [Token -> Stages]
DbKnown == db \in [Token -> Record] /\ \A t \in Token : Known(t, db[t])

\* The records a call has read and goes on to update.
PagesKnown ==
    /\ DOMAIN page = Syncs
    /\ \A s \in Syncs : \A e \in page[s] : e[1] \in Token /\ Known(e[1], e[2])

\* The record FetchProposalDescription has read and goes on to save.
ReaderKnown ==
    reader # <<>> =>
        /\ reader \in Token \X Record \X {"client", "details"}
        /\ Known(reader[1], reader[2])
        /\ reader[2] # NoProposal

\* The proposals a call is going to fetch, with their categories in the inventory.
TodoType == todo \in [Syncs -> SUBSET (Token \X Categories)]

RecordInv == ServerType /\ DbKnown /\ PagesKnown /\ ReaderKnown /\ TodoType

----------------------------------------------------------------------------
(* The inductive invariant: notifications.                                  *)

\* Nothing is kept of a page that is done.
PagesInUpdate == \A s \in Syncs : pc[s] # "update" => page[s] = {}

\* The page a call is going to update is as old as the last change of a vote.
PagesCurrent ==
    \A s \in Syncs : \A e \in page[s] : db[e[1]] = NoProposal \/ db[e[1]].vote = e[2].vote

\* After the notification the record says finished, or is gone.
ToldOnce ==
    \A t \in Token : /\ told[t] \in {0, 1}
                     /\ told[t] = 1 => /\ server[t] \in Decided
                                       /\ db[t] = NoProposal \/ db[t].vote = "finished"

ToldInv == /\ told \in [Token -> Nat]
           /\ rewound \in BOOLEAN
           /\ PagesInUpdate
           /\ ~rewound /\ ~overlap => PagesCurrent /\ ToldOnce

----------------------------------------------------------------------------
(* The inductive invariant: freshness.                                      *)

\* A proposal that was in stage c may be in stage d by now.
Reaches(c, d) == \/ c \in {"none", d}
                 \/ c = "pre" /\ d # "none"
                 \/ c = "active" /\ d \in Decided

\* A record is listed, unless it is of an abandoned proposal.
Filed(r) == /\ r.category # "none"
            /\ r.category = "abandoned" => r.abandoned
RecordsFiled ==
    /\ \A t \in Token : db[t] = NoProposal \/ Filed(db[t])
    /\ \A s \in Syncs : \A e \in page[s] : Filed(e[2])
    /\ reader # <<>> => Filed(reader[2])

\* What a call has seen of the server is the past of what there is now.
SeenBefore ==
    /\ fresh \in [Syncs -> [Token -> Stages]]
    /\ \A s \in Syncs, t \in Token : Reaches(fresh[s][t], server[t])
    /\ \A s \in Syncs : \A e \in todo[s] : Reaches(e[2], server[e[1]])

\* Record r is at least as recent as stage c of its proposal.
Covers(r, c) == c # "none" => /\ r # NoProposal
                              /\ Rank(r.vote) >= Rank(VoteStatus(c))
                              /\ c = "abandoned" => r.abandoned
UpToDate(s, t) == Covers(db[t], fresh[s][t])

\* t is on the page of call s, or among the proposals it is going to fetch.
Updating(s, t) == pc[s] = "update" /\ \E e \in page[s] : e[1] = t
Fetching(s, t) == \E e \in todo[s] : e[1] = t

\* While a call pages, what is listed before its offset is up to date or on its
\* page; once the pages are done, everything is up to date or still to be fetched.
FreshFor(s) ==
    /\ pc[s] \in {"page", "update"} =>
         \A t \in Listed : Place(t) < offset[s] => UpToDate(s, t) \/ Updating(s, t)
    /\ \A t \in Token : Updating(s, t) => t \in Saved
    /\ pc[s] \in {"fetch", "fetching"} => \A t \in Token : UpToDate(s, t) \/ Fetching(s, t)

FreshInv == /\ offset \in [Syncs -> Nat]
            /\ RecordsFiled /\ SeenBefore
            /\ \A s \in Syncs : s \notin shifted => FreshFor(s)

PoliteiaInv == ControlInv /\ RecordInv /\ ToldInv /\ FreshInv

----------------------------------------------------------------------------
(* Contexts and locks.                                                      *)

LEMMA ControlInvInit == Init => ControlInv
<1> SUFFICES ASSUME Init PROVE ControlInv
    OBVIOUS
<1>1. /\ pc = [s \in Syncs |-> "idle"] /\ mu = [s \in Syncs |-> 0]
      /\ ctx = None /\ cancelSync = None /\ canceled = {} /\ overlap = FALSE
    BY DEF Init
<1>2. ControlType
    BY <1>1 DEF ControlType, Labels
<1>3. IdleIsUnknown /\ OneSync /\ MuLostOnlyByStop
    BY <1>1, NoneAssumption DEF IdleIsUnknown, OneSync, MuLostOnlyByStop, Running
<1> QED BY <1>2, <1>3 DEF ControlInv

\* A call of Sync moves on, from a place where it holds no lost lock, or gives
\* its lock back.
MovesOn(s, label) ==
    /\ Running(s) /\ Goto(s, label) /\ label \in Labels \ {"idle", "done"}
    /\ UNCHANGED <<ctx, cancelSync, canceled, overlap>>
    /\ \/ mu' = [mu EXCEPT ![s] = 0]
       \/ mu' = mu /\ (pc[s] \notin {"client", "update"} \/ mu[s] = 0)
       \/ mu' = [mu EXCEPT ![s] = 1] /\ label = "update"
       \/ mu' = [mu EXCEPT ![s] = 1] /\ label = "client" /\ CtxErr

LEMMA MovesOnControl ==
    ASSUME ControlInv, NEW s \in Syncs, NEW label, MovesOn(s, label)
    PROVE  ControlInv'
<1> USE DEF ControlInv, ControlType, Labels, MovesOn, Goto, Running
<1>1. ControlType'
    OBVIOUS
<1>2. IdleIsUnknown'
    BY DEF IdleIsUnknown
<1>3. OneSync'
    BY DEF OneSync
<1>4. MuLostOnlyByStop'
    BY NoneAssumption DEF MuLostOnlyByStop, CtxErr
<1> QED BY <1>1, <1>2, <1>3, <1>4

LEMMA ReturnsControl ==
    ASSUME ControlInv, NEW s \in Syncs, pc[s] \in {"check", "fetch"}, Returns(s)
    PROVE  ControlInv'
<1> USE NoneAssumption DEF ControlInv, ControlType, Labels, Returns, HandleAfter, Goto, Running
<1>1. ControlType'
    OBVIOUS
<1>2. IdleIsUnknown'
    BY DEF IdleIsUnknown
<1>3. OneSync'
    BY DEF OneSync
<1>4. MuLostOnlyByStop'
    BY DEF MuLostOnlyByStop
<1> QED BY <1>1, <1>2, <1>3, <1>4

LEMMA SyncBeginControl ==
    ASSUME ControlInv, NEW s \in Syncs, SyncBegin(s)
    PROVE  ControlInv'
<1> USE NoneAssumption DEF ControlInv, ControlType, Labels, SyncBegin, Goto, Running
<1>1. ControlType'
    OBVIOUS
<1>2. IdleIsUnknown'
    BY DEF IdleIsUnknown
<1>3. OneSync'
    BY DEF OneSync, IdleIsUnknown
<1>4. MuLostOnlyByStop'
    BY DEF MuLostOnlyByStop, CanLock
<1> QED BY <1>1, <1>2, <1>3, <1>4

LEMMA StopSyncControl ==
    ASSUME ControlInv, StopSync
    PROVE  ControlInv'
<1> USE NoneAssumption DEF ControlInv, ControlType, Labels, StopSync, Running
<1>1. ControlType'
    OBVIOUS
<1>2. IdleIsUnknown'
    BY DEF IdleIsUnknown
<1>3. OneSync'
    BY DEF OneSync
<1>4. MuLostOnlyByStop'
    BY DEF MuLostOnlyByStop
<1> QED BY <1>1, <1>2, <1>3, <1>4

controlVars == <<pc, mu, ctx, cancelSync, canceled, overlap>>

LEMMA UnchangedControl == ControlInv /\ UNCHANGED controlVars => ControlInv'
BY DEF controlVars, ControlInv, ControlType, IdleIsUnknown, OneSync, MuLostOnlyByStop, Running

LEMMA ControlInvNext == ControlInv /\ [Next]_vars => ControlInv'
<1> SUFFICES ASSUME ControlInv, [Next]_vars PROVE ControlInv'
    OBVIOUS
<1> USE DEF syncVars, dbVars
<1>1. ASSUME NEW s \in Syncs, SyncBegin(s) PROVE ControlInv'
    BY <1>1, SyncBeginControl
<1>2. ASSUME NEW s \in Syncs, SyncStep(s) PROVE ControlInv'
  <2> USE DEF Running, Labels, MovesOn
  <2>1. CASE GetClient(s)
    <3>1. MovesOn(s, "check")
      BY <2>1 DEF GetClient, CanLock
    <3> QED BY <3>1, MovesOnControl
  <2>2. CASE SyncCanceled(s)
    BY <2>2, ReturnsControl DEF SyncCanceled
  <2>3. CASE CheckForUpdates(s)
    <3>1. MovesOn(s, "page")
      BY <2>3 DEF CheckForUpdates
    <3> QED BY <3>1, MovesOnControl
  <2>4. CASE NextPage(s)
    <3>1. MovesOn(s, "update")
      BY <2>4 DEF NextPage
    <3> QED BY <3>1, MovesOnControl
  <2>5. CASE HandleProposalsUpdate(s)
    <3>1. PICK label \in {"client", "page"} : Goto(s, label)
      BY <2>5 DEF HandleProposalsUpdate
    <3>2. MovesOn(s, label)
      BY <2>5, <3>1 DEF HandleProposalsUpdate, Unlocked
    <3> QED BY <3>2, MovesOnControl
  <2>6. CASE HandleNewProposals(s)
    <3>1. PICK label \in {"client", "fetch"} : Goto(s, label)
      BY <2>6 DEF HandleNewProposals
    <3>2. MovesOn(s, label)
      BY <2>6, <3>1 DEF HandleNewProposals
    <3> QED BY <3>2, MovesOnControl
  <2>7. CASE FetchBatch(s)
    <3>1. CASE CtxErr
      <4>1. MovesOn(s, "client")
        BY <2>7, <3>1 DEF FetchBatch
      <4> QED BY <4>1, MovesOnControl
    <3>2. CASE ~CtxErr
      <4>1. MovesOn(s, "fetching")
        BY <2>7, <3>2 DEF FetchBatch
      <4> QED BY <4>1, MovesOnControl
    <3> QED BY <3>1, <3>2
  <2>8. CASE FetchCanceled(s)
    <3>1. MovesOn(s, "client")
      BY <2>8 DEF FetchCanceled
    <3> QED BY <3>1, MovesOnControl
  <2>9. CASE FetchSaves(s)
    <3>1. PICK label \in {"client", "fetch"} : Goto(s, label)
      BY <2>9 DEF FetchSaves
    <3>2. MovesOn(s, label)
      BY <2>9, <3>1 DEF FetchSaves
    <3> QED BY <3>2, MovesOnControl
  <2>10. CASE SyncCompletes(s)
    BY <2>10, ReturnsControl DEF SyncCompletes
  <2> QED BY <1>2, <2>1, <2>2, <2>3, <2>4, <2>5, <2>6, <2>7, <2>8, <2>9, <2>10 DEF SyncStep
<1>3. ASSUME NEW s \in Syncs, GetClientFails(s) PROVE ControlInv'
    BY <1>3, UnchangedControl DEF GetClientFails, controlVars
<1>4. ASSUME NEW s \in Syncs, RoundFails(s) PROVE ControlInv'
  <2>1. MovesOn(s, "client")
    BY <1>4 DEF RoundFails, Unlocked, MovesOn, Running, Labels
  <2> QED BY <2>1, MovesOnControl
<1>5. CASE StopSync
    BY <1>5, StopSyncControl
<1>6. ASSUME NEW t \in Token, FetchDescription(t) \/ ServerMoves(t) PROVE ControlInv'
    BY <1>6, UnchangedControl DEF FetchDescription, ServerMoves, controlVars
<1>7. CASE DescriptionClient \/ DescriptionSaved \/ DescriptionFails \/ ClearSavedProposals
    BY <1>7, UnchangedControl DEF DescriptionClient, DescriptionSaved, DescriptionFails,
                                  ClearSavedProposals, controlVars
<1>8. CASE UNCHANGED vars
    BY <1>8, UnchangedControl DEF vars, controlVars
<1> QED BY <1>1, <1>2, <1>3, <1>4, <1>5, <1>6, <1>7, <1>8 DEF Next

\* IsSyncing and the mutex, at every step of any calls.
LEMMA ControlInvHolds == Spec => []ControlInv
BY ControlInvInit, ControlInvNext, PTL DEF Spec
----------------------------------------------------------------------------
(* Records.                                                                 *)

LEMMA NoProposalRecord == NoProposal \in Record /\ Consistent(NoProposal) /\ ~NoProposal.abandoned
BY DEF NoProposal, Record, Stages, Consistent, Categories

\* What the server says is of one stage of the proposal.
LEMMA FetchedType ==
    ASSUME NEW c \in Stages
    PROVE  /\ Fetched(c).vote = VoteStatus(c) /\ VoteStatus(c) \in {"none", "started", "finished"}
           /\ Fetched(c).approved \in BOOLEAN /\ Fetched(c).abandoned \in BOOLEAN
           /\ Fetched(c).abandoned <=> c = "abandoned"
           /\ VoteStatus(c) = "started" <=> c = "active"
           /\ VoteStatus(c) = "finished" <=> c \in Decided
BY DEF Fetched, VoteStatus, Stages, Categories, Decided

LEMMA NewRecord ==
    ASSUME NEW c \in Categories, NEW now \in Stages
    PROVE  LET r == NewProposal(c, Fetched(now))
           IN /\ r \in Record /\ r.vote = VoteStatus(now)
              /\ r.abandoned => now = "abandoned"
              /\ c = now => Consistent(r)
<1>1. VoteStatus(now) \in {"none", "started", "finished"} /\ Fetched(now).abandoned \in BOOLEAN
      /\ Fetched(now).approved \in BOOLEAN /\ Fetched(now).vote = VoteStatus(now)
    BY FetchedType
<1>2. /\ Fetched(now).abandoned <=> now = "abandoned"
      /\ VoteStatus(now) = "started" <=> now = "active"
      /\ VoteStatus(now) = "finished" <=> now \in Decided
    BY FetchedType
<1>3. NewProposal(c, Fetched(now)) \in Record
    BY <1>1 DEF NewProposal, Record, Stages
<1> QED BY <1>1, <1>2, <1>3 DEF NewProposal, Consistent, Decided

LEMMA UpdatedRecord ==
    ASSUME NEW old \in Record, NEW now \in Stages, old.abandoned => now = "abandoned"
    PROVE  LET r == Updated(old, Fetched(now))
           IN /\ r \in Record /\ r.vote = VoteStatus(now)
              /\ r.abandoned => now = "abandoned"
              /\ Consistent(old) => Consistent(r)
<1> DEFINE f == Fetched(now)
<1> DEFINE r == Updated(old, f)
<1>1. /\ f.vote = VoteStatus(now) /\ f.vote \in {"none", "started", "finished"}
      /\ f.approved \in BOOLEAN /\ f.abandoned \in BOOLEAN
      /\ f.abandoned <=> now = "abandoned"
      /\ f.vote = "started" <=> now = "active"
      /\ f.vote = "finished" <=> now \in Decided
    BY FetchedType
<1> HIDE DEF f
<1>2. CategoryAfter(old, f) \in Stages
    BY <1>1 DEF CategoryAfter, Record, Stages, Categories
<1>3. /\ r \in Record
      /\ r.category = CategoryAfter(old, f) /\ r.vote = f.vote
      /\ r.abandoned = f.abandoned
  <2> DEFINE c == CategoryAfter(old, f)
  <2> HIDE DEF c
  <2>1. r = [old EXCEPT !.category = c, !.vote = f.vote, !.approved = f.approved,
                        !.abandoned = f.abandoned]
    BY DEF Updated, c
  <2>2. c \in Categories \cup {"none"}
    BY <1>2 DEF c, Stages
  <2>3. r \in Record /\ r.category = c /\ r.vote = f.vote /\ r.abandoned = f.abandoned
    BY <1>1, <2>1, <2>2 DEF Record, Stages
  <2> QED BY <2>3 DEF c
<1>4. ASSUME Consistent(old) PROVE Consistent(r)
    BY <1>1, <1>3, <1>4 DEF Consistent, CategoryAfter, Record, Decided
<1> QED BY <1>1, <1>3, <1>4 DEF f

\* What was known stays known when proposals move on and more become stale.
LEMMA KnownStays ==
    ASSUME ServerType, NEW t \in Token, NEW r, Known(t, r), stale \subseteq stale',
           server[t] = "abandoned" => server'[t] = "abandoned"
    PROVE  Known(t, r)'
BY DEF Known

recordVars == <<server, db, page, reader, stale, todo>>

LEMMA UnchangedRecord == RecordInv /\ UNCHANGED recordVars => RecordInv'
BY DEF recordVars, RecordInv, ServerType, DbKnown, PagesKnown, ReaderKnown, TodoType, Known

LEMMA RecordInvInit == Init => RecordInv
<1> SUFFICES ASSUME Init PROVE RecordInv
    OBVIOUS
<1>1. PICK c \in {"none", "pre"} :
         /\ server = [t \in Token |-> c]
         /\ db = [t \in Token |-> IF c = "pre" THEN NewProposal(c, Fetched(c)) ELSE NoProposal]
    BY DEF Init
<1>2. page = [s \in Syncs |-> {}] /\ reader = <<>> /\ stale = {} /\ todo = [s \in Syncs |-> {}]
    BY DEF Init
<1>3. ServerType
    BY <1>1 DEF ServerType, Stages, Categories
<1>4. ASSUME NEW t \in Token PROVE db[t] \in Record /\ Known(t, db[t])
  <2>1. CASE c = "pre"
    BY <1>1, <2>1, NewRecord DEF Known, Stages, Categories
  <2>2. CASE c = "none"
    BY <1>1, <2>2, NoProposalRecord DEF Known
  <2> QED BY <2>1, <2>2
<1>5. DbKnown
    BY <1>1, <1>4 DEF DbKnown
<1>6. PagesKnown /\ ReaderKnown /\ TodoType
    BY <1>2 DEF PagesKnown, ReaderKnown, TodoType
<1> QED BY <1>3, <1>5, <1>6 DEF RecordInv

\* A step that leaves the server and the pages alone, or forgets a page.
LEMMA DbStepRecord ==
    ASSUME RecordInv, UNCHANGED server, stale \subseteq stale', DOMAIN page' = Syncs, TodoType',
           \A s \in Syncs : page'[s] = page[s] \/ page'[s] = {},
           reader' = reader \/ reader' = <<>>,
           db' \in [Token -> Record], \A t \in Token : db'[t] = db[t] \/ Known(t, db[t])'
    PROVE  RecordInv'
<1>1. ASSUME NEW t \in Token, NEW r, Known(t, r) PROVE Known(t, r)'
    BY <1>1, KnownStays DEF RecordInv
<1>2. ServerType'
    BY DEF RecordInv, ServerType
<1>3. DbKnown'
    BY <1>1 DEF RecordInv, DbKnown, Known
<1>4. PagesKnown'
  <2> SUFFICES ASSUME NEW s \in Syncs, NEW e \in page'[s]
               PROVE  e[1] \in Token /\ Known(e[1], e[2])'
    BY DEF PagesKnown
  <2>1. e \in page[s]
    OBVIOUS
  <2>2. Known(e[1], e[2]) /\ e[1] \in Token
    BY <2>1 DEF RecordInv, PagesKnown
  <2> QED BY <1>1, <2>2
<1>5. ReaderKnown'
    BY <1>1 DEF RecordInv, ReaderKnown
<1> QED BY <1>2, <1>3, <1>4, <1>5 DEF RecordInv

\* What the answers for a page do to a proposal: its record of the page is
\* brought up to date, and a vote that has finished since is published.
LEMMA UpdateEffect ==
    ASSUME NEW s \in Syncs, HandleProposalsUpdate(s), NEW t \in Token
    PROVE  \/ db'[t] = db[t] /\ told'[t] = told[t]
           \/ /\ db[t] # NoProposal
              /\ \E e \in page[s] :
                   /\ e[1] = t
                   /\ db'[t] = Updated(e[2], Fetched(server[t]))
                   /\ told'[t] = IF Finishes(e[2], Fetched(server[t]))
                                 THEN told[t] + 1 ELSE told[t]
<1> DEFINE paged == page[s]
           of(u) == CHOOSE r \in paged : r[1] = u
           updated == {u \in Token : (\E r \in paged : r[1] = u) /\ db[u] # NoProposal}
<1>1. /\ db'[t] = IF t \in updated THEN Updated(of(t)[2], Fetched(server[t])) ELSE db[t]
      /\ told'[t] = IF t \in updated /\ Finishes(of(t)[2], Fetched(server[t]))
                    THEN told[t] + 1 ELSE told[t]
    BY DEF HandleProposalsUpdate
<1>2. CASE t \notin updated
    BY <1>1, <1>2
<1>3. CASE t \in updated
  <2>1. of(t) \in paged /\ of(t)[1] = t
    BY <1>3
  <2> HIDE DEF of
  <2> QED BY <1>1, <1>3, <2>1
<1> QED BY <1>2, <1>3

LEMMA UpdateRecord ==
    ASSUME RecordInv, NEW s \in Syncs, HandleProposalsUpdate(s)
    PROVE  RecordInv'
<1>1. /\ UNCHANGED <<server, stale, reader, todo>>
      /\ page' = [page EXCEPT ![s] = {}] /\ DOMAIN db' = Token
    BY DEF HandleProposalsUpdate
<1>2. ASSUME NEW t \in Token
      PROVE  db'[t] \in Record /\ (db'[t] = db[t] \/ Known(t, db[t])')
  <2>1. CASE db'[t] = db[t]
    BY <2>1 DEF RecordInv, DbKnown
  <2>2. CASE db'[t] # db[t]
    <3>1. PICK e \in page[s] : e[1] = t /\ db'[t] = Updated(e[2], Fetched(server[t]))
      BY <2>2, UpdateEffect
    <3>2. Known(t, e[2])
      BY <3>1 DEF RecordInv, PagesKnown
    <3>3. server[t] \in Stages
      BY DEF RecordInv, ServerType, Stages
    <3> DEFINE r == Updated(e[2], Fetched(server[t]))
    <3>4. r \in Record /\ (r.abandoned => server[t] = "abandoned")
          /\ (Consistent(e[2]) => Consistent(r))
      BY <3>2, <3>3, UpdatedRecord DEF Known
    <3>5. db'[t] = r
      BY <3>1
    <3> HIDE DEF r
    <3> QED BY <1>1, <3>2, <3>4, <3>5 DEF Known
  <2> QED BY <2>1, <2>2
<1>3. db' \in [Token -> Record]
  <2>1. db' = [t \in Token |-> db'[t]]
    BY DEF HandleProposalsUpdate
  <2> QED BY <1>2, <2>1
<1>4. \A q \in Syncs : page'[q] = page[q] \/ page'[q] = {}
    BY <1>1 DEF RecordInv, PagesKnown
<1>5. DOMAIN page' = Syncs /\ TodoType'
    BY <1>1 DEF RecordInv, PagesKnown, TodoType
<1> QED BY <1>1, <1>2, <1>3, <1>4, <1>5, DbStepRecord

\* What a batch does to a proposal: one that was not saved comes with the
\* category the inventory had.
LEMMA FetchSavesEffect ==
    ASSUME RecordInv, NEW s \in Syncs, FetchSaves(s), NEW t \in Token
    PROVE  \/ db'[t] = db[t]
           \/ \E c \in Categories : /\ <<t, c>> \in todo[s] /\ t \notin Saved
                                    /\ db'[t] = NewProposal(c, Fetched(server[t]))
                                    /\ c # server[t] => t \in stale'
<1>1. PICK batch \in SUBSET todo[s] :
        \/ UNCHANGED dbVars
        \/ /\ ~\E e \in batch : e[1] \in Saved
           /\ db' = [u \in Token |-> IF \E e \in batch : e[1] = u
                                      THEN NewProposal((CHOOSE e \in batch : e[1] = u)[2],
                                                       Fetched(server[u]))
                                      ELSE db[u]]
           /\ stale' = stale \cup {e[1] : e \in {f \in batch : server[f[1]] # f[2]}}
    BY DEF FetchSaves
<1>2. SUFFICES ASSUME db'[t] # db[t]
               PROVE  \E c \in Categories : /\ <<t, c>> \in todo[s] /\ t \notin Saved
                                            /\ db'[t] = NewProposal(c, Fetched(server[t]))
                                            /\ c # server[t] => t \in stale'
    OBVIOUS
<1> DEFINE new == CHOOSE e \in batch : e[1] = t
<1>3. ~UNCHANGED dbVars
    BY <1>2 DEF dbVars
<1>4. (\E e \in batch : e[1] = t) /\ db'[t] = NewProposal(new[2], Fetched(server[t]))
    BY <1>1, <1>2, <1>3
<1>5. new \in batch /\ new[1] = t
    BY <1>4
<1> HIDE DEF new
<1>6. new[2] \in Categories /\ <<t, new[2]>> \in todo[s]
  <2>1. new \in todo[s] /\ new \in Token \X Categories
    BY <1>1, <1>5 DEF RecordInv, TodoType
  <2> QED BY <1>5, <2>1
<1>7. t \notin Saved /\ (new[2] # server[t] => t \in stale')
    BY <1>1, <1>3, <1>5
<1> QED BY <1>4, <1>6, <1>7

LEMMA FetchSavesRecord ==
    ASSUME RecordInv, NEW s \in Syncs, FetchSaves(s)
    PROVE  RecordInv'
<1>1. UNCHANGED <<server, reader, page>>
    BY DEF FetchSaves
<1>2. stale \subseteq stale'
    BY DEF FetchSaves, dbVars
<1>3. ASSUME NEW t \in Token
      PROVE  db'[t] \in Record /\ (db'[t] = db[t] \/ Known(t, db[t])')
  <2>1. CASE db'[t] = db[t]
    BY <2>1 DEF RecordInv, DbKnown
  <2>2. CASE db'[t] # db[t]
    <3>1. PICK c \in Categories : /\ db'[t] = NewProposal(c, Fetched(server[t]))
                                  /\ c # server[t] => t \in stale'
      BY <2>2, FetchSavesEffect
    <3>2. server[t] \in Stages
      BY DEF RecordInv, ServerType, Stages
    <3> DEFINE r == NewProposal(c, Fetched(server[t]))
    <3>3. r \in Record /\ (r.abandoned => server[t] = "abandoned")
          /\ (c = server[t] => Consistent(r))
      BY <3>2, NewRecord
    <3>4. db'[t] = r
      BY <3>1
    <3> HIDE DEF r
    <3> QED BY <1>1, <3>1, <3>3, <3>4 DEF Known
  <2> QED BY <2>1, <2>2
<1>4. DOMAIN db' = Token /\ db' = [t \in Token |-> db'[t]]
    BY DEF FetchSaves, dbVars, RecordInv, DbKnown
<1>5. db' \in [Token -> Record]
    BY <1>3, <1>4
<1>6. DOMAIN page' = Syncs /\ \A q \in Syncs : page'[q] = page[q]
    BY <1>1 DEF RecordInv, PagesKnown
<1>7. TodoType'
    BY DEF FetchSaves, RecordInv, TodoType
<1> QED BY <1>1, <1>2, <1>3, <1>5, <1>6, <1>7, DbStepRecord

LEMMA NextPageRecord ==
    ASSUME RecordInv, NEW s \in Syncs, NextPage(s)
    PROVE  RecordInv'
<1> DEFINE p == Page(offset[s])
<1>1. /\ UNCHANGED <<server, stale, reader, todo, db>>
      /\ page' = [page EXCEPT ![s] = {<<t, db[t]>> : t \in p}]
    BY DEF NextPage, dbVars
<1>0. p \subseteq Token
    BY DEF Page, Listed
<1> HIDE DEF p
<1>2. ServerType' /\ DbKnown' /\ ReaderKnown' /\ TodoType'
    BY <1>1 DEF RecordInv, ServerType, DbKnown, ReaderKnown, TodoType, Known
<1>3. DOMAIN page' = Syncs
    BY <1>1 DEF RecordInv, PagesKnown
<1>4. ASSUME NEW q \in Syncs, NEW e \in page'[q]
      PROVE  e[1] \in Token /\ Known(e[1], e[2])'
  <2>1. CASE q = s
    <3>1. PICK t \in p : e = <<t, db[t]>>
      BY <1>1, <1>4, <2>1 DEF RecordInv, PagesKnown
    <3>2. t \in Token /\ Known(t, db[t])
      BY <1>0 DEF RecordInv, DbKnown
    <3> QED BY <1>1, <3>1, <3>2 DEF Known
  <2>2. CASE q # s
    BY <1>1, <1>4, <2>2 DEF RecordInv, PagesKnown, Known
  <2> QED BY <2>1, <2>2
<1> QED BY <1>2, <1>3, <1>4 DEF RecordInv, PagesKnown

\* The record that was read comes back with its description.
LEMMA DescriptionRecord ==
    ASSUME RecordInv, DescriptionSaved
    PROVE  RecordInv'
<1>1. /\ UNCHANGED <<server, stale, page, todo>> /\ reader' = <<>>
      /\ db' = [db EXCEPT ![reader[1]] = [reader[2] EXCEPT !.file = TRUE]]
    BY DEF DescriptionSaved
<1>2. reader[1] \in Token /\ reader[2] \in Record /\ Known(reader[1], reader[2])
    BY DEF DescriptionSaved, RecordInv, ReaderKnown
<1> DEFINE r == [reader[2] EXCEPT !.file = TRUE]
<1>3. /\ r \in Record /\ r.abandoned = reader[2].abandoned
      /\ r.category = reader[2].category /\ r.vote = reader[2].vote
    BY <1>2 DEF Record
<1>4. db'[reader[1]] = r /\ db' \in [Token -> Record]
    BY <1>1, <1>2, <1>3 DEF RecordInv, DbKnown
<1> HIDE DEF r
<1>5. ASSUME NEW t \in Token PROVE db'[t] = db[t] \/ Known(t, db[t])'
  <2>1. CASE t = reader[1]
    BY <1>1, <1>2, <1>3, <1>4, <2>1 DEF Known, Consistent
  <2>2. CASE t # reader[1]
    BY <1>1, <2>2 DEF RecordInv, DbKnown
  <2> QED BY <2>1, <2>2
<1>6. DOMAIN page' = Syncs /\ TodoType' /\ \A s \in Syncs : page'[s] = page[s]
    BY <1>1 DEF RecordInv, PagesKnown, TodoType
<1> QED BY <1>1, <1>4, <1>5, <1>6, DbStepRecord

LEMMA ClearRecord ==
    ASSUME RecordInv, ClearSavedProposals
    PROVE  RecordInv'
<1>1. UNCHANGED <<server, stale, page, todo, reader>> /\ db' = [t \in Token |-> NoProposal]
    BY DEF ClearSavedProposals
<1>2. db' \in [Token -> Record] /\ \A t \in Token : Known(t, db[t])'
    BY <1>1, NoProposalRecord DEF Known
<1>3. DOMAIN page' = Syncs /\ TodoType' /\ \A s \in Syncs : page'[s] = page[s]
    BY <1>1 DEF RecordInv, PagesKnown, TodoType
<1> QED BY <1>1, <1>2, <1>3, DbStepRecord

\* No proposal leaves the stages abandoned, approved and rejected.
LEMMA MovesForward ==
    ASSUME ServerType, NEW t \in Token, ServerMoves(t)
    PROVE  /\ ServerType'
           /\ \A u \in Token : server[u] \in {"abandoned"} \cup Decided => server'[u] = server[u]
<1>1. PICK m \in Moves : server[t] = m[1] /\ server' = [server EXCEPT ![t] = m[2]]
    BY DEF ServerMoves
<1>2. m[1] \notin {"abandoned"} \cup Decided /\ m[2] \in Categories
    BY DEF Moves, Decided, Categories
<1> QED BY <1>1, <1>2 DEF ServerType, Stages

LEMMA ServerMovesRecord ==
    ASSUME RecordInv, NEW t \in Token, ServerMoves(t)
    PROVE  RecordInv'
<1>1. UNCHANGED <<db, stale, page, todo, reader>>
    BY DEF ServerMoves, dbVars
<1>2. ServerType' /\ \A u \in Token : server[u] = "abandoned" => server'[u] = "abandoned"
    BY MovesForward DEF RecordInv
<1>3. DbKnown'
    BY <1>1, <1>2 DEF RecordInv, DbKnown, Known
<1>4. PagesKnown'
    BY <1>1, <1>2 DEF RecordInv, PagesKnown, Known
<1>5. ReaderKnown' /\ TodoType'
    BY <1>1, <1>2 DEF RecordInv, ReaderKnown, TodoType, Known
<1> QED BY <1>2, <1>3, <1>4, <1>5 DEF RecordInv

LEMMA ReaderRecord ==
    ASSUME RecordInv, (\E t \in Token : FetchDescription(t)) \/ DescriptionClient \/ DescriptionFails
    PROVE  RecordInv'
<1>1. UNCHANGED <<server, db, stale, page, todo>>
    BY DEF FetchDescription, DescriptionClient, DescriptionFails, dbVars
<1>2. ServerType' /\ DbKnown' /\ PagesKnown' /\ TodoType'
    BY <1>1 DEF RecordInv, ServerType, DbKnown, PagesKnown, TodoType, Known
<1>3. ReaderKnown'
  <2>1. ASSUME NEW t \in Token, FetchDescription(t) PROVE ReaderKnown'
    BY <1>1, <2>1 DEF FetchDescription, ReaderKnown, RecordInv, DbKnown, Known, Saved
  <2>2. CASE DescriptionClient
    BY <1>1, <2>2 DEF DescriptionClient, ReaderKnown, RecordInv, Known
  <2>3. CASE DescriptionFails
    BY <1>1, <2>3 DEF DescriptionFails, ReaderKnown
  <2> QED BY <2>1, <2>2, <2>3
<1> QED BY <1>2, <1>3 DEF RecordInv

\* What the call is going to fetch, and the page it gives up.
LEMMA RoundRecord ==
    ASSUME RecordInv, NEW s \in Syncs,
           RoundFails(s) \/ HandleNewProposals(s) \/ FetchBatch(s) \/ FetchCanceled(s)
    PROVE  RecordInv'
<1>1. UNCHANGED <<server, db, stale, reader>>
    BY DEF RoundFails, HandleNewProposals, FetchBatch, FetchCanceled, dbVars
<1>2. /\ DOMAIN page' = Syncs
      /\ \A q \in Syncs : page'[q] = page[q] \/ page'[q] = {}
    BY DEF RoundFails, HandleNewProposals, FetchBatch, FetchCanceled, RecordInv, PagesKnown
<1>3. TodoType'
  <2>1. CASE HandleNewProposals(s)
    <3>1. PICK new \in SUBSET Token :
            /\ \A t \in new : server[t] # "none"
            /\ todo' = [todo EXCEPT ![s] = IF CtxErr THEN {} ELSE {<<t, server[t]>> : t \in new}]
      BY <2>1 DEF HandleNewProposals
    <3>2. {<<t, server[t]>> : t \in new} \in SUBSET (Token \X Categories)
      BY <3>1 DEF RecordInv, ServerType, Stages
    <3> QED BY <3>1, <3>2 DEF RecordInv, TodoType
  <2>2. CASE RoundFails(s) \/ FetchBatch(s) \/ FetchCanceled(s)
    BY <2>2 DEF RoundFails, FetchBatch, FetchCanceled, RecordInv, TodoType
  <2> QED BY <2>1, <2>2
<1>4. db' \in [Token -> Record] /\ \A t \in Token : db'[t] = db[t]
    BY <1>1 DEF RecordInv, DbKnown
<1> QED BY <1>1, <1>2, <1>3, <1>4, DbStepRecord

LEMMA RecordInvNext == RecordInv /\ [Next]_vars => RecordInv'
<1> SUFFICES ASSUME RecordInv, [Next]_vars PROVE RecordInv'
    OBVIOUS
<1>1. ASSUME NEW s \in Syncs, SyncStep(s) PROVE RecordInv'
  <2>1. CASE GetClient(s) \/ CheckForUpdates(s)
    BY <2>1, UnchangedRecord DEF GetClient, CheckForUpdates, recordVars, dbVars
  <2>2. CASE SyncCanceled(s) \/ SyncCompletes(s)
    BY <2>2, UnchangedRecord DEF SyncCanceled, SyncCompletes, Returns, recordVars, dbVars
  <2> QED BY <1>1, <2>1, <2>2, NextPageRecord, UpdateRecord, FetchSavesRecord, RoundRecord
          DEF SyncStep
<1>2. ASSUME NEW s \in Syncs, SyncBegin(s) \/ GetClientFails(s) PROVE RecordInv'
    BY <1>2, UnchangedRecord DEF SyncBegin, GetClientFails, recordVars, dbVars
<1>3. ASSUME NEW s \in Syncs, RoundFails(s) PROVE RecordInv'
    BY <1>3, RoundRecord
<1>4. CASE StopSync
    BY <1>4, UnchangedRecord DEF StopSync, recordVars, dbVars
<1>5. ASSUME NEW t \in Token, ServerMoves(t) PROVE RecordInv'
    BY <1>5, ServerMovesRecord
<1>6. CASE UNCHANGED vars
    BY <1>6, UnchangedRecord DEF vars, recordVars
<1> QED BY <1>1, <1>2, <1>3, <1>4, <1>5, <1>6, ReaderRecord, DescriptionRecord, ClearRecord DEF Next

----------------------------------------------------------------------------
(* Notifications.                                                           *)

LEMMA ToldInvInit == Init => ToldInv
<1> SUFFICES ASSUME Init PROVE ToldInv
    OBVIOUS
<1>1. /\ page = [s \in Syncs |-> {}] /\ told = [t \in Token |-> 0]
      /\ rewound = FALSE
    BY DEF Init
<1>2. PagesInUpdate /\ PagesCurrent /\ ToldOnce
    BY <1>1 DEF PagesInUpdate, PagesCurrent, ToldOnce
<1> QED BY <1>1, <1>2 DEF ToldInv

\* A step that neither saves records nor publishes votes.
LEMMA QuietTold ==
    ASSUME ToldInv, UNCHANGED <<told, rewound, server, db>>, overlap => overlap', PagesInUpdate',
           \A s \in Syncs : page'[s] = page[s] \/ page'[s] = {}
    PROVE  ToldInv'
<1>1. PagesCurrent => PagesCurrent'
    BY DEF PagesCurrent
<1>2. ToldOnce => ToldOnce'
    BY DEF ToldOnce
<1> QED BY <1>1, <1>2 DEF ToldInv

\* A call that does not leave handleProposalsUpdate.
LEMMA ElsewhereTold ==
    ASSUME ControlType, RecordInv, ToldInv, NEW s \in Syncs, NEW label, pc[s] # "update",
           label # "update", Goto(s, label), UNCHANGED <<told, rewound, server, db, page>>,
           overlap => overlap'
    PROVE  ToldInv'
<1>1. PagesInUpdate'
    BY DEF ToldInv, PagesInUpdate, Goto, ControlType
<1> QED BY <1>1, QuietTold

LEMMA NextPageTold ==
    ASSUME ControlInv, RecordInv, ToldInv, NEW s \in Syncs, NextPage(s)
    PROVE  ToldInv'
<1> DEFINE p == Page(offset[s])
<1>1. /\ UNCHANGED <<server, db, told, rewound, overlap>>
      /\ page' = [page EXCEPT ![s] = {<<t, db[t]>> : t \in p}]
      /\ pc' = [pc EXCEPT ![s] = "update"]
    BY DEF NextPage, dbVars, syncVars, Goto
<1> HIDE DEF p
<1>2. PagesInUpdate'
    BY <1>1 DEF ToldInv, PagesInUpdate, ControlInv, ControlType, RecordInv, PagesKnown
<1>3. ToldOnce => ToldOnce'
    BY <1>1 DEF ToldOnce
<1>4. ASSUME PagesCurrent PROVE PagesCurrent'
  <2> SUFFICES ASSUME NEW q \in Syncs, NEW e \in page'[q]
               PROVE  db'[e[1]] = NoProposal \/ db'[e[1]].vote = e[2].vote
    BY DEF PagesCurrent
  <2>1. CASE q = s
    <3>1. PICK t \in p : e = <<t, db[t]>>
      BY <1>1, <2>1 DEF RecordInv, PagesKnown
    <3> QED BY <1>1, <3>1
  <2>2. CASE q # s
    BY <1>1, <1>4, <2>2 DEF PagesCurrent, RecordInv, PagesKnown
  <2> QED BY <2>1, <2>2
<1> QED BY <1>1, <1>2, <1>3, <1>4 DEF ToldInv

\* A vote is published for a proposal whose record did not say finished, and
\* now does.
LEMMA UpdateTold ==
    ASSUME ControlInv, RecordInv, ToldInv, NEW s \in Syncs, HandleProposalsUpdate(s)
    PROVE  ToldInv'
<1>1. /\ UNCHANGED <<server, rewound, overlap>> /\ page' = [page EXCEPT ![s] = {}]
      /\ pc[s] = "update" /\ DOMAIN told' = Token /\ told' = [t \in Token |-> told'[t]]
    BY DEF HandleProposalsUpdate, syncVars
<1>2. PICK label \in {"client", "page"} : pc' = [pc EXCEPT ![s] = label]
    BY DEF HandleProposalsUpdate, Goto
<1>3. PagesInUpdate'
    BY <1>1, <1>2 DEF ToldInv, PagesInUpdate, ControlInv, ControlType, RecordInv, PagesKnown
<1>4. told' \in [Token -> Nat]
  <2>1. ASSUME NEW t \in Token PROVE told'[t] \in Nat
    BY UpdateEffect DEF ToldInv
  <2> QED BY <1>1, <2>1
<1>5. ASSUME ~rewound, ~overlap PROVE PagesCurrent' /\ ToldOnce'
  <2>1. \A q \in Syncs : page'[q] = {}
    <3>1. ASSUME NEW q \in Syncs, q # s PROVE page[q] = {}
      BY <1>1, <1>5, <3>1 DEF ControlInv, OneSync, Running, ToldInv, PagesInUpdate
    <3> QED BY <1>1, <3>1 DEF RecordInv, PagesKnown
  <2>2. PagesCurrent'
    BY <2>1 DEF PagesCurrent
  <2>3. ASSUME NEW t \in Token
        PROVE  /\ told'[t] \in {0, 1}
               /\ told'[t] = 1 => /\ server'[t] \in Decided
                                  /\ db'[t] = NoProposal \/ db'[t].vote = "finished"
    <3>0. /\ told[t] \in {0, 1}
          /\ told[t] = 1 => /\ server[t] \in Decided
                            /\ db[t] = NoProposal \/ db[t].vote = "finished"
      BY <1>5 DEF ToldInv, ToldOnce
    <3>1. CASE db'[t] = db[t] /\ told'[t] = told[t]
      BY <1>1, <3>0, <3>1
    <3>2. CASE ~(db'[t] = db[t] /\ told'[t] = told[t])
      <4>1. PICK e \in page[s] :
               /\ e[1] = t
               /\ db'[t] = Updated(e[2], Fetched(server[t]))
               /\ told'[t] = IF Finishes(e[2], Fetched(server[t]))
                             THEN told[t] + 1 ELSE told[t]
        BY <3>2, UpdateEffect
      <4>2. db[t] # NoProposal
        BY <3>2, UpdateEffect
      <4>3. db[t].vote = e[2].vote
        BY <1>5, <4>1, <4>2 DEF ToldInv, PagesCurrent
      <4>4. Known(t, e[2]) /\ server[t] \in Stages
        BY <4>1 DEF RecordInv, PagesKnown, ServerType, Stages
      <4>5. db'[t].vote = VoteStatus(server[t])
        BY <4>1, <4>4, UpdatedRecord DEF Known
      <4>6. /\ Fetched(server[t]).vote = VoteStatus(server[t])
            /\ VoteStatus(server[t]) = "finished" <=> server[t] \in Decided
        BY <4>4, FetchedType
      <4> QED BY <1>1, <3>0, <4>1, <4>2, <4>3, <4>5, <4>6 DEF Finishes
    <3> QED BY <3>1, <3>2
  <2> QED BY <2>2, <2>3 DEF ToldOnce
<1> QED BY <1>1, <1>3, <1>4, <1>5 DEF ToldInv

\* A proposal whose vote was published before it was cleared is saved as decided.
LEMMA FetchSavesTold ==
    ASSUME ControlInv, RecordInv, ToldInv, NEW s \in Syncs, FetchSaves(s)
    PROVE  ToldInv'
<1>1. /\ UNCHANGED <<server, rewound, overlap, page, told>> /\ pc[s] = "fetching"
    BY DEF FetchSaves, dbVars, syncVars
<1>2. PICK label \in {"client", "fetch"} : pc' = [pc EXCEPT ![s] = label]
    BY DEF FetchSaves, Goto
<1>3. PagesInUpdate'
    BY <1>1, <1>2 DEF ToldInv, PagesInUpdate, ControlInv, ControlType
<1>4. ASSUME ~rewound, ~overlap PROVE PagesCurrent' /\ ToldOnce'
  <2>1. \A q \in Syncs : page[q] = {}
    BY <1>1, <1>4 DEF ControlInv, OneSync, Running, ToldInv, PagesInUpdate
  <2>2. PagesCurrent'
    BY <1>1, <2>1 DEF PagesCurrent
  <2>3. ASSUME NEW t \in Token, told'[t] = 1
        PROVE  server'[t] \in Decided /\ (db'[t] = NoProposal \/ db'[t].vote = "finished")
    <3>1. server[t] \in Decided /\ (db[t] = NoProposal \/ db[t].vote = "finished")
      BY <1>1, <1>4, <2>3 DEF ToldInv, ToldOnce
    <3>2. CASE db'[t] = db[t]
      BY <1>1, <3>1, <3>2
    <3>3. CASE db'[t] # db[t]
      <4>1. PICK c \in Categories : db'[t] = NewProposal(c, Fetched(server[t]))
        BY <3>3, FetchSavesEffect
      <4>2. server[t] \in Stages /\ VoteStatus(server[t]) = "finished"
        BY <3>1, FetchedType DEF Decided, Stages, Categories
      <4>3. db'[t].vote = "finished"
        BY <4>1, <4>2, NewRecord
      <4> QED BY <1>1, <3>1, <4>3
    <3> QED BY <3>2, <3>3
  <2> QED BY <1>1, <1>4, <2>2, <2>3 DEF ToldOnce, ToldInv
<1> QED BY <1>1, <1>3, <1>4 DEF ToldInv

LEMMA DescriptionTold ==
    ASSUME RecordInv, ToldInv, DescriptionSaved
    PROVE  ToldInv'
<1>1. /\ UNCHANGED <<server, page, pc, told, overlap>>
      /\ db' = [db EXCEPT ![reader[1]] = [reader[2] EXCEPT !.file = TRUE]]
      /\ rewound' = (rewound \/ db[reader[1]] # reader[2])
    BY DEF DescriptionSaved, syncVars
<1>2. reader[1] \in Token /\ reader[2] \in Record /\ reader[2] # NoProposal
    BY DEF DescriptionSaved, RecordInv, ReaderKnown
<1>3. PagesInUpdate'
    BY <1>1 DEF ToldInv, PagesInUpdate
<1>4. ASSUME ~rewound', ~overlap PROVE PagesCurrent' /\ ToldOnce'
  <2>1. ~rewound /\ db[reader[1]] = reader[2]
    BY <1>1, <1>4 DEF ToldInv
  <2>2. \A t \in Token : db[t] = NoProposal <=> db'[t] = NoProposal
    BY <1>1, <1>2, <2>1 DEF RecordInv, DbKnown, Record, NoProposal
  <2>3. \A t \in Token : db'[t].vote = db[t].vote
    BY <1>1, <1>2, <2>1 DEF RecordInv, DbKnown, Record
  <2>4. PagesCurrent /\ ToldOnce
    BY <1>4, <2>1 DEF ToldInv
  <2>5. \A s \in Syncs : \A e \in page[s] : e[1] \in Token
    BY DEF RecordInv, PagesKnown
  <2>6. PagesCurrent'
    BY <1>1, <2>2, <2>3, <2>4, <2>5 DEF PagesCurrent
  <2> QED BY <1>1, <2>2, <2>3, <2>4, <2>6 DEF ToldOnce
<1>5. rewound' \in BOOLEAN
    BY <1>1 DEF ToldInv
<1> QED BY <1>1, <1>3, <1>4, <1>5 DEF ToldInv

LEMMA ToldInvNext == ControlInv /\ RecordInv /\ ToldInv /\ [Next]_vars => ToldInv'
<1> SUFFICES ASSUME ControlInv, RecordInv, ToldInv, [Next]_vars PROVE ToldInv'
    OBVIOUS
<1>0. ControlType
    BY DEF ControlInv
<1> USE DEF dbVars, syncVars
<1>1. ASSUME NEW s \in Syncs, SyncStep(s) PROVE ToldInv'
  <2>1. CASE GetClient(s)
    BY <1>0, <2>1, ElsewhereTold DEF GetClient
  <2>2. CASE SyncCanceled(s) \/ SyncCompletes(s)
    BY <1>0, <2>2, ElsewhereTold DEF SyncCanceled, SyncCompletes, Returns
  <2>3. CASE CheckForUpdates(s)
    BY <1>0, <2>3, ElsewhereTold DEF CheckForUpdates
  <2>4. CASE HandleNewProposals(s)
    <3>1. PICK label \in {"client", "fetch"} : Goto(s, label)
      BY <2>4 DEF HandleNewProposals
    <3> QED BY <1>0, <2>4, <3>1, ElsewhereTold DEF HandleNewProposals
  <2>5. CASE FetchBatch(s)
    <3>1. PICK label \in {"client", "fetching"} : Goto(s, label)
      BY <2>5 DEF FetchBatch
    <3> QED BY <1>0, <2>5, <3>1, ElsewhereTold DEF FetchBatch
  <2>6. CASE FetchCanceled(s)
    BY <1>0, <2>6, ElsewhereTold DEF FetchCanceled
  <2> QED BY <1>1, <2>1, <2>2, <2>3, <2>4, <2>5, <2>6, NextPageTold, UpdateTold, FetchSavesTold
          DEF SyncStep
<1>2. ASSUME NEW s \in Syncs, SyncBegin(s) PROVE ToldInv'
    BY <1>0, <1>2, ElsewhereTold DEF SyncBegin
<1>3. ASSUME NEW s \in Syncs, RoundFails(s) PROVE ToldInv'
  <2>1. PagesInUpdate' /\ \A q \in Syncs : page'[q] = page[q] \/ page'[q] = {}
    BY <1>0, <1>3 DEF RoundFails, Goto, ToldInv, PagesInUpdate, ControlType, RecordInv, PagesKnown
  <2> QED BY <1>3, <2>1, QuietTold DEF RoundFails
<1>4. CASE ClearSavedProposals
  <2>1. /\ UNCHANGED <<server, page, pc, told, overlap, rewound>>
        /\ db' = [t \in Token |-> NoProposal]
    BY <1>4 DEF ClearSavedProposals
  <2>2. PagesCurrent'
    BY <2>1 DEF PagesCurrent, RecordInv, PagesKnown
  <2>3. PagesInUpdate' /\ (ToldOnce => ToldOnce')
    BY <2>1 DEF ToldOnce, ToldInv, PagesInUpdate
  <2> QED BY <2>1, <2>2, <2>3 DEF ToldInv
<1>5. ASSUME NEW t \in Token, ServerMoves(t) PROVE ToldInv'
  <2>1. UNCHANGED <<db, page, pc, told, overlap, rewound>>
    BY <1>5 DEF ServerMoves
  <2>2. \A u \in Token : server[u] \in Decided => server'[u] \in Decided
    BY <1>5, MovesForward DEF RecordInv
  <2>3. PagesInUpdate' /\ (PagesCurrent => PagesCurrent') /\ (ToldOnce => ToldOnce')
    BY <2>1, <2>2 DEF PagesCurrent, ToldOnce, ToldInv, PagesInUpdate
  <2> QED BY <2>1, <2>3 DEF ToldInv
<1>6. CASE UNCHANGED <<server, db, page, pc, told, overlap, rewound>>
    BY <1>6, QuietTold DEF ToldInv, PagesInUpdate
<1>7. ASSUME NEW s \in Syncs, GetClientFails(s) PROVE ToldInv'
    BY <1>6, <1>7 DEF GetClientFails
<1>8. CASE \/ StopSync \/ DescriptionClient \/ DescriptionFails \/ UNCHANGED vars
           \/ \E t \in Token : FetchDescription(t)
    BY <1>6, <1>8 DEF StopSync, DescriptionClient, DescriptionFails, FetchDescription, vars
<1> QED BY <1>1, <1>2, <1>3, <1>4, <1>5, <1>7, <1>8, DescriptionTold DEF Next

----------------------------------------------------------------------------
(* The list of proposals and its pages.                                     *)

\* The number of proposals of a list that come before t.
Before(list, t) == {u \in list : u > t}
PlaceIn(list, t) == Cardinality(Before(list, t))

LEMMA ListedFinite ==
    /\ Listed \subseteq Token /\ IsFiniteSet(Listed)
    /\ \A t : Place(t) = PlaceIn(Listed, t)
<1>1. Listed \subseteq Token
    BY DEF Listed
<1> QED BY <1>1, TokenAssumption, FS_Subset DEF Place, PlaceIn, Before

LEMMA PlaceType ==
    ASSUME NEW list, IsFiniteSet(list), NEW t
    PROVE  IsFiniteSet(Before(list, t)) /\ PlaceIn(list, t) \in Nat
<1>1. Before(list, t) \subseteq list
    BY DEF Before
<1>2. IsFiniteSet(Before(list, t))
    BY <1>1, FS_Subset
<1> QED BY <1>2, FS_CardinalityType DEF PlaceIn

\* A newer proposal has an earlier place.
LEMMA NewerIsFirst ==
    ASSUME NEW list, list \subseteq Nat, IsFiniteSet(list), NEW t \in list, NEW u \in list, u > t
    PROVE  PlaceIn(list, u) < PlaceIn(list, t)
<1>1. Before(list, u) \subseteq Before(list, t)
  <2>1. ASSUME NEW v \in Before(list, u) PROVE v \in Before(list, t)
    <3>1. v \in list /\ v \in Nat /\ u \in Nat /\ t \in Nat /\ v > u
      BY DEF Before
    <3> QED BY <3>1 DEF Before
  <2> QED BY <2>1
<1>2. u \in Before(list, t) /\ u \notin Before(list, u)
    BY DEF Before
<1>3. Before(list, u) # Before(list, t)
    BY <1>2
<1>4. IsFiniteSet(Before(list, t)) /\ PlaceIn(list, t) \in Nat /\ PlaceIn(list, u) \in Nat
    BY PlaceType
<1>5. /\ Cardinality(Before(list, u)) <= Cardinality(Before(list, t))
      /\ Cardinality(Before(list, u)) = Cardinality(Before(list, t))
           => Before(list, u) = Before(list, t)
    BY <1>1, <1>4, FS_Subset
<1>6. PlaceIn(list, u) <= PlaceIn(list, t) /\ PlaceIn(list, u) # PlaceIn(list, t)
    BY <1>3, <1>5 DEF PlaceIn
<1> QED BY <1>4, <1>6

\* A list that grows moves its proposals back.
LEMMA PlaceGrows ==
    ASSUME NEW list, NEW longer, IsFiniteSet(longer), list \subseteq longer, NEW t
    PROVE  PlaceIn(list, t) <= PlaceIn(longer, t)
<1>1. Before(list, t) \subseteq Before(longer, t)
    BY DEF Before
<1> QED BY <1>1, PlaceType, FS_Subset DEF PlaceIn

\* A page has at most PageSize proposals.
LEMMA PageIsShort ==
    ASSUME NEW n \in Nat
    PROVE  /\ Page(n) \subseteq Listed /\ Cardinality(Page(n)) \in Nat
           /\ Cardinality(Page(n)) <= PageSize
<1> DEFINE I == n .. n + PageSize - 1
           f == [t \in Page(n) |-> Place(t)]
<1>1. Page(n) \subseteq Listed /\ \A t \in Page(n) : Place(t) \in I
    BY DEF Page
<1>2. PageSize \in Nat /\ PageSize > 0
    BY PageSizeAssumption
<1>3. IsFiniteSet(I) /\ Cardinality(I) = PageSize
  <2>1. n \in Int /\ n + PageSize - 1 \in Int /\ ~(n > n + PageSize - 1)
        /\ (n + PageSize - 1) - n + 1 = PageSize
    BY <1>2
  <2> QED BY <2>1, FS_Interval
<1>4. ASSUME NEW t \in Page(n), NEW u \in Page(n), Place(t) = Place(u) PROVE t = u
  <2>1. Listed \subseteq Nat /\ IsFiniteSet(Listed) /\ t \in Listed /\ u \in Listed
    BY <1>1, ListedFinite, TokenAssumption
  <2>2. PlaceIn(Listed, t) = PlaceIn(Listed, u)
    BY <1>4, ListedFinite
  <2>3. ~(t > u) /\ ~(u > t)
    <3>1. t > u => PlaceIn(Listed, t) < PlaceIn(Listed, u)
      BY <2>1, NewerIsFirst
    <3>2. u > t => PlaceIn(Listed, u) < PlaceIn(Listed, t)
      BY <2>1, NewerIsFirst
    <3>3. PlaceIn(Listed, t) \in Nat
      BY <2>1, PlaceType
    <3> QED BY <2>2, <3>1, <3>2, <3>3
  <2>4. t \in Nat /\ u \in Nat
    BY <2>1
  <2> QED BY <2>3, <2>4
<1>5. f \in Injection(Page(n), I)
    BY <1>1, <1>4 DEF Injection, IsInjective
<1> HIDE DEF f, I
<1>6. IsFiniteSet(Page(n)) /\ Cardinality(Page(n)) <= Cardinality(I)
    BY <1>3, <1>5, FS_Injection
<1> QED BY <1>1, <1>3, <1>6, FS_CardinalityType

NatLess == OpToRel(<, Nat)

LEMMA NatLessIs ==
    ASSUME NEW x \in Nat, NEW y \in Nat
    PROVE  <<x, y>> \in NatLess <=> x < y
BY DEF NatLess, OpToRel

LEMMA Least ==
    ASSUME NEW T, T \subseteq Nat, T # {}
    PROVE  \E d \in T : \A e \in T : e >= d
<1>1. IsWellFoundedOn(NatLess, Nat)
    BY NatLessThanWellFounded DEF NatLess
<1>2. \E d \in T : \A e \in T : ~(<<e, d>> \in NatLess)
    BY <1>1, WFMin, Zenon
<1>3. PICK d \in T : \A e \in T : ~(<<e, d>> \in NatLess)
    BY <1>2
<1>4. \A e \in T : ~(e < d)
    BY <1>3, NatLessIs
<1> QED BY <1>4

\* A proposal that is not the first of the list has one just before it.
LEMMA JustBefore ==
    ASSUME NEW list, list \subseteq Nat, IsFiniteSet(list), NEW t \in list, PlaceIn(list, t) # 0
    PROVE  \E u \in list : PlaceIn(list, t) = PlaceIn(list, u) + 1
<1>1. IsFiniteSet(Before(list, t)) /\ Before(list, t) # {} /\ Before(list, t) \subseteq Nat
    BY PlaceType, FS_EmptySet DEF PlaceIn, Before
<1>2. PICK u \in Before(list, t) : \A v \in Before(list, t) : v >= u
    BY <1>1, Least
<1>3. u \in list /\ u \in Nat /\ t \in Nat /\ u > t
    BY <1>2 DEF Before
<1>4. Before(list, t) = Before(list, u) \cup {u}
  <2>1. ASSUME NEW v \in Before(list, t) PROVE v \in Before(list, u) \cup {u}
    <3>1. v \in list /\ v \in Nat /\ v >= u
      BY <1>1, <1>2 DEF Before
    <3> QED BY <1>3, <3>1 DEF Before
  <2>2. ASSUME NEW v \in Before(list, u) PROVE v \in Before(list, t)
    <3>1. v \in list /\ v \in Nat /\ v > u
      BY DEF Before
    <3> QED BY <1>3, <3>1 DEF Before
  <2> QED BY <1>2, <2>1, <2>2
<1>5. u \notin Before(list, u)
    BY <1>3 DEF Before
<1>6. Cardinality(Before(list, u) \cup {u}) = Cardinality(Before(list, u)) + 1
    BY <1>5, PlaceType, FS_AddElement
<1> QED BY <1>3, <1>4, <1>6 DEF PlaceIn

\* The offset of an empty page lies behind the list.
LEMMA EmptyPageIsLast ==
    ASSUME NEW n \in Nat, Page(n) = {}
    PROVE  \A t \in Listed : Place(t) < n
<1>1. Listed \subseteq Nat /\ IsFiniteSet(Listed) /\ \A t : Place(t) = PlaceIn(Listed, t)
    BY ListedFinite, TokenAssumption
<1>2. \A t \in Listed : Place(t) \in Nat
    BY <1>1, PlaceType
<1> DEFINE T == {Place(t) : t \in {u \in Listed : Place(u) >= n}}
<1>3. SUFFICES ASSUME T # {} PROVE FALSE
    BY <1>2
<1>4. T \subseteq Nat
    BY <1>2
<1>5. PICK d \in T : \A e \in T : e >= d
    BY <1>3, <1>4, Least
<1>6. PICK t \in Listed : Place(t) = d /\ d >= n
    BY <1>5
<1>7. Place(t) \notin n .. n + PageSize - 1
    BY DEF Page
<1>8. PageSize \in Nat /\ PageSize > 0
    BY PageSizeAssumption
<1>9. Place(t) \in Nat /\ Place(t) > n
    BY <1>2, <1>6, <1>7, <1>8
<1>10. PICK u \in Listed : Place(t) = Place(u) + 1
  <2>1. PlaceIn(Listed, t) # 0
    BY <1>1, <1>9
  <2> QED BY <1>1, <2>1, JustBefore
<1>11. Place(u) \in Nat /\ Place(u) >= n /\ Place(u) < d
    BY <1>2, <1>6, <1>9, <1>10
<1>12. Place(u) \in T
    BY <1>11
<1> QED BY <1>4, <1>5, <1>11, <1>12

----------------------------------------------------------------------------
(* Freshness.                                                               *)

\* The stage of a proposal and its past.
LEMMA ReachesOn ==
    ASSUME NEW c \in Stages, NEW d \in Stages, Reaches(c, d)
    PROVE  /\ Rank(VoteStatus(c)) \in Nat /\ Rank(VoteStatus(d)) \in Nat
           /\ c # "none" => Rank(VoteStatus(d)) >= Rank(VoteStatus(c))
           /\ c = "abandoned" => d = "abandoned"
           /\ d = "abandoned" => Rank(VoteStatus(c)) = 0
           /\ \A m \in Moves : d = m[1] => m[2] \in Stages /\ Reaches(c, m[2])
<1>1. /\ VoteStatus("none") = "none" /\ VoteStatus("pre") = "none"
      /\ VoteStatus("abandoned") = "none" /\ VoteStatus("active") = "started"
      /\ VoteStatus("approved") = "finished" /\ VoteStatus("rejected") = "finished"
    BY DEF VoteStatus
<1>2. Rank("none") = 0 /\ Rank("started") = 1 /\ Rank("finished") = 2
    BY DEF Rank
<1> QED BY <1>1, <1>2 DEF Reaches, Stages, Categories, Decided, Moves

\* A record as the server has the proposal now.
Current(r, c) == /\ r.category # "none" /\ r.vote = VoteStatus(c)
                 /\ r.abandoned <=> c = "abandoned"

\* Two records that differ in nothing a list or a vote depends on.
Alike(r, o) == r.category = o.category /\ r.vote = o.vote /\ r.abandoned = o.abandoned

LEMMA CurrentCovers ==
    ASSUME NEW c \in Stages, NEW d \in Stages, Reaches(c, d), NEW r, Current(r, d)
    PROVE  Covers(r, c)
<1>1. r # NoProposal
    BY DEF Current, NoProposal
<1> QED BY <1>1, ReachesOn DEF Current, Covers

LEMMA AlikeCovers ==
    ASSUME NEW c, NEW r, NEW o, Alike(r, o), Covers(o, c), o = NoProposal \/ Filed(o)
    PROVE  Covers(r, c)
<1>1. o # NoProposal => r # NoProposal
    BY DEF Alike, Filed, NoProposal
<1> QED BY <1>1 DEF Alike, Covers

\* A proposal that the list leaves out is saved as abandoned, or was not there.
LEMMA UnlistedCovers ==
    ASSUME RecordInv, RecordsFiled, SeenBefore, NEW s \in Syncs, NEW t \in Saved, t \notin Listed
    PROVE  UpToDate(s, t)
<1>1. t \in Token /\ db[t] # NoProposal /\ db[t].category \in {"none", "abandoned"}
    BY DEF Saved, Listed
<1>2. db[t].abandoned
    BY <1>1 DEF RecordsFiled, Filed
<1>3. db[t] \in Record /\ server[t] \in Stages /\ server[t] = "abandoned"
    BY <1>1, <1>2 DEF RecordInv, DbKnown, Known, ServerType, Stages
<1>4. fresh[s][t] \in Stages /\ Reaches(fresh[s][t], server[t])
    BY <1>1 DEF SeenBefore
<1>5. Rank(VoteStatus(fresh[s][t])) = 0
    BY <1>3, <1>4, ReachesOn
<1>6. Rank(db[t].vote) \in Nat
    BY <1>3 DEF Record, Rank
<1> QED BY <1>1, <1>2, <1>5, <1>6 DEF UpToDate, Covers

\* The records the updates and the fetches save.
LEMMA UpdatedFiled ==
    ASSUME NEW old \in Record, Filed(old), NEW now \in Stages, old.abandoned => now = "abandoned"
    PROVE  /\ Filed(Updated(old, Fetched(now)))
           /\ Current(Updated(old, Fetched(now)), now)
<1> DEFINE f == Fetched(now)
           c == CategoryAfter(old, f)
<1>1. /\ f.vote = VoteStatus(now) /\ f.vote \in {"none", "started", "finished"}
      /\ f.abandoned \in BOOLEAN /\ (f.abandoned <=> now = "abandoned")
    BY FetchedType
<1> HIDE DEF f
<1>2. c # "none" /\ (c = "abandoned" => f.abandoned)
    BY <1>1 DEF CategoryAfter, Filed, Record
<1> HIDE DEF c
<1>3. Updated(old, f) = [old EXCEPT !.category = c, !.vote = f.vote, !.approved = f.approved,
                                    !.abandoned = f.abandoned]
    BY DEF Updated, c
<1>4. /\ Updated(old, f).category = c /\ Updated(old, f).vote = f.vote
      /\ Updated(old, f).abandoned = f.abandoned
    BY <1>3 DEF Record
<1> QED BY <1>1, <1>2, <1>4 DEF Filed, Current, f

LEMMA NewFiled ==
    ASSUME NEW c \in Categories, NEW now \in Stages, Reaches(c, now)
    PROVE  /\ Filed(NewProposal(c, Fetched(now)))
           /\ Current(NewProposal(c, Fetched(now)), now)
<1>1. /\ Fetched(now).vote = VoteStatus(now)
      /\ Fetched(now).abandoned <=> now = "abandoned"
    BY FetchedType
<1>2. c \in Stages /\ c # "none" /\ (c = "abandoned" => now = "abandoned")
    BY ReachesOn DEF Stages, Categories
<1> QED BY <1>1, <1>2 DEF NewProposal, Filed, Current

----------------------------------------------------------------------------
(* Freshness: steps that save records.                                      *)

\* What is saved is as recent as the server, or changes nothing that matters;
\* a call that goes on finds everything listed that was.
DbMoves ==
    /\ UNCHANGED server
    /\ \A t \in Token : Alike(db'[t], db[t]) \/ Current(db'[t], server[t])
    /\ Listed \subseteq Listed' \/ \A s \in Syncs : Running(s) => s \in shifted'

LEMMA SavedStays ==
    ASSUME RecordsFiled, DbMoves, NEW t \in Saved
    PROVE  t \in Saved'
<1>1. t \in Token /\ db[t].category # "none"
    BY DEF Saved, RecordsFiled, Filed
<1>2. db'[t].category # "none"
    BY <1>1 DEF DbMoves, Alike, Current
<1> QED BY <1>1, <1>2 DEF Saved, NoProposal

LEMMA UpToDateStays ==
    ASSUME RecordInv, RecordsFiled, SeenBefore, DbMoves, NEW s \in Syncs, NEW t \in Token,
           fresh'[s] = fresh[s], UpToDate(s, t) \/ Current(db'[t], server[t])
    PROVE  UpToDate(s, t)'
<1>1. CASE Current(db'[t], server[t])
  <2>1. fresh[s][t] \in Stages /\ server[t] \in Stages /\ Reaches(fresh[s][t], server[t])
    BY DEF SeenBefore, RecordInv, ServerType, Stages
  <2>2. Covers(db'[t], fresh[s][t])
    BY <1>1, <2>1, CurrentCovers
  <2> QED BY <2>2 DEF UpToDate
<1>2. CASE UpToDate(s, t) /\ Alike(db'[t], db[t])
  <2>1. db[t] = NoProposal \/ Filed(db[t])
    BY DEF RecordsFiled
  <2>2. Covers(db'[t], fresh[s][t])
    BY <1>2, <2>1, AlikeCovers DEF UpToDate
  <2> QED BY <2>2 DEF UpToDate
<1> QED BY <1>1, <1>2 DEF DbMoves

\* No proposal moves to a place before the offset unless it is up to date there.
LEMMA PlacesStay ==
    ASSUME DbMoves, Listed \subseteq Listed', NEW n \in Nat, NEW t \in Listed', Place(t)' < n
    PROVE  t \in Token /\ (Current(db'[t], server[t]) \/ (t \in Listed /\ Place(t) < n))
<1>1. t \in Token /\ db'[t].category \notin {"none", "abandoned"}
    BY DEF Listed
<1>2. CASE t \in Listed
  <2>1. IsFiniteSet(Listed') /\ Place(t)' = PlaceIn(Listed', t)
    <3>1. Listed' \subseteq Token
      BY DEF Listed
    <3> QED BY <3>1, TokenAssumption, FS_Subset DEF Place, PlaceIn, Before
  <2>2. Place(t) = PlaceIn(Listed, t) /\ IsFiniteSet(Listed)
    BY ListedFinite
  <2>3. PlaceIn(Listed, t) <= PlaceIn(Listed', t)
    BY <2>1, PlaceGrows
  <2>4. PlaceIn(Listed, t) \in Nat /\ PlaceIn(Listed', t) \in Nat
    BY <2>1, <2>2, PlaceType
  <2> QED BY <1>1, <1>2, <2>1, <2>2, <2>3, <2>4
<1>3. CASE t \notin Listed
    BY <1>1, <1>3 DEF Listed, DbMoves, Alike
<1> QED BY <1>2, <1>3

\* A call that takes no part in the step.
LEMMA OthersFresh ==
    ASSUME RecordInv, FreshInv, DbMoves, NEW s \in Syncs, s \notin shifted, s \notin shifted',
           UNCHANGED <<pc[s], offset[s], page[s], todo[s], fresh[s]>>
    PROVE  FreshFor(s)'
<1> SUFFICES ASSUME Running(s) PROVE FreshFor(s)'
    BY DEF FreshFor, Updating, Running
<1>1. FreshFor(s) /\ RecordsFiled /\ SeenBefore /\ offset[s] \in Nat /\ Listed \subseteq Listed'
    BY DEF FreshInv, DbMoves
<1>2. \A t \in Token : UpToDate(s, t) \/ Current(db'[t], server[t]) => UpToDate(s, t)'
    BY <1>1, UpToDateStays
<1>3. \A t \in Token : /\ Updating(s, t)' <=> Updating(s, t)
                       /\ Fetching(s, t)' <=> Fetching(s, t)
    BY DEF Updating, Fetching
<1>4. ASSUME pc'[s] \in {"page", "update"}, NEW t \in Listed', Place(t)' < offset'[s]
      PROVE  UpToDate(s, t)' \/ Updating(s, t)'
  <2>1. t \in Token /\ (Current(db'[t], server[t]) \/ (t \in Listed /\ Place(t) < offset[s]))
    BY <1>1, <1>4, PlacesStay
  <2> QED BY <1>1, <1>2, <1>3, <1>4, <2>1 DEF FreshFor
<1>5. \A t \in Token : Updating(s, t)' => t \in Saved'
    BY <1>1, <1>3, SavedStays DEF FreshFor
<1>6. pc'[s] \in {"fetch", "fetching"} => \A t \in Token : UpToDate(s, t)' \/ Fetching(s, t)'
    BY <1>1, <1>2, <1>3 DEF FreshFor
<1> QED BY <1>4, <1>5, <1>6 DEF FreshFor

----------------------------------------------------------------------------
(* Freshness: the actions.                                                  *)

LEMMA QuietDb ==
    ASSUME UNCHANGED <<server, db>>
    PROVE  DbMoves
BY DEF DbMoves, Alike, Listed

\* Records that were filed stay so.
LEMMA FiledStays ==
    ASSUME RecordsFiled, \A t \in Token : db'[t] = db[t] \/ Filed(db'[t]),
           \A s \in Syncs : page'[s] \subseteq page[s] \/ \A e \in page'[s] : Filed(e[2]),
           reader' # <<>> => Filed(reader'[2])
    PROVE  RecordsFiled'
BY DEF RecordsFiled

\* A call may look at the server again, and forget what it has seen.
LEMMA SeenStays ==
    ASSUME RecordInv, SeenBefore, UNCHANGED server, fresh' \in [Syncs -> [Token -> Stages]],
           \A s \in Syncs, t \in Token : fresh'[s][t] \in {fresh[s][t], server[t], "none"},
           \A s \in Syncs : \A e \in todo'[s] : e \in todo[s] \/ e[2] = server[e[1]]
    PROVE  SeenBefore'
BY DEF SeenBefore, Reaches

\* A step of call s.
LEMMA CallFresh ==
    ASSUME RecordInv, FreshInv, DbMoves, NEW s \in Syncs, shifted \ {s} \subseteq shifted',
           \A q \in Syncs \ {s} : UNCHANGED <<pc[q], offset[q], page[q], todo[q], fresh[q]>>,
           offset' \in [Syncs -> Nat], RecordsFiled', SeenBefore', s \notin shifted' => FreshFor(s)'
    PROVE  FreshInv'
<1>1. ASSUME NEW q \in Syncs, q \notin shifted' PROVE FreshFor(q)'
  <2>1. CASE q = s
    BY <1>1, <2>1
  <2>2. CASE q # s
    <3>1. q \notin shifted /\ UNCHANGED <<pc[q], offset[q], page[q], todo[q], fresh[q]>>
      BY <1>1, <2>2
    <3> QED BY <1>1, <3>1, OthersFresh
  <2> QED BY <2>1, <2>2
<1> QED BY <1>1 DEF FreshInv

\* A step of no call.
LEMMA OutsideFresh ==
    ASSUME RecordInv, FreshInv, DbMoves, shifted \subseteq shifted',
           UNCHANGED <<pc, offset, page, todo, fresh>>, RecordsFiled', SeenBefore'
    PROVE  FreshInv'
<1>1. ASSUME NEW q \in Syncs, q \notin shifted' PROVE FreshFor(q)'
    BY <1>1, OthersFresh
<1> QED BY <1>1 DEF FreshInv

LEMMA FreshInvInit == Init => FreshInv
<1> SUFFICES ASSUME Init PROVE FreshInv
    OBVIOUS
<1>1. PICK c \in {"none", "pre"} :
         /\ server = [t \in Token |-> c]
         /\ db = [t \in Token |-> IF c = "pre" THEN NewProposal(c, Fetched(c)) ELSE NoProposal]
    BY DEF Init
<1>2. /\ page = [s \in Syncs |-> {}] /\ reader = <<>> /\ todo = [s \in Syncs |-> {}]
      /\ pc = [s \in Syncs |-> "idle"] /\ offset = [s \in Syncs |-> 0]
      /\ fresh = [s \in Syncs |-> [t \in Token |-> "none"]]
    BY DEF Init
<1>3. \A t \in Token : db[t] = NoProposal \/ Filed(db[t])
  <2>1. CASE c = "pre"
    <3>1. Filed(NewProposal("pre", Fetched("pre")))
      BY NewFiled DEF Reaches, Stages, Categories
    <3> QED BY <1>1, <2>1, <3>1
  <2>2. CASE c = "none"
    BY <1>1, <2>2
  <2> QED BY <2>1, <2>2
<1>4. RecordsFiled
    BY <1>2, <1>3 DEF RecordsFiled
<1>5. SeenBefore
    BY <1>2 DEF SeenBefore, Stages, Reaches
<1>6. \A s \in Syncs : FreshFor(s)
    BY <1>2 DEF FreshFor, Updating
<1>7. offset \in [Syncs -> Nat]
    BY <1>2
<1> QED BY <1>4, <1>5, <1>6, <1>7 DEF FreshInv

LEMMA NextPageFresh ==
    ASSUME ControlInv, RecordInv, FreshInv, NEW s \in Syncs, NextPage(s)
    PROVE  FreshInv'
<1> DEFINE p == Page(offset[s])
<1>1. /\ UNCHANGED <<server, db, reader, todo, fresh, shifted>>
      /\ page' = [page EXCEPT ![s] = {<<t, db[t]>> : t \in p}]
      /\ offset' = [offset EXCEPT ![s] = @ + Cardinality(p)]
      /\ pc' = [pc EXCEPT ![s] = "update"] /\ pc[s] = "page"
    BY DEF NextPage, dbVars, Goto
<1>2. offset \in [Syncs -> Nat] /\ RecordsFiled /\ SeenBefore
    BY DEF FreshInv
<1>3. p \subseteq Listed /\ Cardinality(p) \in Nat /\ Cardinality(p) <= PageSize
    BY <1>2, PageIsShort
<1>4. \A t \in Listed : Place(t) \in offset[s] .. offset[s] + PageSize - 1 => t \in p
    BY DEF Page
<1> HIDE DEF p
<1>5. offset' \in [Syncs -> Nat]
    BY <1>1, <1>2, <1>3
<1>6. \A t \in Listed : t \in Saved /\ Filed(db[t])
    BY <1>2 DEF Listed, Saved, RecordsFiled, NoProposal
<1>7. pc' \in [Syncs -> Labels] /\ page'[s] = {<<t, db[t]>> : t \in p}
    BY <1>1 DEF ControlInv, ControlType, Labels, RecordInv, PagesKnown
<1>8. RecordsFiled'
  <2>1. \A e \in page'[s] : Filed(e[2])
    BY <1>3, <1>6, <1>7
  <2>2. \A q \in Syncs \ {s} : page'[q] = page[q]
    BY <1>1 DEF RecordInv, PagesKnown
  <2> QED BY <1>1, <1>2, <2>1, <2>2, FiledStays DEF RecordsFiled
<1>9. SeenBefore'
    BY <1>1, <1>2 DEF SeenBefore
<1>10. ASSUME s \notin shifted' PROVE FreshFor(s)'
  <2>1. pc'[s] = "update" /\ \A t : Updating(s, t)' <=> t \in p
    <3>1. pc'[s] = "update"
      BY <1>1 DEF ControlInv, ControlType
    <3>2. \A t : (\E e \in page'[s] : e[1] = t) <=> t \in p
      <4>1. ASSUME NEW t \in p PROVE \E e \in page'[s] : e[1] = t
        <5>1. <<t, db[t]>> \in page'[s] /\ <<t, db[t]>>[1] = t
          BY <1>7
        <5> QED BY <5>1, Zenon
      <4> QED BY <1>7, <4>1
    <3> QED BY <3>1, <3>2 DEF Updating
  <2>2. \A t \in Listed : Place(t) < offset[s] => UpToDate(s, t)
    BY <1>1, <1>10 DEF FreshInv, FreshFor, Updating
  <2>3. Listed' = Listed /\ Saved' = Saved /\ \A t : Place(t)' = Place(t)
    BY <1>1 DEF Listed, Saved, Place
  <2>4. \A t : UpToDate(s, t)' <=> UpToDate(s, t)
    BY <1>1 DEF UpToDate
  <2>5. ASSUME NEW t \in Listed, Place(t) < offset'[s] PROVE UpToDate(s, t) \/ t \in p
    <3>1. Place(t) \in Nat /\ offset[s] \in Nat /\ PageSize \in Nat
          /\ offset'[s] = offset[s] + Cardinality(p)
      BY <1>1, <1>2, ListedFinite, PlaceType, PageSizeAssumption
    <3>2. Place(t) < offset[s] \/ Place(t) \in offset[s] .. offset[s] + PageSize - 1
      BY <1>3, <2>5, <3>1
    <3> QED BY <1>4, <2>2, <3>2
  <2> QED BY <1>3, <1>6, <2>1, <2>3, <2>4, <2>5 DEF FreshFor
<1>11. \A q \in Syncs \ {s} : UNCHANGED <<pc[q], offset[q], page[q], todo[q], fresh[q]>>
    BY <1>1, <1>2 DEF ControlInv, ControlType, RecordInv, PagesKnown
<1> QED BY <1>1, <1>5, <1>8, <1>9, <1>10, <1>11, QuietDb, CallFresh

\* The pages are done: what is saved is up to date, the rest is to be fetched.
LEMMA NewProposalsFresh ==
    ASSUME ControlInv, RecordInv, FreshInv, NEW s \in Syncs, HandleNewProposals(s)
    PROVE  FreshInv'
<1> DEFINE new == {t \in Token : server[t] # "none" /\ t \notin Saved}
<1>1. /\ UNCHANGED <<server, db, reader, page, offset, fresh, shifted>>
      /\ todo' = [todo EXCEPT ![s] = IF CtxErr THEN {} ELSE {<<t, server[t]>> : t \in new}]
      /\ pc' = [pc EXCEPT ![s] = IF new # {} /\ CtxErr THEN "client" ELSE "fetch"]
      /\ pc[s] = "page" /\ Page(offset[s]) = {}
    BY DEF HandleNewProposals, dbVars, Goto
<1> HIDE DEF new
<1>2. offset \in [Syncs -> Nat] /\ RecordsFiled /\ SeenBefore
    BY DEF FreshInv
<1>3. RecordsFiled' /\ offset' \in [Syncs -> Nat]
    BY <1>1, <1>2 DEF RecordsFiled
<1>4. todo'[s] = {} \/ todo'[s] = {<<t, server[t]>> : t \in new}
    BY <1>1 DEF RecordInv, TodoType
<1>5. SeenBefore'
  <2>1. ASSUME NEW q \in Syncs, NEW e \in todo'[q] PROVE e \in todo[q] \/ e[2] = server[e[1]]
    BY <1>1, <1>4, <2>1 DEF RecordInv, TodoType
  <2>2. fresh' \in [Syncs -> [Token -> Stages]] /\ fresh' = fresh
    BY <1>1, <1>2 DEF SeenBefore
  <2> QED BY <1>1, <1>2, <2>1, <2>2, SeenStays
<1>6. ASSUME s \notin shifted', pc'[s] = "fetch" PROVE FreshFor(s)'
  <2>1. todo'[s] = {<<t, server[t]>> : t \in new}
    BY <1>1, <1>6 DEF RecordInv, TodoType, ControlInv, ControlType
  <2>2. \A t \in Listed : UpToDate(s, t)
    <3>1. \A t \in Listed : Place(t) < offset[s]
      BY <1>1, <1>2, EmptyPageIsLast
    <3> QED BY <1>1, <1>6, <3>1 DEF FreshInv, FreshFor, Updating
  <2>3. ASSUME NEW t \in Token PROVE UpToDate(s, t) \/ t \in new
    <3>1. CASE t \in Saved
      BY <1>2, <2>2, <3>1, UnlistedCovers
    <3>2. CASE t \notin Saved /\ fresh[s][t] # "none"
      <4>1. server[t] # "none"
        BY <1>2, <3>2 DEF SeenBefore, Reaches, Decided
      <4> QED BY <3>2, <4>1 DEF new
    <3>3. CASE fresh[s][t] = "none"
      BY <3>3 DEF UpToDate, Covers
    <3> QED BY <3>1, <3>2, <3>3
  <2>4. \A t \in Token : UpToDate(s, t)' <=> UpToDate(s, t)
    BY <1>1 DEF UpToDate
  <2>5. ASSUME NEW t \in new PROVE Fetching(s, t)'
    <3>1. <<t, server[t]>> \in todo'[s] /\ <<t, server[t]>>[1] = t
      BY <2>1
    <3> QED BY <3>1, Zenon DEF Fetching
  <2>6. \A t \in Token : ~Updating(s, t)'
    BY <1>6 DEF Updating
  <2> QED BY <1>6, <2>3, <2>4, <2>5, <2>6 DEF FreshFor
<1>7. ASSUME s \notin shifted', pc'[s] # "fetch" PROVE FreshFor(s)'
  <2>1. pc'[s] = "client"
    BY <1>1, <1>7 DEF ControlInv, ControlType
  <2> QED BY <2>1 DEF FreshFor, Updating
<1>8. \A q \in Syncs \ {s} : UNCHANGED <<pc[q], offset[q], page[q], todo[q], fresh[q]>>
    BY <1>1 DEF ControlInv, ControlType, RecordInv, TodoType
<1> QED BY <1>1, <1>3, <1>5, <1>6, <1>7, <1>8, QuietDb, CallFresh

\* The proposals of a batch, and what the call has still to fetch.
LEMMA FetchSavesLeaves ==
    ASSUME RecordInv, SeenBefore, NEW s \in Syncs, FetchSaves(s), NEW t \in Token, Fetching(s, t),
           ~Goto(s, "client")
    PROVE  Goto(s, "fetch") /\ (Fetching(s, t)' \/ Current(db'[t], server[t]))
<1>1. PICK batch \in SUBSET todo[s] :
        /\ todo' = [todo EXCEPT ![s] = @ \ batch]
        /\ Goto(s, "fetch")
        /\ db' = [u \in Token |-> IF \E e \in batch : e[1] = u
                                  THEN NewProposal((CHOOSE e \in batch : e[1] = u)[2],
                                                   Fetched(server[u]))
                                  ELSE db[u]]
    BY DEF FetchSaves
<1>2. CASE \E e \in batch : e[1] = t
  <2> DEFINE new == CHOOSE e \in batch : e[1] = t
  <2>1. new \in batch /\ new[1] = t
    BY <1>2
  <2>2. db'[t] = NewProposal(new[2], Fetched(server[t]))
    BY <1>1, <1>2
  <2> HIDE DEF new
  <2>3. new[2] \in Categories /\ Reaches(new[2], server[t]) /\ server[t] \in Stages
    BY <1>1, <2>1 DEF RecordInv, TodoType, SeenBefore, ServerType
  <2> QED BY <1>1, <2>2, <2>3, NewFiled
<1>3. CASE ~\E e \in batch : e[1] = t
  <2>1. PICK e \in todo[s] : e[1] = t
    BY DEF Fetching
  <2>2. e \in todo'[s]
    BY <1>1, <1>3, <2>1 DEF RecordInv, TodoType
  <2> QED BY <1>1, <2>1, <2>2 DEF Fetching
<1> QED BY <1>2, <1>3

LEMMA FetchSavesFresh ==
    ASSUME ControlInv, RecordInv, FreshInv, NEW s \in Syncs, FetchSaves(s)
    PROVE  FreshInv'
<1>1. /\ UNCHANGED <<server, reader, page, offset, fresh, shifted>> /\ pc[s] = "fetching"
      /\ todo' \in [Syncs -> SUBSET (Token \X Categories)]
      /\ \A q \in Syncs : todo'[q] \subseteq todo[q] /\ (q # s => todo'[q] = todo[q])
    BY DEF FetchSaves, dbVars, RecordInv, TodoType
<1>2. offset \in [Syncs -> Nat] /\ RecordsFiled /\ SeenBefore
    BY DEF FreshInv
<1>3. ASSUME NEW t \in Token, db'[t] # db[t]
      PROVE  t \notin Saved /\ Filed(db'[t]) /\ Current(db'[t], server[t])
  <2>1. PICK c \in Categories : /\ <<t, c>> \in todo[s] /\ t \notin Saved
                                /\ db'[t] = NewProposal(c, Fetched(server[t]))
    BY <1>3, FetchSavesEffect
  <2>2. Reaches(c, server[t]) /\ server[t] \in Stages
    BY <1>2, <2>1 DEF SeenBefore, RecordInv, ServerType
  <2> QED BY <2>1, <2>2, NewFiled
<1>4. DbMoves
  <2>1. \A t \in Token : Alike(db'[t], db[t]) \/ Current(db'[t], server[t])
    BY <1>3 DEF Alike
  <2>2. Listed \subseteq Listed'
    <3>1. ASSUME NEW t \in Listed PROVE t \in Listed'
      <4>1. t \in Token /\ t \in Saved
        BY DEF Listed, Saved, NoProposal
      <4>2. db'[t] = db[t]
        BY <1>3, <4>1
      <4> QED BY <4>2 DEF Listed
    <3> QED BY <3>1
  <2> QED BY <1>1, <2>1, <2>2 DEF DbMoves
<1>5. RecordsFiled'
  <2>1. \A t \in Token : db'[t] = db[t] \/ Filed(db'[t])
    BY <1>3
  <2> QED BY <1>1, <1>2, <2>1, FiledStays DEF RecordsFiled
<1>6. SeenBefore'
    BY <1>1, <1>2 DEF SeenBefore
<1>7. ASSUME s \notin shifted' PROVE FreshFor(s)'
  <2>1. PICK label \in {"client", "fetch"} : Goto(s, label)
    BY DEF FetchSaves
  <2>2. pc'[s] = label
    BY <2>1 DEF Goto, ControlInv, ControlType
  <2>3. CASE label = "client"
    BY <2>2, <2>3 DEF FreshFor, Updating
  <2>4. CASE label = "fetch"
    <3>1. ~Goto(s, "client")
      BY <2>2, <2>4 DEF Goto, ControlInv, ControlType
    <3>2. ASSUME NEW t \in Token PROVE UpToDate(s, t)' \/ Fetching(s, t)'
      <4>1. UpToDate(s, t) \/ Fetching(s, t)
        BY <1>1, <1>7 DEF FreshInv, FreshFor
      <4>2. UpToDate(s, t) \/ Current(db'[t], server[t]) => UpToDate(s, t)'
        BY <1>1, <1>2, <1>4, UpToDateStays
      <4> QED BY <1>2, <3>1, <4>1, <4>2, FetchSavesLeaves
    <3> QED BY <2>2, <2>4, <3>2 DEF FreshFor, Updating
  <2> QED BY <2>3, <2>4
<1>8. \A q \in Syncs \ {s} : pc'[q] = pc[q]
    BY DEF FetchSaves, Goto, ControlInv, ControlType
<1> QED BY <1>1, <1>2, <1>4, <1>5, <1>6, <1>7, <1>8, CallFresh

\* The answers for a page bring its proposals up to date.
LEMMA UpdateFresh ==
    ASSUME ControlInv, RecordInv, FreshInv, NEW s \in Syncs, HandleProposalsUpdate(s)
    PROVE  FreshInv'
<1>1. /\ UNCHANGED <<server, reader, todo, offset, fresh>> /\ pc[s] = "update"
      /\ page' = [page EXCEPT ![s] = {}] /\ shifted \subseteq shifted'
    BY DEF HandleProposalsUpdate
<1>2. offset \in [Syncs -> Nat] /\ RecordsFiled /\ SeenBefore
    BY DEF FreshInv
<1>3. ASSUME NEW t \in Token
      PROVE  \/ db'[t] = db[t]
             \/ Filed(db'[t]) /\ Current(db'[t], server[t])
  <2>1. SUFFICES ASSUME db'[t] # db[t] PROVE Filed(db'[t]) /\ Current(db'[t], server[t])
    OBVIOUS
  <2>2. PICK e \in page[s] : e[1] = t /\ db'[t] = Updated(e[2], Fetched(server[t]))
    BY <2>1, UpdateEffect
  <2>3. Known(t, e[2]) /\ Filed(e[2]) /\ server[t] \in Stages
    BY <1>2, <2>2 DEF RecordInv, PagesKnown, ServerType, RecordsFiled
  <2> QED BY <2>2, <2>3, UpdatedFiled DEF Known
<1>4. Listed \subseteq Listed' \/ \A q \in Syncs : Running(q) => q \in shifted'
  <2>1. SUFFICES ASSUME NEW t \in Listed, t \notin Listed'
                 PROVE  \A q \in Syncs : Running(q) => q \in shifted'
    OBVIOUS
  <2>2. t \in Token /\ db[t].category \notin {"none", "abandoned"}
    BY DEF Listed
  <2>3. db'[t].category \in {"none", "abandoned"} /\ db'[t] # db[t]
    BY <2>1, <2>2 DEF Listed
  <2>4. db'[t].category = "abandoned"
    BY <1>3, <2>2, <2>3 DEF Filed
  <2> DEFINE of(u) == CHOOSE r \in page[s] : r[1] = u
             updated == {u \in Token : (\E r \in page[s] : r[1] = u) /\ db[u] # NoProposal}
             next(u) == Updated(of(u)[2], Fetched(server[u]))
  <2>5. /\ db'[t] = IF t \in updated THEN next(t) ELSE db[t]
        /\ shifted' = IF \E u \in updated : db[u].category # "abandoned"
                                            /\ next(u).category = "abandoned"
                      THEN {q \in Syncs : Running(q)} \cup shifted ELSE shifted
    BY <2>2 DEF HandleProposalsUpdate
  <2> HIDE DEF updated, next
  <2>6. t \in updated /\ next(t).category = "abandoned"
    BY <2>3, <2>4, <2>5
  <2> QED BY <2>2, <2>5, <2>6
<1>5. DbMoves
    BY <1>1, <1>3, <1>4 DEF DbMoves, Alike
<1>6. RecordsFiled'
  <2>1. \A q \in Syncs : page'[q] \subseteq page[q]
    BY <1>1 DEF RecordInv, PagesKnown
  <2> QED BY <1>1, <1>2, <1>3, <2>1, FiledStays DEF RecordsFiled
<1>7. SeenBefore' /\ offset' \in [Syncs -> Nat]
    BY <1>1, <1>2 DEF SeenBefore
<1>8. ASSUME s \notin shifted' PROVE FreshFor(s)'
  <2>1. PICK label \in {"client", "page"} : Goto(s, label)
    BY DEF HandleProposalsUpdate
  <2>2. pc'[s] = label
    BY <2>1 DEF Goto, ControlInv, ControlType
  <2>3. ASSUME NEW t \in Listed', Place(t)' < offset'[s] PROVE UpToDate(s, t)'
    <3>1. s \notin shifted /\ FreshFor(s) /\ Listed \subseteq Listed'
      BY <1>1, <1>4, <1>8 DEF FreshInv, Running
    <3>2. t \in Token /\ (Current(db'[t], server[t]) \/ (t \in Listed /\ Place(t) < offset[s]))
      BY <1>1, <1>2, <1>5, <2>3, <3>1, PlacesStay
    <3>3. UpToDate(s, t) \/ Current(db'[t], server[t]) => UpToDate(s, t)'
      BY <1>1, <1>2, <1>5, <3>2, UpToDateStays
    <3>4. CASE Updating(s, t)
      <4>1. t \in Saved /\ \E r \in page[s] : r[1] = t
        BY <3>1, <3>2, <3>4 DEF FreshFor, Updating
      <4>2. PICK e \in page[s] : db'[t] = Updated(e[2], Fetched(server[t])) /\ e[1] = t
        BY <3>2, <4>1 DEF HandleProposalsUpdate, Saved
      <4>3. Known(t, e[2]) /\ Filed(e[2]) /\ server[t] \in Stages
        BY <1>2, <3>2, <4>2 DEF RecordInv, PagesKnown, ServerType, RecordsFiled
      <4>4. Current(db'[t], server[t])
        BY <4>2, <4>3, UpdatedFiled DEF Known
      <4> QED BY <3>3, <4>4
    <3>5. CASE ~Updating(s, t)
      BY <1>1, <3>1, <3>2, <3>3, <3>5 DEF FreshFor
    <3> QED BY <3>4, <3>5
  <2> QED BY <2>2, <2>3 DEF FreshFor, Updating
<1>9. \A q \in Syncs \ {s} : UNCHANGED <<pc[q], offset[q], page[q], todo[q], fresh[q]>>
    BY <1>1 DEF HandleProposalsUpdate, Goto, ControlInv, ControlType, RecordInv, PagesKnown
<1> QED BY <1>1, <1>5, <1>6, <1>7, <1>8, <1>9, CallFresh

LEMMA DescriptionFresh ==
    ASSUME RecordInv, FreshInv, DescriptionSaved
    PROVE  FreshInv'
<1>1. /\ UNCHANGED <<server, pc, offset, page, todo, fresh>> /\ reader' = <<>>
      /\ db' = [db EXCEPT ![reader[1]] = [reader[2] EXCEPT !.file = TRUE]]
      /\ shifted' = IF db[reader[1]] = reader[2] THEN shifted
                    ELSE shifted \cup {s \in Syncs : Running(s)}
    BY DEF DescriptionSaved, syncVars
<1>2. reader[1] \in Token /\ reader[2] \in Record /\ Known(reader[1], reader[2]) /\ Filed(reader[2])
    BY DEF DescriptionSaved, RecordInv, ReaderKnown, FreshInv, RecordsFiled
<1> DEFINE r == [reader[2] EXCEPT !.file = TRUE]
<1>3. Alike(r, reader[2]) /\ Filed(r)
    BY <1>2 DEF Record, Alike, Filed
<1>4. \A t \in Token : db'[t] = IF t = reader[1] THEN r ELSE db[t]
    BY <1>1 DEF RecordInv, DbKnown
<1> HIDE DEF r
<1>5. RecordsFiled' /\ SeenBefore'
  <2>1. \A t \in Token : db'[t] = db[t] \/ Filed(db'[t])
    BY <1>3, <1>4
  <2>2. RecordsFiled'
    BY <1>1, <2>1, FiledStays DEF FreshInv, RecordsFiled
  <2> QED BY <1>1, <2>2 DEF FreshInv, SeenBefore
<1>6. CASE db[reader[1]] = reader[2]
  <2>1. \A t \in Token : Alike(db'[t], db[t])
    BY <1>3, <1>4, <1>6 DEF Alike
  <2>2. DbMoves
    BY <1>1, <2>1 DEF DbMoves, Alike, Listed
  <2> QED BY <1>1, <1>5, <1>6, <2>2, OutsideFresh
<1>7. CASE db[reader[1]] # reader[2]
  <2>1. \A s \in Syncs : s \notin shifted' => FreshFor(s)'
    BY <1>1, <1>7 DEF FreshFor, Updating, Running
  <2> QED BY <1>1, <1>5, <2>1 DEF FreshInv
<1> QED BY <1>6, <1>7

LEMMA ClearFresh ==
    ASSUME RecordInv, FreshInv, ClearSavedProposals
    PROVE  FreshInv'
<1>1. /\ UNCHANGED <<server, pc, offset, page, todo, fresh, reader>>
      /\ db' = [t \in Token |-> NoProposal]
      /\ shifted' = shifted \cup {s \in Syncs : Running(s)}
    BY DEF ClearSavedProposals, syncVars
<1>2. RecordsFiled' /\ SeenBefore'
    BY <1>1 DEF FreshInv, RecordsFiled, SeenBefore
<1>3. \A s \in Syncs : s \notin shifted' => FreshFor(s)'
    BY <1>1 DEF FreshFor, Updating, Running
<1> QED BY <1>1, <1>2, <1>3 DEF FreshInv

LEMMA ServerMovesFresh ==
    ASSUME RecordInv, FreshInv, NEW t \in Token, ServerMoves(t)
    PROVE  FreshInv'
<1>1. UNCHANGED <<db, pc, offset, page, todo, fresh, reader, shifted>>
    BY DEF ServerMoves, dbVars
<1>2. PICK m \in Moves : server[t] = m[1] /\ server' = [server EXCEPT ![t] = m[2]]
    BY DEF ServerMoves
<1>3. ASSUME NEW u \in Token, NEW c \in Stages, Reaches(c, server[u]) PROVE Reaches(c, server'[u])
  <2>1. server[u] \in Stages
    BY DEF RecordInv, ServerType
  <2>2. CASE u = t
    BY <1>2, <1>3, <2>1, <2>2, ReachesOn DEF RecordInv, ServerType
  <2>3. CASE u # t
    BY <1>2, <1>3, <2>3 DEF RecordInv, ServerType
  <2> QED BY <2>2, <2>3
<1>4. SeenBefore'
  <2>1. \A s \in Syncs, u \in Token : Reaches(fresh[s][u], server'[u])
    BY <1>3 DEF FreshInv, SeenBefore
  <2>2. ASSUME NEW s \in Syncs, NEW e \in todo[s] PROVE Reaches(e[2], server'[e[1]])
    <3>1. e[1] \in Token /\ e[2] \in Stages
      BY DEF RecordInv, TodoType, Stages
    <3> QED BY <1>3, <3>1 DEF FreshInv, SeenBefore
  <2> QED BY <1>1, <2>1, <2>2 DEF FreshInv, SeenBefore
<1>5. RecordsFiled'
    BY <1>1 DEF FreshInv, RecordsFiled
<1>6. ASSUME NEW s \in Syncs, s \notin shifted' PROVE FreshFor(s)'
  <2>1. FreshFor(s)
    BY <1>1, <1>6 DEF FreshInv
  <2>2. Listed' = Listed /\ Saved' = Saved /\ \A u : Place(u)' = Place(u)
    BY <1>1 DEF Listed, Saved, Place
  <2>3. \A u : /\ UpToDate(s, u)' <=> UpToDate(s, u)
               /\ Updating(s, u)' <=> Updating(s, u)
               /\ Fetching(s, u)' <=> Fetching(s, u)
    BY <1>1 DEF UpToDate, Updating, Fetching
  <2> QED BY <1>1, <2>1, <2>2, <2>3 DEF FreshFor
<1> QED BY <1>1, <1>4, <1>5, <1>6 DEF FreshInv

\* A call that begins a round, or returns, promises nothing yet.
LEMMA RoundFresh ==
    ASSUME ControlInv, RecordInv, FreshInv, NEW s \in Syncs, NEW label, Goto(s, label),
           UNCHANGED <<server, db, reader, page, todo>>, shifted \ {s} \subseteq shifted',
           label = "done" \/ (label = "page" /\ offset'[s] = 0),
           offset' \in [Syncs -> Nat], fresh' \in [Syncs -> [Token -> Stages]],
           \A q \in Syncs \ {s} : offset'[q] = offset[q] /\ fresh'[q] = fresh[q],
           \A t \in Token : fresh'[s][t] \in {fresh[s][t], server[t], "none"}
    PROVE  FreshInv'
<1>1. \A q \in Syncs \ {s} : UNCHANGED <<pc[q], offset[q], page[q], todo[q], fresh[q]>>
    BY DEF Goto, ControlInv, ControlType
<1>2. RecordsFiled'
    BY DEF FreshInv, RecordsFiled
<1>3. SeenBefore'
  <2>1. \A q \in Syncs, t \in Token : fresh'[q][t] \in {fresh[q][t], server[t], "none"}
    OBVIOUS
  <2> QED BY <2>1, SeenStays DEF FreshInv
<1>4. pc'[s] = label
    BY DEF Goto, ControlInv, ControlType
<1>5. FreshFor(s)'
  <2>1. ASSUME label = "page", NEW t \in Listed' PROVE ~(Place(t)' < offset'[s])
    <3>1. Listed' = Listed /\ Place(t)' = Place(t) /\ Place(t) \in Nat
      <4>1. Place(t) \in Nat
        BY ListedFinite, PlaceType
      <4> QED BY <4>1 DEF Listed, Place
    <3> QED BY <2>1, <3>1
  <2> QED BY <1>4, <2>1 DEF FreshFor, Updating
<1> QED BY <1>1, <1>2, <1>3, <1>4, <1>5, QuietDb, CallFresh

\* Nor does a call that gives its round up.
LEMMA LeavesRound ==
    ASSUME ControlInv, RecordInv, FreshInv, NEW s \in Syncs, NEW label, Goto(s, label),
           label \in {"client", "check"}, UNCHANGED <<server, db, reader, offset, fresh, shifted>>,
           page' = page \/ page' = [page EXCEPT ![s] = {}],
           todo' = todo \/ todo' = [todo EXCEPT ![s] = {}]
    PROVE  FreshInv'
<1>1. /\ \A q \in Syncs : page'[q] \subseteq page[q] /\ todo'[q] \subseteq todo[q]
      /\ \A q \in Syncs \ {s} : page'[q] = page[q] /\ todo'[q] = todo[q]
    BY DEF RecordInv, PagesKnown, TodoType
<1>2. RecordsFiled' /\ SeenBefore' /\ offset' \in [Syncs -> Nat]
    BY <1>1 DEF FreshInv, RecordsFiled, SeenBefore
<1>3. pc'[s] = label /\ \A q \in Syncs \ {s} : pc'[q] = pc[q]
    BY DEF Goto, ControlInv, ControlType
<1>4. FreshFor(s)'
    BY <1>3 DEF FreshFor, Updating
<1> QED BY <1>1, <1>2, <1>3, <1>4, QuietDb, CallFresh

LEMMA FetchBatchFresh ==
    ASSUME ControlInv, RecordInv, FreshInv, NEW s \in Syncs, FetchBatch(s), ~CtxErr
    PROVE  FreshInv'
<1>1. /\ UNCHANGED <<server, db, reader, page, offset, todo, fresh, shifted>>
      /\ pc' = [pc EXCEPT ![s] = "fetching"] /\ pc[s] = "fetch"
    BY DEF FetchBatch, dbVars, Goto
<1>2. RecordsFiled' /\ SeenBefore' /\ offset' \in [Syncs -> Nat]
    BY <1>1 DEF FreshInv, RecordsFiled, SeenBefore
<1>3. pc'[s] = "fetching" /\ \A q \in Syncs \ {s} : pc'[q] = pc[q]
    BY <1>1 DEF ControlInv, ControlType
<1>4. s \notin shifted' => FreshFor(s)'
    BY <1>1, <1>3 DEF FreshInv, FreshFor, UpToDate, Updating, Fetching
<1> QED BY <1>1, <1>2, <1>3, <1>4, QuietDb, CallFresh

LEMMA UnchangedFresh ==
    ASSUME RecordInv, FreshInv, UNCHANGED <<server, db, pc, offset, page, todo, fresh, shifted>>,
           reader' # <<>> => Filed(reader'[2])
    PROVE  FreshInv'
<1>1. RecordsFiled' /\ SeenBefore'
    BY DEF FreshInv, RecordsFiled, SeenBefore
<1> QED BY <1>1, QuietDb, OutsideFresh

LEMMA FreshInvNext == ControlInv /\ RecordInv /\ FreshInv /\ [Next]_vars => FreshInv'
<1> SUFFICES ASSUME ControlInv, RecordInv, FreshInv, [Next]_vars PROVE FreshInv'
    OBVIOUS
<1> USE DEF dbVars, syncVars
<1>0. /\ offset \in [Syncs -> Nat] /\ fresh \in [Syncs -> [Token -> Stages]]
      /\ server \in [Token -> Stages] /\ (reader # <<>> => Filed(reader[2]))
    BY DEF FreshInv, SeenBefore, RecordInv, ServerType, RecordsFiled
<1>1. ASSUME NEW s \in Syncs, SyncStep(s) PROVE FreshInv'
  <2>1. CASE GetClient(s)
    BY <2>1, LeavesRound DEF GetClient
  <2>2. CASE SyncCanceled(s) \/ SyncCompletes(s)
    <3>1. /\ Goto(s, "done") /\ UNCHANGED <<server, db, reader, page, todo, shifted>>
          /\ offset' = [offset EXCEPT ![s] = 0]
          /\ fresh' = [fresh EXCEPT ![s] = [t \in Token |-> "none"]]
      BY <2>2 DEF SyncCanceled, SyncCompletes, Returns
    <3>2. offset' \in [Syncs -> Nat] /\ fresh' \in [Syncs -> [Token -> Stages]]
      BY <1>0, <3>1 DEF Stages
    <3> QED BY <1>0, <3>1, <3>2, RoundFresh
  <2>3. CASE CheckForUpdates(s)
    BY <1>0, <2>3, RoundFresh DEF CheckForUpdates
  <2>4. CASE FetchBatch(s)
    <3>1. CASE CtxErr
      BY <2>4, <3>1, LeavesRound DEF FetchBatch
    <3> QED BY <2>4, <3>1, FetchBatchFresh
  <2>5. CASE FetchCanceled(s)
    BY <2>5, LeavesRound DEF FetchCanceled
  <2> QED BY <1>1, <2>1, <2>2, <2>3, <2>4, <2>5, NextPageFresh, UpdateFresh, NewProposalsFresh,
             FetchSavesFresh DEF SyncStep
<1>2. ASSUME NEW s \in Syncs, SyncBegin(s) PROVE FreshInv'
    BY <1>2, LeavesRound DEF SyncBegin
<1>3. ASSUME NEW s \in Syncs, RoundFails(s) PROVE FreshInv'
    BY <1>3, LeavesRound DEF RoundFails
<1>4. ASSUME NEW s \in Syncs, GetClientFails(s) PROVE FreshInv'
    BY <1>0, <1>4, UnchangedFresh DEF GetClientFails
<1>5. CASE StopSync \/ UNCHANGED vars
    BY <1>0, <1>5, UnchangedFresh DEF StopSync, vars
<1>6. ASSUME NEW t \in Token, FetchDescription(t) PROVE FreshInv'
  <2>1. reader' = <<t, db[t], "client">> /\ Filed(db[t])
    BY <1>6 DEF FetchDescription, Saved, FreshInv, RecordsFiled
  <2> QED BY <1>6, <2>1, UnchangedFresh DEF FetchDescription
<1>7. CASE DescriptionClient \/ DescriptionFails
  <2>1. reader' # <<>> => Filed(reader'[2])
    BY <1>0, <1>7 DEF DescriptionClient, DescriptionFails, RecordInv, ReaderKnown
  <2> QED BY <1>7, <2>1, UnchangedFresh DEF DescriptionClient, DescriptionFails
<1> QED BY <1>1, <1>2, <1>3, <1>4, <1>5, <1>6, <1>7, ServerMovesFresh, DescriptionFresh, ClearFresh
        DEF Next

\* Sync reports completion in one place.
LEMMA OnlyCompletes ==
    ASSUME ControlInv, [Next]_vars, NEW s \in Syncs, pc[s] = "fetch", pc'[s] = "done"
    PROVE  SyncCompletes(s)
<1> USE DEF ControlInv, ControlType, Goto
<1>1. ASSUME NEW q \in Syncs, SyncStep(q) PROVE SyncCompletes(s)
  <2>1. CASE q = s
    BY <1>1, <2>1 DEF SyncStep, GetClient, SyncCanceled, CheckForUpdates, NextPage,
         HandleProposalsUpdate, HandleNewProposals, FetchBatch, FetchCanceled, FetchSaves
  <2>2. CASE q # s
    BY <1>1, <2>2 DEF SyncStep, GetClient, SyncCanceled, CheckForUpdates, NextPage,
         HandleProposalsUpdate, HandleNewProposals, FetchBatch, FetchCanceled, FetchSaves,
         SyncCompletes, Returns
  <2> QED BY <2>1, <2>2
<1>2. ASSUME NEW q \in Syncs, SyncBegin(q) \/ GetClientFails(q) \/ RoundFails(q) PROVE FALSE
    BY <1>2 DEF SyncBegin, GetClientFails, RoundFails
<1>3. CASE \/ StopSync \/ DescriptionClient \/ DescriptionSaved \/ DescriptionFails
           \/ ClearSavedProposals \/ UNCHANGED vars
           \/ \E t \in Token : FetchDescription(t) \/ ServerMoves(t)
    BY <1>3 DEF StopSync, DescriptionClient, DescriptionSaved, DescriptionFails,
         ClearSavedProposals, FetchDescription, ServerMoves, vars
<1> QED BY <1>1, <1>2, <1>3 DEF Next

----------------------------------------------------------------------------
(* The results.                                                             *)

LEMMA PoliteiaInvHolds == Spec => []PoliteiaInv
<1>1. Init => PoliteiaInv
    BY ControlInvInit, RecordInvInit, ToldInvInit, FreshInvInit DEF PoliteiaInv
<1>2. PoliteiaInv /\ [Next]_vars => PoliteiaInv'
    BY ControlInvNext, RecordInvNext, ToldInvNext, FreshInvNext DEF PoliteiaInv
<1> QED BY <1>1, <1>2, PTL DEF Spec

\* IsSyncing is accurate for any number of calls of Sync and StopSync: as long as
\* no Sync began beside a stopped one, the handle is set exactly while a call is
\* running that was not stopped.
THEOREM IsSyncingIsAccurate == Spec => []SyncingIsAccurate
<1>1. PoliteiaInv => SyncingIsAccurate
    BY NoneAssumption DEF PoliteiaInv, ControlInv, ControlType, OneSync, SyncingIsAccurate
<1> QED BY <1>1, PoliteiaInvHolds, PTL

\* The read lock of p.mu is lost in one place of the code and no other: before a
\* batch of fetchBatchProposals, by a call whose context was canceled.
THEOREM LockIsLostByStop == Spec => []MuLostOnlyByStop
<1>1. PoliteiaInv => MuLostOnlyByStop
    BY DEF PoliteiaInv, ControlInv
<1> QED BY <1>1, PoliteiaInvHolds, PTL

\* A saved proposal is listed under the category its own status and vote give,
\* whatever overlaps with the update that saves it (updateProposalDetails,
\* FetchProposalDescription), unless it was saved from an inventory it had left.
THEOREM ListedByItsVote == Spec => []CategoryFollowsVote
<1>1. PoliteiaInv => CategoryFollowsVote
    BY DEF PoliteiaInv, RecordInv, DbKnown, Known, Consistent, CategoryFollowsVote, Saved
<1> QED BY <1>1, PoliteiaInvHolds, PTL

\* OnProposalVoteFinished is published at most once for a proposal, also when the
\* proposals are cleared and fetched again.
THEOREM FinishIsToldOnce == Spec => []VoteFinishedToldOnce
<1>1. PoliteiaInv => VoteFinishedToldOnce
    BY DEF PoliteiaInv, ToldInv, ToldOnce, VoteFinishedToldOnce
<1> QED BY <1>1, PoliteiaInvHolds, PTL

\* When Sync reports completion, every proposal the server had when the round began
\* is saved in a state at least as recent: for any number of proposals, any page
\* size and any number of calls, the pages of checkForUpdates skip none while the
\* list only grows, and what they do not hold handleNewProposals fetches.
THEOREM CompleteIsFresh == Spec => SyncedIsFresh
<1>1. PoliteiaInv /\ [Next]_vars =>
        \A s \in Syncs : pc[s] = "fetch" /\ pc'[s] = "done" /\ s \notin shifted =>
          \A t \in Token : fresh[s][t] # "none" =>
            /\ t \in Saved
            /\ Rank(db[t].vote) >= Rank(VoteStatus(fresh[s][t]))
            /\ fresh[s][t] = "abandoned" => db[t].abandoned
  <2> SUFFICES ASSUME PoliteiaInv, [Next]_vars, NEW s \in Syncs, pc[s] = "fetch", pc'[s] = "done",
                      s \notin shifted, NEW t \in Token, fresh[s][t] # "none"
               PROVE  /\ t \in Saved
                      /\ Rank(db[t].vote) >= Rank(VoteStatus(fresh[s][t]))
                      /\ fresh[s][t] = "abandoned" => db[t].abandoned
    OBVIOUS
  <2>1. todo[s] = {}
    BY OnlyCompletes DEF PoliteiaInv, SyncCompletes
  <2>2. UpToDate(s, t)
    BY <2>1 DEF PoliteiaInv, FreshInv, FreshFor, Fetching
  <2> QED BY <2>2 DEF UpToDate, Covers, Saved
<1> QED BY <1>1, PoliteiaInvHolds, PTL DEF Spec, SyncedIsFresh
==============================================================================
