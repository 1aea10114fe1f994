------------------------------ MODULE TxFilters ------------------------------
(***************************************************************************)
(* How an indexed transaction is classified: the database query of         *)
(* walletdata/filter.go, its in-memory twin TxMatchesFilter, and the       *)
(* ticket status the user interface shows (transactions.go).  A record is  *)
(* the part of types.go's Transaction these three functions read.          *)
(***************************************************************************)
EXTENDS Integers

CONSTANTS TicketMaturity,  \* chainParams.TicketMaturity, in blocks
          TicketExpiry     \* chainParams.TicketExpiry, in blocks

ASSUME ParamsAssumption == TicketMaturity \in Nat \ {0} /\ TicketExpiry \in Nat \ {0}

TxTypes == {"regular", "coinbase", "ticket", "vote", "revocation", "mixed"}
Directions == {"sent", "received", "transferred", "invalid"}
BlockHeightInvalid == -1
NoSpender == "none"

\* Tickets at or below this height have matured ...
MaturityBlock(best) == best - TicketMaturity
\* ... and at or below this one have expired.
ExpiryBlock(best) == best - (TicketMaturity + TicketExpiry)

\* Sets of record types a filter stands for, where the type alone decides.
TypesOf(filter) ==
  CASE filter = "staking"  -> {"ticket", "vote", "revocation"}
    [] filter = "coinbase" -> {"coinbase"}
    [] filter = "regular"  -> {"regular"}
    [] filter = "mixed"    -> {"mixed"}
    [] filter = "voted"    -> {"vote"}
    [] filter = "revoked"  -> {"revocation"}
    [] filter = "tickets"  -> {"ticket"}
    [] filter = "all"      -> TxTypes

TypeFilters == {"staking", "coinbase", "regular", "mixed", "voted", "revoked", "tickets", "all"}
DirectionFilters == {"sent", "received", "transferred"}
TicketFilters == {"immature", "live", "unmined", "expired"}
Filters == TypeFilters \cup DirectionFilters \cup TicketFilters

\* A variant that forgets the lower bound of the live range.
LiveOrExpired(r, best) ==
  /\ r.spender = NoSpender
  /\ r.height > 0
  /\ r.height <= MaturityBlock(best)

\* prepareTxQuery's condition on a ticket for TxFilterLive: not spent by a vote
\* or revoke, mined, matured, not expired.
SelectLive(r, best) ==
  /\ r.spender = NoSpender
  /\ r.height > 0
  /\ r.height <= MaturityBlock(best)
  /\ r.height > ExpiryBlock(best)

\* prepareTxQuery: the records a query with this filter selects.
Query(filter, records, best) ==
  {r \in records :
     \/ filter \in TypeFilters /\ r.type \in TypesOf(filter)
     \/ filter \in DirectionFilters /\ r.type = "regular" /\ r.direction = filter
     \/ /\ r.type = "ticket"
        /\ CASE filter = "immature" -> r.height > MaturityBlock(best)
             [] filter = "live"     -> SelectLive(r, best)
             [] filter = "unmined"  -> r.height = BlockHeightInvalid
             [] filter = "expired"  -> /\ r.spender = NoSpender
                                       /\ r.height > 0
                                       /\ r.height <= ExpiryBlock(best)
             [] OTHER -> FALSE}

\* TxMatchesFilter: the same question asked of one record, outside the database.
TxMatchesFilter(r, filter, best) ==
  CASE filter \in DirectionFilters -> r.type = "regular" /\ r.direction = filter
    [] filter = "immature" -> r.type = "ticket" /\ r.height > MaturityBlock(best)
    [] filter = "live" ->
         /\ r.type = "ticket" /\ r.spender = NoSpender
         /\ r.height > 0
         /\ r.height <= MaturityBlock(best)
         /\ r.height > ExpiryBlock(best)
    [] filter = "unmined" -> r.type = "ticket" /\ r.height = BlockHeightInvalid
    [] filter = "expired" ->
         /\ r.type = "ticket" /\ r.spender = NoSpender
         /\ r.height > 0
         /\ r.height <= ExpiryBlock(best)
    [] OTHER -> r.type \in TypesOf(filter)

\* Transaction.Confirmations.
Confirmations(r, best) ==
  IF r.height = BlockHeightInvalid THEN 0 ELSE (best - r.height) + 1

\* Transaction.TicketStatus, of a ticket purchase.
TicketStatus(r, best) ==
  LET confirmations == Confirmations(r, best)
  IN CASE confirmations = 0 -> "unmined"
       [] confirmations # 0 /\ confirmations <= TicketMaturity -> "immature"
       [] confirmations > TicketMaturity + TicketExpiry -> "expired"
       [] OTHER -> IF r.spender # NoSpender THEN "votedrevoked" ELSE "live"
==============================================================================
