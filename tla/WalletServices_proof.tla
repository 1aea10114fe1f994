------------------------ MODULE WalletServices_proof -------------------------
(***************************************************************************)
(* Proofs about the services of a wallet that run beside the sync.         *)
(*                                                                         *)
(* TicketBuyer, for any window size, any heights and any number of runs of *)
(* the buyer: tickets are only mined at the price they were bought at,     *)
(* purchases that can no longer be mined are canceled, and, when runs do   *)
(* not overlap, the handle is that of the live run.                        *)
(*                                                                         *)
(* Services, for any number of rescans and mixers and a caller   *)
(* that waits for what it has started: a service at work can be stopped,   *)
(* and LockWallet does not lock the wallet under a mixer.                  *)
(***************************************************************************)
EXTENDS TicketBuyer, Services, TLAPS

BuyerRec ==
    [pc : {"none", "check", "failed", "start", "run", "return", "ended"}, pass : {"", "p1"},
     canceled : BOOLEAN, fatal : BOOLEAN, tips : Seq(Nat), last : Nat,
     nextIntervalStart : Nat, expiry : Nat]

PurchaseRec ==
    [buyer : Buyers, canceled : BOOLEAN, pc : {"spawned", "buying"}, expiry : Nat]

BuyerType ==
    /\ height \in Nat
    /\ cancelAutoTicketBuyer \in Buyers \cup {NoRun}
    /\ buyer \in [Buyers -> BuyerRec]
    /\ purchases \subseteq PurchaseRec
    /\ bought \subseteq [at : Nat, expiry : Nat]

----------------------------------------------------------------------------
(* Windows of WindowSize blocks. *)

LEMMA TimesMonotone ==
    ASSUME NEW a \in Int, NEW b \in Int, NEW w \in Nat, a <= b
    PROVE  a * w <= b * w
OBVIOUS

\* A height is in the window that begins at Window(h) * WindowSize.
LEMMA WindowBounds ==
    ASSUME NEW h \in Nat
    PROVE  /\ Window(h) \in Nat
           /\ Window(h) * WindowSize <= h /\ h < Window(h) * WindowSize + WindowSize
BY WindowAssumption DEF Window

\* And in no other.
LEMMA WindowUnique ==
    ASSUME NEW h \in Nat, NEW q \in Int,
           q * WindowSize <= h, h < q * WindowSize + WindowSize
    PROVE  Window(h) = q
<1> USE WindowAssumption
<1>1. /\ Window(h) \in Nat
      /\ Window(h) * WindowSize <= h /\ h < Window(h) * WindowSize + WindowSize
    BY WindowBounds
<1>2. CASE Window(h) < q
  <2>1. (Window(h) + 1) * WindowSize <= q * WindowSize
    BY <1>1, <1>2, TimesMonotone
  <2>2. (Window(h) + 1) * WindowSize = Window(h) * WindowSize + WindowSize
    BY <1>1
  <2> QED BY <1>1, <2>1, <2>2
<1>3. CASE q < Window(h)
  <2>1. (q + 1) * WindowSize <= Window(h) * WindowSize
    BY <1>1, <1>3, TimesMonotone
  <2>2. (q + 1) * WindowSize = q * WindowSize + WindowSize
    OBVIOUS
  <2> QED BY <1>1, <2>1, <2>2
<1> QED BY <1>1, <1>2, <1>3

\* An expiry e is the end of a window that the block after height h has
\* reached, or of an earlier one.
InReach(e, h) == /\ \E k \in Nat : e = k * WindowSize
                 /\ e <= h + 1 + WindowSize

LEMMA InReachMonotone ==
    ASSUME NEW e \in Nat, NEW h \in Nat, NEW i \in Nat, h <= i, InReach(e, h)
    PROVE  InReach(e, i)
BY WindowAssumption DEF InReach

\* A ticket of such an expiry is mined at the price of the block after h.
LEMMA InReachIsOnePrice ==
    ASSUME NEW e \in Nat, NEW h \in Nat, InReach(e, h), NEW i \in (h + 2) .. (e - 1)
    PROVE  Window(i) = Window(h + 1)
<1> USE WindowAssumption
<1>1. PICK k \in Nat : e = k * WindowSize
    BY DEF InReach
<1>2. (k - 1) * WindowSize = e - WindowSize
    BY <1>1
<1>3. i \in Nat /\ e - WindowSize <= h + 1 /\ h + 1 < e /\ e - WindowSize <= i /\ i < e
    BY DEF InReach
<1>4. Window(i) = k - 1
    BY <1>2, <1>3, WindowUnique
<1>5. Window(h + 1) = k - 1
    BY <1>2, <1>3, WindowUnique
<1> QED BY <1>4, <1>5

\* The interval and the expiry that a new interval's first tip gives.
LEMMA NewInterval ==
    ASSUME BuyerType, NEW b \in Buyers, Tip(b) \in Nat, IntervalOver(b)
    PROVE  /\ NextIntervalStart(b) \in Nat /\ Expiry(b) \in Nat
           /\ Tip(b) < NextIntervalStart(b) /\ NextIntervalStart(b) <= Expiry(b)
           /\ InReach(Expiry(b), Tip(b))
           /\ ~StartsSoon(b) => Tip(b) + 2 < Expiry(b)
<1> USE WindowAssumption
<1> DEFINE w == Window(Tip(b))
<1>1. w \in Nat /\ w * WindowSize <= Tip(b) /\ Tip(b) < w * WindowSize + WindowSize
    BY WindowBounds
<1>2. NextIntervalStart(b) = (w + 1) * WindowSize
    BY DEF NextIntervalStart
<1>3. /\ (w + 1) * WindowSize = w * WindowSize + WindowSize
      /\ (w + 2) * WindowSize = (w + 1) * WindowSize + WindowSize
    BY <1>1
<1> HIDE DEF w
<1>4. w * WindowSize \in Nat /\ NextIntervalStart(b) \in Nat /\ Tip(b) < NextIntervalStart(b)
    BY <1>1, <1>2, <1>3
<1>5. CASE Tip(b) + 1 = NextIntervalStart(b)
  <2>1. Expiry(b) = (w + 2) * WindowSize
    BY <1>2, <1>3, <1>5 DEF Expiry
  <2>2. InReach(Expiry(b), Tip(b))
    BY <1>1, <1>2, <1>3, <1>5, <2>1 DEF InReach
  <2> QED BY <1>2, <1>3, <1>4, <1>5, <2>1, <2>2
<1>6. CASE Tip(b) + 1 # NextIntervalStart(b)
  <2>1. Expiry(b) = NextIntervalStart(b)
    BY <1>4, <1>6 DEF Expiry
  <2>2. InReach(Expiry(b), Tip(b))
    BY <1>1, <1>2, <1>3, <2>1 DEF InReach
  <2>3. ~StartsSoon(b) => Tip(b) + 2 < Expiry(b)
    BY <1>4, <1>6, <2>1 DEF StartsSoon
  <2> QED BY <1>4, <2>1, <2>2, <2>3
<1> QED BY <1>5, <1>6

----------------------------------------------------------------------------
(* Queues of heights. *)

\* The heights of t ascend from above l to at most h.
InOrder(t, l, h) ==
    /\ l <= h
    /\ \A i \in 1 .. Len(t) : l < t[i] /\ t[i] <= h
    /\ \A i, j \in 1 .. Len(t) : i < j => t[i] < t[j]

LEMMA InOrderEmpty ==
    ASSUME NEW l \in Nat, NEW h \in Nat, l <= h
    PROVE  InOrder(<<>>, l, h)
BY DEF InOrder

LEMMA InOrderHigher ==
    ASSUME NEW t \in Seq(Nat), NEW l \in Nat, NEW h \in Nat, NEW g \in Nat, h <= g,
           InOrder(t, l, h)
    PROVE  InOrder(t, l, g)
<1>1. \A i \in 1 .. Len(t) : t[i] \in Nat
    OBVIOUS
<1> QED BY <1>1 DEF InOrder

LEMMA InOrderAppend ==
    ASSUME NEW t \in Seq(Nat), NEW l \in Nat, NEW h \in Nat, NEW g \in Nat, h < g,
           InOrder(t, l, h)
    PROVE  InOrder(Append(t, g), l, g)
<1> DEFINE u == Append(t, g)
<1>1. /\ Len(t) \in Nat /\ Len(u) = Len(t) + 1 /\ u[Len(t) + 1] = g
      /\ \A i \in 1 .. Len(t) : t[i] \in Nat /\ u[i] = t[i]
    OBVIOUS
<1> HIDE DEF u
<1>2. \A i \in 1 .. Len(u) : l < u[i] /\ u[i] <= g
  <2> TAKE i \in 1 .. Len(u)
  <2>1. CASE i \in 1 .. Len(t)
    BY <1>1, <2>1 DEF InOrder
  <2>2. CASE i = Len(t) + 1
    BY <1>1, <2>2 DEF InOrder
  <2> QED BY <1>1, <2>1, <2>2
<1>3. ASSUME NEW i \in 1 .. Len(u), NEW j \in 1 .. Len(u), i < j PROVE u[i] < u[j]
  <2>1. i \in 1 .. Len(t) /\ (j \in 1 .. Len(t) \/ j = Len(t) + 1)
    BY <1>1, <1>3, SMTT(20)
  <2>2. CASE j \in 1 .. Len(t)
    BY <1>1, <1>3, <2>1, <2>2 DEF InOrder
  <2>3. CASE j = Len(t) + 1
    BY <1>1, <2>1, <2>3 DEF InOrder
  <2> QED BY <2>1, <2>2, <2>3
<1>4. l <= g
    BY DEF InOrder
<1>5. InOrder(u, l, g)
    BY <1>2, <1>3, <1>4 DEF InOrder
<1> QED BY <1>5 DEF u

LEMMA InOrderTail ==
    ASSUME NEW t \in Seq(Nat), t # <<>>, NEW l \in Nat, NEW h \in Nat, InOrder(t, l, h)
    PROVE  /\ Head(t) \in Nat /\ Tail(t) \in Seq(Nat) /\ l < Head(t) /\ Head(t) <= h
           /\ InOrder(Tail(t), l, h) /\ InOrder(Tail(t), Head(t), h)
<1> DEFINE u == Tail(t)
<1>1. /\ Len(u) \in Nat /\ Len(t) = Len(u) + 1 /\ 1 \in 1 .. Len(t) /\ Head(t) = t[1]
      /\ u \in Seq(Nat)
      /\ \A i \in 1 .. Len(u) : u[i] = t[i + 1]
      /\ \A i \in 1 .. Len(t) : t[i] \in Nat
    OBVIOUS
<1> HIDE DEF u
<1>2. \A i \in 1 .. Len(u) : 1 < i + 1 /\ i + 1 \in 1 .. Len(t)
    BY <1>1
<1>3. t[1] \in Nat /\ l < t[1] /\ t[1] <= h
    BY <1>1 DEF InOrder
<1>4. \A i \in 1 .. Len(u) : u[i] \in Nat /\ t[1] < u[i] /\ l < u[i] /\ u[i] <= h
  <2> TAKE i \in 1 .. Len(u)
  <2>1. t[1] < t[i + 1] /\ t[i + 1] <= h /\ t[i + 1] \in Nat
    BY <1>1, <1>2 DEF InOrder
  <2> QED BY <1>1, <1>3, <2>1, SMTT(20)
<1>5. \A i, j \in 1 .. Len(u) : i < j => u[i] < u[j]
  <2> TAKE i, j \in 1 .. Len(u)
  <2>1. i < j => i + 1 < j + 1
    BY <1>1
  <2> QED BY <1>1, <1>2, <2>1 DEF InOrder
<1>6. InOrder(u, l, h) /\ InOrder(u, t[1], h)
    BY <1>3, <1>4, <1>5 DEF InOrder
<1> QED BY <1>1, <1>3, <1>6 DEF u

----------------------------------------------------------------------------
(* Types. *)

LEMMA NoBuyerType ==
    /\ NoBuyer \in BuyerRec
    /\ \A pass \in {"", "p1"} : [NoBuyer EXCEPT !.pc = "check", !.pass = pass] \in BuyerRec
<1>1. <<>> \in Seq(Nat)
    OBVIOUS
<1> QED BY <1>1 DEF NoBuyer, BuyerRec

LEMMA BuyerRecExcept ==
    ASSUME NEW r \in BuyerRec
    PROVE  /\ [r EXCEPT !.canceled = TRUE] \in BuyerRec /\ [r EXCEPT !.fatal = TRUE] \in BuyerRec
           /\ \A l \in {"none", "check", "failed", "start", "run", "return", "ended"} :
                 [r EXCEPT !.pc = l] \in BuyerRec
           /\ \A t \in Seq(Nat) :
                 /\ [r EXCEPT !.tips = t] \in BuyerRec
                 /\ \A h, n, e \in Nat :
                      /\ [r EXCEPT !.tips = t, !.last = h, !.nextIntervalStart = n] \in BuyerRec
                      /\ [r EXCEPT !.tips = t, !.last = h, !.nextIntervalStart = n,
                                   !.expiry = e] \in BuyerRec
BY DEF BuyerRec

LEMMA BuyerExcept ==
    ASSUME BuyerType, NEW b \in Buyers, NEW r \in BuyerRec
    PROVE  [buyer EXCEPT ![b] = r] \in [Buyers -> BuyerRec]
BY DEF BuyerType

\* The run moves on, and nothing else of it changes.
LEMMA BuyerMoves ==
    ASSUME BuyerType, NEW b \in Buyers, NEW l, buyer' = [buyer EXCEPT ![b].pc = l]
    PROVE  \A c \in Buyers :
              /\ c # b => buyer'[c] = buyer[c]
              /\ buyer'[c].tips = buyer[c].tips /\ buyer'[c].last = buyer[c].last
              /\ buyer'[c].nextIntervalStart = buyer[c].nextIntervalStart
              /\ buyer'[c].expiry = buyer[c].expiry /\ buyer'[c].canceled = buyer[c].canceled
BY DEF BuyerType, BuyerRec

\* StopAutoTicketsPurchase cancels the run of the handle, and nothing else.
LEMMA BuyerStopped ==
    ASSUME BuyerType, StopAutoTicketsPurchase
    PROVE  /\ buyer'[cancelAutoTicketBuyer].canceled
           /\ \A c \in Buyers :
                 /\ buyer'[c].tips = buyer[c].tips /\ buyer'[c].last = buyer[c].last
                 /\ buyer'[c].nextIntervalStart = buyer[c].nextIntervalStart
                 /\ buyer'[c].expiry = buyer[c].expiry /\ buyer'[c].pc = buyer[c].pc
                 /\ buyer[c].canceled => buyer'[c].canceled
<1>1. PICK r \in Buyers : r = cancelAutoTicketBuyer /\ buyer' = [buyer EXCEPT ![r].canceled = TRUE]
  BY DEF StopAutoTicketsPurchase, Canceled, BuyerType
<1>2. buyer'[r].canceled
  BY <1>1 DEF BuyerType, BuyerRec
<1>3. ASSUME NEW c \in Buyers, c # r PROVE buyer'[c] = buyer[c]
  BY <1>1, <1>3 DEF BuyerType
<1>4. /\ buyer'[r].tips = buyer[r].tips /\ buyer'[r].last = buyer[r].last
      /\ buyer'[r].nextIntervalStart = buyer[r].nextIntervalStart
      /\ buyer'[r].expiry = buyer[r].expiry /\ buyer'[r].pc = buyer[r].pc
  BY <1>1 DEF BuyerType, BuyerRec
<1> QED BY <1>1, <1>2, <1>3, <1>4

LEMMA BuyerTypeInit == Init => BuyerType
BY HeightAssumption, NoBuyerType DEF Init, BuyerType

\* The tip in hand is a height, and is taken from the queue.
LEMMA TipType ==
    ASSUME BuyerType, NEW b \in Buyers, HasTip(b)
    PROVE  Tip(b) \in Nat /\ Tail(buyer[b].tips) \in Seq(Nat)
<1>1. buyer[b].tips \in Seq(Nat) /\ buyer[b].tips # <<>>
    BY DEF BuyerType, BuyerRec, HasTip
<1> QED BY <1>1 DEF Tip

LEMMA CancelPurchasesType ==
    ASSUME BuyerType, NEW b \in Buyers
    PROVE  /\ CancelPurchases(b) \subseteq PurchaseRec
           /\ \A p \in CancelPurchases(b) :
                 /\ p.buyer = b => p.canceled
                 /\ \E q \in purchases : /\ q.buyer = p.buyer /\ q.expiry = p.expiry
                                         /\ ~p.canceled => ~q.canceled
BY DEF BuyerType, CancelPurchases, PurchaseRec

LEMMA BuyerTypeStep == BuyerType /\ [Next]_vars => BuyerType'
<1> SUFFICES ASSUME BuyerType, [Next]_vars PROVE BuyerType'
    OBVIOUS
<1> USE NoRunAssumption
<1>0. \A b \in Buyers : buyer[b] \in BuyerRec
    BY DEF BuyerType
<1>1. CASE UserNext
  <2>1. ASSUME NEW b \in Buyers, NEW pass \in {"", "p1"}, StartTicketBuyer(b, pass)
        PROVE  BuyerType'
    BY <2>1, NoBuyerType, BuyerExcept DEF BuyerType, StartTicketBuyer
  <2>2. CASE StopAutoTicketsPurchase
    <3>1. cancelAutoTicketBuyer \in Buyers
      BY <2>2 DEF StopAutoTicketsPurchase, BuyerType
    <3>2. [buyer[cancelAutoTicketBuyer] EXCEPT !.canceled = TRUE] \in BuyerRec
      BY <1>0, <3>1, BuyerRecExcept
    <3> QED BY <2>2, <3>1, <3>2, BuyerExcept DEF BuyerType, StopAutoTicketsPurchase, Canceled
  <2> QED BY <1>1, <2>1, <2>2
        DEF UserNext, BuyerType, PurchaseTickets, LockWallet, ChangePrivatePassphrase,
            SetAutoTicketsBuyerConfig, ClearTicketBuyerConfig, buyVars
<1>2. CASE ChainNext
  <2>1. PICK n \in 1 .. 2 : TipChanged(n)
    BY <1>2 DEF ChainNext
  <2>2. height' \in Nat
    BY <2>1 DEF TipChanged, BuyerType
  <2>3. ASSUME NEW b \in Buyers PROVE buyer'[b] \in BuyerRec
    <3>0. buyer[b].tips \in Seq(Nat)
      BY <1>0 DEF BuyerRec
    <3>1. Append(buyer[b].tips, height') \in Seq(Nat)
      BY <2>2, <3>0
    <3>2. \A t \in Seq(Nat) : [buyer[b] EXCEPT !.tips = t] \in BuyerRec
      BY <1>0, BuyerRecExcept
    <3> QED BY <1>0, <2>1, <3>1, <3>2 DEF TipChanged
  <2> QED BY <2>1, <2>2, <2>3 DEF TipChanged, BuyerType
<1>3. ASSUME NEW b \in Buyers, BuyerNext(b) PROVE BuyerType'
  <2>0. \A l \in {"none", "check", "failed", "start", "run", "return", "ended"} :
           [buyer EXCEPT ![b].pc = l] \in [Buyers -> BuyerRec]
    BY <1>0, BuyerRecExcept, BuyerExcept
  <2>1. CASE StartTicketBuyerFails(b) \/ StartTicketBuyerChecked(b) \/ RunTicketBuyer(b)
             \/ BuyerEnds(b)
    BY <2>0, <2>1 DEF BuyerType, StartTicketBuyerFails, StartTicketBuyerChecked,
                RunTicketBuyer, BuyerEnds
  <2>2. CASE BuyerCanceled(b) \/ TipReturns(b)
    BY <2>0, <2>2, CancelPurchasesType DEF BuyerType, BuyerCanceled, TipReturns
  <2>3. CASE TipSkipped(b)
    <3>1. [buyer[b] EXCEPT !.tips = Tail(@)] \in BuyerRec
      BY <1>0, <2>3, TipType, BuyerRecExcept DEF TipSkipped
    <3> QED BY <2>3, <3>1, BuyerExcept DEF BuyerType, TipSkipped
  <2>4. CASE TipStartsSoon(b)
    <3>1. NextIntervalStart(b) \in Nat /\ Tip(b) \in Nat /\ Tail(buyer[b].tips) \in Seq(Nat)
      BY <2>4, TipType, NewInterval DEF TipStartsSoon, StartsSoon
    <3>2. purchases' \subseteq PurchaseRec
      BY <2>4, CancelPurchasesType DEF TipStartsSoon, StillBuying, BuyerType
    <3>3. [buyer[b] EXCEPT !.tips = Tail(@), !.last = Tip(b),
                           !.nextIntervalStart = NextIntervalStart(b)] \in BuyerRec
      BY <1>0, <3>1, BuyerRecExcept
    <3>4. buyer' = [buyer EXCEPT ![b] = [buyer[b] EXCEPT !.tips = Tail(@), !.last = Tip(b),
                           !.nextIntervalStart = NextIntervalStart(b)]]
      BY <2>4 DEF TipStartsSoon, BuyerType
    <3>5. buyer' \in [Buyers -> BuyerRec]
      BY <3>3, <3>4, BuyerExcept
    <3> QED BY <2>4, <3>2, <3>5 DEF BuyerType, TipStartsSoon
  <2>5. CASE TipBuys(b)
    <3>1. NextIntervalStart(b) \in Nat /\ Expiry(b) \in Nat
      <4>1. CASE IntervalOver(b)
        BY <2>5, <4>1, TipType, NewInterval DEF TipBuys
      <4>2. CASE ~IntervalOver(b)
        BY <4>2 DEF NextIntervalStart, Expiry, BuyerType, BuyerRec
      <4> QED BY <4>1, <4>2
    <3>2. StillBuying(b) \subseteq PurchaseRec
      BY CancelPurchasesType DEF StillBuying, BuyerType
    <3>3. CtxDone(b) \in BOOLEAN
      BY <1>0 DEF CtxDone, BuyerRec
    <3>4. [buyer |-> b, canceled |-> CtxDone(b), pc |-> "spawned", expiry |-> 0] \in PurchaseRec
      BY <3>3 DEF PurchaseRec
    <3>5. purchases' \subseteq PurchaseRec
      BY <2>5, <3>2, <3>4 DEF TipBuys
    <3>6. [buyer[b] EXCEPT !.tips = Tail(@), !.last = Tip(b),
                           !.nextIntervalStart = NextIntervalStart(b),
                           !.expiry = Expiry(b)] \in BuyerRec
      BY <1>0, <2>5, <3>1, TipType, BuyerRecExcept DEF TipBuys
    <3>7. buyer' = [buyer EXCEPT ![b] = [buyer[b] EXCEPT !.tips = Tail(@), !.last = Tip(b),
                           !.nextIntervalStart = NextIntervalStart(b), !.expiry = Expiry(b)]]
      BY <2>5 DEF TipBuys, BuyerType
    <3>8. buyer' \in [Buyers -> BuyerRec]
      BY <3>6, <3>7, BuyerExcept
    <3> QED BY <2>5, <3>5, <3>8 DEF TipBuys, BuyerType
  <2> QED BY <1>3, <2>1, <2>2, <2>3, <2>4, <2>5 DEF BuyerNext
<1>4. ASSUME NEW p \in purchases, PurchaseNext(p) PROVE BuyerType'
  <2>0. p \in PurchaseRec /\ p.buyer \in Buyers
    BY DEF BuyerType, PurchaseRec
  <2>1. CASE BuyTicket(p)
    <3>1. [p EXCEPT !.pc = "buying", !.expiry = buyer[p.buyer].expiry] \in PurchaseRec
      BY <1>0, <2>0 DEF PurchaseRec, BuyerRec
    <3> QED BY <2>1, <3>1 DEF BuyTicket, BuyerType
  <2>2. CASE BuyTicketPassphrase(p)
    <3>1. [buyer[p.buyer] EXCEPT !.fatal = TRUE] \in BuyerRec
      BY <1>0, <2>0, BuyerRecExcept
    <3> QED BY <2>0, <2>2, <3>1, BuyerExcept DEF BuyTicketPassphrase, PurchaseDone, BuyerType
  <2>3. CASE TicketBought(p) \/ BuyTicketFails(p)
    BY <2>0, <2>3 DEF TicketBought, BuyTicketFails, PurchaseDone, BuyerType, PurchaseRec
  <2> QED BY <1>4, <2>1, <2>2, <2>3 DEF PurchaseNext
<1>5. CASE UNCHANGED vars
    BY <1>5 DEF BuyerType, vars, buyVars
<1> QED BY <1>1, <1>2, <1>3, <1>4, <1>5 DEF Next

----------------------------------------------------------------------------
(* The inductive invariant. *)

\* A buyer takes tips in order: what it has in hand is newer than its last.
TipsInOrder == \A b \in Buyers : InOrder(buyer[b].tips, buyer[b].last, height)

\* The expiry is that of the current interval, or the interval is over for
\* the next tip (a tip two before its start sets it without an expiry).
IntervalCovered ==
    \A b \in Buyers :
        \/ buyer[b].nextIntervalStart <= buyer[b].expiry
        \/ buyer[b].last + 2 >= buyer[b].nextIntervalStart

ExpiriesInReach ==
    /\ \A b \in Buyers : InReach(buyer[b].expiry, height)
    /\ \A p \in purchases : InReach(p.expiry, height)

BuyInv == /\ BuyerType /\ TipsInOrder /\ IntervalCovered /\ ExpiriesInReach
          /\ LivePurchasesCanBeMined /\ MinedAtItsPrice

LEMMA BuyInvInit == Init => BuyInv
<1> SUFFICES ASSUME Init PROVE BuyInv
    OBVIOUS
<1>1. BuyerType
    BY BuyerTypeInit
<1>2. InReach(0, height)
    BY HeightAssumption, WindowAssumption DEF InReach, Init
<1>3. \A b \in Buyers : /\ buyer[b].last = 0 /\ buyer[b].expiry = 0 /\ buyer[b].tips = <<>>
                        /\ buyer[b].nextIntervalStart = 0
    BY DEF Init, NoBuyer
<1>4. TipsInOrder /\ IntervalCovered
    BY <1>1, <1>3, InOrderEmpty DEF TipsInOrder, IntervalCovered, BuyerType
<1>5. ExpiriesInReach /\ LivePurchasesCanBeMined /\ MinedAtItsPrice
    BY <1>2, <1>3 DEF Init, ExpiriesInReach, LivePurchasesCanBeMined, MinedAtItsPrice
<1> QED BY <1>1, <1>4, <1>5 DEF BuyInv

\* A step that neither takes a tip nor buys; purchases may be canceled or end.
QuietStep ==
    /\ UNCHANGED <<height, bought>>
    /\ \A b \in Buyers : /\ buyer'[b].tips = buyer[b].tips /\ buyer'[b].last = buyer[b].last
                         /\ buyer'[b].nextIntervalStart = buyer[b].nextIntervalStart
                         /\ buyer'[b].expiry = buyer[b].expiry
    /\ \A p \in purchases' : \E q \in purchases :
          q.buyer = p.buyer /\ q.expiry = p.expiry /\ (~p.canceled => ~q.canceled)

LEMMA QuietKeepsBuyInv ==
    ASSUME BuyInv, BuyerType', QuietStep
    PROVE  BuyInv'
<1>1. TipsInOrder' /\ IntervalCovered'
    BY DEF BuyInv, QuietStep, TipsInOrder, IntervalCovered
<1>2. ExpiriesInReach'
    BY DEF BuyInv, QuietStep, ExpiriesInReach
<1>3. LivePurchasesCanBeMined'
  <2> SUFFICES ASSUME NEW p \in purchases', ~p.canceled
               PROVE  buyer'[p.buyer].last + 2 < buyer'[p.buyer].expiry
    BY DEF LivePurchasesCanBeMined
  <2>1. PICK q \in purchases : q.buyer = p.buyer /\ ~q.canceled
    BY DEF QuietStep
  <2>2. q.buyer \in Buyers
    BY DEF BuyInv, BuyerType, PurchaseRec
  <2> QED BY <2>1, <2>2 DEF BuyInv, LivePurchasesCanBeMined, QuietStep
<1>4. MinedAtItsPrice'
    BY DEF BuyInv, QuietStep, MinedAtItsPrice
<1> QED BY <1>1, <1>2, <1>3, <1>4 DEF BuyInv

LEMMA StartKeepsBuyInv ==
    ASSUME BuyInv, BuyerType', NEW b \in Buyers, NEW pass, StartTicketBuyer(b, pass)
    PROVE  BuyInv'
<1>1. /\ buyer'[b].last = 0 /\ buyer'[b].expiry = 0 /\ buyer'[b].tips = <<>>
      /\ buyer'[b].nextIntervalStart = 0
      /\ \A c \in Buyers : c # b => buyer'[c] = buyer[c]
      /\ UNCHANGED <<height, purchases, bought>>
      /\ \A p \in purchases : p.buyer # b
    BY DEF StartTicketBuyer, NoBuyer, BuyInv, BuyerType
<1>2. InReach(0, height)
  <2>1. height \in Nat
    BY DEF BuyInv, BuyerType
  <2> QED BY <2>1, WindowAssumption DEF InReach
<1>3. TipsInOrder'
  <2>1. height \in Nat /\ TipsInOrder
    BY DEF BuyInv, BuyerType
  <2>2. InOrder(<<>>, 0, height)
    BY <2>1, InOrderEmpty
  <2> QED BY <1>1, <2>1, <2>2 DEF TipsInOrder
<1>4. IntervalCovered'
  <2>1. IntervalCovered
    BY DEF BuyInv
  <2>2. buyer'[b].nextIntervalStart <= buyer'[b].expiry
    BY <1>1
  <2> QED BY <1>1, <2>1, <2>2 DEF IntervalCovered
<1>5. ExpiriesInReach'
    BY <1>1, <1>2 DEF BuyInv, ExpiriesInReach
<1>6. LivePurchasesCanBeMined'
    BY <1>1 DEF BuyInv, BuyerType, PurchaseRec, LivePurchasesCanBeMined
<1>7. MinedAtItsPrice'
    BY <1>1 DEF BuyInv, MinedAtItsPrice
<1> QED BY <1>3, <1>4, <1>5, <1>6, <1>7 DEF BuyInv

LEMMA TipChangedKeepsBuyInv ==
    ASSUME BuyInv, BuyerType', NEW n \in 1 .. 2, TipChanged(n)
    PROVE  BuyInv'
<1>1. height \in Nat /\ height' \in Nat /\ height < height' /\ UNCHANGED <<purchases, bought>>
    BY DEF TipChanged, BuyInv, BuyerType
<1>2. ASSUME NEW b \in Buyers
      PROVE  /\ buyer'[b].last = buyer[b].last /\ buyer'[b].expiry = buyer[b].expiry
             /\ buyer'[b].nextIntervalStart = buyer[b].nextIntervalStart
             /\ \/ buyer'[b].tips = buyer[b].tips
                \/ buyer'[b].tips = Append(buyer[b].tips, height')
    BY ZenonT(60) DEF TipChanged, BuyInv, BuyerType, BuyerRec
<1>3. TipsInOrder'
  <2> SUFFICES ASSUME NEW b \in Buyers
               PROVE  InOrder(buyer'[b].tips, buyer'[b].last, height')
    BY DEF TipsInOrder
  <2>1. /\ buyer[b].tips \in Seq(Nat) /\ buyer[b].last \in Nat
        /\ InOrder(buyer[b].tips, buyer[b].last, height)
    BY DEF BuyInv, BuyerType, BuyerRec, TipsInOrder
  <2>2. InOrder(buyer[b].tips, buyer[b].last, height')
    BY <1>1, <2>1, InOrderHigher
  <2>3. InOrder(Append(buyer[b].tips, height'), buyer[b].last, height')
    BY <1>1, <2>1, InOrderAppend
  <2> QED BY <1>2, <2>2, <2>3
<1>4. IntervalCovered'
    BY <1>2 DEF BuyInv, IntervalCovered
<1>5. ExpiriesInReach'
  <2>1. /\ \A b \in Buyers : buyer[b].expiry \in Nat
        /\ \A p \in purchases : p.expiry \in Nat
    BY DEF BuyInv, BuyerType, BuyerRec, PurchaseRec
  <2>2. ExpiriesInReach
    BY DEF BuyInv
  <2>3. \A e \in Nat : InReach(e, height) => InReach(e, height')
    BY <1>1, InReachMonotone
  <2> QED BY <1>1, <1>2, <2>1, <2>2, <2>3 DEF ExpiriesInReach
<1>6. LivePurchasesCanBeMined'
    BY <1>1, <1>2 DEF BuyInv, BuyerType, PurchaseRec, LivePurchasesCanBeMined
<1>7. MinedAtItsPrice'
    BY <1>1 DEF BuyInv, MinedAtItsPrice
<1> QED BY <1>3, <1>4, <1>5, <1>6, <1>7 DEF BuyInv

\* The tip in hand and the ones behind it.
LEMMA TipInOrder ==
    ASSUME BuyInv, NEW b \in Buyers, HasTip(b)
    PROVE  /\ Tip(b) \in Nat /\ buyer[b].last < Tip(b) /\ Tip(b) <= height
           /\ InOrder(Tail(buyer[b].tips), buyer[b].last, height)
           /\ InOrder(Tail(buyer[b].tips), Tip(b), height)
<1>1. /\ buyer[b].tips \in Seq(Nat) /\ buyer[b].last \in Nat /\ height \in Nat
      /\ buyer[b].tips # <<>> /\ InOrder(buyer[b].tips, buyer[b].last, height)
    BY DEF BuyInv, BuyerType, BuyerRec, HasTip, TipsInOrder
<1> QED BY <1>1, InOrderTail DEF Tip

LEMMA TipSkippedKeepsBuyInv ==
    ASSUME BuyInv, BuyerType', NEW b \in Buyers, TipSkipped(b)
    PROVE  BuyInv'
<1>1. /\ \A c \in Buyers : /\ buyer'[c].last = buyer[c].last
                           /\ buyer'[c].expiry = buyer[c].expiry
                           /\ buyer'[c].nextIntervalStart = buyer[c].nextIntervalStart
                           /\ c # b => buyer'[c].tips = buyer[c].tips
      /\ buyer'[b].tips = Tail(buyer[b].tips)
      /\ UNCHANGED <<height, purchases, bought>> /\ HasTip(b)
    BY ZenonT(60) DEF TipSkipped, BuyInv, BuyerType, BuyerRec
<1>2. TipsInOrder'
    BY <1>1, TipInOrder DEF BuyInv, TipsInOrder
<1>3. IntervalCovered' /\ ExpiriesInReach'
    BY <1>1 DEF BuyInv, IntervalCovered, ExpiriesInReach
<1>4. LivePurchasesCanBeMined'
    BY <1>1 DEF BuyInv, BuyerType, PurchaseRec, LivePurchasesCanBeMined
<1>5. MinedAtItsPrice'
    BY <1>1 DEF BuyInv, MinedAtItsPrice
<1> QED BY <1>2, <1>3, <1>4, <1>5 DEF BuyInv

\* The tip begins an interval and nothing is bought: all purchases are canceled.
LEMMA TipStartsSoonKeepsBuyInv ==
    ASSUME BuyInv, BuyerType', NEW b \in Buyers, TipStartsSoon(b)
    PROVE  BuyInv'
<1>1. /\ \A c \in Buyers : /\ buyer'[c].expiry = buyer[c].expiry
                           /\ c # b => buyer'[c] = buyer[c]
      /\ buyer'[b].tips = Tail(buyer[b].tips) /\ buyer'[b].last = Tip(b)
      /\ buyer'[b].nextIntervalStart = NextIntervalStart(b)
      /\ UNCHANGED <<height, bought>> /\ HasTip(b)
      /\ Tip(b) + 2 = NextIntervalStart(b) /\ purchases' = CancelPurchases(b)
    BY DEF TipStartsSoon, StartsSoon, StillBuying, BuyInv, BuyerType, BuyerRec
<1>2. Tip(b) \in Nat /\ InOrder(Tail(buyer[b].tips), Tip(b), height)
    BY <1>1, TipInOrder
<1>3. TipsInOrder'
    BY <1>1, <1>2 DEF BuyInv, TipsInOrder
<1>4. IntervalCovered'
    BY <1>1, <1>2 DEF BuyInv, IntervalCovered
<1>5. \A p \in purchases' :
          /\ p.buyer = b => p.canceled
          /\ \E q \in purchases : /\ q.buyer = p.buyer /\ q.expiry = p.expiry
                                  /\ ~p.canceled => ~q.canceled
    BY <1>1, CancelPurchasesType DEF BuyInv
<1>6. ExpiriesInReach'
    BY <1>1, <1>5 DEF BuyInv, ExpiriesInReach
<1>7. LivePurchasesCanBeMined'
  <2> SUFFICES ASSUME NEW p \in purchases', ~p.canceled
               PROVE  buyer'[p.buyer].last + 2 < buyer'[p.buyer].expiry
    BY DEF LivePurchasesCanBeMined
  <2>1. PICK q \in purchases : q.buyer = p.buyer /\ ~q.canceled
    BY <1>5
  <2>2. q.buyer \in Buyers /\ q.buyer # b
    BY <1>5, <2>1 DEF BuyInv, BuyerType, PurchaseRec
  <2> QED BY <1>1, <2>1, <2>2 DEF BuyInv, LivePurchasesCanBeMined
<1>8. MinedAtItsPrice'
    BY <1>1 DEF BuyInv, MinedAtItsPrice
<1> QED BY <1>3, <1>4, <1>6, <1>7, <1>8 DEF BuyInv

\* The tip may begin an interval, which cancels the purchases before it; the
\* new purchase can be mined.
LEMMA TipBuysKeepsBuyInv ==
    ASSUME BuyInv, BuyerType', NEW b \in Buyers, TipBuys(b)
    PROVE  BuyInv'
<1>1. /\ \A c \in Buyers : c # b => buyer'[c] = buyer[c]
      /\ buyer'[b].tips = Tail(buyer[b].tips) /\ buyer'[b].last = Tip(b)
      /\ buyer'[b].nextIntervalStart = NextIntervalStart(b)
      /\ buyer'[b].expiry = Expiry(b)
      /\ UNCHANGED <<height, bought>> /\ HasTip(b) /\ ~StartsSoon(b)
    BY DEF TipBuys, BuyInv, BuyerType, BuyerRec
<1>2. /\ Tip(b) \in Nat /\ buyer[b].last < Tip(b) /\ Tip(b) <= height
      /\ InOrder(Tail(buyer[b].tips), Tip(b), height)
    BY <1>1, TipInOrder
<1>3. /\ buyer[b].last \in Nat /\ buyer[b].nextIntervalStart \in Nat
      /\ buyer[b].expiry \in Nat /\ height \in Nat
    BY DEF BuyInv, BuyerType, BuyerRec
<1>4. /\ NextIntervalStart(b) \in Nat /\ Expiry(b) \in Nat
      /\ NextIntervalStart(b) <= Expiry(b) /\ Tip(b) + 2 < Expiry(b)
      /\ InReach(Expiry(b), height)
  <2>1. CASE IntervalOver(b)
    BY <1>1, <1>2, <1>3, <2>1, NewInterval, InReachMonotone DEF BuyInv
  <2>2. CASE ~IntervalOver(b)
    <3>1. /\ NextIntervalStart(b) = buyer[b].nextIntervalStart /\ Expiry(b) = buyer[b].expiry
          /\ Tip(b) + 2 < buyer[b].nextIntervalStart
      BY <1>2, <1>3, <2>2 DEF NextIntervalStart, Expiry, IntervalOver
    <3>2. buyer[b].nextIntervalStart <= buyer[b].expiry
      BY <1>2, <1>3, <3>1 DEF BuyInv, IntervalCovered
    <3>3. InReach(buyer[b].expiry, height)
      BY DEF BuyInv, ExpiriesInReach
    <3> QED BY <1>2, <1>3, <3>1, <3>2, <3>3
  <2> QED BY <2>1, <2>2
<1>5. TipsInOrder'
    BY <1>1, <1>2 DEF BuyInv, TipsInOrder
<1>6. IntervalCovered'
    BY <1>1, <1>4 DEF BuyInv, IntervalCovered
<1>7. \A p \in purchases' :
          \/ p.buyer = b /\ p.expiry = 0
          \/ \E q \in purchases : /\ q.buyer = p.buyer /\ q.expiry = p.expiry
                                  /\ ~p.canceled => ~q.canceled
  <2>1. \A p \in StillBuying(b) :
           \E q \in purchases : /\ q.buyer = p.buyer /\ q.expiry = p.expiry
                                /\ ~p.canceled => ~q.canceled
    BY CancelPurchasesType DEF StillBuying, BuyInv
  <2> QED BY <2>1 DEF TipBuys
<1>8. ExpiriesInReach'
  <2>1. InReach(0, height)
    BY <1>3, WindowAssumption DEF InReach
  <2>2. ExpiriesInReach
    BY DEF BuyInv
  <2> QED BY <1>1, <1>4, <1>7, <2>1, <2>2 DEF ExpiriesInReach
<1>9. LivePurchasesCanBeMined'
  <2> SUFFICES ASSUME NEW p \in purchases', ~p.canceled
               PROVE  buyer'[p.buyer].last + 2 < buyer'[p.buyer].expiry
    BY DEF LivePurchasesCanBeMined
  <2>1. CASE p.buyer = b
    BY <1>1, <1>4, <2>1
  <2>2. CASE p.buyer # b
    <3>1. PICK q \in purchases : q.buyer = p.buyer /\ ~q.canceled
      BY <1>7, <2>2
    <3>2. q.buyer \in Buyers
      BY DEF BuyInv, BuyerType, PurchaseRec
    <3> QED BY <1>1, <2>2, <3>1, <3>2 DEF BuyInv, LivePurchasesCanBeMined
  <2> QED BY <2>1, <2>2
<1>10. MinedAtItsPrice'
    BY <1>1 DEF BuyInv, MinedAtItsPrice
<1> QED BY <1>5, <1>6, <1>8, <1>9, <1>10 DEF BuyInv

\* A purchase that starts late reads the expiry of a later tip, in reach as well.
LEMMA BuyTicketKeepsBuyInv ==
    ASSUME BuyInv, BuyerType', NEW p \in purchases, BuyTicket(p)
    PROVE  BuyInv'
<1>1. /\ UNCHANGED <<height, buyer, bought>>
      /\ \A q \in purchases' :
            \/ q \in purchases
            \/ /\ q.buyer = p.buyer /\ q.canceled = p.canceled
               /\ q.expiry = buyer[p.buyer].expiry
    BY DEF BuyTicket, BuyInv, BuyerType, PurchaseRec
<1>2. p.buyer \in Buyers
    BY DEF BuyInv, BuyerType, PurchaseRec
<1>3. TipsInOrder' /\ IntervalCovered' /\ MinedAtItsPrice'
    BY <1>1 DEF BuyInv, TipsInOrder, IntervalCovered, MinedAtItsPrice
<1>4. ExpiriesInReach'
    BY <1>1, <1>2 DEF BuyInv, ExpiriesInReach
<1>5. LivePurchasesCanBeMined'
  <2> SUFFICES ASSUME NEW q \in purchases', ~q.canceled
               PROVE  buyer[q.buyer].last + 2 < buyer[q.buyer].expiry
    BY <1>1 DEF LivePurchasesCanBeMined
  <2> QED BY <1>1 DEF BuyInv, LivePurchasesCanBeMined
<1> QED BY <1>3, <1>4, <1>5 DEF BuyInv

LEMMA TicketBoughtKeepsBuyInv ==
    ASSUME BuyInv, BuyerType', NEW p \in purchases, TicketBought(p)
    PROVE  BuyInv'
<1>1. /\ UNCHANGED <<height, buyer>> /\ purchases' \subseteq purchases
      /\ bought' = {[at |-> height, expiry |-> p.expiry]}
    BY DEF TicketBought, PurchaseDone
<1>2. height \in Nat /\ p.expiry \in Nat /\ InReach(p.expiry, height)
    BY DEF BuyInv, BuyerType, PurchaseRec, ExpiriesInReach
<1>3. TipsInOrder' /\ IntervalCovered' /\ ExpiriesInReach' /\ LivePurchasesCanBeMined'
    BY <1>1 DEF BuyInv, TipsInOrder, IntervalCovered, ExpiriesInReach, LivePurchasesCanBeMined
<1>4. MinedAtItsPrice'
    BY <1>1, <1>2, InReachIsOnePrice DEF MinedAtItsPrice
<1> QED BY <1>3, <1>4 DEF BuyInv

LEMMA BuyInvStep == BuyInv /\ [Next]_vars => BuyInv'
<1> SUFFICES ASSUME BuyInv, [Next]_vars PROVE BuyInv'
    OBVIOUS
<1>0. BuyerType /\ BuyerType' /\ \A b \in Buyers : buyer[b] \in BuyerRec
    BY BuyerTypeStep DEF BuyInv, BuyerType
<1>1. CASE UserNext
  <2>1. ASSUME NEW b \in Buyers, NEW pass, StartTicketBuyer(b, pass) PROVE BuyInv'
    BY <1>0, <2>1, StartKeepsBuyInv
  <2>2. CASE StopAutoTicketsPurchase
    <3>1. UNCHANGED <<height, bought, purchases>>
      BY <2>2 DEF StopAutoTicketsPurchase
    <3>2. QuietStep
      BY <1>0, <2>2, <3>1, BuyerStopped DEF QuietStep
    <3> QED BY <1>0, <3>2, QuietKeepsBuyInv
  <2>3. CASE UNCHANGED <<height, buyVars>>
    <3>1. QuietStep
      BY <2>3 DEF buyVars, QuietStep
    <3> QED BY <1>0, <3>1, QuietKeepsBuyInv
  <2> QED BY <1>1, <2>1, <2>2, <2>3
        DEF UserNext, PurchaseTickets, LockWallet, ChangePrivatePassphrase,
            SetAutoTicketsBuyerConfig, ClearTicketBuyerConfig
<1>2. CASE ChainNext
    BY <1>0, <1>2, TipChangedKeepsBuyInv DEF ChainNext
<1>3. ASSUME NEW b \in Buyers, BuyerNext(b) PROVE BuyInv'
  <2>1. CASE StartTicketBuyerFails(b) \/ StartTicketBuyerChecked(b) \/ RunTicketBuyer(b)
             \/ BuyerEnds(b)
    <3>1. PICK l \in {"failed", "start", "return", "run", "ended"} :
             buyer' = [buyer EXCEPT ![b].pc = l]
      BY <2>1 DEF StartTicketBuyerFails, StartTicketBuyerChecked, RunTicketBuyer, BuyerEnds
    <3>2. UNCHANGED <<height, purchases, bought>>
      BY <2>1 DEF StartTicketBuyerFails, StartTicketBuyerChecked, RunTicketBuyer, BuyerEnds
    <3>3. QuietStep
      BY <1>0, <3>1, <3>2, BuyerMoves DEF QuietStep
    <3> QED BY <1>0, <3>3, QuietKeepsBuyInv
  <2>2. CASE BuyerCanceled(b) \/ TipReturns(b)
    <3>1. /\ buyer' = [buyer EXCEPT ![b].pc = "return"] /\ purchases' = CancelPurchases(b)
          /\ UNCHANGED <<height, bought>>
      BY <2>2 DEF BuyerCanceled, TipReturns
    <3>2. QuietStep
      BY <1>0, <3>1, BuyerMoves, CancelPurchasesType DEF QuietStep
    <3> QED BY <1>0, <3>2, QuietKeepsBuyInv
  <2>3. CASE TipSkipped(b)
    BY <1>0, <2>3, TipSkippedKeepsBuyInv
  <2>4. CASE TipStartsSoon(b)
    BY <1>0, <2>4, TipStartsSoonKeepsBuyInv
  <2>5. CASE TipBuys(b)
    BY <1>0, <2>5, TipBuysKeepsBuyInv
  <2> QED BY <1>3, <2>1, <2>2, <2>3, <2>4, <2>5 DEF BuyerNext
<1>4. ASSUME NEW p \in purchases, PurchaseNext(p) PROVE BuyInv'
  <2>1. CASE BuyTicket(p)
    BY <1>0, <2>1, BuyTicketKeepsBuyInv
  <2>2. CASE BuyTicketPassphrase(p)
    <3>1. QuietStep
      BY <1>0, <2>2 DEF BuyTicketPassphrase, PurchaseDone, QuietStep, BuyerType, BuyerRec,
                        PurchaseRec
    <3> QED BY <1>0, <3>1, QuietKeepsBuyInv
  <2>3. CASE TicketBought(p)
    BY <1>0, <2>3, TicketBoughtKeepsBuyInv
  <2>4. CASE BuyTicketFails(p)
    <3>1. QuietStep
      BY <2>4 DEF BuyTicketFails, PurchaseDone, QuietStep
    <3> QED BY <1>0, <3>1, QuietKeepsBuyInv
  <2> QED BY <1>4, <2>1, <2>2, <2>3, <2>4 DEF PurchaseNext
<1>5. CASE UNCHANGED vars
  <2>1. QuietStep
    BY <1>5 DEF vars, buyVars, QuietStep
  <2> QED BY <1>0, <2>1, QuietKeepsBuyInv
<1> QED BY <1>1, <1>2, <1>3, <1>4, <1>5 DEF Next

LEMMA BuyInvariant == Spec => []BuyInv
BY BuyInvInit, BuyInvStep, PTL DEF Spec

\* Whatever the window size and however late a purchase of runTicketBuyer runs,
\* the blocks that its ticket can be mined in have the price it was bought at.
THEOREM TicketsKeepTheirPrice == Spec => []MinedAtItsPrice
<1>1. BuyInv => MinedAtItsPrice
    BY DEF BuyInv
<1> QED BY BuyInvariant, <1>1, PTL

\* A purchase whose context runTicketBuyer has not canceled can still be mined,
\* as of the last tip, before the ticket expires.
THEOREM PurchasesCanBeMined == Spec => []LivePurchasesCanBeMined
<1>1. BuyInv => LivePurchasesCanBeMined
    BY DEF BuyInv
<1> QED BY BuyInvariant, <1>1, PTL

----------------------------------------------------------------------------
(* The handle. *)

OneLiveBuyer == \A b, c \in LiveBuyers : b = c

HandleInv == BuyerType /\ OneLiveBuyer /\ HandleReachesBuyer

LEMMA HandleInvInit == Init => HandleInv
<1> SUFFICES ASSUME Init PROVE HandleInv
    OBVIOUS
<1>1. LiveBuyers = {}
    BY DEF Init, NoBuyer, LiveBuyers
<1> QED BY <1>1, BuyerTypeInit DEF HandleInv, OneLiveBuyer, HandleReachesBuyer

\* A step that starts no run and leaves the handle of a live one.
HandleStep ==
    /\ \A b \in LiveBuyers' : b \in LiveBuyers /\ (buyer[b].canceled => buyer'[b].canceled)
    /\ \/ UNCHANGED cancelAutoTicketBuyer
       \/ \A b \in LiveBuyers' : buyer'[b].canceled \/ cancelAutoTicketBuyer # b

LEMMA HandleStepKeepsInv ==
    ASSUME HandleInv, BuyerType', HandleStep
    PROVE  HandleInv'
BY DEF HandleInv, HandleStep, OneLiveBuyer, HandleReachesBuyer

LEMMA HandleInvStep ==
    ASSUME Waits, HandleInv, [Next]_vars
    PROVE  HandleInv'
<1>0. BuyerType /\ BuyerType' /\ \A b \in Buyers : buyer[b] \in BuyerRec
    BY BuyerTypeStep DEF HandleInv, BuyerType
<1>1. ASSUME NEW b \in Buyers, NEW pass, StartTicketBuyer(b, pass) PROVE HandleInv'
  <2>1. LiveBuyers = {} /\ cancelAutoTicketBuyer' = b
    BY <1>1 DEF StartTicketBuyer
  <2>2. \A c \in Buyers : c # b => buyer'[c] = buyer[c]
    BY <1>0, <1>1 DEF StartTicketBuyer, BuyerType
  <2>3. \A c \in LiveBuyers' : c = b
    BY <2>1, <2>2 DEF LiveBuyers
  <2> QED BY <1>0, <2>1, <2>3 DEF HandleInv, OneLiveBuyer, HandleReachesBuyer
<1>2. CASE StopAutoTicketsPurchase
  <2>1. HandleStep
    BY <1>0, <1>2, BuyerStopped DEF HandleStep, LiveBuyers
  <2> QED BY <1>0, <2>1, HandleStepKeepsInv
<1>3. CASE ChainNext
  <2>0. PICK n \in 1 .. 2 : TipChanged(n)
    BY <1>3 DEF ChainNext
  <2>1. /\ \A b \in Buyers : /\ buyer'[b].pc = buyer[b].pc
                             /\ buyer'[b].canceled = buyer[b].canceled
        /\ UNCHANGED cancelAutoTicketBuyer
    BY <1>0, <2>0 DEF TipChanged, BuyerRec
  <2>2. HandleStep
    BY <2>1 DEF HandleStep, LiveBuyers
  <2> QED BY <1>0, <2>2, HandleStepKeepsInv
<1>4. ASSUME NEW b \in Buyers, BuyerNext(b) PROVE HandleInv'
  <2>1. CASE BuyerEnds(b)
    <3>1. b \in LiveBuyers /\ b \notin LiveBuyers' /\ LiveBuyers' \subseteq LiveBuyers
      BY <1>0, <2>1 DEF BuyerEnds, LiveBuyers, BuyerType, BuyerRec
    <3>2. LiveBuyers' = {}
      BY <3>1 DEF HandleInv, OneLiveBuyer
    <3> QED BY <1>0, <3>2 DEF HandleInv, OneLiveBuyer, HandleReachesBuyer
  <2>2. CASE ~BuyerEnds(b)
    <3>0. b \in LiveBuyers /\ UNCHANGED cancelAutoTicketBuyer
      BY <1>4, <2>2
         DEF BuyerNext, StartTicketBuyerFails, StartTicketBuyerChecked, RunTicketBuyer,
             BuyerCanceled, TipSkipped, TipStartsSoon, TipBuys, TipReturns, HasTip, LiveBuyers
    <3>1. buyer'[b].canceled = buyer[b].canceled
      <4>1. CASE TipSkipped(b)
        BY <1>0, <4>1, ZenonT(60) DEF TipSkipped, BuyerType, BuyerRec
      <4>2. CASE TipStartsSoon(b)
        BY <1>0, <4>2, ZenonT(60) DEF TipStartsSoon, BuyerType, BuyerRec
      <4>3. CASE TipBuys(b)
        BY <1>0, <4>3, ZenonT(60) DEF TipBuys, BuyerType, BuyerRec
      <4>4. CASE \E l : buyer' = [buyer EXCEPT ![b].pc = l]
        BY <1>0, <4>4, BuyerMoves
      <4>5. CASE StartTicketBuyerFails(b) \/ StartTicketBuyerChecked(b) \/ RunTicketBuyer(b)
        BY <4>4, <4>5 DEF StartTicketBuyerFails, StartTicketBuyerChecked, RunTicketBuyer
      <4>6. CASE BuyerCanceled(b) \/ TipReturns(b)
        BY <4>4, <4>6 DEF BuyerCanceled, TipReturns
      <4> QED BY <1>4, <2>2, <4>1, <4>2, <4>3, <4>5, <4>6 DEF BuyerNext
    <3>2. \A c \in Buyers : c # b => buyer'[c] = buyer[c]
      BY <1>0, <1>4, <2>2
         DEF BuyerNext, StartTicketBuyerFails, StartTicketBuyerChecked, RunTicketBuyer,
             BuyerCanceled, TipSkipped, TipStartsSoon, TipBuys, TipReturns, BuyerType
    <3>3. HandleStep
      BY <3>0, <3>1, <3>2 DEF HandleStep, LiveBuyers
    <3> QED BY <1>0, <3>3, HandleStepKeepsInv
  <2> QED BY <2>1, <2>2
<1>5. ASSUME NEW p \in purchases, PurchaseNext(p) PROVE HandleInv'
  <2>1. \A b \in Buyers : buyer'[b].pc = buyer[b].pc /\ buyer'[b].canceled = buyer[b].canceled
    <3>1. p.buyer \in Buyers
      BY <1>0 DEF BuyerType, PurchaseRec
    <3>2. CASE buyer' = [buyer EXCEPT ![p.buyer].fatal = TRUE]
      BY <1>0, <3>1, <3>2, ZenonT(60) DEF BuyerType, BuyerRec
    <3> QED BY <1>5, <3>2
          DEF PurchaseNext, BuyTicket, BuyTicketPassphrase, TicketBought, BuyTicketFails
  <2>2. UNCHANGED cancelAutoTicketBuyer
    BY <1>5 DEF PurchaseNext, BuyTicket, BuyTicketPassphrase, TicketBought, BuyTicketFails
  <2>3. HandleStep
    BY <2>1, <2>2 DEF HandleStep, LiveBuyers
  <2> QED BY <1>0, <2>3, HandleStepKeepsInv
<1>6. CASE UNCHANGED <<buyer, cancelAutoTicketBuyer>>
  <2>1. HandleStep
    BY <1>6 DEF HandleStep, LiveBuyers
  <2> QED BY <1>0, <2>1, HandleStepKeepsInv
<1> QED BY <1>1, <1>2, <1>3, <1>4, <1>5, <1>6
      DEF Next, UserNext, PurchaseTickets, LockWallet, ChangePrivatePassphrase,
          SetAutoTicketsBuyerConfig, ClearTicketBuyerConfig, vars, buyVars

\* When StartTicketBuyer is called with no earlier run left, the handle in
\* Wallet.cancelAutoTicketBuyer is that of the run that is live, unless it was
\* stopped; failed starts, which leave their handle behind, included.
THEOREM HandleIsOfTheLiveBuyer == Waits => (Spec => []HandleReachesBuyer)
<1> SUFFICES ASSUME Waits PROVE Spec => []HandleReachesBuyer
    OBVIOUS
<1>1. HandleInv /\ [Next]_vars => HandleInv'
    BY HandleInvStep
<1>2. HandleInv => HandleReachesBuyer
    BY DEF HandleInv
<1> QED BY HandleInvInit, <1>1, <1>2, PTL DEF Spec

----------------------------------------------------------------------------
(* The rescan and the account mixer. *)

ServicesType ==
    /\ pc \in [Services -> {"none", "start", "registered", "unlock", "run", "index",
                            "return", "notify"}]
    /\ \A r \in Rescans : pc[r] \notin {"unlock", "notify"}
    /\ canceled \subseteq Services
    /\ cancelRescan \in Rescans \cup {None}
    /\ cancelAccountMixer \in Mixers \cup {None}

\* At most one goroutine of a kind is there.
OneOfAKind ==
    /\ \A r, s \in Rescans : pc[r] # "none" /\ pc[s] # "none" => r = s
    /\ \A m, n \in Mixers : pc[m] # "none" /\ pc[n] # "none" => m = n

\* From the step that publishes its cancel function to the deferred function,
\* a rescan is reported, and has its handle unless it was canceled with it.
RescanHasHandle ==
    \A r \in Rescans : pc[r] \in {"run", "index", "return"} =>
        rescanning /\ (cancelRescan = r \/ r \in canceled)

\* The same of a mixer, until tb.Run returns.
MixerHasHandle ==
    \A m \in Mixers : pc[m] \in {"unlock", "run"} =>
        cancelAccountMixer = m \/ m \in canceled

\* A call that unlocked the wallet, or is about to lock it, meets no mixer that
\* is being set up.
CallMeetsSettled ==
    user \in {"create", "verified", "lock"} =>
        \A m \in Mixers : pc[m] \notin {"start", "registered", "unlock"}

\* What LockWallet found still holds when it locks.
LockCheckHolds ==
    user = "lock" => \A m \in Mixers : pc[m] = "run" => m \in canceled

RunningIsUnlocked ==
    \A m \in Mixers : pc[m] = "run" /\ m \notin canceled => lockedBy # "LockWallet"

Patient == /\ OneOfAKind /\ RescanHasHandle /\ MixerHasHandle
           /\ CallMeetsSettled /\ LockCheckHolds /\ RunningIsUnlocked

ServicesInv == ServicesType /\ (CallerWaits => Patient)

LEMMA ServicesInvInit == ServicesInit => ServicesInv
BY DEF ServicesInit, ServicesInv, ServicesType, Patient, OneOfAKind, RescanHasHandle, MixerHasHandle,
       CallMeetsSettled, LockCheckHolds, RunningIsUnlocked, Services, None

LEMMA ServicesTypeStep == ServicesType /\ [ServicesNext]_servicesVars => ServicesType'
<1> SUFFICES ASSUME ServicesType, [ServicesNext]_servicesVars PROVE ServicesType'
    OBVIOUS
<1> USE ServicesAssumption DEF ServicesDistinct, Services
<1>1. CASE CallerNext
  <2>1. CASE \E r \in Rescans : RescanBlocksFromHeight(r)
    <3>1. PICK r \in Rescans : RescanBlocksFromHeight(r)
      BY <2>1
    <3>2. /\ pc' = [pc EXCEPT ![r] = "start"] /\ canceled' \subseteq canceled
          /\ UNCHANGED <<cancelRescan, cancelAccountMixer>>
      BY <3>1 DEF RescanBlocksFromHeight, Start, Goto, fieldVars
    <3> QED BY <3>2 DEF ServicesType
  <2>2. CASE \E m \in Mixers : StartAccountMixer(m)
    <3>1. PICK m \in Mixers : StartAccountMixer(m)
      BY <2>2
    <3>2. /\ pc' = [pc EXCEPT ![m] = "start"] /\ canceled' \subseteq canceled
          /\ UNCHANGED <<cancelRescan, cancelAccountMixer>>
      BY <3>1 DEF StartAccountMixer, Start, Goto, fieldVars
    <3> QED BY <3>2 DEF ServicesType
  <2>3. CASE CallCancelRescan
    BY <2>3 DEF ServicesType, CallCancelRescan, CancelRescan
  <2>4. CASE UNCHANGED <<fieldVars, ctxVars, pc>>
    BY <2>4 DEF ServicesType, fieldVars, ctxVars
  <2> QED BY <1>1, <2>1, <2>2, <2>3, <2>4
        DEF CallerNext, CallLockWallet, LockWalletLocks, CreateMixerAccounts,
            SetAccountMixerConfig, CastVotes, UnlockWallet, UnlockedCallEnds, CastVotesEnds,
            ClearMixerConfig, StopAccountMixer, Shutdown
<1>2. CASE ShutdownNext
  <2>1. CASE ListenForShutdown \/ WalletListens
    BY <2>1 DEF ServicesType, ListenForShutdown, WalletListens, Fires, fieldVars
  <2>2. CASE ShutdownWallets
    BY <2>2 DEF ServicesType, ShutdownWallets, CancelRescan
  <2> QED BY <1>2, <2>1, <2>2 DEF ShutdownNext
<1>3. CASE CheckWalletMixers \/ MixableChanges \/ \E a \in Stoppers : StopChecks(a)
    BY <1>3 DEF ServicesType, CheckWalletMixers, MixableChanges, StopChecks, fieldVars, ctxVars
<1>4. CASE \E a \in Stoppers : StopCalls(a)
    BY <1>4 DEF ServicesType, StopCalls, HandleCalled, IsAccountMixerActive
<1>5. CASE \E r \in Rescans : RescanNext(r)
    BY <1>5 DEF ServicesType, RescanNext, Registers, RescanStarted, RescanStops, RescanScanned,
                RescanIndexed, RescanEnded, Goto, fieldVars, ctxVars
<1>6. CASE \E m \in Mixers : MixerNext(m)
    BY <1>6, ZenonT(60) DEF ServicesType, MixerNext, Registers, MixerStarted, MixerUnlocks, MixerReturns,
                MixerClears, MixerEnded, Goto, fieldVars, ctxVars
<1>7. CASE UNCHANGED servicesVars
    BY <1>7 DEF ServicesType, servicesVars, fieldVars, ctxVars
<1> QED BY <1>1, <1>2, <1>3, <1>4, <1>5, <1>6, <1>7 DEF ServicesNext

----------------------------------------------------------------------------
(* The steps that move no goroutine of a service. *)

\* A caller that locks, unlocks or signals; a stop that has not got to its call.
LEMMA CallsKeepPatient ==
    ASSUME ServicesType, CallerWaits, Patient, UNCHANGED <<fieldVars, ctxVars, pc>>,
           \/ user' \notin {"create", "verified", "lock"} /\ lockedBy' # "LockWallet"
           \/ user' = user /\ lockedBy' = lockedBy
           \/ Idle /\ user' \in {"create", "verified"} /\ lockedBy' # "LockWallet"
           \/ (Idle \/ user \in {"create", "verified"}) /\ user' = LockWalletChecks
              /\ lockedBy' = lockedBy
           \/ user = "lock" /\ user' = "idle"
           \/ user' \in {"idle", "stop", "shutdown"} /\ lockedBy' = lockedBy
    PROVE  Patient'
<1> USE ServicesAssumption DEF ServicesDistinct, Services
<1>1. OneOfAKind' /\ RescanHasHandle' /\ MixerHasHandle'
    BY DEF Patient, OneOfAKind, RescanHasHandle, MixerHasHandle, fieldVars, ctxVars
<1>2. CallMeetsSettled'
    BY DEF Patient, CallMeetsSettled, Idle, Settled, LockWalletChecks
<1>3. LockCheckHolds'
    BY DEF Patient, MixerHasHandle, LockCheckHolds, Idle, LockWalletChecks, IsAccountMixerActive,
           ctxVars, ServicesType
<1>4. RunningIsUnlocked'
    BY DEF Patient, LockCheckHolds, RunningIsUnlocked, ctxVars
<1> QED BY <1>1, <1>2, <1>3, <1>4 DEF Patient

\* Contexts are canceled, and a handle is cleared after it was called.
CancelStep ==
    /\ canceled \subseteq canceled' /\ UNCHANGED <<pc, rescanning, lockedBy>>
    /\ user' = user \/ user' = "idle"
    /\ \/ cancelRescan' = cancelRescan
       \/ cancelRescan' = None /\ (cancelRescan \in Rescans => cancelRescan \in canceled')
    /\ \/ cancelAccountMixer' = cancelAccountMixer
       \/ /\ cancelAccountMixer' = None
          /\ cancelAccountMixer # None => cancelAccountMixer \in canceled'

LEMMA CancelKeepsPatient ==
    ASSUME ServicesType, CallerWaits, Patient, CancelStep
    PROVE  Patient'
<1> USE ServicesAssumption DEF ServicesDistinct, Services
<1>1. OneOfAKind' /\ CallMeetsSettled' /\ LockCheckHolds' /\ RunningIsUnlocked'
    BY DEF CancelStep, Patient, OneOfAKind, CallMeetsSettled, LockCheckHolds, RunningIsUnlocked
<1>2. RescanHasHandle'
    BY DEF CancelStep, Patient, RescanHasHandle
<1>3. MixerHasHandle'
    BY DEF CancelStep, Patient, MixerHasHandle
<1> QED BY <1>1, <1>2, <1>3 DEF Patient

----------------------------------------------------------------------------
(* The steps of a service's goroutine. *)

\* A rescan is started only when the flag says that none is there, which a
\* patient caller can rely on.
LEMMA RescanStartKeepsPatient ==
    ASSUME ServicesType, CallerWaits, Patient, NEW r \in Rescans, RescanBlocksFromHeight(r)
    PROVE  Patient'
<1> USE ServicesAssumption DEF ServicesDistinct, Services
<1>0. /\ pc[r] = "none" /\ pc' = [pc EXCEPT ![r] = "start"] /\ canceled' = canceled \ {r}
      /\ UNCHANGED <<rescanning, cancelRescan, cancelAccountMixer, lockedBy, user>>
      /\ ~rescanning /\ Settled
    BY DEF RescanBlocksFromHeight, MayRescan, Start, Goto, fieldVars, mixingVars, Idle
<1>1. \A s \in Rescans : pc[s] = "none"
    BY <1>0 DEF ServicesType, Patient, RescanHasHandle, Settled
<1>2. \A m \in Mixers : pc'[m] = pc[m] /\ (m \in canceled' <=> m \in canceled)
    BY <1>0 DEF ServicesType
<1>3. OneOfAKind'
    BY <1>0, <1>1, <1>2 DEF ServicesType, Patient, OneOfAKind
<1>4. RescanHasHandle'
    BY <1>0, <1>1 DEF ServicesType, RescanHasHandle
<1>5. MixerHasHandle' /\ CallMeetsSettled' /\ LockCheckHolds' /\ RunningIsUnlocked'
    BY <1>0, <1>2 DEF Patient, MixerHasHandle, CallMeetsSettled, LockCheckHolds, RunningIsUnlocked
<1> QED BY <1>3, <1>4, <1>5 DEF Patient

LEMMA RescanStepKeepsPatient ==
    ASSUME ServicesType, CallerWaits, Patient, NEW r \in Rescans, RescanNext(r)
    PROVE  Patient'
<1> USE ServicesAssumption DEF ServicesDistinct, Services
<1>0. /\ pc[r] # "none" /\ canceled' = canceled
      /\ UNCHANGED <<cancelAccountMixer, lockedBy, user>>
      /\ \A x \in Services : x # r => pc'[x] = pc[x]
    BY DEF RescanNext, Registers, RescanStarted, RescanStops, RescanScanned,
           RescanIndexed, RescanEnded, Goto, fieldVars, mixingVars, ctxVars, ServicesType
<1>1. \A s \in Rescans : s # r => pc[s] = "none" /\ pc'[s] = "none"
    BY <1>0 DEF Patient, OneOfAKind
<1>2. \A m \in Mixers : pc'[m] = pc[m]
    BY <1>0
<1>3. OneOfAKind'
    BY <1>0, <1>1, <1>2 DEF Patient, OneOfAKind
<1>4. RescanHasHandle'
  <2>1. CASE Registers(r) \/ RescanStarted(r) \/ RescanEnded(r)
    BY <2>1, <1>1 DEF Registers, RescanStarted, RescanEnded, Goto, RescanHasHandle, ServicesType
  <2>2. CASE RescanStops(r) \/ RescanScanned(r) \/ RescanIndexed(r)
    BY <2>2, <1>1 DEF RescanStops, RescanScanned, RescanIndexed, Goto, RescanHasHandle,
                      ServicesType, Patient, fieldVars, ctxVars
  <2> QED BY <2>1, <2>2 DEF RescanNext
<1>5. MixerHasHandle' /\ CallMeetsSettled' /\ LockCheckHolds' /\ RunningIsUnlocked'
    BY <1>0, <1>2 DEF Patient, MixerHasHandle, CallMeetsSettled, LockCheckHolds, RunningIsUnlocked
<1> QED BY <1>3, <1>4, <1>5 DEF Patient

LEMMA MixerStartKeepsPatient ==
    ASSUME ServicesType, CallerWaits, Patient, NEW m \in Mixers, StartAccountMixer(m)
    PROVE  Patient'
<1> USE ServicesAssumption DEF ServicesDistinct, Services
<1>0. /\ pc' = [pc EXCEPT ![m] = "start"] /\ canceled' = canceled \ {m}
      /\ UNCHANGED <<rescanning, cancelRescan, cancelAccountMixer, user>>
      /\ user = "idle" /\ \A n \in Mixers : pc[n] = "none"
    BY DEF StartAccountMixer, Start, Goto, fieldVars, Idle
<1>1. \A r \in Rescans : pc'[r] = pc[r] /\ (r \in canceled' <=> r \in canceled)
    BY <1>0 DEF ServicesType
<1>2. pc'[m] = "start" /\ \A n \in Mixers : n # m => pc'[n] = "none"
    BY <1>0 DEF ServicesType
<1>3. OneOfAKind'
    BY <1>1, <1>2 DEF Patient, OneOfAKind
<1>4. RescanHasHandle'
    BY <1>0, <1>1 DEF Patient, RescanHasHandle
<1>5. MixerHasHandle' /\ CallMeetsSettled' /\ LockCheckHolds' /\ RunningIsUnlocked'
    BY <1>0, <1>2 DEF MixerHasHandle, CallMeetsSettled, LockCheckHolds, RunningIsUnlocked
<1> QED BY <1>3, <1>4, <1>5 DEF Patient

LEMMA MixerStepKeepsPatient ==
    ASSUME ServicesType, CallerWaits, Patient, NEW m \in Mixers, MixerNext(m)
    PROVE  Patient'
<1> USE ServicesAssumption DEF ServicesDistinct, Services
<1>0. /\ pc[m] # "none" /\ canceled' = canceled
      /\ UNCHANGED <<rescanning, cancelRescan, user>>
      /\ \A x \in Services : x # m => pc'[x] = pc[x]
    BY DEF MixerNext, Registers, MixerStarted, MixerUnlocks, MixerReturns, MixerClears,
           MixerEnded, Goto, fieldVars, mixingVars, ctxVars, ServicesType
<1>1. \A n \in Mixers : n # m => pc[n] = "none" /\ pc'[n] = "none"
    BY <1>0 DEF Patient, OneOfAKind
<1>2. \A r \in Rescans : pc'[r] = pc[r]
    BY <1>0
<1>3. OneOfAKind'
    BY <1>0, <1>1, <1>2 DEF Patient, OneOfAKind
<1>4. RescanHasHandle'
    BY <1>0, <1>2 DEF Patient, RescanHasHandle
<1>5. CASE Registers(m) \/ MixerStarted(m)
  <2>1. pc[m] \in {"start", "registered"} /\ pc'[m] \in {"registered", "unlock"}
        /\ (pc'[m] = "unlock" => cancelAccountMixer' = m)
    BY <1>5 DEF Registers, MixerStarted, Goto, ServicesType
  <2> QED BY <2>1, <1>0, <1>1, <1>3, <1>4
        DEF Patient, MixerHasHandle, CallMeetsSettled, LockCheckHolds, RunningIsUnlocked
<1>6. CASE MixerUnlocks(m)
  <2>1. pc[m] = "unlock" /\ pc'[m] = "run" /\ lockedBy' = ""
        /\ cancelAccountMixer' = cancelAccountMixer
    BY <1>6 DEF MixerUnlocks, Goto, ServicesType, fieldVars
  <2> QED BY <2>1, <1>0, <1>1, <1>3, <1>4
        DEF Patient, MixerHasHandle, CallMeetsSettled, LockCheckHolds, RunningIsUnlocked
<1>7. CASE MixerReturns(m) \/ MixerClears(m) \/ MixerEnded(m)
  <2>1. pc'[m] \in {"return", "notify", "none"}
    BY <1>7 DEF MixerReturns, MixerClears, MixerEnded, Goto, ServicesType
  <2> QED BY <2>1, <1>0, <1>1, <1>3, <1>4
        DEF Patient, MixerHasHandle, CallMeetsSettled, LockCheckHolds, RunningIsUnlocked
<1> QED BY <1>5, <1>6, <1>7 DEF MixerNext

----------------------------------------------------------------------------
LEMMA PatientStep ==
    ASSUME ServicesType, CallerWaits, Patient, [ServicesNext]_servicesVars
    PROVE  Patient'
<1>1. CASE CallerNext
  <2>1. CASE \E r \in Rescans : RescanBlocksFromHeight(r)
    BY <2>1, RescanStartKeepsPatient
  <2>2. CASE \E m \in Mixers : StartAccountMixer(m)
    BY <2>2, MixerStartKeepsPatient
  <2>3. CASE CallCancelRescan
    <3>1. CancelStep
      BY <2>3 DEF CallCancelRescan, CancelRescan, CancelStep, mixingVars
    <3> QED BY <3>1, CancelKeepsPatient
  <2>4. CASE CallLockWallet \/ UnlockedCallEnds
    BY <2>4, CallsKeepPatient DEF CallLockWallet, UnlockedCallEnds, mixingVars
  <2>5. CASE LockWalletLocks
    BY <2>5, CallsKeepPatient DEF LockWalletLocks
  <2>6. CASE CreateMixerAccounts \/ SetAccountMixerConfig \/ CastVotes
    BY <2>6, CallsKeepPatient DEF CreateMixerAccounts, SetAccountMixerConfig, CastVotes, UnlockWallet
  <2>7. CASE CastVotesEnds
    BY <2>7, CallsKeepPatient DEF CastVotesEnds
  <2>8. CASE ClearMixerConfig \/ StopAccountMixer \/ Shutdown
    BY <2>8, CallsKeepPatient DEF ClearMixerConfig, StopAccountMixer, Shutdown, mixingVars
  <2> QED BY <1>1, <2>1, <2>2, <2>3, <2>4, <2>5, <2>6, <2>7, <2>8 DEF CallerNext
<1>2. CASE ShutdownNext
  <2>1. CASE ListenForShutdown \/ WalletListens
    <3>1. CancelStep
      BY <2>1 DEF ListenForShutdown, WalletListens, Fires, CancelStep, fieldVars, mixingVars
    <3> QED BY <3>1, CancelKeepsPatient
  <2>2. CASE ShutdownWallets
    <3>1. CancelStep
      BY <2>2 DEF ShutdownWallets, CancelRescan, CancelStep, mixingVars
    <3> QED BY <3>1, CancelKeepsPatient
  <2> QED BY <1>2, <2>1, <2>2 DEF ShutdownNext
<1>3. CASE CheckWalletMixers \/ MixableChanges
    BY <1>3, CallsKeepPatient DEF CheckWalletMixers, MixableChanges, mixingVars
<1>4. ASSUME NEW a \in Stoppers, StopChecks(a) PROVE Patient'
    BY <1>4, CallsKeepPatient DEF StopChecks, StopReturns, mixingVars
<1>5. ASSUME NEW a \in Stoppers, StopCalls(a) PROVE Patient'
  <2>1. CancelStep
    BY <1>5 DEF StopCalls, StopReturns, HandleCalled, IsAccountMixerActive, CancelStep, mixingVars
  <2> QED BY <2>1, CancelKeepsPatient
<1>6. CASE \E r \in Rescans : RescanNext(r)
    BY <1>6, RescanStepKeepsPatient
<1>7. CASE \E m \in Mixers : MixerNext(m)
    BY <1>7, MixerStepKeepsPatient
<1>8. CASE UNCHANGED servicesVars
    BY <1>8, CallsKeepPatient DEF servicesVars, mixingVars
<1> QED BY <1>1, <1>2, <1>3, <1>4, <1>5, <1>6, <1>7, <1>8 DEF ServicesNext

LEMMA ServicesInvariant == ServicesSpec => []ServicesInv
<1>1. ServicesInv /\ [ServicesNext]_servicesVars => ServicesInv'
    BY ServicesTypeStep, PatientStep DEF ServicesInv
<1> QED BY ServicesInvInit, <1>1, PTL DEF ServicesSpec

\* With a caller that waits, a rescan or a mixer at work has its handle in
\* cancelRescan or cancelAccountMixer unless it was canceled, whatever
\* checkWalletMixers, Shutdown and the ends of earlier services do meanwhile.
THEOREM WorkCanBeStopped == ServicesSpec => []ServicesAreStoppable
<1>1. ServicesInv => ServicesAreStoppable
    BY DEF ServicesInv, Patient, RescanHasHandle, MixerHasHandle, ServicesAreStoppable
<1> QED BY ServicesInvariant, <1>1, PTL

\* With a caller that waits, the check of LockWallet and its lock, two steps,
\* never lock the wallet under a mixer that is at work and not canceled.
THEOREM LockSparesTheMixer == ServicesSpec => []MixingIsUnlocked
<1>1. ServicesInv => MixingIsUnlocked
    BY DEF ServicesInv, Patient, RunningIsUnlocked, MixingIsUnlocked
<1> QED BY ServicesInvariant, <1>1, PTL
==============================================================================
