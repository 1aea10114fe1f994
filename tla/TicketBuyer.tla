----------------------------- MODULE TicketBuyer -----------------------------
(***************************************************************************)
(* The automatic ticket buyer of one wallet (ticket.go), with the calls    *)
(* that unlock and lock the wallet around it (PurchaseTickets, wallet.go). *)
(*                                                                         *)
(* Wallet.cancelAutoTicketBuyer, the handle, tells whether the buyer is    *)
(* active and stops it; the goroutine behind it lives on its own.  It is   *)
(* told of every new tip and starts purchases, each a goroutine of its     *)
(* own; they share the variable expiry of runTicketBuyer, which their      *)
(* closure reads when it starts to run.                                    *)
(*                                                                         *)
(* Tickets sold at one price are those of one window of WindowSize blocks. *)
(* dcrwallet (its lock, its tip notifications, its PurchaseTickets) and    *)
(* the VSP are external.                                                   *)
(***************************************************************************)
EXTENDS Integers, Sequences, FiniteSets

CONSTANTS
    Buyers,        \* runs of the ticket buyer there can be at a time
    WindowSize,    \* StakeDiffWindowSize
    StartHeight,   \* tip when the model starts
    MaxHeight,     \* bound: the highest tip
    Waits          \* a service is started when no goroutine of it is left

ASSUME WindowAssumption == WindowSize \in Nat \ {0, 1}
ASSUME HeightAssumption == StartHeight \in Nat /\ MaxHeight \in Nat /\ StartHeight <= MaxHeight
ASSUME WaitsAssumption == Waits \in BOOLEAN

NoRun == "norun"
ASSUME NoRunAssumption == NoRun \notin Buyers

VARIABLES
    \* the wallet
    locked, passphrase,
    buyerCfg,                \* ticket buyer keys: of the wallet, of the MultiWallet
    height,                  \* main chain tip
    \* the services
    cancelAutoTicketBuyer, buyer,
    purchases,               \* goroutines of buyTicket
    bought                   \* the last ticket a ticket buyer has bought, in a set

walletVars == <<locked, passphrase, buyerCfg>>
buyVars    == <<cancelAutoTicketBuyer, buyer, purchases, bought>>
vars == <<walletVars, height, buyVars>>

----------------------------------------------------------------------------
Window(h) == h \div WindowSize
NoBuyer == [pc |-> "none", pass |-> "", canceled |-> FALSE, fatal |-> FALSE, tips |-> <<>>,
            last |-> 0, nextIntervalStart |-> 0, expiry |-> 0]

\* A wallet that was opened: locked, nothing configured.
Init ==
    /\ locked = TRUE /\ passphrase = "p1"
    /\ buyerCfg = [o \in {"wallet", "mw"} |-> "unset"]
    /\ height = StartHeight
    /\ cancelAutoTicketBuyer = NoRun /\ buyer = [b \in Buyers |-> NoBuyer]
    /\ purchases = {} /\ bought = {}

----------------------------------------------------------------------------
(* The wallet's lock. *)

\* UnlockWallet, when the wallet is locked or not: the passphrase decides.
UnlockFails(pass) == pass # passphrase
Unlocked(pass) == pass = passphrase /\ locked' = FALSE

\* "if len(passphrase) > 0 && wallet.IsLocked()": the guard of the ticket
\* buyer's three calls of UnlockWallet.
MustUnlock(pass) == pass # "" /\ locked

\* PurchaseTickets: VSPClient and NetworkBackend have answered.  Its own
\* tickets are not the buyer's; it ends with the deferred LockWallet.
PurchaseTickets ==
    /\ locked /\ Unlocked(passphrase)
    /\ UNCHANGED <<passphrase, buyerCfg, height, buyVars>>

\* LockWallet, deferred by PurchaseTickets or called by itself; no mixer is
\* active.
LockWallet ==
    /\ ~locked /\ locked' = TRUE
    /\ UNCHANGED <<passphrase, buyerCfg, height, buyVars>>

ChangePrivatePassphrase ==
    /\ passphrase = "p1" /\ passphrase' = "p2"
    /\ UNCHANGED <<locked, buyerCfg, height, buyVars>>

----------------------------------------------------------------------------
(* The life cycle of the ticket buyer. *)

\* Mutant: the handle is dropped before it is called.
Dropped(runs, r) == runs

\* What calling a cancel function does.
Canceled(runs, r) == [runs EXCEPT ![r].canceled = TRUE]

\* Called once, to bound the model.
SetAutoTicketsBuyerConfig(c) ==
    /\ buyerCfg["wallet"] = "unset" /\ buyerCfg' = [buyerCfg EXCEPT !["wallet"] = c]
    /\ UNCHANGED <<locked, passphrase, height, buyVars>>

\* The keys are cleared through mw, whose keys have no wallet prefix.
ClearTicketBuyerConfig ==
    /\ buyerCfg' = [buyerCfg EXCEPT !["mw"] = "unset"]
    /\ UNCHANGED <<locked, passphrase, height, buyVars>>

TicketBuyerConfigIsSet == buyerCfg["wallet"] # "unset"

LiveBuyers == {b \in Buyers : buyer[b].pc \in {"check", "start", "run", "return"}}

\* StartTicketBuyer up to the end of its critical section: the handle is
\* stored before anything is checked.
StartTicketBuyer(b, pass) ==
    /\ buyer[b].pc \in {"none", "failed", "ended"} /\ (Waits => LiveBuyers = {})
    /\ \A p \in purchases : p.buyer # b
    /\ buyerCfg["wallet"] = "set"
    /\ cancelAutoTicketBuyer = NoRun
    /\ cancelAutoTicketBuyer' = b
    /\ buyer' = [buyer EXCEPT ![b] = [NoBuyer EXCEPT !.pc = "check", !.pass = pass]]
    /\ UNCHANGED <<walletVars, height, purchases, bought>>

\* The passphrase, if the wallet is locked, and the VSP are checked.  After a
\* failure the handle stays.
StartTicketBuyerFails(b) ==
    /\ buyer[b].pc = "check"
    /\ \/ MustUnlock(buyer[b].pass) /\ UnlockFails(buyer[b].pass) /\ UNCHANGED locked
       \/ IF MustUnlock(buyer[b].pass) THEN Unlocked(buyer[b].pass) ELSE UNCHANGED locked
    /\ buyer' = [buyer EXCEPT ![b].pc = "failed"]
    /\ UNCHANGED <<passphrase, buyerCfg, height, cancelAutoTicketBuyer,
                   purchases, bought>>

StartTicketBuyerChecked(b) ==
    /\ buyer[b].pc = "check"
    /\ IF MustUnlock(buyer[b].pass) THEN Unlocked(buyer[b].pass) ELSE UNCHANGED locked
    /\ buyer' = [buyer EXCEPT ![b].pc = "start"]
    /\ UNCHANGED <<passphrase, buyerCfg, height, cancelAutoTicketBuyer,
                   purchases, bought>>

\* runTicketBuyer up to its loop.
RunTicketBuyer(b) ==
    /\ buyer[b].pc = "start"
    /\ IF MustUnlock(buyer[b].pass) /\ UnlockFails(buyer[b].pass)
       THEN buyer' = [buyer EXCEPT ![b].pc = "return"] /\ UNCHANGED locked
       ELSE /\ buyer' = [buyer EXCEPT ![b].pc = "run"]
            /\ locked' = IF MustUnlock(buyer[b].pass) THEN FALSE ELSE locked
    /\ UNCHANGED <<passphrase, buyerCfg, height, cancelAutoTicketBuyer,
                   purchases, bought>>

\* Every return of runTicketBuyer cancels the context of its purchases.
CancelPurchases(b) == {IF p.buyer = b THEN [p EXCEPT !.canceled = TRUE] ELSE p : p \in purchases}

\* Mutant: a wrong passphrase does not cancel the context.
OnlyStopped(b) == buyer[b].canceled

\* ctx of runTicketBuyer: canceled by the handle or by outerCancel.
CtxDone(b) == buyer[b].canceled \/ buyer[b].fatal

\* The select takes ctx.Done.
BuyerCanceled(b) ==
    /\ buyer[b].pc = "run" /\ CtxDone(b)
    /\ buyer' = [buyer EXCEPT ![b].pc = "return"]
    /\ purchases' = CancelPurchases(b)
    /\ UNCHANGED <<walletVars, height, cancelAutoTicketBuyer, bought>>

\* The goroutine's last step.
BuyerEnds(b) ==
    /\ buyer[b].pc = "return" /\ buyer' = [buyer EXCEPT ![b].pc = "ended"]
    /\ cancelAutoTicketBuyer' = NoRun
    /\ UNCHANGED <<walletVars, height, purchases, bought>>

StopAutoTicketsPurchase ==
    /\ cancelAutoTicketBuyer # NoRun
    /\ buyer' = Canceled(buyer, cancelAutoTicketBuyer)
    /\ cancelAutoTicketBuyer' = NoRun
    /\ UNCHANGED <<walletVars, height, purchases, bought>>

----------------------------------------------------------------------------
(* The loop of runTicketBuyer. *)

\* The tip changes by one or more attached blocks.  The notification is
\* delivered to every running buyer: it may have one tip in hand, and the
\* next is only sent when it takes it.
TipChanged(n) ==
    /\ height + n <= MaxHeight
    /\ \A b \in Buyers : buyer[b].pc = "run" => Len(buyer[b].tips) < 2
    /\ height' = height + n
    /\ buyer' = [b \in Buyers |-> IF buyer[b].pc = "run"
                                  THEN [buyer[b] EXCEPT !.tips = Append(@, height')]
                                  ELSE buyer[b]]
    /\ UNCHANGED <<walletVars, cancelAutoTicketBuyer, purchases, bought>>

HasTip(b) == buyer[b].pc = "run" /\ buyer[b].tips # <<>>
Tip(b) == Head(buyer[b].tips)

\* Mutant: a purchase that can no longer be mined in its window goes on.
IntervalOverLate(b) == Tip(b) + 1 >= buyer[b].nextIntervalStart

\* "height+2 >= nextIntervalStart"
IntervalOver(b) == Tip(b) + 2 >= buyer[b].nextIntervalStart

NextIntervalStart(b) ==
    IF IntervalOver(b) THEN (Window(Tip(b)) + 1) * WindowSize ELSE buyer[b].nextIntervalStart

\* "Skipping purchase: next sdiff interval starts soon"
StartsSoon(b) == IntervalOver(b) /\ Tip(b) + 2 = NextIntervalStart(b)

\* Mutant: tickets are valid for a window too long.
ExpiryTooLate(b) ==
    IF IntervalOver(b) THEN NextIntervalStart(b) + WindowSize ELSE buyer[b].expiry

Expiry(b) ==
    IF IntervalOver(b)
    THEN NextIntervalStart(b) + (IF Tip(b) + 1 = NextIntervalStart(b) THEN WindowSize ELSE 0)
    ELSE buyer[b].expiry

\* RescanPoint is not nil, or the header cannot be read.
TipSkipped(b) ==
    /\ HasTip(b)
    /\ buyer' = [buyer EXCEPT ![b].tips = Tail(@)]
    /\ UNCHANGED <<walletVars, height, cancelAutoTicketBuyer, purchases, bought>>

\* The purchases of the interval that is over are canceled.
StillBuying(b) == IF IntervalOver(b) THEN CancelPurchases(b) ELSE purchases

TipStartsSoon(b) ==
    /\ HasTip(b) /\ StartsSoon(b)
    /\ buyer' = [buyer EXCEPT ![b].tips = Tail(@), ![b].last = Tip(b),
                              ![b].nextIntervalStart = NextIntervalStart(b)]
    /\ purchases' = StillBuying(b)
    /\ UNCHANGED <<walletVars, height, cancelAutoTicketBuyer, bought>>

\* The balance is read and allows one ticket or more.  The goroutines of one
\* tip are one member of purchases: they have the same context and expiry.
TipBuys(b) ==
    /\ HasTip(b) /\ ~StartsSoon(b)
    /\ buyer' = [buyer EXCEPT ![b].tips = Tail(@), ![b].last = Tip(b),
                              ![b].nextIntervalStart = NextIntervalStart(b),
                              ![b].expiry = Expiry(b)]
    /\ purchases' = StillBuying(b) \cup
           {[buyer |-> b, canceled |-> CtxDone(b),
             pc |-> "spawned", expiry |-> 0]}
    /\ UNCHANGED <<walletVars, height, cancelAutoTicketBuyer, bought>>

\* RescanPoint, the balance or the price cannot be read, or the balance is
\* too low: the buyer ends.
TipReturns(b) ==
    /\ HasTip(b)
    /\ buyer' = [buyer EXCEPT ![b].pc = "return"]
    /\ purchases' = CancelPurchases(b)
    /\ UNCHANGED <<walletVars, height, cancelAutoTicketBuyer, bought>>

----------------------------------------------------------------------------
(* The purchases. *)

PurchaseDone(p) == purchases' = purchases \ {p}

\* The closure reads expiry, and buyTicket unlocks the wallet.
BuyTicket(p) ==
    /\ p.pc = "spawned"
    /\ ~(MustUnlock(buyer[p.buyer].pass) /\ UnlockFails(buyer[p.buyer].pass))
    /\ locked' = IF MustUnlock(buyer[p.buyer].pass) THEN FALSE ELSE locked
    /\ purchases' = (purchases \ {p}) \cup
                    {[p EXCEPT !.pc = "buying", !.expiry = buyer[p.buyer].expiry]}
    /\ UNCHANGED <<passphrase, buyerCfg, height, cancelAutoTicketBuyer, buyer,
                   bought>>

\* errors.Passphrase is fatal to the buyer.
BuyTicketPassphrase(p) ==
    /\ p.pc = "spawned"
    /\ MustUnlock(buyer[p.buyer].pass) /\ UnlockFails(buyer[p.buyer].pass)
    /\ buyer' = [buyer EXCEPT ![p.buyer].fatal = TRUE]
    /\ PurchaseDone(p)
    /\ UNCHANGED <<walletVars, height, cancelAutoTicketBuyer, bought>>

\* PurchaseTickets takes the price of the block after the tip and signs.  It
\* may not notice that its context was canceled.
TicketBought(p) ==
    /\ p.pc = "buying" /\ ~locked
    /\ bought' = {[at |-> height, expiry |-> p.expiry]}
    /\ PurchaseDone(p)
    /\ UNCHANGED <<walletVars, height, cancelAutoTicketBuyer, buyer>>

\* Not connected, locked meanwhile, out of funds, canceled: only logged.
BuyTicketFails(p) ==
    /\ p.pc = "buying" /\ PurchaseDone(p)
    /\ UNCHANGED <<walletVars, height, cancelAutoTicketBuyer, buyer, bought>>

----------------------------------------------------------------------------
UserNext ==
    \/ PurchaseTickets \/ LockWallet \/ ChangePrivatePassphrase
    \/ \E c \in {"set", "negative"} : SetAutoTicketsBuyerConfig(c)
    \/ ClearTicketBuyerConfig
    \/ \E b \in Buyers, pass \in {"", "p1"} : StartTicketBuyer(b, pass)
    \/ StopAutoTicketsPurchase

BuyerNext(b) ==
    \/ StartTicketBuyerFails(b) \/ StartTicketBuyerChecked(b) \/ RunTicketBuyer(b)
    \/ BuyerCanceled(b) \/ BuyerEnds(b)
    \/ TipSkipped(b) \/ TipStartsSoon(b) \/ TipBuys(b) \/ TipReturns(b)

PurchaseNext(p) ==
    BuyTicket(p) \/ BuyTicketPassphrase(p) \/ TicketBought(p) \/ BuyTicketFails(p)

ChainNext == \E n \in 1 .. 2 : TipChanged(n)

Next ==
    \/ UserNext \/ ChainNext
    \/ \E b \in Buyers : BuyerNext(b)
    \/ \E p \in purchases : PurchaseNext(p)

Spec == Init /\ [][Next]_vars

\* The goroutines run: the Go scheduler is fair, and tb.Run returns when its
\* context is canceled.
FairSpec ==
    /\ Spec
    /\ \A b \in Buyers : WF_vars(BuyerNext(b))

----------------------------------------------------------------------------
(* Properties. *)

\* "Set expiry to prevent tickets from being mined in the next sdiff
\* interval" (ticket.go runTicketBuyer): a ticket bought when the tip is at
\* height k.at has the price of the block after it and can be mined from two
\* blocks on until it expires; all those blocks have that price.  Also when
\* the goroutine of the purchase runs late, with the expiry of a later tip.
MinedAtItsPrice ==
    \A k \in bought : \A h \in (k.at + 2) .. (k.expiry - 1) : Window(h) = Window(k.at + 1)

\* "Cancel any ongoing ticket purchases which are buying at an old ticket
\* price or are no longer able to create mined tickets the window"
\* (ticket.go runTicketBuyer): a purchase that goes on can still be mined, as
\* of the last tip the buyer acted on, before its ticket expires.
LivePurchasesCanBeMined ==
    \A p \in purchases : ~p.canceled => buyer[p.buyer].last + 2 < buyer[p.buyer].expiry

\* The handle (Wallet.cancelAutoTicketBuyer) is that of the goroutine that
\* runs: StopAutoTicketsPurchase reaches it, IsAutoTicketsPurchaseActive knows
\* it, and there is no other.  Holds when the application waits for the end
\* of one run before the next.
HandleReachesBuyer ==
    \A b \in LiveBuyers : buyer[b].canceled \/ cancelAutoTicketBuyer = b

\* A ticket buyer that was stopped, or whose passphrase is wrong, ends
\* (StopAutoTicketsPurchase, runTicketBuyer's outerCancel).
StoppedBuyerEnds ==
    \A b \in Buyers : (buyer[b].canceled \/ buyer[b].fatal) ~> buyer[b].pc \in {"none", "failed", "ended"}
==============================================================================
