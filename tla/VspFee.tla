------------------------------- MODULE VspFee -------------------------------
(***************************************************************************)
(* The payment of one ticket's fee to a VSP (internal/vsp): the calls      *)
(* Process, ProcessTicket and ProcessManagedTickets, and the tasks that    *)
(* feePayment objects schedule for themselves (reconcilePayment,           *)
(* confirmPayment), against a VSP that may lose requests and answers,      *)
(* refuse a fee or let its quote expire, a wallet that may be locked, and  *)
(* crashes of the process.                                                 *)
(*                                                                         *)
(* A step is one critical section of fp.mu or client.mu, one exchange with *)
(* the VSP, or one update of the wallet's database, with the local work    *)
(* around it.  A quote is a fee amount with its address; a fee transaction *)
(* is a number in Txs, which is both the pointer and the hash.             *)
(***************************************************************************)
EXTENDS Integers, FiniteSets

CONSTANTS
    Threads,      \* goroutines: callers of the API and fired timers
    MaxTxs,       \* bound: fee transactions ever begun
    MaxFps,       \* bound: feePayment objects made between two crashes
    MaxQuotes,    \* bound: quotes the VSP gives out
    Calls,        \* "Process", "ProcessTicket", "ProcessManagedTickets"
    Faults,       \* "net", "locked", "funds", "refuse", "lookup", "crash"
    Serialized    \* TRUE when no call or task overlaps another

ASSUME BoundsAssumption ==
    MaxTxs \in Nat /\ MaxFps \in Nat /\ MaxQuotes \in Nat \ {0}
ASSUME SerializedAssumption == Serialized \in BOOLEAN

Txs    == 1 .. MaxTxs
NoTx   == 0
TxOrNil == Txs \cup {NoTx}
Fps    == 1 .. MaxFps
NoFp   == 0
Quotes == 1 .. MaxQuotes
NoFee  == 0
OldFee == -1      \* fp.fee = -1: the fee of a transaction found in the wallet

VARIABLES
    \* the wallet's database (dcrwallet)
    feeStatus, feeHash,     \* the VSP record of the ticket
    saved,                  \* fee transactions in the transaction store
    \* the VSP and the chain
    vspQuote,               \* the quote the VSP accepts now
    vspTx, vspStatus,       \* the fee it holds and how far it has got
    known,                  \* the VSP has been asked for a quote for the ticket
    spent,                  \* the ticket has voted or was revoked
    \* fee transactions in memory
    content,                \* "none", "inputs", "outputs", "signed"
    pays,                   \* the quote a transaction pays
    \* Client.jobs and the feePayment objects
    fps, jobs, fee, feeTx, fpHash,
    timer,                  \* the method scheduled, "none" when fp.timer is nil
    failed,                 \* fp.err # nil
    \* goroutines
    at, top,                \* where a goroutine is, and what it executes
    on,                     \* its feePayment
    tx, amt,                \* makeFeeTx's tx and fee
    inner,                  \* makeFeeTx was called by submitPayment
    res,                    \* outcome of submitPayment, or of the whole task
    reply,                  \* what its last Process returned
    panic

walletVars == <<feeStatus, feeHash, saved>>
vspVars    == <<vspQuote, vspTx, vspStatus, known, spent>>
txVars     == <<content, pays>>
fpVars     == <<fps, jobs, fee, feeTx, fpHash, timer, failed>>
threadVars == <<at, top, on, tx, amt, inner, res, reply>>
vars == <<walletVars, vspVars, txVars, fpVars, threadVars, panic>>

FeeStatuses == {"none", "started", "paid", "errored", "confirmed"}
Labels == {"idle", "create", "insert", "arm", "adopt", "quote", "make", "requote",
           "fund", "sign", "record", "submit", "post", "result", "confirm",
           "reconcile", "end"}
Tops == {"none", "process", "paid", "managed", "managedPaid", "reconcile",
         "confirm"}

WalletType ==
    /\ feeStatus \in FeeStatuses /\ feeHash \in TxOrNil /\ saved \subseteq Txs

VspType ==
    /\ vspQuote \in Quotes /\ vspTx \in TxOrNil
    /\ known \in BOOLEAN /\ spent \in BOOLEAN
    /\ vspStatus \in {"none", "received", "broadcast", "confirmed", "error"}

TxType ==
    /\ content \in [Txs -> {"none", "inputs", "outputs", "signed"}]
    /\ pays \in [Txs -> Quotes \cup {NoFee}]

FpType ==
    /\ fps \in 0 .. MaxFps /\ jobs \in Fps \cup {NoFp}
    /\ fee \in [Fps -> Quotes \cup {NoFee, OldFee}]
    /\ feeTx \in [Fps -> TxOrNil] /\ fpHash \in [Fps -> TxOrNil]
    /\ timer \in [Fps -> {"none", "reconcile", "confirm"}]
    /\ failed \in [Fps -> BOOLEAN]

ThreadType ==
    /\ at \in [Threads -> Labels] /\ top \in [Threads -> Tops]
    /\ on \in [Threads -> Fps \cup {NoFp}]
    /\ tx \in [Threads -> TxOrNil]
    /\ amt \in [Threads -> Quotes \cup {NoFee, OldFee}]
    /\ inner \in [Threads -> BOOLEAN]
    /\ res \in [Threads -> {"ok", "error", "received", "invalid"}]
    /\ reply \in [Threads -> {"none", "nil", "error"}]

\* Every variable keeps its type.
TypeOK == /\ WalletType /\ VspType /\ TxType /\ FpType /\ ThreadType
          /\ panic \in BOOLEAN

\* A ticket just bought: no VSP record, no fee.
Init ==
    /\ feeStatus = "none" /\ feeHash = NoTx /\ saved = {}
    /\ vspQuote = 1 /\ vspTx = NoTx /\ vspStatus = "none"
    /\ known = FALSE /\ spent = FALSE
    /\ content = [t \in Txs |-> "none"] /\ pays = [t \in Txs |-> NoFee]
    /\ fps = 0 /\ jobs = NoFp
    /\ fee = [f \in Fps |-> NoFee] /\ feeTx = [f \in Fps |-> NoTx]
    /\ fpHash = [f \in Fps |-> NoTx]
    /\ timer = [f \in Fps |-> "none"] /\ failed = [f \in Fps |-> FALSE]
    /\ at = [th \in Threads |-> "idle"] /\ top = [th \in Threads |-> "none"]
    /\ on = [th \in Threads |-> NoFp] /\ tx = [th \in Threads |-> NoTx]
    /\ amt = [th \in Threads |-> NoFee]
    /\ inner = [th \in Threads |-> FALSE]
    /\ res = [th \in Threads |-> "ok"] /\ reply = [th \in Threads |-> "none"]
    /\ panic = FALSE

-----------------------------------------------------------------------------
(* Goroutines.                                                              *)

Free(th) == /\ at[th] = "idle"
            /\ Serialized => \A o \in Threads : at[o] = "idle"

\* A call or a task begins: at l, executing what, on f, with transaction t.
Begin(th, l, what, f, t) ==
    /\ at' = [at EXCEPT ![th] = l]
    /\ top' = [top EXCEPT ![th] = what]
    /\ on' = [on EXCEPT ![th] = f]
    /\ tx' = [tx EXCEPT ![th] = t]
    /\ reply' = [reply EXCEPT ![th] = "none"]
    /\ UNCHANGED <<amt, inner, res>>

\* It is over; r is what Process returned.
Return(th, r) ==
    /\ at' = [at EXCEPT ![th] = "idle"]
    /\ top' = [top EXCEPT ![th] = "none"]
    /\ on' = [on EXCEPT ![th] = NoFp]
    /\ tx' = [tx EXCEPT ![th] = NoTx]
    /\ amt' = [amt EXCEPT ![th] = NoFee]
    /\ inner' = [inner EXCEPT ![th] = FALSE]
    /\ res' = [res EXCEPT ![th] = "ok"]
    /\ reply' = [reply EXCEPT ![th] = r]

Goto(th, l) ==
    /\ at' = [at EXCEPT ![th] = l]
    /\ UNCHANGED <<top, on, tx, amt, inner, res, reply>>

\* It goes on at l with outcome r.
GotoWith(th, l, r) ==
    /\ at' = [at EXCEPT ![th] = l]
    /\ res' = [res EXCEPT ![th] = r]
    /\ UNCHANGED <<top, on, tx, amt, inner, reply>>

IsTask(th) == top[th] \in {"reconcile", "confirm"}

\* confirmPayment returns: to Process, or to task.
Finish(th, r) ==
    IF IsTask(th) THEN GotoWith(th, "end", r)
    ELSE Return(th, IF r = "ok" THEN "nil" ELSE "error")

-----------------------------------------------------------------------------
(* The wallet's record of the ticket, and the timers.                       *)

UpdateVspTicketFee(status, hash) == feeStatus' = status /\ feeHash' = hash

\* UpdateVspTicketFeeToErrored is given no hash: the record has none.
UpdateVspTicketFeeToErrored == UpdateVspTicketFee("errored", NoTx)

\* Any currently scheduled method is replaced.
Schedule(f, method) == timer' = [timer EXCEPT ![f] = method]

\* stop, and delete from jobs whatever is there for this ticket.
Remove(f) == jobs' = NoFp /\ Schedule(f, "none")

-----------------------------------------------------------------------------
(* Process, ProcessTicket and ProcessManagedTickets.                        *)

\* The bound MaxFps leaves room for the feePayment a call may need.
Room == jobs # NoFp \/ fps < MaxFps

NewTx(t) == content[t] = "none" /\ \A u \in Txs : u < t => content[u] # "none"

\* Process with a transaction t that has inputs, or none: the status of the
\* ticket decides; a confirmed ticket needs nothing.
ProcessWith(th, t) ==
    /\ feeStatus # "confirmed" /\ Room
    /\ IF feeStatus = "paid" THEN Begin(th, "create", "paid", NoFp, NoTx)
                             ELSE Begin(th, "create", "process", NoFp, t)
    /\ UNCHANGED <<walletVars, vspVars, pays, fpVars, panic>>

\* The ticket purchase hands in the inputs for the fee.
Process(th) ==
    /\ "Process" \in Calls /\ Free(th)
    /\ \E t \in Txs : /\ NewTx(t)
                      /\ content' = [content EXCEPT ![t] = "inputs"]
                      /\ ProcessWith(th, t)

ProcessTicket(th) ==
    /\ "ProcessTicket" \in Calls /\ Free(th)
    /\ ProcessWith(th, NoTx)
    /\ UNCHANGED content

\* ProcessManagedTickets asks the VSP for the status of a ticket that has no
\* job; a ticket the VSP does not know is skipped.
ProcessManagedTickets(th) ==
    /\ "ProcessManagedTickets" \in Calls /\ Free(th)
    /\ Room
    /\ feeStatus # "confirmed" /\ jobs = NoFp /\ ~ spent /\ known
    /\ IF vspStatus = "confirmed"
       THEN /\ UpdateVspTicketFee("confirmed", vspTx)
            /\ UNCHANGED threadVars
       ELSE IF vspTx # NoTx
       THEN /\ UpdateVspTicketFee("paid", vspTx)
            /\ Begin(th, "create", "managedPaid", NoFp, NoTx)
       ELSE /\ UNCHANGED <<feeStatus, feeHash>>
            /\ Begin(th, "create", "managed", NoFp, NoTx)
    /\ UNCHANGED <<saved, vspVars, txVars, fpVars, panic>>

-----------------------------------------------------------------------------
(* feePayment: the job of the ticket, or a new one.                         *)

\* What its callers do with the feePayment.
WithPayment(th, f) ==
    IF top[th] \in {"managed", "managedPaid"} THEN Return(th, "none")
    ELSE /\ at' = [at EXCEPT ![th] =
                     IF top[th] = "paid" THEN "confirm" ELSE "adopt"]
         /\ on' = [on EXCEPT ![th] = f]
         /\ UNCHANGED <<top, tx, amt, inner, res, reply>>

\* The job exists.
FeePaymentFound(th) ==
    /\ at[th] = "create" /\ jobs # NoFp
    /\ WithPayment(th, jobs)
    /\ UNCHANGED <<walletVars, vspVars, txVars, fpVars, panic>>

\* feePayment returns nil (the ticket is not in the wallet, has no key...).
FeePaymentFails(th) ==
    /\ at[th] = "create" /\ jobs = NoFp /\ ~ spent /\ "lookup" \in Faults
    /\ IF top[th] = "process" THEN UpdateVspTicketFeeToErrored
                              ELSE UNCHANGED <<feeStatus, feeHash>>
    /\ Return(th, IF top[th] \in {"process", "paid"} THEN "error" ELSE "none")
    /\ UNCHANGED <<saved, vspVars, txVars, fpVars, panic>>

\* A new object, with the fee the wallet has on record, if it still has that
\* transaction; unless the ticket is spent.
FeePaymentNew(th) ==
    LET f == fps + 1
        found == ~ spent /\ feeHash \in saved
        unpaid == found /\ top[th] \notin {"paid", "managedPaid"}
    IN  /\ at[th] = "create" /\ jobs = NoFp /\ f \in Fps
        /\ fps' = f
        /\ feeTx' = [feeTx EXCEPT ![f] = IF found THEN feeHash ELSE NoTx]
        /\ fpHash' = [fpHash EXCEPT ![f] = IF found THEN feeHash ELSE NoTx]
        /\ fee' = [fee EXCEPT ![f] = IF unpaid THEN OldFee ELSE NoFee]
        /\ failed' = [failed EXCEPT ![f] = ~ spent /\ feeHash # NoTx /\ ~ found]
        /\ IF unpaid THEN UpdateVspTicketFee("started", feeHash)
                     ELSE UNCHANGED <<feeStatus, feeHash>>
        /\ at' = [at EXCEPT ![th] = "insert"]
        /\ on' = [on EXCEPT ![th] = f]
        /\ UNCHANGED <<saved, vspVars, txVars, jobs, timer, top, tx, amt,
                       inner, res, reply, panic>>

\* The deferred part, under client.mu: another caller's object wins, or this
\* one becomes the job.
FeePaymentInsert(th) ==
    /\ at[th] = "insert"
    /\ IF jobs # NoFp
       THEN WithPayment(th, jobs) /\ UNCHANGED jobs
       ELSE jobs' = on[th] /\ Goto(th, "arm")
    /\ UNCHANGED <<walletVars, vspVars, txVars, fps, fee, feeTx, fpHash, timer,
                   failed, panic>>

\* The new job is scheduled once client.mu is released.
FeePaymentSchedule(th) ==
    /\ at[th] = "arm"
    /\ Schedule(on[th], "reconcile")
    /\ WithPayment(th, on[th])
    /\ UNCHANGED <<walletVars, vspVars, txVars, fps, jobs, fee, feeTx, fpHash,
                   failed, panic>>

\* Process gives its transaction to a feePayment that has none.
ProcessAdopt(th) ==
    /\ at[th] = "adopt"
    /\ feeTx' = [feeTx EXCEPT ![on[th]] = IF @ = NoTx THEN tx[th] ELSE @]
    /\ Goto(th, "quote")
    /\ UNCHANGED <<walletVars, vspVars, txVars, fps, jobs, fee, fpHash,
                   timer, failed, panic>>

-----------------------------------------------------------------------------
(* receiveFeeAddress and makeFeeTx.                                         *)

\* An error of either.  Process records it, and returns the outcome of that
\* update instead of the error; reconcilePayment returns it, unless it is
\* submitPayment that made the transaction.
Fail(th) ==
    IF top[th] = "process"
    THEN IF inner[th] THEN Return(th, "error") /\ UNCHANGED <<feeStatus, feeHash>>
         ELSE Return(th, "nil") /\ UpdateVspTicketFeeToErrored
    ELSE /\ GotoWith(th, IF inner[th] THEN "result" ELSE "end", "error")
         /\ UNCHANGED <<feeStatus, feeHash>>

\* The VSP wants a fee for the ticket.
VspOwed == vspTx = NoTx \/ vspStatus = "error"

ReceiveFeeAddressStopped(th) ==
    /\ at[th] \in {"quote", "requote"} /\ spent
    /\ Remove(on[th])
    /\ Fail(th)
    /\ UNCHANGED <<saved, vspVars, txVars, fps, fee, feeTx, fpHash, failed,
                   panic>>

\* A quote: Process goes on with makeFeeTx, makeFeeTx with what it was doing.
ReceiveFeeAddress(th) ==
    /\ at[th] \in {"quote", "requote"} /\ ~ spent /\ VspOwed
    /\ known' = TRUE
    /\ fee' = [fee EXCEPT ![on[th]] = vspQuote]
    /\ amt' = [amt EXCEPT ![th] = vspQuote]
    /\ at' = [at EXCEPT ![th] = IF @ = "quote" THEN "make" ELSE "fund"]
    /\ UNCHANGED <<walletVars, vspQuote, vspTx, vspStatus, spent, txVars, fps,
                   jobs, feeTx, fpHash, timer, failed, top, on, tx, inner,
                   res, reply, panic>>

\* No answer, an answer that cannot be used, or a refusal; reconcilePayment
\* gives up the ticket when the VSP says that it cannot vote.
ReceiveFeeAddressFails(th) ==
    /\ at[th] \in {"quote", "requote"} /\ ~ spent
    /\ \/ /\ ~ VspOwed \/ Faults \cap {"net", "locked", "refuse"} # {}
          /\ known' \in IF "net" \in Faults THEN {known, TRUE} ELSE {known}
          /\ UNCHANGED <<jobs, timer>>
       \/ /\ "refuse" \in Faults
          /\ top[th] = "reconcile" /\ ~ inner[th]
          /\ Remove(on[th])
          /\ UNCHANGED known
    /\ Fail(th)
    /\ UNCHANGED <<saved, vspQuote, vspTx, vspStatus, spent, txVars, fps, fee,
                   feeTx, fpHash, failed, panic>>

Finished(t) == t # NoTx /\ content[t] \in {"outputs", "signed"}

\* makeFeeTx returned without an error.
Made(th) == at' = [at EXCEPT ![th] = IF inner[th] THEN "post" ELSE "submit"]

\* A transaction with outputs is taken to be finished; otherwise the one that
\* was handed in, or begun before, or a new one is to be completed.
MakeFeeTx(th) ==
    LET f == on[th] IN
    /\ at[th] = "make"
    /\ IF Finished(feeTx[f])
       THEN /\ tx' = [tx EXCEPT ![th] = feeTx[f]]
            /\ Made(th)
            /\ UNCHANGED amt
       ELSE /\ tx' = [tx EXCEPT ![th] = IF @ = NoTx THEN feeTx[f] ELSE @]
            /\ amt' = [amt EXCEPT ![th] = fee[f]]
            /\ at' = [at EXCEPT ![th] =
                        IF fee[f] = NoFee THEN "requote" ELSE "fund"]
    /\ UNCHANGED <<walletVars, vspVars, txVars, fpVars, top, on, inner, res,
                   reply, panic>>

\* Inputs are there or reserved, and the outputs are written into the
\* transaction; fp.feeAddr is nil when no quote was ever received.
MakeFeeTxFund(th) ==
    /\ at[th] = "fund"
    /\ \E t \in Txs :
          /\ IF tx[th] = NoTx THEN NewTx(t) ELSE t = tx[th]
          /\ IF amt[th] = OldFee
             THEN panic' = TRUE /\ UNCHANGED <<txVars, at, tx>>
             ELSE /\ content' = [content EXCEPT ![t] = "outputs"]
                  /\ pays' = [pays EXCEPT ![t] = amt[th]]
                  /\ tx' = [tx EXCEPT ![th] = t]
                  /\ at' = [at EXCEPT ![th] = "sign"]
                  /\ UNCHANGED panic
    /\ UNCHANGED <<walletVars, vspVars, fpVars, top, on, amt, inner, res,
                   reply>>

\* Not enough coins (or the bound MaxTxs is reached), or no key to sign with.
MakeFeeTxFails(th) ==
    /\ \/ /\ at[th] = "fund"
          /\ \/ "funds" \in Faults
             \/ tx[th] = NoTx /\ ~ \E t \in Txs : NewTx(t)
       \/ at[th] = "sign" /\ "locked" \in Faults
    /\ Fail(th)
    /\ UNCHANGED <<saved, vspVars, txVars, fpVars, panic>>

\* Mutant: AddTransaction is left out.
MakeFeeTxSign_NotAdded(th) ==
    /\ at[th] = "sign"
    /\ content' = [content EXCEPT ![tx[th]] = "signed"]
    /\ Goto(th, "record")
    /\ UNCHANGED <<walletVars, vspVars, pays, fpVars, panic>>

\* SignTransaction and AddTransaction.
MakeFeeTxSign(th) ==
    /\ at[th] = "sign"
    /\ content' = [content EXCEPT ![tx[th]] = "signed"]
    /\ saved' = saved \cup {tx[th]}
    /\ Goto(th, "record")
    /\ UNCHANGED <<feeStatus, feeHash, vspVars, pays, fpVars, panic>>

\* Mutant: the fee hash is not associated with the ticket.
MakeFeeTxRecord_NotInWallet(th) ==
    /\ at[th] = "record"
    /\ feeTx' = [feeTx EXCEPT ![on[th]] = tx[th]]
    /\ fpHash' = [fpHash EXCEPT ![on[th]] = tx[th]]
    /\ Made(th)
    /\ UNCHANGED <<walletVars, vspVars, txVars, fps, jobs, fee, timer, failed, top,
                   on, tx, amt, inner, res, reply, panic>>

\* UpdateVspTicketFeeToPaid, and the feePayment gets its transaction.
MakeFeeTxRecord(th) ==
    /\ at[th] = "record"
    /\ UpdateVspTicketFee("paid", tx[th])
    /\ feeTx' = [feeTx EXCEPT ![on[th]] = tx[th]]
    /\ fpHash' = [fpHash EXCEPT ![on[th]] = tx[th]]
    /\ Made(th)
    /\ UNCHANGED <<saved, vspVars, txVars, fps, jobs, fee, timer, failed, top,
                   on, tx, amt, inner, res, reply, panic>>

-----------------------------------------------------------------------------
(* submitPayment.                                                           *)

\* submitPayment returns r: to Process, or to reconcilePayment.
Submitted(th, r) ==
    IF top[th] = "process" THEN Return(th, IF r = "ok" THEN "nil" ELSE "error")
    ELSE GotoWith(th, "result", r)

SubmitPaymentStopped(th) ==
    /\ at[th] = "submit" /\ spent
    /\ Remove(on[th])
    /\ Submitted(th, "error")
    /\ UNCHANGED <<walletVars, vspVars, txVars, fps, fee, feeTx, fpHash,
                   failed, panic>>

\* The feePayment may have lost its transaction since makeFeeTx returned.
SubmitPayment(th) ==
    LET t == feeTx[on[th]] IN
    /\ at[th] = "submit" /\ ~ spent
    /\ tx' = [tx EXCEPT ![th] = t]
    /\ inner' = [inner EXCEPT ![th] = ~ Finished(t)]
    /\ at' = [at EXCEPT ![th] = IF Finished(t) THEN "post" ELSE "make"]
    /\ UNCHANGED <<walletVars, vspVars, txVars, fpVars, top, on, amt, res,
                   reply, panic>>

\* The wallet is locked, or the request is lost.
PayFeeLost(th) ==
    /\ at[th] = "post" /\ Faults \cap {"net", "locked"} # {}
    /\ Submitted(th, "error")
    /\ UNCHANGED <<walletVars, vspVars, txVars, fpVars, panic>>

\* The VSP has a fee for the ticket already, or does not accept this one.
PayFeeRefused(th) ==
    /\ at[th] = "post"
    /\ \/ /\ ~ VspOwed
          /\ Submitted(th, "received")
       \/ /\ VspOwed
          /\ content[tx[th]] # "signed" \/ "refuse" \in Faults
          /\ Submitted(th, "invalid")
    /\ UNCHANGED <<walletVars, vspVars, txVars, fpVars, panic>>

\* The quote this transaction pays has expired: it is abandoned.
PayFeeExpired(th) ==
    /\ at[th] = "post" /\ VspOwed
    /\ content[tx[th]] = "signed" /\ pays[tx[th]] # vspQuote
    /\ saved' = saved \ {tx[th]}
    /\ feeTx' = [feeTx EXCEPT ![on[th]] = NoTx]
    /\ Submitted(th, "error")
    /\ UNCHANGED <<feeStatus, feeHash, vspVars, txVars, fps, jobs, fee, fpHash,
                   timer, failed, panic>>

\* The VSP accepts the fee; its answer may be lost.
PayFeeAccepted(th) ==
    /\ at[th] = "post" /\ VspOwed
    /\ content[tx[th]] = "signed" /\ pays[tx[th]] = vspQuote
    /\ vspTx' = tx[th] /\ vspStatus' = "received"
    /\ \E r \in IF "net" \in Faults THEN {"ok", "error"} ELSE {"ok"} :
          Submitted(th, r)
    /\ UNCHANGED <<walletVars, vspQuote, known, spent, txVars, fpVars, panic>>

-----------------------------------------------------------------------------
(* reconcilePayment.                                                        *)

\* Mutant: errStopped is retried like any other error.
ReconcilePayment_Rescheduled(th) ==
    LET f == on[th] IN
    /\ at[th] = "reconcile"
    /\ IF spent
       THEN jobs' = NoFp /\ Schedule(f, "reconcile") /\ GotoWith(th, "end", "error")
       ELSE /\ Goto(th, IF Finished(feeTx[f]) THEN "submit" ELSE "make")
            /\ UNCHANGED <<jobs, timer>>
    /\ UNCHANGED <<walletVars, vspVars, txVars, fps, fee, feeTx, fpHash,
                   failed, panic>>

ReconcilePayment(th) ==
    LET f == on[th] IN
    /\ at[th] = "reconcile"
    /\ IF spent
       THEN Remove(f) /\ GotoWith(th, "end", "error")
       ELSE /\ Goto(th, IF Finished(feeTx[f]) THEN "submit" ELSE "make")
            /\ UNCHANGED <<jobs, timer>>
    /\ UNCHANGED <<walletVars, vspVars, txVars, fps, fee, feeTx, fpHash,
                   failed, panic>>

\* The fee is with the VSP: recorded, and on to confirmPayment.
ReconcilePaid(th) ==
    /\ at[th] = "result" /\ res[th] \in {"ok", "received"}
    /\ UpdateVspTicketFee("paid", fpHash[on[th]])
    /\ Goto(th, "confirm")
    /\ UNCHANGED <<saved, vspVars, txVars, fpVars, panic>>

\* It is not: an invalid fee is given up, and the method is rescheduled.
ReconcileAgain(th) ==
    LET f == on[th] IN
    /\ at[th] = "result" /\ res[th] \in {"invalid", "error"}
    /\ IF res[th] = "invalid"
       THEN /\ UpdateVspTicketFeeToErrored
            /\ feeTx' = [feeTx EXCEPT ![f] = NoTx]
            /\ fpHash' = [fpHash EXCEPT ![f] = NoTx]
       ELSE UNCHANGED <<feeStatus, feeHash, feeTx, fpHash>>
    /\ Schedule(f, "reconcile")
    /\ GotoWith(th, "end", "error")
    /\ UNCHANGED <<saved, vspVars, txVars, fps, jobs, fee, failed, panic>>

-----------------------------------------------------------------------------
(* confirmPayment.                                                          *)

ConfirmPaymentStopped(th) ==
    /\ at[th] = "confirm" /\ spent
    /\ Remove(on[th])
    /\ Finish(th, "error")
    /\ UNCHANGED <<walletVars, vspVars, txVars, fps, fee, feeTx, fpHash,
                   failed, panic>>

\* Mutant: the job of a confirmed fee stays.
Confirmed_NotRemoved(th) ==
    /\ UNCHANGED <<jobs, timer>>
    /\ UpdateVspTicketFee("confirmed", fpHash[on[th]])
    /\ Finish(th, "ok")

\* The fee is confirmed: the job is removed, and the wallet records it.
Confirmed(th) ==
    /\ Remove(on[th])
    /\ UpdateVspTicketFee("confirmed", fpHash[on[th]])
    /\ Finish(th, "ok")

\* Mutant: a broadcast fee is taken for a confirmed one.
ConfirmPayment_Broadcast(th) ==
    LET f == on[th] IN
    /\ at[th] = "confirm" /\ ~ spent /\ known
    /\ IF vspStatus \in {"broadcast", "confirmed"} THEN Confirmed(th)
       ELSE /\ CASE vspStatus \in {"received", "broadcast"} ->
                      Schedule(f, "confirm")
                 [] vspStatus = "error" -> Schedule(f, "reconcile")
                 [] OTHER -> UNCHANGED timer
            /\ Finish(th, "ok")
            /\ UNCHANGED <<feeStatus, feeHash, jobs>>
    /\ UNCHANGED <<saved, vspVars, txVars, fps, fee, feeTx, fpHash, failed,
                   panic>>

\* The VSP answers the status request.
ConfirmPayment(th) ==
    LET f == on[th] IN
    /\ at[th] = "confirm" /\ ~ spent /\ known
    /\ IF vspStatus = "confirmed" THEN Confirmed(th)
       ELSE /\ CASE vspStatus \in {"received", "broadcast"} ->
                      Schedule(f, "confirm")
                 [] vspStatus = "error" -> Schedule(f, "reconcile")
                 [] OTHER -> UNCHANGED timer
            /\ Finish(th, "ok")
            /\ UNCHANGED <<feeStatus, feeHash, jobs>>
    /\ UNCHANGED <<saved, vspVars, txVars, fps, fee, feeTx, fpHash, failed,
                   panic>>

\* Mutant: confirmed as soon as the wallet knows the transaction.
ConfirmPaymentUnanswered_AnyDepth(th) ==
    LET f == on[th] IN
    /\ at[th] = "confirm" /\ ~ spent
    /\ ~ known \/ Faults \cap {"net", "locked"} # {}
    /\ IF fpHash[f] = vspTx /\ fpHash[f] \in saved
       THEN Confirmed(th)
       ELSE /\ IF fpHash[f] \in saved
               THEN Schedule(f, "confirm") /\ Finish(th, "ok")
               ELSE Schedule(f, "reconcile") /\ Finish(th, "error")
            /\ UNCHANGED <<feeStatus, feeHash, jobs>>
    /\ UNCHANGED <<saved, vspVars, txVars, fps, fee, feeTx, fpHash, failed,
                   panic>>

\* No answer: the confirmations the wallet sees decide.
ConfirmPaymentUnanswered(th) ==
    LET f == on[th] IN
    /\ at[th] = "confirm" /\ ~ spent
    /\ ~ known \/ Faults \cap {"net", "locked"} # {}
    /\ IF fpHash[f] = vspTx /\ fpHash[f] \in saved /\ vspStatus = "confirmed"
       THEN Confirmed(th)
       ELSE /\ IF fpHash[f] \in saved
               THEN Schedule(f, "confirm") /\ Finish(th, "ok")
               ELSE Schedule(f, "reconcile") /\ Finish(th, "error")
            /\ UNCHANGED <<feeStatus, feeHash, jobs>>
    /\ UNCHANGED <<saved, vspVars, txVars, fps, fee, feeTx, fpHash, failed,
                   panic>>

-----------------------------------------------------------------------------
(* Timers, the VSP, the chain and crashes.                                  *)

TimerFires(th, f) ==
    /\ Free(th) /\ timer[f] # "none"
    /\ Begin(th, timer[f], timer[f], f, NoTx)
    /\ Schedule(f, "none")
    /\ UNCHANGED <<walletVars, vspVars, txVars, fps, jobs, fee, feeTx, fpHash,
                   failed, panic>>

\* task keeps the error of the method it ran.
TaskEnd(th) ==
    /\ at[th] = "end"
    /\ failed' = [failed EXCEPT ![on[th]] = res[th] # "ok"]
    /\ Return(th, "none")
    /\ UNCHANGED <<walletVars, vspVars, txVars, fps, jobs, fee, feeTx, fpHash,
                   timer, panic>>

QuoteExpires ==
    /\ known /\ VspOwed /\ vspQuote < MaxQuotes
    /\ vspQuote' = vspQuote + 1
    /\ UNCHANGED <<walletVars, vspTx, vspStatus, known, spent, txVars, fpVars,
                   threadVars, panic>>

\* The VSP broadcasts the fee, which may fail; blocks confirm it.
VspProgress ==
    /\ \/ vspStatus = "received" /\ vspStatus' = "broadcast"
       \/ vspStatus = "received" /\ "refuse" \in Faults /\ vspStatus' = "error"
       \/ vspStatus = "broadcast" /\ vspStatus' = "confirmed"
    /\ UNCHANGED <<walletVars, vspQuote, vspTx, known, spent, txVars, fpVars,
                   threadVars, panic>>

\* The ticket votes or is revoked (an expired ticket is revoked later on).
TicketSpent ==
    /\ ~ spent /\ spent' = TRUE
    /\ UNCHANGED <<walletVars, vspQuote, vspTx, vspStatus, known, txVars,
                   fpVars, threadVars, panic>>

\* The process ends and is started again: only the database is left.
Crash ==
    /\ "crash" \in Faults
    /\ content' = [t \in Txs |-> IF t \in saved \cup {vspTx, feeHash}
                                 THEN content[t] ELSE "none"]
    /\ fps' = 0 /\ jobs' = NoFp
    /\ fee' = [f \in Fps |-> NoFee] /\ feeTx' = [f \in Fps |-> NoTx]
    /\ fpHash' = [f \in Fps |-> NoTx]
    /\ timer' = [f \in Fps |-> "none"] /\ failed' = [f \in Fps |-> FALSE]
    /\ at' = [th \in Threads |-> "idle"] /\ top' = [th \in Threads |-> "none"]
    /\ on' = [th \in Threads |-> NoFp] /\ tx' = [th \in Threads |-> NoTx]
    /\ amt' = [th \in Threads |-> NoFee]
    /\ inner' = [th \in Threads |-> FALSE]
    /\ res' = [th \in Threads |-> "ok"]
    /\ reply' = [th \in Threads |-> "none"]
    /\ UNCHANGED <<walletVars, vspVars, pays, panic>>

-----------------------------------------------------------------------------

Call(th) == Process(th) \/ ProcessTicket(th) \/ ProcessManagedTickets(th)

Step(th) ==
    \/ FeePaymentFound(th) \/ FeePaymentFails(th) \/ FeePaymentNew(th)
    \/ FeePaymentInsert(th) \/ FeePaymentSchedule(th) \/ ProcessAdopt(th)
    \/ ReceiveFeeAddressStopped(th) \/ ReceiveFeeAddress(th)
    \/ ReceiveFeeAddressFails(th)
    \/ MakeFeeTx(th) \/ MakeFeeTxFund(th) \/ MakeFeeTxFails(th)
    \/ MakeFeeTxSign(th) \/ MakeFeeTxRecord(th)
    \/ SubmitPaymentStopped(th) \/ SubmitPayment(th)
    \/ PayFeeLost(th) \/ PayFeeRefused(th) \/ PayFeeExpired(th)
    \/ PayFeeAccepted(th)
    \/ ReconcilePayment(th) \/ ReconcilePaid(th) \/ ReconcileAgain(th)
    \/ ConfirmPaymentStopped(th) \/ ConfirmPayment(th)
    \/ ConfirmPaymentUnanswered(th)
    \/ TaskEnd(th)

Environment == QuoteExpires \/ VspProgress \/ TicketSpent \/ Crash

\* After a panic there is no process left to take a step.
Next ==
    /\ ~ panic
    /\ \/ \E th \in Threads : Call(th) \/ Step(th)
       \/ \E th \in Threads, f \in Fps : TimerFires(th, f)
       \/ Environment

Spec == Init /\ [][Next]_vars

\* Goroutines run, and armed timers fire.
Fairness ==
    /\ \A th \in Threads : WF_vars(~ panic /\ Step(th))
    /\ \A f \in Fps :
          SF_vars(~ panic /\ \E th \in Threads : TimerFires(th, f))

LiveSpec == Spec /\ Fairness

-----------------------------------------------------------------------------
(* Properties.                                                              *)

\* The VSP holds a fee for the ticket, and will vote.
VspPaid == vspStatus \in {"received", "broadcast", "confirmed"}

\* A fee the VSP has accepted is the one the wallet has on record for the
\* ticket, and its transaction is in the wallet: whatever answer was lost,
\* whenever the process crashed (makeFeeTx records before submitPayment sends,
\* feepayment.go:585-601).
VspFeeIsKnown == VspPaid => feeHash = vspTx /\ vspTx \in saved

\* The transaction the VSP is going to publish is in the wallet's store, and
\* no task that is told of an expired quote abandons it, with any number of
\* calls and tasks at once (feepayment.go:589, 904-919).
VspFeeIsSaved == VspPaid => vspTx \in saved

\* A ticket recorded as confirmed is recorded with the fee transaction that
\* the VSP holds and the chain has confirmed (feepayment.go:963-976, 993-1000).
ConfirmedFeeIsVsps ==
    feeStatus = "confirmed" => feeHash = vspTx /\ vspStatus = "confirmed"

\* No ticket is taken for confirmed before the VSP's fee is, whichever tasks
\* and calls overlap (feepayment.go:963-1000).
ConfirmedIsOnChain == feeStatus = "confirmed" => vspStatus = "confirmed"

\* A confirmed ticket is never processed again: no late task or call takes it
\* back to paid or errored (remove before the update, feepayment.go:971, 994).
ConfirmedIsFinal == [][feeStatus = "confirmed" => feeStatus' = "confirmed"]_vars

\* After a ticket is spent, its tasks stop rescheduling
\* themselves (removedExpiredOrSpent, errStopped: feepayment.go:156-170, 946),
\* unless the process crashes over and over.
SpentTicketQuiet ==
    \/ <>spent => <>[](panic \/ \A f \in Fps : timer[f] = "none")
    \/ []<><<Crash>>_vars

Working(f) == \E th \in Threads : on[th] = f

\* "confirmPayment will remove the fee payment processing when the fee has
\* reached sufficient confirmations, and reschedule itself if the fee is not
\* confirmed yet" (feepayment.go:822-825): a ticket in Client.jobs is worked
\* on, has a timer armed, or keeps the error of its last task.
NeverUnattended ==
    jobs # NoFp => timer[jobs] # "none" \/ failed[jobs] \/ Working(jobs)
=============================================================================
