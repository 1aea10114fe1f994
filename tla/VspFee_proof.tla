---------------------------- MODULE VspFee_proof -----------------------------
(***************************************************************************)
(* Proofs about VspFee, for any number of goroutines, transactions,        *)
(* feePayment objects and quotes, any calls and any faults; the last part  *)
(* is about one call or task at a time.                                    *)
(***************************************************************************)
EXTENDS VspFee, TLAPS

\* A goroutine past feePayment has its feePayment, one that signs, records or
\* submits has a transaction, and the fee it is to pay is not one that the VSP
\* has yet to quote.
ThreadInv ==
    /\ ThreadType
    /\ \A th \in Threads : at[th] \in {"idle", "create"} \/ on[th] \in Fps
    /\ \A th \in Threads : at[th] \in {"sign", "record", "post"} => tx[th] # NoTx
    /\ \A th \in Threads : amt[th] <= vspQuote

\* What makes VspFeeIsSaved inductive: a signed transaction that is not (or no
\* longer) in the wallet pays a quote that has expired, so the VSP will never
\* accept it.
StoreInv ==
    /\ vspTx = NoTx => vspStatus = "none"
    /\ \A f \in Fps : fee[f] <= vspQuote
    /\ \A t \in Txs : pays[t] <= vspQuote
    /\ \A t \in Txs : content[t] = "signed" /\ t \notin saved => pays[t] < vspQuote
    /\ VspFeeIsSaved
    /\ ConfirmedIsOnChain

SavedInv == TypeOK /\ ThreadInv /\ StoreInv

-----------------------------------------------------------------------------
(* What the building blocks of the actions preserve.                        *)

LEMMA QuoteNat == ASSUME VspType PROVE vspQuote \in Nat /\ vspQuote >= 1
BY BoundsAssumption DEF VspType, Quotes

LEMMA BeginInv ==
    ASSUME ThreadInv, UNCHANGED vspQuote, NEW th \in Threads,
           NEW l \in Labels \ {"sign", "record", "post"}, NEW what \in Tops,
           NEW f \in Fps \cup {NoFp}, l = "create" \/ f \in Fps,
           NEW t \in TxOrNil, Begin(th, l, what, f, t)
    PROVE  ThreadInv'
BY DEF ThreadInv, ThreadType, Begin

LEMMA ReturnInv ==
    ASSUME ThreadInv, VspType, UNCHANGED vspQuote, NEW th \in Threads,
           NEW r \in {"none", "nil", "error"}, Return(th, r)
    PROVE  ThreadInv'
<1>1. ThreadType'
  BY DEF ThreadInv, ThreadType, Return, Labels, Tops, TxOrNil
<1>2. \A o \in Threads : amt'[o] <= vspQuote
  BY QuoteNat DEF ThreadInv, ThreadType, Return, NoFee
<1>3. \A o \in Threads :
         /\ at'[o] \in {"idle", "create"} \/ on'[o] \in Fps
         /\ at'[o] \in {"sign", "record", "post"} => tx'[o] # NoTx
  BY DEF ThreadInv, ThreadType, Return
<1> QED
  BY <1>1, <1>2, <1>3 DEF ThreadInv

LEMMA GotoInv ==
    ASSUME ThreadInv, UNCHANGED vspQuote, NEW th \in Threads,
           NEW l \in Labels, l \in {"sign", "record", "post"} => tx[th] # NoTx,
           at[th] \notin {"idle", "create"},
           Goto(th, l)
    PROVE  ThreadInv'
BY DEF ThreadInv, ThreadType, Goto

LEMMA GotoWithInv ==
    ASSUME ThreadInv, UNCHANGED vspQuote, NEW th \in Threads,
           NEW l \in {"result", "end"}, at[th] \notin {"idle", "create"},
           NEW r \in {"ok", "error", "received", "invalid"}, GotoWith(th, l, r)
    PROVE  ThreadInv'
BY DEF ThreadInv, ThreadType, GotoWith, Labels

LEMMA FinishInv ==
    ASSUME ThreadInv, VspType, UNCHANGED vspQuote, NEW th \in Threads,
           at[th] \notin {"idle", "create"}, NEW r \in {"ok", "error"},
           Finish(th, r)
    PROVE  ThreadInv'
<1>1. CASE IsTask(th)
  BY <1>1, GotoWithInv DEF Finish
<1>2. CASE ~ IsTask(th)
  BY <1>2, ReturnInv DEF Finish
<1> QED
  BY <1>1, <1>2

LEMMA SubmittedInv ==
    ASSUME ThreadInv, VspType, UNCHANGED vspQuote, NEW th \in Threads,
           at[th] \notin {"idle", "create"},
           NEW r \in {"ok", "error", "received", "invalid"}, Submitted(th, r)
    PROVE  ThreadInv'
<1>1. CASE top[th] = "process"
  BY <1>1, ReturnInv DEF Submitted
<1>2. CASE top[th] # "process"
  BY <1>2, GotoWithInv DEF Submitted
<1> QED
  BY <1>1, <1>2

\* Fail moves the goroutine, and at most marks the ticket as errored.
LEMMA FailInv ==
    ASSUME ThreadInv, VspType, UNCHANGED vspQuote, NEW th \in Threads,
           at[th] \notin {"idle", "create"}, Fail(th)
    PROVE  /\ ThreadInv'
           /\ \/ UNCHANGED <<feeStatus, feeHash>>
              \/ feeStatus' = "errored" /\ feeHash' = NoTx
<1>1. CASE top[th] = "process" /\ inner[th]
  BY <1>1, ReturnInv DEF Fail
<1>2. CASE top[th] = "process" /\ ~ inner[th]
  BY <1>2, ReturnInv DEF Fail, UpdateVspTicketFeeToErrored, UpdateVspTicketFee
<1>3. CASE top[th] # "process"
  BY <1>3, GotoWithInv DEF Fail
<1> QED
  BY <1>1, <1>2, <1>3

LEMMA WithPaymentInv ==
    ASSUME ThreadInv, VspType, UNCHANGED vspQuote, NEW th \in Threads,
           NEW f \in Fps, WithPayment(th, f)
    PROVE  ThreadInv'
<1>1. CASE top[th] \in {"managed", "managedPaid"}
  BY <1>1, ReturnInv DEF WithPayment
<1>2. CASE top[th] \notin {"managed", "managedPaid"}
  BY <1>2 DEF WithPayment, ThreadInv, ThreadType, Labels
<1> QED
  BY <1>1, <1>2

\* A step that leaves the transactions, the quotes and the VSP alone.
LEMMA StoreInvSame ==
    ASSUME StoreInv,
           UNCHANGED <<saved, vspQuote, vspTx, vspStatus, txVars, fee>>,
           feeStatus' \in {feeStatus, "none", "started", "paid", "errored"}
    PROVE  StoreInv'
BY DEF StoreInv, txVars, VspFeeIsSaved, VspPaid, ConfirmedIsOnChain

LEMMA RemoveType ==
    ASSUME FpType, NEW f, Remove(f),
           UNCHANGED <<fps, fee, feeTx, fpHash, failed>>
    PROVE  FpType'
BY DEF FpType, Remove, Schedule

LEMMA ScheduleType ==
    ASSUME FpType, NEW f, NEW method \in {"none", "reconcile", "confirm"},
           Schedule(f, method),
           UNCHANGED <<fps, jobs, fee, feeTx, fpHash, failed>>
    PROVE  FpType'
BY DEF FpType, Schedule

LEMMA UnchangedType ==
    /\ WalletType /\ UNCHANGED walletVars => WalletType'
    /\ VspType    /\ UNCHANGED vspVars    => VspType'
    /\ TxType     /\ UNCHANGED txVars     => TxType'
    /\ FpType     /\ UNCHANGED fpVars     => FpType'
BY DEF WalletType, VspType, TxType, FpType, walletVars, vspVars, txVars, fpVars

-----------------------------------------------------------------------------
(* Initial states, and one lemma for every group of actions.                *)

LEMMA SavedInvInit == Init => SavedInv
<1> SUFFICES ASSUME Init PROVE SavedInv
  OBVIOUS
<1>1. WalletType /\ VspType /\ TxType
  <2>1. 1 \in Quotes
    BY BoundsAssumption DEF Quotes
  <2> QED
    BY <2>1 DEF Init, WalletType, VspType, TxType, FeeStatuses, TxOrNil
<1>2. FpType
  BY BoundsAssumption DEF Init, FpType, TxOrNil
<1>3. ThreadType
  BY DEF Init, ThreadType, Labels, Tops, TxOrNil
<1>4. ThreadInv
  BY <1>3 DEF Init, ThreadInv, NoFee
<1>5. StoreInv
  BY DEF Init, StoreInv, NoFee, VspFeeIsSaved, VspPaid, ConfirmedIsOnChain
<1> QED
  BY <1>1, <1>2, <1>3, <1>4, <1>5 DEF Init, SavedInv, TypeOK

LEMMA CallStep ==
    ASSUME SavedInv, NEW th \in Threads,
           Process(th) \/ ProcessTicket(th) \/ ProcessManagedTickets(th)
    PROVE  SavedInv'
<1> USE UnchangedType, StoreInvSame
<1> USE DEF SavedInv, TypeOK, walletVars, vspVars, txVars, fpVars
<1>1. CASE Process(th)
  <2> PICK t \in Txs : /\ content' = [content EXCEPT ![t] = "inputs"]
                       /\ ProcessWith(th, t)
    BY <1>1 DEF Process
  <2>1. WalletType' /\ VspType' /\ FpType' /\ panic' \in BOOLEAN
    BY DEF ProcessWith
  <2>2. TxType'
    BY DEF ProcessWith, TxType
  <2>3. ThreadInv'
    BY BeginInv DEF ProcessWith, Labels, Tops, TxOrNil
  <2>4. StoreInv'
    BY DEF ProcessWith, StoreInv, TxType, VspFeeIsSaved, VspPaid,
           ConfirmedIsOnChain
  <2> QED
    BY <2>1, <2>2, <2>3, <2>4 DEF ThreadInv
<1>2. CASE ProcessTicket(th)
  <2>1. ThreadInv'
    BY <1>2, BeginInv DEF ProcessTicket, ProcessWith, Labels, Tops, TxOrNil
  <2> QED
    BY <1>2, <2>1 DEF ProcessTicket, ProcessWith, ThreadInv
<1>3. CASE ProcessManagedTickets(th)
  <2>1. CASE vspStatus = "confirmed"
    <3>1. WalletType' /\ ThreadInv'
      BY <1>3, <2>1 DEF ProcessManagedTickets, UpdateVspTicketFee, WalletType,
         VspType, FeeStatuses, ThreadInv, ThreadType, threadVars
    <3>2. StoreInv'
      BY <1>3, <2>1 DEF ProcessManagedTickets, UpdateVspTicketFee, StoreInv,
         VspFeeIsSaved, VspPaid, ConfirmedIsOnChain
    <3> QED
      BY <1>3, <3>1, <3>2 DEF ProcessManagedTickets, ThreadInv
  <2>2. CASE vspStatus # "confirmed" /\ vspTx # NoTx
    <3>1. WalletType' /\ ThreadInv'
      BY <1>3, <2>2, BeginInv DEF ProcessManagedTickets, UpdateVspTicketFee,
         WalletType, VspType, FeeStatuses, Labels, Tops, TxOrNil
    <3> QED
      BY <1>3, <2>2, <3>1 DEF ProcessManagedTickets, UpdateVspTicketFee, ThreadInv
  <2>3. CASE vspStatus # "confirmed" /\ vspTx = NoTx
    <3>1. ThreadInv'
      BY <1>3, <2>3, BeginInv DEF ProcessManagedTickets, Labels, Tops, TxOrNil
    <3> QED
      BY <1>3, <2>3, <3>1 DEF ProcessManagedTickets, WalletType, ThreadInv
  <2> QED
    BY <2>1, <2>2, <2>3
<1> QED
  BY <1>1, <1>2, <1>3

LEMMA FeePaymentStep ==
    ASSUME SavedInv, NEW th \in Threads,
           FeePaymentFound(th) \/ FeePaymentFails(th) \/ FeePaymentNew(th) \/ FeePaymentInsert(th) \/ FeePaymentSchedule(th) \/ ProcessAdopt(th)
    PROVE  SavedInv'
<1> USE UnchangedType, StoreInvSame
<1> USE DEF SavedInv, TypeOK, walletVars, vspVars, txVars, fpVars
<1>1. CASE FeePaymentFound(th)
  <2>1. ThreadInv'
    BY <1>1, WithPaymentInv DEF FeePaymentFound, FpType
  <2> QED
    BY <1>1, <2>1 DEF FeePaymentFound, ThreadInv
<1>2. CASE FeePaymentFails(th)
  <2>1. ThreadInv'
    BY <1>2, ReturnInv DEF FeePaymentFails
  <2>2. WalletType' /\ feeStatus' \in {feeStatus, "errored"}
    BY <1>2 DEF FeePaymentFails, UpdateVspTicketFeeToErrored, UpdateVspTicketFee,
             WalletType, FeeStatuses, TxOrNil
  <2> QED
    BY <1>2, <2>1, <2>2 DEF FeePaymentFails, ThreadInv
<1>3. CASE FeePaymentNew(th)
  <2>1. WalletType' /\ feeStatus' \in {feeStatus, "started"}
    BY <1>3 DEF FeePaymentNew, UpdateVspTicketFee, WalletType, FeeStatuses
  <2>2. FpType'
    BY <1>3 DEF FeePaymentNew, FpType, WalletType, TxOrNil, Fps
  <2>3. ThreadInv'
    BY <1>3 DEF FeePaymentNew, ThreadInv, ThreadType, Labels
  <2>4. StoreInv'
    BY <1>3, <2>1, QuoteNat DEF FeePaymentNew, StoreInv, FpType, NoFee, OldFee,
       VspFeeIsSaved, VspPaid, ConfirmedIsOnChain
  <2> QED
    BY <1>3, <2>1, <2>2, <2>3, <2>4 DEF FeePaymentNew, ThreadInv
<1>4. CASE FeePaymentInsert(th)
  <2>1. ThreadInv'
    BY <1>4, WithPaymentInv, GotoInv DEF FeePaymentInsert, FpType, Labels
  <2>2. FpType'
    BY <1>4 DEF FeePaymentInsert, FpType, ThreadInv, ThreadType
  <2> QED
    BY <1>4, <2>1, <2>2 DEF FeePaymentInsert, ThreadInv
<1>5. CASE FeePaymentSchedule(th)
  <2>1. ThreadInv'
    BY <1>5, WithPaymentInv DEF FeePaymentSchedule, ThreadInv, ThreadType
  <2>2. FpType'
    BY <1>5, ScheduleType DEF FeePaymentSchedule
  <2> QED
    BY <1>5, <2>1, <2>2 DEF FeePaymentSchedule, ThreadInv
<1>6. CASE ProcessAdopt(th)
  <2>1. ThreadInv'
    BY <1>6, GotoInv DEF ProcessAdopt, Labels
  <2>2. FpType'
    BY <1>6 DEF ProcessAdopt, FpType, ThreadInv, ThreadType
  <2> QED
    BY <1>6, <2>1, <2>2 DEF ProcessAdopt, ThreadInv
<1> QED
  BY <1>1, <1>2, <1>3, <1>4, <1>5, <1>6

LEMMA QuoteStep ==
    ASSUME SavedInv, NEW th \in Threads,
           ReceiveFeeAddressStopped(th) \/ ReceiveFeeAddress(th) \/ ReceiveFeeAddressFails(th)
    PROVE  SavedInv'
<1> USE UnchangedType, StoreInvSame
<1> USE DEF SavedInv, TypeOK, walletVars, vspVars, txVars, fpVars
<1>1. CASE ReceiveFeeAddressStopped(th)
  <2>1. /\ ThreadInv'
        /\ \/ UNCHANGED <<feeStatus, feeHash>>
           \/ feeStatus' = "errored" /\ feeHash' = NoTx
    BY <1>1, FailInv DEF ReceiveFeeAddressStopped
  <2>2. WalletType'
    BY <1>1, <2>1 DEF ReceiveFeeAddressStopped, WalletType, FeeStatuses, TxOrNil
  <2>3. FpType'
    BY <1>1, RemoveType DEF ReceiveFeeAddressStopped
  <2> QED
    BY <1>1, <2>1, <2>2, <2>3 DEF ReceiveFeeAddressStopped, ThreadInv
<1>2. CASE ReceiveFeeAddress(th)
  <2>1. ThreadInv'
    BY <1>2, QuoteNat DEF ReceiveFeeAddress, ThreadInv, ThreadType, Labels, VspType
  <2>2. FpType' /\ VspType'
    BY <1>2 DEF ReceiveFeeAddress, FpType, VspType
  <2>3. StoreInv'
    BY <1>2, QuoteNat DEF ReceiveFeeAddress, StoreInv, FpType, VspFeeIsSaved,
       VspPaid, ConfirmedIsOnChain
  <2> QED
    BY <1>2, <2>1, <2>2, <2>3 DEF ReceiveFeeAddress, ThreadInv
<1>3. CASE ReceiveFeeAddressFails(th)
  <2>1. /\ ThreadInv'
        /\ \/ UNCHANGED <<feeStatus, feeHash>>
           \/ feeStatus' = "errored" /\ feeHash' = NoTx
    BY <1>3, FailInv DEF ReceiveFeeAddressFails
  <2>2. WalletType'
    BY <1>3, <2>1 DEF ReceiveFeeAddressFails, WalletType, FeeStatuses, TxOrNil
  <2>3. FpType'
    BY <1>3, RemoveType DEF ReceiveFeeAddressFails
  <2>4. VspType'
    BY <1>3 DEF ReceiveFeeAddressFails, VspType
  <2> QED
    BY <1>3, <2>1, <2>2, <2>3, <2>4 DEF ReceiveFeeAddressFails, ThreadInv
<1> QED
  BY <1>1, <1>2, <1>3

LEMMA MakeFeeTxStep ==
    ASSUME SavedInv, NEW th \in Threads,
           MakeFeeTx(th) \/ MakeFeeTxFund(th) \/ MakeFeeTxFails(th) \/ MakeFeeTxSign(th) \/ MakeFeeTxRecord(th)
    PROVE  SavedInv'
<1> USE UnchangedType, StoreInvSame
<1> USE DEF SavedInv, TypeOK, walletVars, vspVars, txVars, fpVars
<1>1. CASE MakeFeeTx(th)
  <2>1. ThreadType'
    BY <1>1 DEF MakeFeeTx, Made, ThreadInv, ThreadType, Labels, FpType, NoFp,
             TxOrNil, NoTx
  <2>2. \A o \in Threads : amt'[o] <= vspQuote'
    BY <1>1 DEF MakeFeeTx, ThreadInv, ThreadType, StoreInv
  <2>3. \A o \in Threads :
           /\ at'[o] \in {"idle", "create"} \/ on'[o] \in Fps
           /\ at'[o] \in {"sign", "record", "post"} => tx'[o] # NoTx
    BY <1>1 DEF MakeFeeTx, Made, Finished, ThreadInv, ThreadType
  <2> QED
    BY <1>1, <2>1, <2>2, <2>3 DEF MakeFeeTx, ThreadInv
<1>2. CASE MakeFeeTxFund(th)
  <2> PICK t \in Txs :
         IF amt[th] = OldFee
         THEN panic' = TRUE /\ UNCHANGED <<txVars, at, tx>>
         ELSE /\ content' = [content EXCEPT ![t] = "outputs"]
              /\ pays' = [pays EXCEPT ![t] = amt[th]]
              /\ tx' = [tx EXCEPT ![th] = t]
              /\ at' = [at EXCEPT ![th] = "sign"]
              /\ UNCHANGED panic
    BY <1>2 DEF MakeFeeTxFund
  <2>1. TxType'
    BY DEF TxType, ThreadInv, ThreadType
  <2>2. ThreadInv'
    BY <1>2 DEF MakeFeeTxFund, ThreadInv, ThreadType, Labels, TxOrNil, Txs, NoTx
  <2>3. StoreInv'
    BY <1>2 DEF MakeFeeTxFund, StoreInv, TxType, ThreadInv, ThreadType,
             VspFeeIsSaved, VspPaid, ConfirmedIsOnChain
  <2> QED
    BY <1>2, <2>1, <2>2, <2>3 DEF MakeFeeTxFund, ThreadInv
<1>3. CASE MakeFeeTxFails(th)
  <2>1. /\ ThreadInv'
        /\ \/ UNCHANGED <<feeStatus, feeHash>>
           \/ feeStatus' = "errored" /\ feeHash' = NoTx
    BY <1>3, FailInv DEF MakeFeeTxFails
  <2>2. WalletType'
    BY <1>3, <2>1 DEF MakeFeeTxFails, WalletType, FeeStatuses, TxOrNil
  <2> QED
    BY <1>3, <2>1, <2>2 DEF MakeFeeTxFails, ThreadInv
<1>4. CASE MakeFeeTxSign(th)
  <2>0. tx[th] \in Txs
    BY <1>4 DEF MakeFeeTxSign, ThreadInv, ThreadType, TxOrNil
  <2>1. ThreadInv'
    BY <1>4, <2>0, GotoInv DEF MakeFeeTxSign, Labels, Txs, NoTx
  <2>2. WalletType' /\ TxType'
    BY <1>4, <2>0 DEF MakeFeeTxSign, WalletType, TxType
  <2>3. StoreInv'
    BY <1>4, <2>0 DEF MakeFeeTxSign, StoreInv, TxType, VspFeeIsSaved, VspPaid,
                   ConfirmedIsOnChain
  <2> QED
    BY <1>4, <2>1, <2>2, <2>3 DEF MakeFeeTxSign, ThreadInv
<1>5. CASE MakeFeeTxRecord(th)
  <2>0. tx[th] \in Txs
    BY <1>5 DEF MakeFeeTxRecord, ThreadInv, ThreadType, TxOrNil
  <2>1. ThreadInv'
    BY <1>5, <2>0 DEF MakeFeeTxRecord, Made, ThreadInv, ThreadType, Labels
  <2>2. WalletType' /\ FpType'
    BY <1>5, <2>0 DEF MakeFeeTxRecord, UpdateVspTicketFee, WalletType, FpType,
                   FeeStatuses, TxOrNil
  <2> QED
    BY <1>5, <2>1, <2>2 DEF MakeFeeTxRecord, UpdateVspTicketFee, ThreadInv
<1> QED
  BY <1>1, <1>2, <1>3, <1>4, <1>5

LEMMA SubmitStep ==
    ASSUME SavedInv, NEW th \in Threads,
           SubmitPaymentStopped(th) \/ SubmitPayment(th) \/ PayFeeLost(th) \/ PayFeeRefused(th) \/ PayFeeExpired(th) \/ PayFeeAccepted(th)
    PROVE  SavedInv'
<1> USE UnchangedType, StoreInvSame
<1> USE DEF SavedInv, TypeOK, walletVars, vspVars, txVars, fpVars
<1>1. CASE SubmitPaymentStopped(th)
  <2>1. ThreadInv'
    BY <1>1, SubmittedInv DEF SubmitPaymentStopped
  <2>2. FpType'
    BY <1>1, RemoveType DEF SubmitPaymentStopped
  <2> QED
    BY <1>1, <2>1, <2>2 DEF SubmitPaymentStopped, ThreadInv
<1>2. CASE SubmitPayment(th)
  <2>1. feeTx[on[th]] \in TxOrNil
    BY <1>2 DEF SubmitPayment, FpType, ThreadInv
  <2>2. ThreadInv'
    BY <1>2, <2>1 DEF SubmitPayment, Finished, ThreadInv, ThreadType, Labels
  <2> QED
    BY <1>2, <2>2 DEF SubmitPayment, ThreadInv
<1>3. CASE PayFeeLost(th)
  <2>1. ThreadInv'
    BY <1>3, SubmittedInv DEF PayFeeLost
  <2> QED
    BY <1>3, <2>1 DEF PayFeeLost, ThreadInv
<1>4. CASE PayFeeRefused(th)
  <2>1. ThreadInv'
    BY <1>4, SubmittedInv DEF PayFeeRefused
  <2> QED
    BY <1>4, <2>1 DEF PayFeeRefused, ThreadInv
<1>5. CASE PayFeeExpired(th)
  <2>0. tx[th] \in Txs
    BY <1>5 DEF PayFeeExpired, ThreadInv, ThreadType, TxOrNil
  <2>1. ThreadInv'
    BY <1>5, SubmittedInv DEF PayFeeExpired
  <2>2. WalletType' /\ FpType'
    BY <1>5 DEF PayFeeExpired, WalletType, FpType, TxOrNil
  <2>3. pays[tx[th]] < vspQuote
    BY <1>5, <2>0, QuoteNat DEF PayFeeExpired, StoreInv, TxType, Quotes, NoFee
  <2>4. StoreInv'
    BY <1>5, <2>0, <2>3 DEF PayFeeExpired, VspOwed, StoreInv, VspFeeIsSaved,
                         VspPaid, ConfirmedIsOnChain
  <2> QED
    BY <1>5, <2>1, <2>2, <2>4 DEF PayFeeExpired, ThreadInv
<1>6. CASE PayFeeAccepted(th)
  <2>0. tx[th] \in Txs
    BY <1>6 DEF PayFeeAccepted, ThreadInv, ThreadType, TxOrNil
  <2>1. ThreadInv'
    BY <1>6, SubmittedInv DEF PayFeeAccepted
  <2>2. VspType'
    BY <1>6, <2>0 DEF PayFeeAccepted, VspType, TxOrNil
  <2>3. tx[th] \in saved
    BY <1>6, <2>0, QuoteNat DEF PayFeeAccepted, StoreInv
  <2>4. StoreInv'
    BY <1>6, <2>0, <2>3 DEF PayFeeAccepted, VspOwed, StoreInv, VspFeeIsSaved,
                         VspPaid, ConfirmedIsOnChain, Txs, NoTx
  <2> QED
    BY <1>6, <2>1, <2>2, <2>4 DEF PayFeeAccepted, ThreadInv
<1> QED
  BY <1>1, <1>2, <1>3, <1>4, <1>5, <1>6

LEMMA ReconcileStep ==
    ASSUME SavedInv, NEW th \in Threads,
           ReconcilePayment(th) \/ ReconcilePaid(th) \/ ReconcileAgain(th)
    PROVE  SavedInv'
<1> USE UnchangedType, StoreInvSame
<1> USE DEF SavedInv, TypeOK, walletVars, vspVars, txVars, fpVars
<1>1. CASE ReconcilePayment(th)
  <2>1. ThreadInv'
    BY <1>1, GotoInv, GotoWithInv DEF ReconcilePayment, Labels
  <2>2. FpType'
    BY <1>1, RemoveType DEF ReconcilePayment
  <2> QED
    BY <1>1, <2>1, <2>2 DEF ReconcilePayment, ThreadInv
<1>2. CASE ReconcilePaid(th)
  <2>1. ThreadInv'
    BY <1>2, GotoInv DEF ReconcilePaid, Labels
  <2>2. WalletType'
    BY <1>2 DEF ReconcilePaid, UpdateVspTicketFee, WalletType, FeeStatuses,
             FpType, ThreadInv, ThreadType
  <2> QED
    BY <1>2, <2>1, <2>2 DEF ReconcilePaid, UpdateVspTicketFee, ThreadInv
<1>3. CASE ReconcileAgain(th)
  <2>1. ThreadInv'
    BY <1>3, GotoWithInv DEF ReconcileAgain
  <2>2. WalletType' /\ feeStatus' \in {feeStatus, "errored"}
    BY <1>3 DEF ReconcileAgain, UpdateVspTicketFeeToErrored, UpdateVspTicketFee,
             WalletType, FeeStatuses, TxOrNil
  <2>3. FpType'
    BY <1>3 DEF ReconcileAgain, FpType, Schedule, TxOrNil
  <2> QED
    BY <1>3, <2>1, <2>2, <2>3 DEF ReconcileAgain, ThreadInv
<1> QED
  BY <1>1, <1>2, <1>3

\* Only a fee that the chain has confirmed is recorded as confirmed.
LEMMA ConfirmedStep ==
    ASSUME SavedInv, NEW th \in Threads, at[th] = "confirm",
           vspStatus = "confirmed", Confirmed(th),
           UNCHANGED <<saved, vspVars, txVars, fps, fee, feeTx, fpHash, failed,
                       panic>>
    PROVE  SavedInv'
<1> USE UnchangedType
<1> USE DEF SavedInv, TypeOK, vspVars, txVars
<1>1. ThreadInv'
  BY FinishInv DEF Confirmed
<1>2. FpType'
  BY RemoveType DEF Confirmed
<1>3. WalletType'
  BY DEF Confirmed, UpdateVspTicketFee, WalletType, FeeStatuses, FpType,
         ThreadInv
<1>4. StoreInv'
  BY DEF Confirmed, UpdateVspTicketFee, StoreInv, VspFeeIsSaved, VspPaid,
         ConfirmedIsOnChain
<1> QED
  BY <1>1, <1>2, <1>3, <1>4 DEF ThreadInv

LEMMA ConfirmStep ==
    ASSUME SavedInv, NEW th \in Threads,
           ConfirmPaymentStopped(th) \/ ConfirmPayment(th) \/ ConfirmPaymentUnanswered(th) \/ TaskEnd(th)
    PROVE  SavedInv'
<1> USE UnchangedType, StoreInvSame
<1> USE DEF SavedInv, TypeOK, walletVars, vspVars, txVars, fpVars
<1>1. CASE ConfirmPaymentStopped(th)
  <2>1. ThreadInv'
    BY <1>1, FinishInv DEF ConfirmPaymentStopped
  <2>2. FpType'
    BY <1>1, RemoveType DEF ConfirmPaymentStopped
  <2> QED
    BY <1>1, <2>1, <2>2 DEF ConfirmPaymentStopped, ThreadInv
<1>2. CASE ConfirmPayment(th)
  <2>1. CASE vspStatus = "confirmed"
    <3>1. Confirmed(th)
      BY <1>2, <2>1 DEF ConfirmPayment
    <3> QED
      BY <1>2, <2>1, <3>1, ConfirmedStep DEF ConfirmPayment
  <2>2. CASE vspStatus # "confirmed"
    <3>1. ThreadInv'
      BY <1>2, <2>2, FinishInv DEF ConfirmPayment
    <3>2. FpType'
      BY <1>2, <2>2 DEF ConfirmPayment, Schedule, FpType
    <3> QED
      BY <1>2, <2>2, <3>1, <3>2 DEF ConfirmPayment, WalletType, ThreadInv
  <2> QED
    BY <2>1, <2>2
<1>3. CASE ConfirmPaymentUnanswered(th)
  <2>1. CASE Confirmed(th) /\ vspStatus = "confirmed"
    BY <1>3, <2>1, ConfirmedStep DEF ConfirmPaymentUnanswered
  <2>2. CASE ~ (Confirmed(th) /\ vspStatus = "confirmed")
    <3>1. ThreadInv'
      BY <1>3, <2>2, FinishInv DEF ConfirmPaymentUnanswered
    <3>2. FpType'
      BY <1>3, <2>2, ScheduleType DEF ConfirmPaymentUnanswered
    <3> QED
      BY <1>3, <2>2, <3>1, <3>2 DEF ConfirmPaymentUnanswered, WalletType, ThreadInv
  <2> QED
    BY <2>1, <2>2
<1>4. CASE TaskEnd(th)
  <2>1. ThreadInv'
    BY <1>4, ReturnInv DEF TaskEnd
  <2>2. FpType'
    BY <1>4 DEF TaskEnd, FpType
  <2> QED
    BY <1>4, <2>1, <2>2 DEF TaskEnd, ThreadInv
<1> QED
  BY <1>1, <1>2, <1>3, <1>4

LEMMA TimerStep ==
    ASSUME SavedInv, NEW th \in Threads, NEW f \in Fps, TimerFires(th, f)
    PROVE  SavedInv'
<1> USE UnchangedType, StoreInvSame
<1> USE DEF SavedInv, TypeOK, walletVars, vspVars, txVars
<1>1. timer[f] \in {"reconcile", "confirm"}
  BY DEF TimerFires, FpType
<1>2. ThreadInv'
  BY <1>1, BeginInv DEF TimerFires, Labels, Tops, TxOrNil
<1>3. FpType'
  BY ScheduleType DEF TimerFires
<1> QED
  BY <1>2, <1>3 DEF TimerFires, ThreadInv

LEMMA EnvironmentStep == ASSUME SavedInv, Environment PROVE SavedInv'
<1> USE UnchangedType, StoreInvSame
<1> USE DEF SavedInv, TypeOK, walletVars, vspVars, txVars, fpVars, threadVars
<1>1. CASE QuoteExpires
  <2>1. VspType'
    BY <1>1, BoundsAssumption DEF QuoteExpires, VspType, Quotes
  <2>2. ThreadInv'
    <3>1. \A th \in Threads : amt[th] \in Int
      BY BoundsAssumption
      DEF ThreadInv, ThreadType, Quotes, NoFee, OldFee
    <3>2. \A th \in Threads : amt'[th] <= vspQuote'
      BY <1>1, <3>1, QuoteNat DEF QuoteExpires, ThreadInv
    <3> QED
      BY <1>1, <3>2 DEF QuoteExpires, ThreadInv, ThreadType
  <2>3. StoreInv'
    <3>1. /\ \A f \in Fps : fee[f] \in Int
          /\ \A t \in Txs : pays[t] \in Int
      BY BoundsAssumption DEF FpType, TxType, Quotes, NoFee, OldFee
    <3> QED
      BY <1>1, <3>1, QuoteNat
      DEF QuoteExpires, StoreInv, VspFeeIsSaved, VspPaid, ConfirmedIsOnChain
  <2> QED
    BY <1>1, <2>1, <2>2, <2>3 DEF QuoteExpires, ThreadInv
<1>2. CASE VspProgress
  <2>1. VspType'
    BY <1>2 DEF VspProgress, VspType
  <2>2. ThreadInv'
    BY <1>2 DEF VspProgress, ThreadInv, ThreadType
  <2>3. StoreInv'
    BY <1>2 DEF VspProgress, StoreInv, VspFeeIsSaved, VspPaid,
                ConfirmedIsOnChain
  <2> QED
    BY <1>2, <2>1, <2>2, <2>3 DEF VspProgress, ThreadInv
<1>3. CASE TicketSpent
  <2>1. VspType'
    BY <1>3 DEF TicketSpent, VspType
  <2>2. ThreadInv'
    BY <1>3 DEF TicketSpent, ThreadInv, ThreadType
  <2> QED
    BY <1>3, <2>1, <2>2 DEF TicketSpent, ThreadInv
<1>4. CASE Crash
  <2>1. TxType'
    BY <1>4 DEF Crash, TxType
  <2>2. FpType'
    BY <1>4, BoundsAssumption DEF Crash, FpType, TxOrNil
  <2>3. ThreadInv'
    BY <1>4, QuoteNat
    DEF Crash, ThreadInv, ThreadType, Labels, Tops, TxOrNil, NoFee
  <2>4. StoreInv'
    BY <1>4, QuoteNat
    DEF Crash, StoreInv, NoFee, VspFeeIsSaved, VspPaid, ConfirmedIsOnChain
  <2> QED
    BY <1>4, <2>1, <2>2, <2>3, <2>4 DEF Crash, ThreadInv
<1> QED
  BY <1>1, <1>2, <1>3, <1>4 DEF Environment

-----------------------------------------------------------------------------
(* The invariant and its consequences.                                      *)

LEMMA SavedInvNext == SavedInv /\ [Next]_vars => SavedInv'
<1> SUFFICES ASSUME SavedInv, [Next]_vars PROVE SavedInv'
  OBVIOUS
<1>1. ASSUME NEW th \in Threads, Call(th) PROVE SavedInv'
  BY <1>1, CallStep DEF Call
<1>2. ASSUME NEW th \in Threads, Step(th) PROVE SavedInv'
  BY <1>2, FeePaymentStep, QuoteStep, MakeFeeTxStep, SubmitStep,
     ReconcileStep, ConfirmStep DEF Step
<1>3. ASSUME NEW th \in Threads, NEW f \in Fps, TimerFires(th, f)
      PROVE  SavedInv'
  BY <1>3, TimerStep
<1>4. CASE Environment
  BY <1>4, EnvironmentStep
<1>5. CASE UNCHANGED vars
  BY <1>5, UnchangedType, StoreInvSame
  DEF SavedInv, TypeOK, ThreadInv, ThreadType, vars, walletVars, vspVars,
      txVars, fpVars, threadVars
<1> QED
  BY <1>1, <1>2, <1>3, <1>4, <1>5 DEF Next

LEMMA SavedInvHolds == Spec => []SavedInv
<1> QED
  BY SavedInvInit, SavedInvNext, PTL DEF Spec

\* Every variable keeps its type, in all behaviours of the fee payment.
THEOREM VspTypeCorrect == Spec => []TypeOK
<1>1. SavedInv => TypeOK
  BY DEF SavedInv
<1> QED
  BY <1>1, SavedInvHolds, PTL

\* However calls, tasks, lost answers, expired quotes and crashes interleave,
\* the fee transaction the VSP holds is in the wallet's store: no goroutine
\* submits a transaction it has not added, or abandons one that was accepted.
THEOREM AcceptedFeeIsSaved == Spec => []VspFeeIsSaved
<1>1. SavedInv => VspFeeIsSaved
  BY DEF SavedInv, StoreInv
<1> QED
  BY <1>1, SavedInvHolds, PTL

\* A ticket is recorded as confirmed only once its fee is.
THEOREM ConfirmedAfterFee == Spec => []ConfirmedIsOnChain
<1>1. SavedInv => ConfirmedIsOnChain
  BY DEF SavedInv, StoreInv
<1> QED
  BY <1>1, SavedInvHolds, PTL

-----------------------------------------------------------------------------
(* One call or task at a time, and no ProcessManagedTickets: what is true   *)
(* of the record of the ticket, and of the fee the VSP holds.               *)

OneAtATime == Serialized /\ "ProcessManagedTickets" \notin Calls

\* The feePayment has the fee that the VSP holds, and its transaction, once
\* signed, is the one on record.
Fit(f) ==
    /\ VspPaid => feeTx[f] = vspTx /\ fpHash[f] = vspTx
    /\ feeTx[f] # NoTx /\ content[feeTx[f]] = "signed" =>
          feeHash = feeTx[f] /\ fpHash[f] = feeTx[f]

OneActive == \A o, p \in Threads : at[o] # "idle" /\ at[p] # "idle" => o = p

Decided == feeStatus \in {"paid", "confirmed"}

\* A hash is only on record for a ticket that is paid or confirmed.
RecordIsOfFee == ~ Decided => feeHash = NoTx

VspTxSigned == VspPaid => content[vspTx] = "signed"

\* Until the ticket is spent, the job in Client.jobs is the only one that has
\* a timer, and it is fit, but for the moment between signing and recording.
TimersOfJob == ~ spent => \A f \in Fps : timer[f] # "none" => f = jobs
JobFits ==
    ~ spent /\ (\A th \in Threads : at[th] # "record") =>
        \A f \in Fps : f = jobs => Fit(f)

\* Once confirmed, no timer is armed and no method will be run.
NothingToDo ==
    feeStatus = "confirmed" =>
        /\ \A f \in Fps : timer[f] = "none"
        /\ \A th \in Threads : at[th] \in {"idle", "end"}

\* Who executes what; submitPayment always finds a finished transaction.
TopFits(th) ==
    /\ top[th] \in {"none", "process", "paid", "reconcile", "confirm"}
    /\ at[th] = "idle" => top[th] = "none"
    /\ at[th] \in {"create", "insert", "arm"} => top[th] \in {"process", "paid"}
    /\ at[th] \in {"adopt", "quote"} => top[th] = "process"
    /\ at[th] \in {"make", "requote", "fund", "sign", "record", "submit", "post"} =>
          top[th] \in {"process", "reconcile"}
    /\ at[th] \in {"reconcile", "result"} => top[th] = "reconcile"
    /\ at[th] = "confirm" => top[th] \in {"paid", "reconcile", "confirm"}
    /\ at[th] = "end" => top[th] \in {"reconcile", "confirm"}
    /\ ~ inner[th]

\* A goroutine works on the job, which a new object is to become; one that is
\* past the check that the ticket is not spent goes on with a fit object.
OnFits(th) ==
    /\ at[th] = "insert" =>
          jobs = NoFp /\ (~ spent => \A f \in Fps : f = on[th] => Fit(f))
    /\ ~ spent /\ at[th] \notin {"idle", "create", "insert", "end"} => on[th] = jobs
    /\ at[th] \in {"make", "requote", "fund", "sign", "submit", "post", "result"} =>
          \A f \in Fps : f = on[th] => Fit(f)

\* Transactions are only completed while the VSP has no fee, and Process only
\* works on a ticket that is not paid, until it pays it.
TxFits(th) ==
    /\ at[th] \in {"create", "insert", "arm", "adopt"} /\ tx[th] # NoTx =>
          content[tx[th]] = "inputs"
    /\ at[th] \in {"requote", "fund", "sign", "record"} => ~ VspPaid
    /\ at[th] = "record" => content[tx[th]] = "signed"
    /\ at[th] = "submit" => Finished(feeTx[on[th]])
    /\ at[th] = "post" => tx[th] = feeTx[on[th]]
    /\ at[th] = "result" /\ res[th] = "invalid" => ~ VspPaid
    /\ top[th] = "process" => ~ VspPaid
    /\ top[th] = "process" /\ at[th] \notin {"submit", "post"} => ~ Decided

ThreadFits(th) == TopFits(th) /\ OnFits(th) /\ TxFits(th)

FeeInv == RecordIsOfFee /\ VspFeeIsKnown /\ ConfirmedFeeIsVsps /\ VspTxSigned

SerialInv ==
    /\ SavedInv /\ OneActive /\ FeeInv /\ TimersOfJob /\ JobFits /\ NothingToDo
    /\ \A th \in Threads : ThreadFits(th)

-----------------------------------------------------------------------------
(* What a step of one goroutine leaves alone.                               *)

\* The step is th's, and nobody else is at work.
Only(th) ==
    \A o \in Threads \ {th} :
        /\ at[o] = "idle" /\ at'[o] = "idle"
        /\ top'[o] = "none" /\ ~ inner'[o]

\* The VSP's fee and the transactions are not touched, nor is what the wallet
\* has on record; the status may go from one undecided value to another.
QuietData ==
    /\ UNCHANGED <<feeHash, saved, vspTx, vspStatus, spent, content, feeTx, fpHash>>
    /\ UNCHANGED feeStatus \/ (~ Decided /\ ~ Decided')

LEMMA SerialInvInit == Init => SerialInv
<1> SUFFICES ASSUME Init PROVE SerialInv
  OBVIOUS
<1>1. SavedInv
  BY SavedInvInit
<1>2. OneActive /\ FeeInv /\ TimersOfJob /\ NothingToDo
  BY DEF Init, OneActive, FeeInv, RecordIsOfFee, VspFeeIsKnown, ConfirmedFeeIsVsps, VspTxSigned,
         VspPaid, TimersOfJob, NothingToDo
<1>3. JobFits
  BY DEF Init, JobFits, Fit, Fps, NoFp
<1>4. ASSUME NEW th \in Threads PROVE ThreadFits(th)
  BY DEF Init, ThreadFits, TopFits, OnFits, TxFits
<1> QED
  BY <1>1, <1>2, <1>3, <1>4 DEF SerialInv

LEMMA QuietFit ==
    ASSUME QuietData, NEW f PROVE Fit(f)' <=> Fit(f)
BY DEF QuietData, Fit, VspPaid

LEMMA QuietFee == ASSUME FeeInv, QuietData PROVE FeeInv'
BY DEF FeeInv, QuietData, RecordIsOfFee, VspFeeIsKnown, ConfirmedFeeIsVsps, VspTxSigned,
       VspPaid, Decided

\* The goroutines that are not at work are as they should be.
LEMMA OthersFit ==
    ASSUME NEW th \in Threads, Only(th), ThreadFits(th)'
    PROVE  OneActive' /\ \A o \in Threads : ThreadFits(o)'
<1>1. OneActive'
  BY DEF OneActive, Only
<1>2. ASSUME NEW o \in Threads, o # th PROVE ThreadFits(o)'
  BY <1>2 DEF Only, ThreadFits, TopFits, OnFits, TxFits
<1> QED
  BY <1>1, <1>2

LEMMA QuietKeepsInv ==
    ASSUME SerialInv, SavedInv', NEW th \in Threads, Only(th), ThreadFits(th)', QuietData,
           at[th] # "record",
           ~ spent => \A f \in Fps : f = jobs' => f = jobs \/ Fit(f),
           ~ spent => \A f \in Fps : timer'[f] # "none" => f = jobs',
           feeStatus = "confirmed" =>
              at'[th] \in {"idle", "end"} /\ \A f \in Fps : timer'[f] = "none"
    PROVE  SerialInv'
<1>1. OneActive' /\ \A o \in Threads : ThreadFits(o)'
  BY OthersFit
<1>2. FeeInv'
  BY QuietFee DEF SerialInv
<1>3. TimersOfJob'
  BY DEF TimersOfJob, QuietData
<1>4. JobFits'
  <2>1. ASSUME ~ spent, NEW f \in Fps, f = jobs' PROVE Fit(f)'
    <3>1. \A o \in Threads : at[o] # "record"
      BY DEF Only
    <3>2. f = jobs => Fit(f)
      BY <2>1, <3>1 DEF SerialInv, JobFits
    <3> QED
      BY <2>1, <3>2, QuietFit
  <2> QED
    BY <2>1 DEF JobFits, QuietData
<1>5. NothingToDo'
  <2>1. feeStatus' = "confirmed" => feeStatus = "confirmed"
    BY DEF QuietData, Decided
  <2> QED
    BY <2>1 DEF NothingToDo, Only
<1> QED
  BY <1>1, <1>2, <1>3, <1>4, <1>5 DEF SerialInv

-----------------------------------------------------------------------------
(* How the building blocks leave the goroutine.                             *)

\* Nothing is said of where the other goroutines are, only that they stay there.
Still(th) ==
    \A o \in Threads \ {th} : at'[o] = at[o] /\ top'[o] = top[o] /\ inner'[o] = inner[o]

LEMMA StillIsOnly ==
    ASSUME SerialInv, NEW th \in Threads, at[th] # "idle" \/ (Serialized /\ Free(th)),
           Still(th)
    PROVE  Only(th)
<1>1. \A o \in Threads \ {th} : at[o] = "idle"
  BY DEF SerialInv, OneActive, Free
<1>2. \A o \in Threads : at[o] = "idle" => top[o] = "none" /\ ~ inner[o]
  BY DEF SerialInv, ThreadFits, TopFits
<1> QED
  BY <1>1, <1>2 DEF Still, Only

LEMMA BeginMoves ==
    ASSUME ThreadType, NEW th \in Threads, NEW l, NEW what, NEW f, NEW t, Begin(th, l, what, f, t)
    PROVE  /\ at'[th] = l /\ top'[th] = what /\ on'[th] = f /\ tx'[th] = t
           /\ inner'[th] = inner[th]
           /\ Still(th)
BY DEF Still, ThreadType, Begin

LEMMA ReturnMoves ==
    ASSUME ThreadType, NEW th \in Threads, NEW r, Return(th, r)
    PROVE  /\ at'[th] = "idle" /\ ThreadFits(th)'
           /\ Still(th)
<1>1. /\ at'[th] = "idle" /\ top'[th] = "none" /\ inner'[th] = FALSE
      /\ Still(th)
  BY DEF Still, ThreadType, Return
<1> QED
  BY <1>1 DEF ThreadFits, TopFits, OnFits, TxFits

LEMMA GotoMoves ==
    ASSUME ThreadType, NEW th \in Threads, NEW l, Goto(th, l)
    PROVE  /\ at'[th] = l /\ UNCHANGED <<top, on, tx, inner, res>>
           /\ Still(th)
BY DEF Still, ThreadType, Goto

LEMMA GotoWithMoves ==
    ASSUME ThreadType, NEW th \in Threads, NEW l, NEW r, GotoWith(th, l, r)
    PROVE  /\ at'[th] = l /\ res'[th] = r /\ UNCHANGED <<top, on, tx, inner>>
           /\ Still(th)
BY DEF Still, ThreadType, GotoWith

\* A task ends.
LEMMA EndMoves ==
    ASSUME ThreadType, NEW th \in Threads, NEW r, GotoWith(th, "end", r),
           ~ inner[th], top[th] \in {"reconcile", "confirm"}
    PROVE  /\ at'[th] = "end" /\ ThreadFits(th)'
           /\ Still(th)
BY GotoWithMoves DEF ThreadFits, TopFits, OnFits, TxFits

LEMMA FinishMoves ==
    ASSUME ThreadType, NEW th \in Threads, NEW r, Finish(th, r), TopFits(th)
    PROVE  /\ at'[th] \in {"idle", "end"} /\ ThreadFits(th)'
           /\ Still(th)
<1>1. CASE IsTask(th)
  BY <1>1, EndMoves DEF Finish, IsTask, TopFits
<1>2. CASE ~ IsTask(th)
  BY <1>2, ReturnMoves DEF Finish
<1> QED
  BY <1>1, <1>2

\* An error before the fee is submitted ends the call or the task; Process marks
\* a ticket that was not paid before.
LEMMA FailMoves ==
    ASSUME ThreadType, NEW th \in Threads, Fail(th), ThreadFits(th), RecordIsOfFee,
           at[th] \in {"quote", "requote", "fund", "sign"}
    PROVE  /\ at'[th] \in {"idle", "end"} /\ ThreadFits(th)'
           /\ UNCHANGED feeHash /\ (UNCHANGED feeStatus \/ (~ Decided /\ ~ Decided'))
           /\ Still(th)
<1>1. ~ inner[th] /\ top[th] \in {"process", "reconcile"}
  BY DEF ThreadFits, TopFits
<1>2. CASE top[th] = "process"
  <2>1. Return(th, "nil") /\ feeStatus' = "errored" /\ feeHash' = NoTx
    BY <1>1, <1>2 DEF Fail, UpdateVspTicketFeeToErrored, UpdateVspTicketFee
  <2>2. ~ Decided /\ feeHash = NoTx
    BY <1>2 DEF ThreadFits, TxFits, RecordIsOfFee
  <2> QED
    BY <2>1, <2>2, ReturnMoves DEF Decided
<1>3. CASE top[th] = "reconcile"
  <2>1. GotoWith(th, "end", "error") /\ UNCHANGED <<feeStatus, feeHash>>
    BY <1>1, <1>3 DEF Fail
  <2> QED
    BY <1>1, <1>3, <2>1, EndMoves
<1> QED
  BY <1>1, <1>2, <1>3

\* submitPayment returns to Process, which ends, or to reconcilePayment.
LEMMA SubmittedMoves ==
    ASSUME ThreadType, NEW th \in Threads, NEW r, Submitted(th, r), ThreadFits(th),
           at[th] \in {"submit", "post"}
    PROVE  /\ \/ at'[th] = "idle" /\ ThreadFits(th)'
              \/ at'[th] = "result" /\ res'[th] = r /\ UNCHANGED <<top, on, tx, inner>>
                 /\ top[th] = "reconcile" /\ TopFits(th)'
           /\ Still(th)
<1>1. CASE top[th] = "process"
  <2>1. \E q : Return(th, q)
    BY <1>1 DEF Submitted
  <2> QED
    BY <2>1, ReturnMoves
<1>2. CASE top[th] # "process"
  <2>1. top[th] = "reconcile" /\ ~ inner[th]
    BY <1>2 DEF ThreadFits, TopFits
  <2>2. /\ at'[th] = "result" /\ res'[th] = r /\ UNCHANGED <<top, on, tx, inner>>
        /\ Still(th)
    BY <1>2, GotoWithMoves DEF Submitted
  <2>3. TopFits(th)'
    BY <2>1, <2>2 DEF TopFits
  <2> QED
    BY <2>1, <2>2, <2>3
<1> QED
  BY <1>1, <1>2

\* feePayment returns to Process, which adopts or confirms.
LEMMA WithPaymentMoves ==
    ASSUME ThreadType, NEW th \in Threads, NEW f, WithPayment(th, f), ThreadFits(th),
           at[th] \in {"create", "insert", "arm"}
    PROVE  /\ on'[th] = f /\ UNCHANGED <<top, tx, inner>>
           /\ at'[th] = IF top[th] = "paid" THEN "confirm" ELSE "adopt"
           /\ TopFits(th)'
           /\ Still(th)
<1>1. top[th] \in {"process", "paid"} /\ ~ inner[th]
  BY DEF ThreadFits, TopFits
<1>2. /\ on'[th] = f /\ UNCHANGED <<top, tx, inner>>
      /\ at'[th] = IF top[th] = "paid" THEN "confirm" ELSE "adopt"
      /\ Still(th)
  BY <1>1 DEF Still, WithPayment, ThreadType
<1>3. TopFits(th)'
  BY <1>1, <1>2 DEF TopFits
<1> QED
  BY <1>2, <1>3

-----------------------------------------------------------------------------
(* Steps that leave the fee alone.                                          *)

\* Facts that every step of a goroutine at work starts from.
LEMMA AtWork ==
    ASSUME SerialInv, NEW th \in Threads
    PROVE  /\ ThreadType /\ FpType /\ ThreadFits(th) /\ RecordIsOfFee
           /\ at[th] \notin {"idle", "create"} => on[th] \in Fps
           /\ at[th] \notin {"idle", "end"} => feeStatus # "confirmed"
           /\ ~ spent => \A f \in Fps : timer[f] # "none" => f = jobs
BY DEF SerialInv, SavedInv, ThreadInv, TypeOK, FeeInv, NothingToDo, TimersOfJob

\* A step of a goroutine that works on the job: it may reschedule or remove it.
LEMMA MoveKeepsInv ==
    ASSUME SerialInv, SavedInv', NEW th \in Threads,
           at[th] \notin {"idle", "create", "insert", "record", "end"},
           Still(th), ThreadFits(th)', QuietData,
           \/ UNCHANGED <<jobs, timer>>
           \/ UNCHANGED jobs /\ Schedule(on[th], "reconcile")
           \/ UNCHANGED jobs /\ Schedule(on[th], "confirm")
           \/ Remove(on[th])
    PROVE  SerialInv'
<1>1. Only(th)
  BY StillIsOnly
<1>2. /\ timer \in [Fps -> {"none", "reconcile", "confirm"}]
      /\ on[th] \in Fps /\ feeStatus # "confirmed"
      /\ ~ spent => on[th] = jobs /\ \A f \in Fps : timer[f] # "none" => f = jobs
  BY AtWork DEF FpType, ThreadFits, OnFits
<1>3. ~ spent => \A f \in Fps : timer'[f] # "none" => f = jobs'
  BY <1>2 DEF Remove, Schedule
<1>4. \A f \in Fps : f = jobs' => f = jobs
  BY <1>2 DEF Remove, Fps, NoFp
<1> QED
  BY <1>1, <1>2, <1>3, <1>4, QuietKeepsInv

\* A step after which the call or the task is over, or about to be.
LEMMA OverKeepsInv ==
    ASSUME SerialInv, SavedInv', NEW th \in Threads,
           at[th] \notin {"idle", "record"}, Still(th), ThreadFits(th)', QuietData,
           UNCHANGED <<jobs, timer>>, at'[th] \in {"idle", "end"}
    PROVE  SerialInv'
<1>1. Only(th)
  BY StillIsOnly
<1>2. feeStatus = "confirmed" => \A f \in Fps : timer[f] = "none"
  BY DEF SerialInv, NothingToDo
<1> QED
  BY <1>1, <1>2, QuietKeepsInv, AtWork

LEMMA QuoteSerial ==
    ASSUME SerialInv, SavedInv', NEW th \in Threads,
           ReceiveFeeAddressStopped(th) \/ ReceiveFeeAddress(th) \/ ReceiveFeeAddressFails(th)
    PROVE  SerialInv'
<1> USE AtWork DEF walletVars, vspVars, txVars
<1>1. CASE ReceiveFeeAddressStopped(th) \/ ReceiveFeeAddressFails(th)
  <2>1. /\ at[th] \in {"quote", "requote"} /\ Fail(th)
        /\ UNCHANGED <<saved, vspTx, vspStatus, spent, content, feeTx, fpHash>>
        /\ UNCHANGED <<jobs, timer>> \/ Remove(on[th])
    BY <1>1 DEF ReceiveFeeAddressStopped, ReceiveFeeAddressFails
  <2>2. ThreadFits(th)' /\ Still(th) /\ QuietData
    BY <2>1, FailMoves DEF QuietData
  <2> QED
    BY <2>1, <2>2, MoveKeepsInv
<1>2. CASE ReceiveFeeAddress(th)
  <2>1. /\ at[th] \in {"quote", "requote"} /\ ~ spent /\ ~ VspPaid
        /\ at'[th] = IF at[th] = "quote" THEN "make" ELSE "fund"
        /\ QuietData /\ Still(th) /\ UNCHANGED <<top, on, tx, inner, res, jobs, timer, feeStatus>>
    BY <1>2 DEF ReceiveFeeAddress, QuietData, Still, ThreadType, VspOwed, VspPaid,
                SerialInv, SavedInv, StoreInv
  <2>2. on[th] = jobs /\ Fit(jobs) /\ on[th] \in Fps
    BY <2>1 DEF SerialInv, JobFits, OneActive, ThreadFits, OnFits
  <2>3. \A f \in Fps : f = on'[th] => Fit(f)'
    BY <2>1, <2>2, QuietFit
  <2>4. ThreadFits(th)'
    BY <2>1, <2>2, <2>3 DEF ThreadFits, TopFits, OnFits, TxFits, QuietData, VspPaid, Decided
  <2> QED
    BY <2>1, <2>4, MoveKeepsInv
<1> QED
  BY <1>1, <1>2

LEMMA MakeSerial ==
    ASSUME SerialInv, SavedInv', NEW th \in Threads, MakeFeeTx(th) \/ MakeFeeTxFails(th)
    PROVE  SerialInv'
<1> USE AtWork DEF walletVars, vspVars, txVars, fpVars
<1>1. CASE MakeFeeTxFails(th)
  <2>1. /\ at[th] \in {"fund", "sign"} /\ Fail(th)
        /\ UNCHANGED <<saved, vspTx, vspStatus, spent, content, feeTx, fpHash, jobs, timer>>
    BY <1>1 DEF MakeFeeTxFails
  <2>2. ThreadFits(th)' /\ Still(th) /\ QuietData
    BY <2>1, FailMoves DEF QuietData
  <2> QED
    BY <2>1, <2>2, MoveKeepsInv
<1>2. CASE MakeFeeTx(th)
  <2>1. /\ at[th] = "make" /\ ~ inner[th] /\ on[th] \in Fps
        /\ QuietData /\ Still(th) /\ UNCHANGED <<top, on, inner, jobs, timer, feeStatus>>
    BY <1>2 DEF MakeFeeTx, Made, QuietData, Still, ThreadType, ThreadFits, TopFits
  <2>2. \A f \in Fps : f = on'[th] => Fit(f) /\ Fit(f)'
    BY <2>1, QuietFit DEF ThreadFits, OnFits
  <2>3. CASE Finished(feeTx[on[th]])
    <3>1. at'[th] = "submit"
      BY <1>2, <2>1, <2>3 DEF MakeFeeTx, Made, ThreadType
    <3>2. ThreadFits(th)'
      BY <2>1, <2>2, <2>3, <3>1
      DEF ThreadFits, TopFits, OnFits, TxFits, QuietData, VspPaid, Finished
    <3> QED
      BY <2>1, <3>2, MoveKeepsInv
  <2>4. CASE ~ Finished(feeTx[on[th]])
    <3>1. at'[th] \in {"requote", "fund"}
      BY <1>2, <2>4 DEF MakeFeeTx, ThreadType
    <3>2. ~ VspPaid
      <4>1. VspPaid => vspTx # NoTx /\ content[vspTx] = "signed"
        BY DEF SerialInv, FeeInv, VspTxSigned, SavedInv, StoreInv, VspPaid
      <4> QED
        BY <2>1, <2>2, <2>4, <4>1 DEF Fit, Finished
    <3>3. ThreadFits(th)'
      BY <2>1, <2>2, <3>1, <3>2
      DEF ThreadFits, TopFits, OnFits, TxFits, QuietData, VspPaid, Decided
    <3> QED
      BY <2>1, <3>3, MoveKeepsInv
  <2> QED
    BY <2>3, <2>4
<1> QED
  BY <1>1, <1>2

\* submitPayment has returned r to reconcilePayment, or Process is over.
LEMMA SubmittedFits ==
    ASSUME SerialInv, NEW th \in Threads, at[th] \in {"submit", "post"}, NEW r,
           Submitted(th, r), UNCHANGED spent, UNCHANGED jobs \/ spent,
           r = "invalid" => ~ VspPaid',
           \A f \in Fps : f = on[th] => Fit(f)'
    PROVE  ThreadFits(th)' /\ Still(th)
<1> USE AtWork
<1>1. CASE at'[th] = "idle" /\ ThreadFits(th)'
  BY <1>1, SubmittedMoves
<1>2. CASE ~ (at'[th] = "idle" /\ ThreadFits(th)')
  <2>1. /\ at'[th] = "result" /\ res'[th] = r /\ UNCHANGED <<top, on, tx, inner>>
        /\ top[th] = "reconcile" /\ TopFits(th)' /\ Still(th)
    BY <1>2, SubmittedMoves
  <2>2. OnFits(th)' /\ TxFits(th)'
    BY <2>1 DEF ThreadFits, OnFits, TxFits
  <2> QED
    BY <2>1, <2>2 DEF ThreadFits
<1> QED
  BY <1>1, <1>2

LEMMA SubmitSerial ==
    ASSUME SerialInv, SavedInv', NEW th \in Threads,
           SubmitPaymentStopped(th) \/ SubmitPayment(th) \/ PayFeeLost(th) \/ PayFeeRefused(th)
    PROVE  SerialInv'
<1> USE AtWork DEF walletVars, vspVars, txVars, fpVars
<1>0. QuietData /\ at[th] \in {"submit", "post"}
  BY DEF SubmitPaymentStopped, SubmitPayment, PayFeeLost, PayFeeRefused, QuietData
<1>1. \A f \in Fps : f = on[th] => Fit(f) /\ Fit(f)'
  BY <1>0, QuietFit DEF ThreadFits, OnFits
<1>2. CASE SubmitPaymentStopped(th)
  <2>1. Submitted(th, "error") /\ Remove(on[th]) /\ spent /\ UNCHANGED spent
    BY <1>2 DEF SubmitPaymentStopped
  <2>2. ThreadFits(th)' /\ Still(th)
    BY <1>0, <1>1, <2>1, SubmittedFits
  <2> QED
    BY <1>0, <2>1, <2>2, MoveKeepsInv
<1>3. CASE SubmitPayment(th)
  <2>1. at[th] = "submit" /\ Finished(feeTx[on[th]])
    BY <1>3 DEF SubmitPayment, ThreadFits, TxFits
  <2>2. /\ at'[th] = "post" /\ tx'[th] = feeTx[on[th]] /\ ~ inner'[th] /\ Still(th)
        /\ UNCHANGED <<top, on, jobs, timer, feeTx>>
    BY <1>3, <2>1 DEF SubmitPayment, Still, ThreadType
  <2>3. ThreadFits(th)'
    BY <1>0, <1>1, <2>1, <2>2 DEF ThreadFits, TopFits, OnFits, TxFits, QuietData, VspPaid, Decided
  <2> QED
    BY <1>0, <2>1, <2>2, <2>3, MoveKeepsInv
<1>4. CASE PayFeeLost(th) \/ PayFeeRefused(th)
  <2>1. PICK r : Submitted(th, r) /\ (r = "invalid" => VspOwed)
    BY <1>4 DEF PayFeeLost, PayFeeRefused
  <2>2. UNCHANGED <<jobs, timer, spent>> /\ (VspOwed => ~ VspPaid')
    BY <1>4 DEF PayFeeLost, PayFeeRefused, VspOwed, VspPaid, SerialInv, SavedInv, StoreInv
  <2>3. ThreadFits(th)' /\ Still(th)
    BY <1>0, <1>1, <2>1, <2>2, SubmittedFits
  <2> QED
    BY <1>0, <2>2, <2>3, MoveKeepsInv
<1> QED
  BY <1>2, <1>3, <1>4

LEMMA ReconcileSerial ==
    ASSUME SerialInv, SavedInv', NEW th \in Threads, ReconcilePayment(th)
    PROVE  SerialInv'
<1> USE AtWork DEF walletVars, vspVars, txVars
<1>0. QuietData /\ at[th] = "reconcile" /\ top[th] = "reconcile" /\ ~ inner[th] /\ on[th] \in Fps
  BY DEF ReconcilePayment, QuietData, ThreadFits, TopFits
<1>1. CASE spent
  <2>1. ThreadFits(th)' /\ Still(th) /\ Remove(on[th])
    BY <1>0, <1>1, EndMoves DEF ReconcilePayment
  <2> QED
    BY <1>0, <2>1, MoveKeepsInv
<1>2. CASE ~ spent
  <2>1. /\ at'[th] = IF Finished(feeTx[on[th]]) THEN "submit" ELSE "make"
        /\ UNCHANGED <<top, on, tx, inner, res, jobs, timer>> /\ Still(th)
    BY <1>0, <1>2, GotoMoves DEF ReconcilePayment
  <2>2. on[th] = jobs /\ Fit(jobs)
    BY <1>0, <1>2 DEF SerialInv, JobFits, OneActive, ThreadFits, OnFits
  <2>3. \A f \in Fps : f = on'[th] => Fit(f)'
    BY <1>0, <2>1, <2>2, QuietFit
  <2>4. ThreadFits(th)'
    BY <1>0, <2>1, <2>2, <2>3 DEF ThreadFits, TopFits, OnFits, TxFits, QuietData, Finished
  <2> QED
    BY <1>0, <2>1, <2>4, MoveKeepsInv
<1> QED
  BY <1>1, <1>2

\* The job that TimerFires runs, or a call that begins.
LEMMA TimerSerial ==
    ASSUME SerialInv, SavedInv', OneAtATime, NEW th \in Threads, NEW f \in Fps,
           TimerFires(th, f)
    PROVE  SerialInv'
<1> USE AtWork DEF walletVars, vspVars, txVars
<1>1. QuietData /\ UNCHANGED jobs /\ at[th] = "idle" /\ timer[f] \in {"reconcile", "confirm"}
  BY DEF TimerFires, Free, QuietData, FpType
<1>2. /\ at'[th] = timer[f] /\ top'[th] = timer[f] /\ on'[th] = f /\ ~ inner'[th] /\ Still(th)
  BY BeginMoves DEF TimerFires, ThreadFits, TopFits
<1>3. Only(th)
  BY <1>2, StillIsOnly DEF OneAtATime, TimerFires
<1>4. ~ spent => f = jobs
  BY <1>1
<1>5. ThreadFits(th)'
  BY <1>1, <1>2, <1>4 DEF ThreadFits, TopFits, OnFits, TxFits, QuietData
<1>6. ~ spent => \A g \in Fps : timer'[g] # "none" => g = jobs'
  BY <1>1, <1>4 DEF TimerFires, Schedule, FpType
<1>7. feeStatus # "confirmed"
  BY <1>1 DEF SerialInv, NothingToDo
<1> QED
  BY <1>1, <1>3, <1>5, <1>6, <1>7, QuietKeepsInv

LEMMA CallSerial ==
    ASSUME SerialInv, SavedInv', OneAtATime, NEW th \in Threads, ProcessTicket(th)
    PROVE  SerialInv'
<1> USE AtWork DEF walletVars, vspVars, fpVars
<1>1. /\ QuietData /\ UNCHANGED <<jobs, timer, feeStatus>> /\ at[th] = "idle"
      /\ feeStatus # "confirmed"
  BY DEF ProcessTicket, ProcessWith, Free, QuietData
<1>2. /\ at'[th] = "create" /\ tx'[th] = NoTx /\ ~ inner'[th] /\ Still(th)
      /\ top'[th] = IF feeStatus = "paid" THEN "paid" ELSE "process"
  BY BeginMoves DEF ProcessTicket, ProcessWith, ThreadFits, TopFits
<1>3. Only(th)
  BY <1>2, StillIsOnly DEF OneAtATime, ProcessTicket
<1>4. top'[th] = "process" => ~ Decided /\ ~ VspPaid
  BY <1>1, <1>2 DEF Decided, VspPaid, SerialInv, FeeInv, RecordIsOfFee, VspFeeIsKnown, SavedInv, StoreInv
<1>5. ThreadFits(th)'
  BY <1>1, <1>2, <1>4 DEF ThreadFits, TopFits, OnFits, TxFits, QuietData, VspPaid, Decided
<1> QED
  BY <1>1, <1>3, <1>5, QuietKeepsInv

\* The inputs Process hands in are in no transaction that counts yet.
LEMMA ProcessSerial ==
    ASSUME SerialInv, SavedInv', OneAtATime, NEW th \in Threads, Process(th)
    PROVE  SerialInv'
<1> USE AtWork DEF walletVars, vspVars, fpVars
<1>1. PICK t \in Txs : /\ NewTx(t) /\ content' = [content EXCEPT ![t] = "inputs"]
                       /\ ProcessWith(th, t)
  BY DEF Process
<1>2. /\ UNCHANGED <<feeStatus, feeHash, saved, vspTx, vspStatus, spent, jobs, timer, feeTx, fpHash>>
      /\ at[th] = "idle" /\ feeStatus # "confirmed"
  BY <1>1 DEF Process, ProcessWith, Free
<1>3. \A u : u \in Txs => (content'[u] = "signed" <=> content[u] = "signed")
  BY <1>1 DEF NewTx, SerialInv, SavedInv, TypeOK, TxType
<1>4. /\ at'[th] = "create" /\ tx'[th] \in {t, NoTx} /\ ~ inner'[th] /\ Still(th)
      /\ top'[th] = IF feeStatus = "paid" THEN "paid" ELSE "process"
  BY <1>1, BeginMoves DEF ProcessWith, ThreadFits, TopFits
<1>5. Only(th)
  BY <1>4, StillIsOnly DEF OneAtATime, Process
<1>6. top'[th] = "process" => ~ Decided /\ ~ VspPaid
  BY <1>2, <1>4 DEF Decided, VspPaid, SerialInv, FeeInv, RecordIsOfFee, VspFeeIsKnown, SavedInv, StoreInv
<1>7. content'[t] = "inputs"
  BY <1>1 DEF SerialInv, SavedInv, TypeOK, TxType
<1>8. ThreadFits(th)'
  BY <1>2, <1>4, <1>6, <1>7 DEF ThreadFits, TopFits, OnFits, TxFits, VspPaid, Decided
<1>9. \A f \in Fps : Fit(f) => Fit(f)'
  <2>1. \A f \in Fps : feeTx[f] \in Txs \cup {NoTx}
    BY DEF FpType, TxOrNil
  <2> QED
    BY <1>2, <1>3, <2>1 DEF Fit, VspPaid
<1>10. FeeInv'
  <2>1. VspPaid => vspTx \in Txs
    BY DEF SerialInv, SavedInv, StoreInv, TypeOK, VspType, VspPaid, TxOrNil
  <2> QED
    BY <1>2, <1>3, <2>1
    DEF SerialInv, FeeInv, RecordIsOfFee, VspFeeIsKnown, ConfirmedFeeIsVsps, VspTxSigned,
        VspPaid, Decided
<1>11. TimersOfJob' /\ NothingToDo'
  BY <1>2 DEF SerialInv, TimersOfJob, NothingToDo
<1>12. JobFits'
  BY <1>2, <1>5, <1>9 DEF SerialInv, JobFits, Only
<1> QED
  BY <1>5, <1>8, <1>10, <1>11, <1>12, OthersFit DEF SerialInv

LEMMA FeePaymentFoundSerial ==
    ASSUME SerialInv, SavedInv', NEW th \in Threads, FeePaymentFound(th)
    PROVE  SerialInv'
<1> USE AtWork DEF walletVars, vspVars, txVars, fpVars
<1>1. QuietData /\ UNCHANGED <<jobs, timer, feeStatus>> /\ at[th] = "create" /\ WithPayment(th, jobs)
  BY DEF FeePaymentFound, QuietData
<1>2. /\ on'[th] = jobs /\ UNCHANGED <<top, tx, inner>> /\ TopFits(th)' /\ Still(th)
      /\ at'[th] = IF top[th] = "paid" THEN "confirm" ELSE "adopt"
  BY <1>1, WithPaymentMoves
<1>3. top[th] \in {"process", "paid"}
  BY <1>1 DEF ThreadFits, TopFits
<1>4. ThreadFits(th)'
  BY <1>1, <1>2, <1>3 DEF ThreadFits, OnFits, TxFits, QuietData, VspPaid, Decided
<1>5. Only(th)
  BY <1>1, <1>2, StillIsOnly
<1> QED
  BY <1>1, <1>4, <1>5, QuietKeepsInv

LEMMA FeePaymentFailsSerial ==
    ASSUME SerialInv, SavedInv', NEW th \in Threads, FeePaymentFails(th)
    PROVE  SerialInv'
<1> USE AtWork DEF walletVars, vspVars, txVars, fpVars
<1>1. /\ UNCHANGED <<saved, vspTx, vspStatus, spent, content, feeTx, fpHash, jobs, timer>>
      /\ at[th] = "create" /\ \E r : Return(th, r)
  BY DEF FeePaymentFails
<1>2. top[th] = "process" => ~ Decided /\ feeHash = NoTx
  BY <1>1 DEF ThreadFits, TxFits, RecordIsOfFee
<1>3. QuietData
  BY <1>1, <1>2
  DEF FeePaymentFails, UpdateVspTicketFeeToErrored, UpdateVspTicketFee, QuietData, Decided
<1> QED
  BY <1>1, <1>3, ReturnMoves, OverKeepsInv

\* A new feePayment is fit: the fee the VSP holds is on record and in the wallet.
LEMMA FeePaymentNewSerial ==
    ASSUME SerialInv, SavedInv', NEW th \in Threads, FeePaymentNew(th)
    PROVE  SerialInv'
<1> USE AtWork DEF vspVars, txVars
<1> DEFINE found == ~ spent /\ feeHash \in saved
<1> PICK f \in Fps : f = fps + 1
  BY DEF FeePaymentNew
<1>1. /\ at[th] = "create" /\ jobs = NoFp
      /\ UNCHANGED <<saved, vspTx, vspStatus, spent, content, jobs, timer, top, tx, inner>>
      /\ feeTx' = [feeTx EXCEPT ![f] = IF found THEN feeHash ELSE NoTx]
      /\ fpHash' = [fpHash EXCEPT ![f] = IF found THEN feeHash ELSE NoTx]
  BY DEF FeePaymentNew
<1>2. NoTx \notin saved
  BY DEF SerialInv, SavedInv, TypeOK, WalletType, Txs, NoTx
<1>3. top[th] = "process" => ~ found
  BY <1>1, <1>2 DEF ThreadFits, TxFits, RecordIsOfFee
<1>4. UNCHANGED <<feeStatus, feeHash>>
  BY <1>1, <1>3 DEF FeePaymentNew, ThreadFits, TopFits
<1>5. at'[th] = "insert" /\ on'[th] = f /\ Still(th)
  BY DEF FeePaymentNew, Still, ThreadType
<1>6. Only(th)
  BY <1>1, <1>5, StillIsOnly
<1> HIDE DEF found
<1>7. ~ spent => Fit(f)'
  <2>1. ~ spent /\ VspPaid => feeHash = vspTx /\ found
    BY DEF SerialInv, FeeInv, VspFeeIsKnown, found
  <2>2. feeTx'[f] = (IF found THEN feeHash ELSE NoTx) /\ fpHash'[f] = (IF found THEN feeHash ELSE NoTx)
    BY <1>1 DEF FpType
  <2> QED
    BY <1>1, <1>4, <2>1, <2>2 DEF Fit, VspPaid
<1>8. ThreadFits(th)'
  BY <1>1, <1>4, <1>5, <1>7 DEF ThreadFits, TopFits, OnFits, TxFits, VspPaid, Decided
<1>9. FeeInv'
  BY <1>1, <1>4
  DEF SerialInv, FeeInv, RecordIsOfFee, VspFeeIsKnown, ConfirmedFeeIsVsps, VspTxSigned,
      VspPaid, Decided
<1>10. TimersOfJob' /\ JobFits'
  BY <1>1 DEF SerialInv, TimersOfJob, JobFits, Fps, NoFp
<1>11. NothingToDo'
  BY <1>1, <1>4 DEF NothingToDo
<1> QED
  BY <1>6, <1>8, <1>9, <1>10, <1>11, OthersFit DEF SerialInv

LEMMA FeePaymentInsertSerial ==
    ASSUME SerialInv, SavedInv', NEW th \in Threads,
           FeePaymentInsert(th) \/ FeePaymentSchedule(th)
    PROVE  SerialInv'
<1> USE AtWork DEF walletVars, vspVars, txVars
<1>0. QuietData /\ UNCHANGED feeStatus
  BY DEF FeePaymentInsert, FeePaymentSchedule, QuietData
<1>1. CASE FeePaymentInsert(th)
  <2>1. at[th] = "insert" /\ jobs = NoFp /\ on[th] \in Fps /\ UNCHANGED timer
    BY <1>1 DEF FeePaymentInsert, ThreadFits, OnFits
  <2>2. /\ jobs' = on[th] /\ at'[th] = "arm" /\ UNCHANGED <<top, on, tx, inner>> /\ Still(th)
    BY <1>1, <2>1, GotoMoves DEF FeePaymentInsert
  <2>3. ThreadFits(th)'
    BY <1>0, <2>1, <2>2 DEF ThreadFits, TopFits, OnFits, TxFits, QuietData, VspPaid, Decided
  <2>4. ~ spent => Fit(on[th]) /\ \A f \in Fps : timer[f] = "none"
    BY <2>1 DEF ThreadFits, OnFits, Fps, NoFp
  <2>5. Only(th)
    BY <2>1, <2>2, StillIsOnly
  <2> QED
    BY <1>0, <2>1, <2>2, <2>3, <2>4, <2>5, QuietKeepsInv
<1>2. CASE FeePaymentSchedule(th)
  <2>1. /\ at[th] = "arm" /\ UNCHANGED jobs /\ Schedule(on[th], "reconcile")
        /\ WithPayment(th, on[th]) /\ top[th] \in {"process", "paid"}
    BY <1>2 DEF FeePaymentSchedule, ThreadFits, TopFits
  <2>2. /\ UNCHANGED <<top, tx, inner>> /\ on'[th] = on[th] /\ TopFits(th)' /\ Still(th)
        /\ at'[th] = IF top[th] = "paid" THEN "confirm" ELSE "adopt"
    BY <2>1, WithPaymentMoves
  <2>3. ThreadFits(th)'
    BY <1>0, <2>1, <2>2 DEF ThreadFits, OnFits, TxFits, QuietData, VspPaid, Decided
  <2> QED
    BY <1>0, <2>1, <2>2, <2>3, MoveKeepsInv
<1> QED
  BY <1>1, <1>2

LEMMA AdoptSerial ==
    ASSUME SerialInv, SavedInv', NEW th \in Threads, ProcessAdopt(th)
    PROVE  SerialInv'
<1> USE AtWork DEF walletVars, vspVars, txVars
<1>1. /\ at[th] = "adopt" /\ top[th] = "process" /\ ~ VspPaid /\ ~ Decided
      /\ tx[th] # NoTx => content[tx[th]] = "inputs"
      /\ on[th] \in Fps /\ ~ spent => on[th] = jobs
  BY DEF ProcessAdopt, ThreadFits, TopFits, OnFits, TxFits
<1>2. /\ UNCHANGED <<feeStatus, feeHash, saved, vspTx, vspStatus, spent, content, fpHash, jobs, timer>>
      /\ feeTx' = [feeTx EXCEPT ![on[th]] = IF feeTx[on[th]] = NoTx THEN tx[th] ELSE feeTx[on[th]]]
  BY DEF ProcessAdopt
<1>3. at'[th] = "quote" /\ UNCHANGED <<top, on, tx, inner>> /\ Still(th)
  BY GotoMoves DEF ProcessAdopt
<1>4. Only(th)
  BY <1>1, <1>3, StillIsOnly
<1>5. ThreadFits(th)'
  BY <1>1, <1>2, <1>3 DEF ThreadFits, TopFits, OnFits, TxFits, VspPaid, Decided
<1>6. FeeInv' /\ TimersOfJob'
  BY <1>2
  DEF SerialInv, FeeInv, RecordIsOfFee, VspFeeIsKnown, ConfirmedFeeIsVsps, VspTxSigned,
      VspPaid, Decided, TimersOfJob
<1>7. NothingToDo'
  BY <1>1, <1>2 DEF NothingToDo, Decided
<1>8. JobFits'
  <2>1. \A o \in Threads : at[o] # "record"
    BY <1>1, <1>4 DEF Only
  <2>2. ASSUME ~ spent, NEW f \in Fps, f = jobs PROVE Fit(f)'
    <3>1. Fit(f)
      BY <2>1, <2>2 DEF SerialInv, JobFits
    <3>2. feeTx'[f] = feeTx[f] \/ feeTx'[f] = tx[th]
      BY <1>2 DEF FpType
    <3> QED
      BY <1>1, <1>2, <3>1, <3>2 DEF Fit, VspPaid
  <2> QED
    BY <1>2, <2>2 DEF JobFits
<1> QED
  BY <1>4, <1>5, <1>6, <1>7, <1>8, OthersFit DEF SerialInv

-----------------------------------------------------------------------------
(* Steps that make, record and submit the fee.                              *)

\* Nothing but the parts that a step disturbs has to be shown.
LEMMA PartsMakeInv ==
    ASSUME SavedInv', NEW th \in Threads, Only(th), ThreadFits(th)', FeeInv', TimersOfJob',
           JobFits', NothingToDo'
    PROVE  SerialInv'
BY OthersFit DEF SerialInv

LEMMA FundSerial ==
    ASSUME SerialInv, SavedInv', NEW th \in Threads, MakeFeeTxFund(th)
    PROVE  SerialInv'
<1> USE AtWork DEF walletVars, vspVars, txVars, fpVars
<1>1. /\ at[th] = "fund" /\ ~ VspPaid /\ on[th] \in Fps
      /\ UNCHANGED <<feeStatus, feeHash, saved, vspTx, vspStatus, spent, feeTx, fpHash, jobs,
                     timer, top, on, inner, res>>
  BY DEF MakeFeeTxFund, ThreadFits, TxFits
<1>2. /\ at'[th] \in {"fund", "sign"} /\ Still(th)
  BY <1>1 DEF MakeFeeTxFund, Still, ThreadType
<1>3. Only(th)
  BY <1>1, <1>2, StillIsOnly
<1>4. \A u \in Txs : content'[u] = "signed" => content[u] = "signed"
  BY DEF MakeFeeTxFund, SerialInv, SavedInv, TypeOK, TxType
<1>5. \A f \in Fps : Fit(f) => Fit(f)'
  <2>1. \A f \in Fps : feeTx[f] \in Txs \cup {NoTx}
    BY DEF FpType, TxOrNil
  <2> QED
    BY <1>1, <1>4, <2>1 DEF Fit, VspPaid
<1>6. ThreadFits(th)'
  BY <1>1, <1>2, <1>5 DEF ThreadFits, TopFits, OnFits, TxFits, VspPaid, Decided
<1>7. FeeInv' /\ TimersOfJob'
  BY <1>1
  DEF SerialInv, FeeInv, RecordIsOfFee, VspFeeIsKnown, ConfirmedFeeIsVsps, VspTxSigned,
      VspPaid, Decided, TimersOfJob
<1>8. NothingToDo'
  BY <1>1 DEF NothingToDo
<1>9. JobFits'
  BY <1>1, <1>3, <1>5 DEF SerialInv, JobFits, Only
<1> QED
  BY <1>3, <1>6, <1>7, <1>8, <1>9, PartsMakeInv

LEMMA SignSerial ==
    ASSUME SerialInv, SavedInv', NEW th \in Threads, MakeFeeTxSign(th)
    PROVE  SerialInv'
<1> USE AtWork DEF walletVars, vspVars, fpVars
<1>1. /\ at[th] = "sign" /\ ~ VspPaid /\ on[th] \in Fps
      /\ UNCHANGED <<feeStatus, feeHash, vspTx, vspStatus, spent, feeTx, fpHash, jobs, timer>>
      /\ content' = [content EXCEPT ![tx[th]] = "signed"]
  BY DEF MakeFeeTxSign, ThreadFits, TxFits
<1>2. at'[th] = "record" /\ UNCHANGED <<top, on, tx, inner>> /\ Still(th)
  BY GotoMoves DEF MakeFeeTxSign
<1>3. Only(th)
  BY <1>1, <1>2, StillIsOnly
<1>4. content'[tx[th]] = "signed"
  BY <1>1 DEF SerialInv, SavedInv, ThreadInv, ThreadType, TypeOK, TxType, TxOrNil
<1>5. ThreadFits(th)'
  BY <1>1, <1>2, <1>4 DEF ThreadFits, TopFits, OnFits, TxFits, VspPaid, Decided
<1>6. FeeInv' /\ TimersOfJob'
  BY <1>1
  DEF SerialInv, FeeInv, RecordIsOfFee, VspFeeIsKnown, ConfirmedFeeIsVsps, VspTxSigned,
      VspPaid, Decided, TimersOfJob
<1>7. NothingToDo' /\ JobFits'
  BY <1>1, <1>2 DEF NothingToDo, JobFits
<1> QED
  BY <1>3, <1>5, <1>6, <1>7, PartsMakeInv

\* The record, the feePayment and the transaction agree again.
LEMMA RecordSerial ==
    ASSUME SerialInv, SavedInv', NEW th \in Threads, MakeFeeTxRecord(th)
    PROVE  SerialInv'
<1> USE AtWork DEF vspVars, txVars
<1>1. /\ at[th] = "record" /\ ~ VspPaid /\ on[th] \in Fps /\ content[tx[th]] = "signed"
      /\ ~ inner[th] /\ (~ spent => on[th] = jobs) /\ tx[th] # NoTx
      /\ UNCHANGED <<vspTx, vspStatus, spent, content, jobs, timer, top, on, tx, inner>>
      /\ feeStatus' = "paid" /\ feeHash' = tx[th]
      /\ feeTx' = [feeTx EXCEPT ![on[th]] = tx[th]]
      /\ fpHash' = [fpHash EXCEPT ![on[th]] = tx[th]]
  BY DEF MakeFeeTxRecord, UpdateVspTicketFee, ThreadFits, TopFits, OnFits, TxFits, SerialInv,
         SavedInv, ThreadInv
<1>2. at'[th] = "submit" /\ Still(th)
  BY <1>1 DEF MakeFeeTxRecord, Made, Still, ThreadType
<1>3. Only(th)
  BY <1>1, <1>2, StillIsOnly
<1>4. feeTx'[on[th]] = tx[th] /\ fpHash'[on[th]] = tx[th]
  BY <1>1 DEF FpType
<1>5. \A f \in Fps : f = on[th] => Fit(f)'
  BY <1>1, <1>4 DEF Fit, VspPaid
<1>6. ThreadFits(th)'
  BY <1>1, <1>2, <1>4, <1>5 DEF ThreadFits, TopFits, OnFits, TxFits, VspPaid, Finished
<1>7. FeeInv' /\ TimersOfJob'
  BY <1>1
  DEF SerialInv, FeeInv, RecordIsOfFee, VspFeeIsKnown, ConfirmedFeeIsVsps, VspTxSigned,
      VspPaid, Decided, TimersOfJob
<1>8. NothingToDo' /\ JobFits'
  BY <1>1, <1>5 DEF NothingToDo, JobFits
<1> QED
  BY <1>3, <1>6, <1>7, <1>8, PartsMakeInv

LEMMA ExpiredSerial ==
    ASSUME SerialInv, SavedInv', NEW th \in Threads, PayFeeExpired(th)
    PROVE  SerialInv'
<1> USE AtWork DEF vspVars, txVars
<1>1. /\ at[th] = "post" /\ ~ VspPaid /\ on[th] \in Fps /\ (~ spent => on[th] = jobs)
      /\ UNCHANGED <<feeStatus, feeHash, vspTx, vspStatus, spent, content, fpHash, jobs, timer>>
      /\ feeTx' = [feeTx EXCEPT ![on[th]] = NoTx]
      /\ Submitted(th, "error")
  BY DEF PayFeeExpired, ThreadFits, OnFits, VspOwed, VspPaid, SerialInv, SavedInv, StoreInv
<1>2. \A f \in Fps : f = on[th] => Fit(f)'
  BY <1>1 DEF Fit, VspPaid, FpType
<1>3. ThreadFits(th)' /\ Still(th)
  BY <1>1, <1>2, SubmittedFits
<1>4. Only(th)
  BY <1>1, <1>3, StillIsOnly
<1>5. FeeInv' /\ TimersOfJob'
  BY <1>1
  DEF SerialInv, FeeInv, RecordIsOfFee, VspFeeIsKnown, ConfirmedFeeIsVsps, VspTxSigned,
      VspPaid, Decided, TimersOfJob
<1>6. NothingToDo' /\ JobFits'
  BY <1>1, <1>2 DEF NothingToDo, JobFits
<1> QED
  BY <1>3, <1>4, <1>5, <1>6, PartsMakeInv

\* What the VSP accepts is signed, so it is on record.
LEMMA AcceptedSerial ==
    ASSUME SerialInv, SavedInv', NEW th \in Threads, PayFeeAccepted(th)
    PROVE  SerialInv'
<1> USE AtWork DEF walletVars, txVars, fpVars
<1>1. PICK r \in {"ok", "error"} : Submitted(th, r)
  BY DEF PayFeeAccepted
<1>2. /\ at[th] = "post" /\ on[th] \in Fps /\ (~ spent => on[th] = jobs)
      /\ UNCHANGED <<feeStatus, feeHash, saved, spent, content, feeTx, fpHash, jobs, timer>>
      /\ vspTx' = tx[th] /\ vspStatus' = "received" /\ content[tx[th]] = "signed"
      /\ tx[th] = feeTx[on[th]] /\ tx[th] # NoTx
  BY DEF PayFeeAccepted, ThreadFits, OnFits, TxFits, SerialInv, SavedInv, ThreadInv
<1>3. feeHash = tx[th] /\ fpHash[on[th]] = tx[th]
  <2>1. Fit(on[th])
    BY <1>2 DEF ThreadFits, OnFits
  <2> QED
    BY <1>2, <2>1 DEF Fit
<1>4. \A f \in Fps : f = on[th] => Fit(f)'
  BY <1>2, <1>3 DEF Fit
<1>5. ThreadFits(th)' /\ Still(th)
  BY <1>1, <1>2, <1>4, SubmittedFits
<1>6. Only(th)
  BY <1>2, <1>5, StillIsOnly
<1>7. VspPaid' /\ feeStatus # "confirmed"
  BY <1>2 DEF VspPaid
<1>8. FeeInv'
  <2>1. VspFeeIsSaved'
    BY DEF SavedInv, StoreInv
  <2> QED
    BY <1>2, <1>3, <1>7, <2>1
    DEF SerialInv, FeeInv, RecordIsOfFee, VspFeeIsKnown, VspFeeIsSaved, ConfirmedFeeIsVsps,
        VspTxSigned, Decided
<1>9. TimersOfJob' /\ NothingToDo' /\ JobFits'
  BY <1>2, <1>4, <1>7 DEF SerialInv, TimersOfJob, NothingToDo, JobFits
<1> QED
  BY <1>5, <1>6, <1>8, <1>9, PartsMakeInv

-----------------------------------------------------------------------------
(* The outcome.                                                             *)

LEMMA PaidSerial ==
    ASSUME SerialInv, SavedInv', NEW th \in Threads, ReconcilePaid(th)
    PROVE  SerialInv'
<1> USE AtWork DEF vspVars, txVars, fpVars
<1>1. /\ at[th] = "result" /\ top[th] = "reconcile" /\ ~ inner[th] /\ on[th] \in Fps
      /\ (~ spent => on[th] = jobs) /\ feeStatus # "confirmed"
      /\ UNCHANGED <<saved, vspTx, vspStatus, spent, content, feeTx, fpHash, jobs, timer>>
      /\ feeStatus' = "paid" /\ feeHash' = fpHash[on[th]]
  BY DEF ReconcilePaid, UpdateVspTicketFee, ThreadFits, TopFits, OnFits
<1>2. at'[th] = "confirm" /\ UNCHANGED <<top, on, tx, inner>> /\ Still(th)
  BY GotoMoves DEF ReconcilePaid
<1>3. Only(th)
  BY <1>1, <1>2, StillIsOnly
<1>4. Fit(on[th])
  BY <1>1 DEF ThreadFits, OnFits
<1>5. \A f \in Fps : f = on[th] => Fit(f)'
  BY <1>1, <1>4 DEF Fit, VspPaid
<1>6. ThreadFits(th)'
  BY <1>1, <1>2 DEF ThreadFits, TopFits, OnFits, TxFits
<1>7. FeeInv'
  BY <1>1, <1>4
  DEF SerialInv, FeeInv, RecordIsOfFee, VspFeeIsKnown, ConfirmedFeeIsVsps, VspTxSigned,
      VspPaid, Decided, Fit
<1>8. TimersOfJob' /\ NothingToDo' /\ JobFits'
  BY <1>1, <1>5 DEF SerialInv, TimersOfJob, NothingToDo, JobFits
<1> QED
  BY <1>3, <1>6, <1>7, <1>8, PartsMakeInv

LEMMA AgainSerial ==
    ASSUME SerialInv, SavedInv', NEW th \in Threads, ReconcileAgain(th)
    PROVE  SerialInv'
<1> USE AtWork DEF vspVars, txVars
<1>1. /\ at[th] = "result" /\ top[th] = "reconcile" /\ ~ inner[th] /\ on[th] \in Fps
      /\ (~ spent => on[th] = jobs) /\ feeStatus # "confirmed"
      /\ UNCHANGED <<saved, vspTx, vspStatus, spent, content, jobs>>
      /\ Schedule(on[th], "reconcile")
  BY DEF ReconcileAgain, ThreadFits, TopFits, OnFits
<1>2. ThreadFits(th)' /\ at'[th] = "end" /\ Still(th)
  BY <1>1, EndMoves DEF ReconcileAgain
<1>3. Only(th)
  BY <1>1, <1>2, StillIsOnly
<1>4. CASE res[th] = "invalid"
  <2>1. /\ ~ VspPaid /\ feeStatus' = "errored" /\ feeHash' = NoTx
        /\ feeTx' = [feeTx EXCEPT ![on[th]] = NoTx]
    BY <1>1, <1>4
    DEF ReconcileAgain, UpdateVspTicketFeeToErrored, UpdateVspTicketFee, ThreadFits, TxFits
  <2>2. \A f \in Fps : f = on[th] => Fit(f)'
    BY <1>1, <2>1 DEF Fit, VspPaid, FpType
  <2>3. FeeInv'
    BY <1>1, <2>1
    DEF SerialInv, FeeInv, RecordIsOfFee, VspFeeIsKnown, ConfirmedFeeIsVsps, VspTxSigned,
        VspPaid, Decided
  <2>4. TimersOfJob'
    BY <1>1 DEF TimersOfJob, Schedule, FpType
  <2>5. NothingToDo' /\ JobFits'
    BY <1>1, <2>1, <2>2 DEF NothingToDo, JobFits
  <2> QED
    BY <1>2, <1>3, <2>3, <2>4, <2>5, PartsMakeInv
<1>5. CASE res[th] # "invalid"
  <2>1. QuietData
    BY <1>1, <1>5 DEF ReconcileAgain, QuietData
  <2> QED
    BY <1>1, <1>2, <2>1, MoveKeepsInv
<1> QED
  BY <1>4, <1>5

\* The fee that is recorded as confirmed is the one the VSP holds.
LEMMA ConfirmedSerial ==
    ASSUME SerialInv, SavedInv', NEW th \in Threads, at[th] = "confirm", ~ spent,
           vspStatus = "confirmed", Confirmed(th),
           UNCHANGED <<saved, vspVars, txVars, fps, fee, feeTx, fpHash, failed, panic>>
    PROVE  SerialInv'
<1> USE AtWork DEF vspVars, txVars
<1>1. /\ on[th] \in Fps /\ on[th] = jobs
      /\ jobs' = NoFp /\ timer' = [timer EXCEPT ![on[th]] = "none"]
      /\ feeStatus' = "confirmed" /\ feeHash' = fpHash[on[th]] /\ Finish(th, "ok")
  BY DEF Confirmed, Remove, Schedule, UpdateVspTicketFee, ThreadFits, OnFits
<1>2. ThreadFits(th)' /\ at'[th] \in {"idle", "end"} /\ Still(th)
  BY <1>1, FinishMoves DEF ThreadFits
<1>3. Only(th)
  BY <1>2, StillIsOnly
<1>4. fpHash[on[th]] = vspTx
  <2>1. Fit(jobs)
    BY <1>1, <1>3 DEF SerialInv, JobFits, Only
  <2> QED
    BY <1>1, <2>1 DEF Fit, VspPaid
<1>5. FeeInv'
  BY <1>1, <1>4
  DEF SerialInv, FeeInv, RecordIsOfFee, VspFeeIsKnown, ConfirmedFeeIsVsps, VspTxSigned,
      VspPaid, Decided
<1>6. \A f \in Fps : timer'[f] = "none"
  BY <1>1 DEF FpType
<1>7. TimersOfJob' /\ NothingToDo' /\ JobFits'
  BY <1>1, <1>2, <1>3, <1>6 DEF TimersOfJob, NothingToDo, JobFits, Only, Fps, NoFp
<1> QED
  BY <1>2, <1>3, <1>5, <1>7, PartsMakeInv

LEMMA ConfirmSerial ==
    ASSUME SerialInv, SavedInv', NEW th \in Threads,
           ConfirmPaymentStopped(th) \/ ConfirmPayment(th) \/ ConfirmPaymentUnanswered(th)
    PROVE  SerialInv'
<1> USE AtWork DEF walletVars, vspVars, txVars
<1>1. CASE ~ spent /\ vspStatus = "confirmed" /\ Confirmed(th)
  BY <1>1, ConfirmedSerial DEF ConfirmPaymentStopped, ConfirmPayment, ConfirmPaymentUnanswered
<1>2. CASE ~ (~ spent /\ vspStatus = "confirmed" /\ Confirmed(th))
  <2>1. QuietData /\ at[th] = "confirm" /\ \E r : Finish(th, r)
    BY <1>2 DEF ConfirmPaymentStopped, ConfirmPayment, ConfirmPaymentUnanswered, QuietData
  <2>2. ThreadFits(th)' /\ Still(th)
    BY <2>1, FinishMoves DEF ThreadFits
  <2>3. \/ UNCHANGED <<jobs, timer>>
        \/ UNCHANGED jobs /\ Schedule(on[th], "reconcile")
        \/ UNCHANGED jobs /\ Schedule(on[th], "confirm")
        \/ Remove(on[th])
    BY <1>2 DEF ConfirmPaymentStopped, ConfirmPayment, ConfirmPaymentUnanswered
  <2> QED
    BY <2>1, <2>2, <2>3, MoveKeepsInv
<1> QED
  BY <1>1, <1>2

LEMMA TaskEndSerial ==
    ASSUME SerialInv, SavedInv', NEW th \in Threads, TaskEnd(th)
    PROVE  SerialInv'
<1>1. QuietData /\ UNCHANGED <<jobs, timer>> /\ at[th] = "end" /\ Return(th, "none")
  BY DEF TaskEnd, QuietData, walletVars, vspVars, txVars
<1> QED
  BY <1>1, AtWork, ReturnMoves, OverKeepsInv

\* Other than a crash, nothing outside moves a goroutine.
LEMMA EnvironmentSerial ==
    ASSUME SerialInv, SavedInv', Environment PROVE SerialInv'
<1>1. CASE QuoteExpires \/ TicketSpent
  <2>1. /\ UNCHANGED <<feeStatus, feeHash, saved, vspTx, vspStatus, content, feeTx, fpHash, jobs,
                       timer, at, top, on, tx, inner, res>>
        /\ ~ spent' => ~ spent
    BY <1>1 DEF QuoteExpires, TicketSpent, walletVars, txVars, fpVars, threadVars
  <2>2. \A f : Fit(f)' <=> Fit(f)
    BY <2>1 DEF Fit, VspPaid
  <2>3. OneActive' /\ FeeInv' /\ TimersOfJob' /\ JobFits' /\ NothingToDo'
    BY <2>1, <2>2
    DEF SerialInv, OneActive, FeeInv, RecordIsOfFee, VspFeeIsKnown, ConfirmedFeeIsVsps,
        VspTxSigned, VspPaid, Decided, TimersOfJob, JobFits, NothingToDo
  <2>4. ASSUME NEW th \in Threads PROVE ThreadFits(th)'
    BY <2>1, <2>2
    DEF SerialInv, ThreadFits, TopFits, OnFits, TxFits, VspPaid, Decided, Finished
  <2> QED
    BY <2>3, <2>4 DEF SerialInv
<1>2. CASE VspProgress
  <2>1. /\ UNCHANGED <<feeStatus, feeHash, saved, vspTx, spent, content, feeTx, fpHash, jobs,
                       timer, at, top, on, tx, inner, res>>
        /\ VspPaid' => VspPaid
        /\ vspStatus # "confirmed"
    BY <1>2 DEF VspProgress, VspPaid, walletVars, txVars, fpVars, threadVars
  <2>2. \A f : Fit(f) => Fit(f)'
    BY <2>1 DEF Fit
  <2>3. OneActive' /\ FeeInv' /\ TimersOfJob' /\ JobFits' /\ NothingToDo'
    BY <2>1, <2>2
    DEF SerialInv, OneActive, FeeInv, RecordIsOfFee, VspFeeIsKnown, ConfirmedFeeIsVsps,
        VspTxSigned, Decided, TimersOfJob, JobFits, NothingToDo
  <2>4. ASSUME NEW th \in Threads PROVE ThreadFits(th)'
    BY <2>1, <2>2 DEF SerialInv, ThreadFits, TopFits, OnFits, TxFits, Decided, Finished
  <2> QED
    BY <2>3, <2>4 DEF SerialInv
<1>3. CASE Crash
  <2>1. /\ UNCHANGED <<feeStatus, feeHash, saved, vspTx, vspStatus, spent>>
        /\ jobs' = NoFp /\ \A f \in Fps : timer'[f] = "none"
        /\ \A th \in Threads : at'[th] = "idle" /\ top'[th] = "none" /\ inner'[th] = FALSE
    BY <1>3 DEF Crash, walletVars, vspVars
  <2>2. VspPaid' => content'[vspTx] = content[vspTx]
    BY <1>3, <2>1
    DEF Crash, VspPaid, SerialInv, SavedInv, StoreInv, TypeOK, VspType, TxOrNil
  <2>3. FeeInv'
    BY <2>1, <2>2
    DEF SerialInv, FeeInv, RecordIsOfFee, VspFeeIsKnown, ConfirmedFeeIsVsps, VspTxSigned,
        VspPaid, Decided
  <2>4. OneActive' /\ TimersOfJob' /\ JobFits' /\ NothingToDo'
    BY <2>1 DEF OneActive, TimersOfJob, JobFits, NothingToDo, Fps, NoFp
  <2>5. ASSUME NEW th \in Threads PROVE ThreadFits(th)'
    BY <2>1 DEF ThreadFits, TopFits, OnFits, TxFits
  <2> QED
    BY <2>3, <2>4, <2>5 DEF SerialInv
<1> QED
  BY <1>1, <1>2, <1>3 DEF Environment

LEMMA SerialInvNext ==
    ASSUME OneAtATime, SerialInv, [Next]_vars PROVE SerialInv'
<1>0. SavedInv'
  BY SavedInvNext DEF SerialInv
<1>1. ASSUME NEW th \in Threads, Call(th) PROVE SerialInv'
  BY <1>0, <1>1, ProcessSerial, CallSerial DEF Call, ProcessManagedTickets, OneAtATime
<1>2. ASSUME NEW th \in Threads, Step(th) PROVE SerialInv'
  BY <1>0, <1>2, FeePaymentFoundSerial, FeePaymentFailsSerial, FeePaymentNewSerial,
     FeePaymentInsertSerial, AdoptSerial, QuoteSerial, MakeSerial, FundSerial, SignSerial,
     RecordSerial, SubmitSerial, ExpiredSerial, AcceptedSerial, ReconcileSerial, PaidSerial,
     AgainSerial, ConfirmSerial, TaskEndSerial DEF Step
<1>3. ASSUME NEW th \in Threads, NEW f \in Fps, TimerFires(th, f) PROVE SerialInv'
  BY <1>0, <1>3, TimerSerial
<1>4. CASE Environment
  BY <1>0, <1>4, EnvironmentSerial
<1>5. CASE UNCHANGED vars
  <2>1. UNCHANGED <<feeStatus, feeHash, saved, vspTx, vspStatus, spent, content, feeTx, fpHash,
                    jobs, timer, at, top, on, tx, inner, res>>
    BY <1>5 DEF vars, walletVars, vspVars, txVars, fpVars, threadVars
  <2>2. \A f : Fit(f)' <=> Fit(f)
    BY <2>1 DEF Fit, VspPaid
  <2>3. OneActive' /\ FeeInv' /\ TimersOfJob' /\ JobFits' /\ NothingToDo'
    BY <2>1, <2>2
    DEF SerialInv, OneActive, FeeInv, RecordIsOfFee, VspFeeIsKnown, ConfirmedFeeIsVsps,
        VspTxSigned, VspPaid, Decided, TimersOfJob, JobFits, NothingToDo
  <2>4. ASSUME NEW th \in Threads PROVE ThreadFits(th)'
    BY <2>1, <2>2
    DEF SerialInv, ThreadFits, TopFits, OnFits, TxFits, VspPaid, Decided, Finished
  <2> QED
    BY <1>0, <2>3, <2>4 DEF SerialInv
<1> QED
  BY <1>1, <1>2, <1>3, <1>4, <1>5 DEF Next

\* No step of any kind takes a confirmed ticket back.
LEMMA ConfirmedStays ==
    ASSUME SerialInv, OneAtATime, [Next]_vars, feeStatus = "confirmed"
    PROVE  feeStatus' = "confirmed"
<1>1. ASSUME NEW th \in Threads, Call(th) PROVE feeStatus' = "confirmed"
  BY <1>1 DEF Call, Process, ProcessTicket, ProcessWith, ProcessManagedTickets
<1>2. ASSUME NEW th \in Threads, Step(th) PROVE feeStatus' = "confirmed"
  <2>1. at[th] \in {"idle", "end"}
    BY DEF SerialInv, NothingToDo
  <2>2. TaskEnd(th)
    BY <1>2, <2>1
    DEF Step, FeePaymentFound, FeePaymentFails, FeePaymentNew, FeePaymentInsert,
        FeePaymentSchedule, ProcessAdopt, ReceiveFeeAddressStopped, ReceiveFeeAddress,
        ReceiveFeeAddressFails, MakeFeeTx, MakeFeeTxFund, MakeFeeTxFails, MakeFeeTxSign,
        MakeFeeTxRecord, SubmitPaymentStopped, SubmitPayment, PayFeeLost, PayFeeRefused,
        PayFeeExpired, PayFeeAccepted, ReconcilePayment, ReconcilePaid, ReconcileAgain,
        ConfirmPaymentStopped, ConfirmPayment, ConfirmPaymentUnanswered
  <2> QED
    BY <2>2 DEF TaskEnd, walletVars
<1>3. ASSUME NEW th \in Threads, NEW f \in Fps, TimerFires(th, f) PROVE feeStatus' = "confirmed"
  BY <1>3 DEF TimerFires, walletVars
<1>4. CASE Environment
  BY <1>4 DEF Environment, QuoteExpires, VspProgress, TicketSpent, Crash, walletVars
<1>5. CASE UNCHANGED vars
  BY <1>5 DEF vars, walletVars
<1> QED
  BY <1>1, <1>2, <1>3, <1>4, <1>5 DEF Next

LEMMA SerialInvHolds == OneAtATime => (Spec => []SerialInv)
<1> SUFFICES ASSUME OneAtATime PROVE Spec => []SerialInv
  OBVIOUS
<1>1. SerialInv /\ [Next]_vars => SerialInv'
  BY SerialInvNext
<1> QED
  BY <1>1, SerialInvInit, PTL DEF Spec

\* With one call or task at a time, the fee the VSP holds is the one on record
\* and in the wallet, whatever answer was lost and wherever the process crashed.
THEOREM AcceptedFeeIsOnRecord == OneAtATime => (Spec => []VspFeeIsKnown)
<1> SUFFICES ASSUME OneAtATime PROVE Spec => []VspFeeIsKnown
  OBVIOUS
<1>1. SerialInv => VspFeeIsKnown
  BY DEF SerialInv, FeeInv
<1> QED
  BY <1>1, SerialInvHolds, PTL

\* With one call or task at a time, confirmPayment records the fee the VSP holds,
\* also when the wallet, not the VSP, said that it is confirmed.
THEOREM ConfirmedWithVspsFee == OneAtATime => (Spec => []ConfirmedFeeIsVsps)
<1> SUFFICES ASSUME OneAtATime PROVE Spec => []ConfirmedFeeIsVsps
  OBVIOUS
<1>1. SerialInv => ConfirmedFeeIsVsps
  BY DEF SerialInv, FeeInv
<1> QED
  BY <1>1, SerialInvHolds, PTL

\* With one call or task at a time, a confirmed ticket has no timer left and is
\* refused by the calls, so nothing takes it back to paid or errored.
THEOREM ConfirmedForGood == OneAtATime => (Spec => ConfirmedIsFinal)
<1> SUFFICES ASSUME OneAtATime PROVE Spec => ConfirmedIsFinal
  OBVIOUS
<1>1. SerialInv /\ [Next]_vars => [feeStatus = "confirmed" => feeStatus' = "confirmed"]_vars
  BY ConfirmedStays
<1> QED
  BY <1>1, SerialInvHolds, PTL DEF Spec, ConfirmedIsFinal

=============================================================================
