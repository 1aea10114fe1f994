------------------------ MODULE SyncLifecycle_proof --------------------------
(***************************************************************************)
(* Proofs about SyncLifecycle, for every set of callers and wallets and    *)
(* every bound on the number of syncs.                                     *)
(***************************************************************************)
EXTENDS SyncLifecycle, TLAPS

(* What the building blocks of the actions do to the types.                 *)

LEMMA ReturnType ==
    ASSUME CallType, NEW c \in Callers, Return(c) PROVE CallType'
BY DEF CallType, Return, CallStates, SessionOrNil, NoSession

LEMMA GotoType ==
    ASSUME CallType, NEW c \in Callers, NEW l \in CallStates, Goto(c, l)
    PROVE  CallType'
BY DEF CallType, Goto

LEMMA AfterCancelType ==
    ASSUME CallType, NEW c \in Callers, AfterCancel(c) PROVE CallType'
<1>1. CASE op[c] = "CancelSync"
  BY <1>1, ReturnType DEF AfterCancel
<1>2. CASE op[c] = "RestartSpvSync"
  BY <1>2, GotoType DEF AfterCancel, CallStates
<1>3. CASE op[c] \notin {"CancelSync", "RestartSpvSync"}
  BY <1>3, GotoType DEF AfterCancel, CallStates
<1> QED
  BY <1>1, <1>2, <1>3

LEMMA DeferredType ==
    ASSUME CallType, NEW c \in Callers, Deferred(c) PROVE CallType'
BY ReturnType, GotoType DEF Deferred, CallStates

LEMMA CrashType == TypeOK /\ Crash => TypeOK'
BY DEF TypeOK, Crash, DataType, ChanType, WalletType, RunType, CallType,
       ProcType, dataVars, chanVars, walletVars, runVars, callVars

LEMMA UnchangedType ==
    /\ DataType   /\ UNCHANGED dataVars   => DataType'
    /\ ChanType   /\ UNCHANGED chanVars   => ChanType'
    /\ WalletType /\ UNCHANGED walletVars => WalletType'
    /\ RunType    /\ UNCHANGED runVars    => RunType'
    /\ CallType   /\ UNCHANGED callVars   => CallType'
    /\ ProcType   /\ UNCHANGED procVars   => ProcType'
BY DEF DataType, ChanType, WalletType, RunType, CallType, ProcType,
       dataVars, chanVars, walletVars, runVars, callVars, procVars

LEMMA CallOpType ==
    ASSUME CallType, NEW c \in Callers, NEW o, Call(c, o)
    PROVE  op' \in [Callers -> AllOps \cup {"none"}]
BY OpsAssumption DEF CallType, Call

LEMMA TypeOKInit == Init => TypeOK
<1> SUFFICES ASSUME Init PROVE TypeOK
  OBVIOUS
<1>1. DataType
  BY DEF Init, DataType, SessionOrNil
<1>2. ChanType
  BY DEF Init, ChanType
<1>3. WalletType
  BY DEF Init, WalletType
<1>4. RunType
  BY MaxSessionsAssumption DEF Init, RunType, RunStates, Callbacks, NoCallback
<1>5. CallType
  BY DEF Init, CallType, CallStates, AllOps, SessionOrNil
<1>6. ProcType
  BY DEF Init, ProcType
<1> QED
  BY <1>1, <1>2, <1>3, <1>4, <1>5, <1>6 DEF TypeOK

LEMMA TypeOKNext == TypeOK /\ RefsValid /\ [Next]_vars => TypeOK'
<1> SUFFICES ASSUME TypeOK, RefsValid, [Next]_vars PROVE TypeOK'
  OBVIOUS
<1> USE UnchangedType, CrashType
<1> USE DEF TypeOK
<1>1. CASE CancelAllContexts
  BY <1>1, MaxSessionsAssumption DEF CancelAllContexts, ChanType, ProcType, RunType, Sessions
<1>2. ASSUME NEW c \in Callers, CallSpvSync(c) PROVE TypeOK'
  BY <1>2, CallOpType DEF CallSpvSync, CallType, CallStates
<1>3. ASSUME NEW c \in Callers, CallCancelSync(c) PROVE TypeOK'
  BY <1>3, CallOpType DEF CallCancelSync, CallType, CallStates
<1>4. ASSUME NEW c \in Callers, CallRestartSpvSync(c) PROVE TypeOK'
  BY <1>4, CallOpType DEF CallRestartSpvSync, CallType, CallStates, DataType
<1>5. ASSUME NEW c \in Callers, CallShutdown(c) PROVE TypeOK'
  BY <1>5, CallOpType DEF CallShutdown, CallType, CallStates, ProcType
<1>6. ASSUME NEW c \in Callers, CallPeerInfoRaw(c) PROVE TypeOK'
  BY <1>6, CallOpType DEF CallPeerInfoRaw, CallType, CallStates
<1>7. ASSUME NEW c \in Callers, CallSaveNewWallet(c) PROVE TypeOK'
  BY <1>7, CallOpType DEF CallSaveNewWallet, CallWithResync, IsConnectedToDecredNetwork, CallType, CallStates
<1>8. ASSUME NEW c \in Callers, CallDeleteWallet(c) PROVE TypeOK'
  BY <1>8, CallOpType DEF CallDeleteWallet, CallWithResync, IsConnectedToDecredNetwork, CallType, CallStates, WalletType
<1>9. ASSUME NEW c \in Callers, PeerInfoRawRead(c) PROVE TypeOK'
  BY <1>9, ReturnType DEF PeerInfoRawRead
<1>10. ASSUME NEW c \in Callers, CancelSyncRead(c) PROVE TypeOK'
  BY <1>10, AfterCancelType DEF CancelSyncRead, CallType, CallStates, DataType
<1>11. ASSUME NEW c \in Callers, CancelSyncFire(c) PROVE TypeOK'
  BY <1>11, GotoType DEF CancelSyncFire, ChanType, CallStates, RefsValid
<1>12. ASSUME NEW c \in Callers, CancelSyncRecv(c) PROVE TypeOK'
  BY <1>12 DEF CancelSyncRecv, CallType, CallStates, DataType
<1>13. ASSUME NEW c \in Callers, CancelSyncReturn(c) PROVE TypeOK'
  BY <1>13, AfterCancelType DEF CancelSyncReturn
<1>14. ASSUME NEW c \in Callers, SaveNewWallet(c) PROVE TypeOK'
  BY <1>14, DeferredType DEF SaveNewWallet, WalletType, CallType
<1>15. ASSUME NEW c \in Callers, DeleteWalletClose(c) PROVE TypeOK'
  BY <1>15, DeferredType, ReturnType, GotoType DEF DeleteWalletClose, WalletType, CallStates
<1>16. ASSUME NEW c \in Callers, DeleteWalletUnlink(c) PROVE TypeOK'
  BY <1>16, DeferredType, ReturnType DEF DeleteWalletUnlink, WalletType
<1>17. ASSUME NEW c \in Callers, ShutdownWallets(c) PROVE TypeOK'
  BY <1>17, ReturnType DEF ShutdownWallets, WalletType
<1>18. ASSUME NEW c \in Callers, SpvSyncCheckSyncing(c) PROVE TypeOK'
  BY <1>18, ReturnType, GotoType DEF SpvSyncCheckSyncing, CallStates
<1>19. ASSUME NEW c \in Callers, SpvSyncCheckSynced(c) PROVE TypeOK'
  BY <1>19, ReturnType, GotoType DEF SpvSyncCheckSynced, CallStates
<1>20. ASSUME NEW c \in Callers, SpvSyncInit(c) PROVE TypeOK'
  BY <1>20 DEF SpvSyncInit, DataType, CallType, CallStates, WalletType
<1>21. ASSUME NEW c \in Callers, SpvSyncPublish(c) PROVE TypeOK'
  <2>1. CASE ~ activeSyncData
    BY <1>21, <2>1 DEF SpvSyncPublish
  <2>2. CASE activeSyncData
    <3>1. sessions + 1 \in Sessions
      BY <1>21, <2>2 DEF SpvSyncPublish
    <3>2. DataType'
      BY <1>21, <2>2, <3>1 DEF SpvSyncPublish, DataType, SessionOrNil
    <3>3. RunType'
      <4>1. sessions' \in 0 .. MaxSessions
        BY <1>21, <2>2, <3>1, MaxSessionsAssumption DEF SpvSyncPublish, Sessions
      <4>2. run' \in [Sessions -> RunStates]
        BY <1>21, <2>2, <3>1 DEF SpvSyncPublish, RunType, RunStates
      <4>3. runWallets' \in [Sessions -> SUBSET Wallets]
        BY <1>21, <2>2, <3>1 DEF SpvSyncPublish, RunType, CallType
      <4> QED
        BY <1>21, <2>2, <4>1, <4>2, <4>3 DEF SpvSyncPublish, RunType
    <3>4. CallType'
      BY <1>21, <2>2, <3>1 DEF SpvSyncPublish, CallType, CallStates, SessionOrNil
    <3> QED
      BY <1>21, <2>2, <3>2, <3>3, <3>4 DEF SpvSyncPublish
  <2> QED
    BY <2>1, <2>2
<1>22. ASSUME NEW c \in Callers, SpvSyncGo(c) PROVE TypeOK'
  BY <1>22, ReturnType DEF SpvSyncGo, ProcType, RunType, RunStates
<1>23. ASSUME NEW s \in Sessions, SyncerSynced(s) PROVE TypeOK'
  BY <1>23 DEF SyncerSynced, RunType, Callbacks
<1>24. ASSUME NEW s \in Sessions, SyncerUnsynced(s) PROVE TypeOK'
  BY <1>24 DEF SyncerUnsynced, RunType, Callbacks
<1>25. ASSUME NEW s \in Sessions, ProgressCallback(s) PROVE TypeOK'
  BY <1>25 DEF ProgressCallback, RunType, RunStates
<1>26. ASSUME NEW s \in Sessions, RunReturnsError(s) PROVE TypeOK'
  BY <1>26 DEF RunReturnsError, RunReturns, RunType, RunStates
<1>27. ASSUME NEW s \in Sessions, SyncedRead(s) PROVE TypeOK'
  BY <1>27 DEF SyncedRead, RunType, Callbacks, NoCallback
<1>28. ASSUME NEW s \in Sessions, SyncedApply(s) PROVE TypeOK'
  BY <1>28 DEF SyncedApply, RunType, Callbacks, WalletType
<1>29. ASSUME NEW s \in Sessions, SyncedCount(s) PROVE TypeOK'
  BY <1>29 DEF SyncedCount, RunType, Callbacks, NoCallback, DataType
<1>30. ASSUME NEW s \in Sessions, RunReturnsCanceled(s) PROVE TypeOK'
  BY <1>30 DEF RunReturnsCanceled, RunReturns, RunType, RunStates
<1>31. ASSUME NEW s \in Sessions, CloseSyncCanceled(s) PROVE TypeOK'
  BY <1>31 DEF CloseSyncCanceled, RunType, RunStates, ChanType, DataType, SessionOrNil
<1>32. ASSUME NEW s \in Sessions, NotifySyncCanceled(s) PROVE TypeOK'
  BY <1>32 DEF NotifySyncCanceled, RunType, RunStates, ProcType
<1>33. ASSUME NEW s \in Sessions, NotifySyncError(s) PROVE TypeOK'
  BY <1>33 DEF NotifySyncError, RunType, RunStates, ProcType
<1>34. ASSUME NEW s \in Sessions, ResetSyncData(s) PROVE TypeOK'
  BY <1>34 DEF ResetSyncData, RunType, RunStates, DataType, SessionOrNil, WalletType
<1>35. ASSUME NEW s \in Sessions, RelockWallet(s) PROVE TypeOK'
  BY <1>35 DEF RelockWallet, RunType, RunStates
<1>36. ASSUME NEW s \in Sessions, RunEnds(s) PROVE TypeOK'
  BY <1>36 DEF RunEnds, RunType, RunStates
<1>37. CASE UNCHANGED vars
  BY <1>37 DEF vars
<1> QED
  BY <1>1, <1>2, <1>3, <1>4, <1>5, <1>6, <1>7, <1>8, <1>9, <1>10, <1>11, <1>12, <1>13, <1>14, <1>15, <1>16, <1>17, <1>18, <1>19, <1>20, <1>21, <1>22, <1>23, <1>24, <1>25, <1>26, <1>27, <1>28, <1>29, <1>30, <1>31, <1>32, <1>33, <1>34, <1>35, <1>36, <1>37 DEF Next, Calls, CallerStep, SyncerEvent, CallbackStep, RunEnd

\* Only CancelSyncRead leads to "fire" and only SpvSyncPublish to "go".
LEMMA RefsValidNext == TypeOK /\ RefsValid /\ [Next]_vars => RefsValid'
<1> SUFFICES ASSUME TypeOK, RefsValid, [Next]_vars PROVE RefsValid'
  OBVIOUS
<1> USE MaxSessionsAssumption
<1> USE DEF TypeOK, CallType, RefsValid, Return, Goto, Crash, dataVars, chanVars, walletVars, runVars, callVars, procVars
<1>1. CASE CancelAllContexts
  BY <1>1 DEF CancelAllContexts
<1>2. ASSUME NEW c \in Callers, CallSpvSync(c) PROVE RefsValid'
  BY <1>2 DEF CallSpvSync
<1>3. ASSUME NEW c \in Callers, CallCancelSync(c) PROVE RefsValid'
  BY <1>3 DEF CallCancelSync
<1>4. ASSUME NEW c \in Callers, CallRestartSpvSync(c) PROVE RefsValid'
  BY <1>4 DEF CallRestartSpvSync
<1>5. ASSUME NEW c \in Callers, CallShutdown(c) PROVE RefsValid'
  BY <1>5 DEF CallShutdown
<1>6. ASSUME NEW c \in Callers, CallPeerInfoRaw(c) PROVE RefsValid'
  BY <1>6 DEF CallPeerInfoRaw
<1>7. ASSUME NEW c \in Callers, CallSaveNewWallet(c) PROVE RefsValid'
  BY <1>7 DEF CallSaveNewWallet, CallWithResync
<1>8. ASSUME NEW c \in Callers, CallDeleteWallet(c) PROVE RefsValid'
  BY <1>8 DEF CallDeleteWallet, CallWithResync
<1>9. ASSUME NEW c \in Callers, PeerInfoRawRead(c) PROVE RefsValid'
  BY <1>9 DEF PeerInfoRawRead
<1>10. ASSUME NEW c \in Callers, CancelSyncRead(c) PROVE RefsValid'
  BY <1>10 DEF CancelSyncRead, AfterCancel, DataType, SessionOrNil
<1>11. ASSUME NEW c \in Callers, CancelSyncFire(c) PROVE RefsValid'
  BY <1>11 DEF CancelSyncFire
<1>12. ASSUME NEW c \in Callers, CancelSyncRecv(c) PROVE RefsValid'
  BY <1>12 DEF CancelSyncRecv
<1>13. ASSUME NEW c \in Callers, CancelSyncReturn(c) PROVE RefsValid'
  BY <1>13 DEF CancelSyncReturn, AfterCancel
<1>14. ASSUME NEW c \in Callers, SaveNewWallet(c) PROVE RefsValid'
  BY <1>14 DEF SaveNewWallet, Deferred
<1>15. ASSUME NEW c \in Callers, DeleteWalletClose(c) PROVE RefsValid'
  BY <1>15 DEF DeleteWalletClose, Deferred
<1>16. ASSUME NEW c \in Callers, DeleteWalletUnlink(c) PROVE RefsValid'
  BY <1>16 DEF DeleteWalletUnlink, Deferred
<1>17. ASSUME NEW c \in Callers, ShutdownWallets(c) PROVE RefsValid'
  BY <1>17 DEF ShutdownWallets
<1>18. ASSUME NEW c \in Callers, SpvSyncCheckSyncing(c) PROVE RefsValid'
  BY <1>18 DEF SpvSyncCheckSyncing
<1>19. ASSUME NEW c \in Callers, SpvSyncCheckSynced(c) PROVE RefsValid'
  BY <1>19 DEF SpvSyncCheckSynced
<1>20. ASSUME NEW c \in Callers, SpvSyncInit(c) PROVE RefsValid'
  BY <1>20 DEF SpvSyncInit
<1>21. ASSUME NEW c \in Callers, SpvSyncPublish(c) PROVE RefsValid'
  <2>1. CASE ~ activeSyncData
    BY <1>21, <2>1 DEF SpvSyncPublish
  <2>2. CASE activeSyncData
    <3>1. sessions \in Nat /\ sessions' = sessions + 1
      BY <1>21, <2>2 DEF SpvSyncPublish, RunType
    <3>2. ref' = [ref EXCEPT ![c] = sessions + 1] /\ pc' = [pc EXCEPT ![c] = "go"]
      BY <1>21, <2>2 DEF SpvSyncPublish
    <3> QED
      BY <3>1, <3>2
  <2> QED
    BY <2>1, <2>2
<1>22. ASSUME NEW c \in Callers, SpvSyncGo(c) PROVE RefsValid'
  BY <1>22 DEF SpvSyncGo
<1>23. ASSUME NEW s \in Sessions, SyncerSynced(s) PROVE RefsValid'
  BY <1>23 DEF SyncerSynced
<1>24. ASSUME NEW s \in Sessions, SyncerUnsynced(s) PROVE RefsValid'
  BY <1>24 DEF SyncerUnsynced
<1>25. ASSUME NEW s \in Sessions, ProgressCallback(s) PROVE RefsValid'
  BY <1>25 DEF ProgressCallback
<1>26. ASSUME NEW s \in Sessions, RunReturnsError(s) PROVE RefsValid'
  BY <1>26 DEF RunReturnsError, RunReturns
<1>27. ASSUME NEW s \in Sessions, SyncedRead(s) PROVE RefsValid'
  BY <1>27 DEF SyncedRead
<1>28. ASSUME NEW s \in Sessions, SyncedApply(s) PROVE RefsValid'
  BY <1>28 DEF SyncedApply
<1>29. ASSUME NEW s \in Sessions, SyncedCount(s) PROVE RefsValid'
  BY <1>29 DEF SyncedCount
<1>30. ASSUME NEW s \in Sessions, RunReturnsCanceled(s) PROVE RefsValid'
  BY <1>30 DEF RunReturnsCanceled, RunReturns
<1>31. ASSUME NEW s \in Sessions, CloseSyncCanceled(s) PROVE RefsValid'
  BY <1>31 DEF CloseSyncCanceled
<1>32. ASSUME NEW s \in Sessions, NotifySyncCanceled(s) PROVE RefsValid'
  BY <1>32 DEF NotifySyncCanceled
<1>33. ASSUME NEW s \in Sessions, NotifySyncError(s) PROVE RefsValid'
  BY <1>33 DEF NotifySyncError
<1>34. ASSUME NEW s \in Sessions, ResetSyncData(s) PROVE RefsValid'
  BY <1>34 DEF ResetSyncData
<1>35. ASSUME NEW s \in Sessions, RelockWallet(s) PROVE RefsValid'
  BY <1>35 DEF RelockWallet
<1>36. ASSUME NEW s \in Sessions, RunEnds(s) PROVE RefsValid'
  BY <1>36 DEF RunEnds
<1>37. CASE UNCHANGED vars
  BY <1>37 DEF vars
<1> QED
  BY <1>1, <1>2, <1>3, <1>4, <1>5, <1>6, <1>7, <1>8, <1>9,
     <1>10, <1>11, <1>12, <1>13, <1>14, <1>15, <1>16, <1>17, <1>18,
     <1>19, <1>20, <1>21, <1>22, <1>23, <1>24, <1>25, <1>26, <1>27,
     <1>28, <1>29, <1>30, <1>31, <1>32, <1>33, <1>34, <1>35, <1>36,
     <1>37
  DEF Next, Calls, CallerStep, SyncerEvent, CallbackStep, RunEnd

\* A goroutine's state changes only once its sync was made.
LEMMA FreshSessionsNext == TypeOK /\ RefsValid /\ FreshSessions /\ [Next]_vars => FreshSessions'
<1> SUFFICES ASSUME TypeOK, RefsValid, FreshSessions, [Next]_vars PROVE FreshSessions'
  OBVIOUS
<1> USE MaxSessionsAssumption
<1> USE DEF TypeOK, RunType, FreshSessions, Sessions, Return, Goto, Crash, dataVars, chanVars, walletVars, runVars, callVars, procVars
<1>1. CASE CancelAllContexts
  BY <1>1 DEF CancelAllContexts
<1>2. ASSUME NEW c \in Callers, CallSpvSync(c) PROVE FreshSessions'
  BY <1>2 DEF CallSpvSync
<1>3. ASSUME NEW c \in Callers, CallCancelSync(c) PROVE FreshSessions'
  BY <1>3 DEF CallCancelSync
<1>4. ASSUME NEW c \in Callers, CallRestartSpvSync(c) PROVE FreshSessions'
  BY <1>4 DEF CallRestartSpvSync
<1>5. ASSUME NEW c \in Callers, CallShutdown(c) PROVE FreshSessions'
  BY <1>5 DEF CallShutdown
<1>6. ASSUME NEW c \in Callers, CallPeerInfoRaw(c) PROVE FreshSessions'
  BY <1>6 DEF CallPeerInfoRaw
<1>7. ASSUME NEW c \in Callers, CallSaveNewWallet(c) PROVE FreshSessions'
  BY <1>7 DEF CallSaveNewWallet, CallWithResync
<1>8. ASSUME NEW c \in Callers, CallDeleteWallet(c) PROVE FreshSessions'
  BY <1>8 DEF CallDeleteWallet, CallWithResync
<1>9. ASSUME NEW c \in Callers, PeerInfoRawRead(c) PROVE FreshSessions'
  BY <1>9 DEF PeerInfoRawRead
<1>10. ASSUME NEW c \in Callers, CancelSyncRead(c) PROVE FreshSessions'
  BY <1>10 DEF CancelSyncRead, AfterCancel
<1>11. ASSUME NEW c \in Callers, CancelSyncFire(c) PROVE FreshSessions'
  BY <1>11 DEF CancelSyncFire
<1>12. ASSUME NEW c \in Callers, CancelSyncRecv(c) PROVE FreshSessions'
  BY <1>12 DEF CancelSyncRecv
<1>13. ASSUME NEW c \in Callers, CancelSyncReturn(c) PROVE FreshSessions'
  BY <1>13 DEF CancelSyncReturn, AfterCancel
<1>14. ASSUME NEW c \in Callers, SaveNewWallet(c) PROVE FreshSessions'
  BY <1>14 DEF SaveNewWallet, Deferred
<1>15. ASSUME NEW c \in Callers, DeleteWalletClose(c) PROVE FreshSessions'
  BY <1>15 DEF DeleteWalletClose, Deferred
<1>16. ASSUME NEW c \in Callers, DeleteWalletUnlink(c) PROVE FreshSessions'
  BY <1>16 DEF DeleteWalletUnlink, Deferred
<1>17. ASSUME NEW c \in Callers, ShutdownWallets(c) PROVE FreshSessions'
  BY <1>17 DEF ShutdownWallets
<1>18. ASSUME NEW c \in Callers, SpvSyncCheckSyncing(c) PROVE FreshSessions'
  BY <1>18 DEF SpvSyncCheckSyncing
<1>19. ASSUME NEW c \in Callers, SpvSyncCheckSynced(c) PROVE FreshSessions'
  BY <1>19 DEF SpvSyncCheckSynced
<1>20. ASSUME NEW c \in Callers, SpvSyncInit(c) PROVE FreshSessions'
  BY <1>20 DEF SpvSyncInit
<1>21. ASSUME NEW c \in Callers, SpvSyncPublish(c) PROVE FreshSessions'
  BY <1>21 DEF SpvSyncPublish, CallType, Sessions
<1>22. ASSUME NEW c \in Callers, SpvSyncGo(c) PROVE FreshSessions'
  BY <1>22 DEF SpvSyncGo, RefsValid, CallType
<1>23. ASSUME NEW s \in Sessions, SyncerSynced(s) PROVE FreshSessions'
  BY <1>23 DEF SyncerSynced
<1>24. ASSUME NEW s \in Sessions, SyncerUnsynced(s) PROVE FreshSessions'
  BY <1>24 DEF SyncerUnsynced
<1>25. ASSUME NEW s \in Sessions, ProgressCallback(s) PROVE FreshSessions'
  BY <1>25 DEF ProgressCallback
<1>26. ASSUME NEW s \in Sessions, RunReturnsError(s) PROVE FreshSessions'
  BY <1>26 DEF RunReturnsError, RunReturns
<1>27. ASSUME NEW s \in Sessions, SyncedRead(s) PROVE FreshSessions'
  BY <1>27 DEF SyncedRead
<1>28. ASSUME NEW s \in Sessions, SyncedApply(s) PROVE FreshSessions'
  BY <1>28 DEF SyncedApply
<1>29. ASSUME NEW s \in Sessions, SyncedCount(s) PROVE FreshSessions'
  BY <1>29 DEF SyncedCount
<1>30. ASSUME NEW s \in Sessions, RunReturnsCanceled(s) PROVE FreshSessions'
  BY <1>30 DEF RunReturnsCanceled, RunReturns
<1>31. ASSUME NEW s \in Sessions, CloseSyncCanceled(s) PROVE FreshSessions'
  BY <1>31 DEF CloseSyncCanceled
<1>32. ASSUME NEW s \in Sessions, NotifySyncCanceled(s) PROVE FreshSessions'
  BY <1>32 DEF NotifySyncCanceled
<1>33. ASSUME NEW s \in Sessions, NotifySyncError(s) PROVE FreshSessions'
  BY <1>33 DEF NotifySyncError
<1>34. ASSUME NEW s \in Sessions, ResetSyncData(s) PROVE FreshSessions'
  BY <1>34 DEF ResetSyncData
<1>35. ASSUME NEW s \in Sessions, RelockWallet(s) PROVE FreshSessions'
  BY <1>35 DEF RelockWallet
<1>36. ASSUME NEW s \in Sessions, RunEnds(s) PROVE FreshSessions'
  BY <1>36 DEF RunEnds
<1>37. CASE UNCHANGED vars
  BY <1>37 DEF vars
<1> QED
  BY <1>1, <1>2, <1>3, <1>4, <1>5, <1>6, <1>7, <1>8, <1>9,
     <1>10, <1>11, <1>12, <1>13, <1>14, <1>15, <1>16, <1>17, <1>18,
     <1>19, <1>20, <1>21, <1>22, <1>23, <1>24, <1>25, <1>26, <1>27,
     <1>28, <1>29, <1>30, <1>31, <1>32, <1>33, <1>34, <1>35, <1>36,
     <1>37
  DEF Next, Calls, CallerStep, SyncerEvent, CallbackStep, RunEnd

\* Run returns only when no callback is in progress.
LEMMA CallbackInRunNext ==
    TypeOK /\ RefsValid /\ FreshSessions /\ CallbackInRun /\ [Next]_vars => CallbackInRun'
<1> SUFFICES ASSUME TypeOK, RefsValid, FreshSessions, CallbackInRun, [Next]_vars PROVE CallbackInRun'
  OBVIOUS
<1> USE MaxSessionsAssumption
<1> USE DEF TypeOK, RunType, CallbackInRun, Return, Goto, Crash, dataVars, chanVars, walletVars, runVars, callVars, procVars
<1>1. CASE CancelAllContexts
  BY <1>1 DEF CancelAllContexts
<1>2. ASSUME NEW c \in Callers, CallSpvSync(c) PROVE CallbackInRun'
  BY <1>2 DEF CallSpvSync
<1>3. ASSUME NEW c \in Callers, CallCancelSync(c) PROVE CallbackInRun'
  BY <1>3 DEF CallCancelSync
<1>4. ASSUME NEW c \in Callers, CallRestartSpvSync(c) PROVE CallbackInRun'
  BY <1>4 DEF CallRestartSpvSync
<1>5. ASSUME NEW c \in Callers, CallShutdown(c) PROVE CallbackInRun'
  BY <1>5 DEF CallShutdown
<1>6. ASSUME NEW c \in Callers, CallPeerInfoRaw(c) PROVE CallbackInRun'
  BY <1>6 DEF CallPeerInfoRaw
<1>7. ASSUME NEW c \in Callers, CallSaveNewWallet(c) PROVE CallbackInRun'
  BY <1>7 DEF CallSaveNewWallet, CallWithResync
<1>8. ASSUME NEW c \in Callers, CallDeleteWallet(c) PROVE CallbackInRun'
  BY <1>8 DEF CallDeleteWallet, CallWithResync
<1>9. ASSUME NEW c \in Callers, PeerInfoRawRead(c) PROVE CallbackInRun'
  BY <1>9 DEF PeerInfoRawRead
<1>10. ASSUME NEW c \in Callers, CancelSyncRead(c) PROVE CallbackInRun'
  BY <1>10 DEF CancelSyncRead, AfterCancel
<1>11. ASSUME NEW c \in Callers, CancelSyncFire(c) PROVE CallbackInRun'
  BY <1>11 DEF CancelSyncFire
<1>12. ASSUME NEW c \in Callers, CancelSyncRecv(c) PROVE CallbackInRun'
  BY <1>12 DEF CancelSyncRecv
<1>13. ASSUME NEW c \in Callers, CancelSyncReturn(c) PROVE CallbackInRun'
  BY <1>13 DEF CancelSyncReturn, AfterCancel
<1>14. ASSUME NEW c \in Callers, SaveNewWallet(c) PROVE CallbackInRun'
  BY <1>14 DEF SaveNewWallet, Deferred
<1>15. ASSUME NEW c \in Callers, DeleteWalletClose(c) PROVE CallbackInRun'
  BY <1>15 DEF DeleteWalletClose, Deferred
<1>16. ASSUME NEW c \in Callers, DeleteWalletUnlink(c) PROVE CallbackInRun'
  BY <1>16 DEF DeleteWalletUnlink, Deferred
<1>17. ASSUME NEW c \in Callers, ShutdownWallets(c) PROVE CallbackInRun'
  BY <1>17 DEF ShutdownWallets
<1>18. ASSUME NEW c \in Callers, SpvSyncCheckSyncing(c) PROVE CallbackInRun'
  BY <1>18 DEF SpvSyncCheckSyncing
<1>19. ASSUME NEW c \in Callers, SpvSyncCheckSynced(c) PROVE CallbackInRun'
  BY <1>19 DEF SpvSyncCheckSynced
<1>20. ASSUME NEW c \in Callers, SpvSyncInit(c) PROVE CallbackInRun'
  BY <1>20 DEF SpvSyncInit
<1>21. ASSUME NEW c \in Callers, SpvSyncPublish(c) PROVE CallbackInRun'
  <2>1. CASE ~ activeSyncData
    BY <1>21, <2>1 DEF SpvSyncPublish
  <2>2. CASE activeSyncData
    <3>1. sessions + 1 \in Sessions /\ sessions \in Nat
      BY <1>21, <2>2 DEF SpvSyncPublish
    <3>2. cb[sessions + 1].at = "none"
      BY <3>1 DEF FreshSessions
    <3>3. cb' = cb /\ run' = [run EXCEPT ![sessions + 1] = "ready"]
      BY <1>21, <2>2 DEF SpvSyncPublish
    <3> QED
      BY <3>1, <3>2, <3>3
  <2> QED
    BY <2>1, <2>2
<1>22. ASSUME NEW c \in Callers, SpvSyncGo(c) PROVE CallbackInRun'
  BY <1>22 DEF SpvSyncGo, RefsValid
<1>23. ASSUME NEW s \in Sessions, SyncerSynced(s) PROVE CallbackInRun'
  BY <1>23 DEF SyncerSynced
<1>24. ASSUME NEW s \in Sessions, SyncerUnsynced(s) PROVE CallbackInRun'
  BY <1>24 DEF SyncerUnsynced
<1>25. ASSUME NEW s \in Sessions, ProgressCallback(s) PROVE CallbackInRun'
  BY <1>25 DEF ProgressCallback
<1>26. ASSUME NEW s \in Sessions, RunReturnsError(s) PROVE CallbackInRun'
  BY <1>26 DEF RunReturnsError, RunReturns
<1>27. ASSUME NEW s \in Sessions, SyncedRead(s) PROVE CallbackInRun'
  BY <1>27 DEF SyncedRead, NoCallback, Callbacks
<1>28. ASSUME NEW s \in Sessions, SyncedApply(s) PROVE CallbackInRun'
  BY <1>28 DEF SyncedApply, Callbacks
<1>29. ASSUME NEW s \in Sessions, SyncedCount(s) PROVE CallbackInRun'
  BY <1>29 DEF SyncedCount, NoCallback, Callbacks
<1>30. ASSUME NEW s \in Sessions, RunReturnsCanceled(s) PROVE CallbackInRun'
  BY <1>30 DEF RunReturnsCanceled, RunReturns
<1>31. ASSUME NEW s \in Sessions, CloseSyncCanceled(s) PROVE CallbackInRun'
  BY <1>31 DEF CloseSyncCanceled
<1>32. ASSUME NEW s \in Sessions, NotifySyncCanceled(s) PROVE CallbackInRun'
  BY <1>32 DEF NotifySyncCanceled
<1>33. ASSUME NEW s \in Sessions, NotifySyncError(s) PROVE CallbackInRun'
  BY <1>33 DEF NotifySyncError
<1>34. ASSUME NEW s \in Sessions, ResetSyncData(s) PROVE CallbackInRun'
  BY <1>34 DEF ResetSyncData
<1>35. ASSUME NEW s \in Sessions, RelockWallet(s) PROVE CallbackInRun'
  BY <1>35 DEF RelockWallet
<1>36. ASSUME NEW s \in Sessions, RunEnds(s) PROVE CallbackInRun'
  BY <1>36 DEF RunEnds
<1>37. CASE UNCHANGED vars
  BY <1>37 DEF vars
<1> QED
  BY <1>1, <1>2, <1>3, <1>4, <1>5, <1>6, <1>7, <1>8, <1>9,
     <1>10, <1>11, <1>12, <1>13, <1>14, <1>15, <1>16, <1>17, <1>18,
     <1>19, <1>20, <1>21, <1>22, <1>23, <1>24, <1>25, <1>26, <1>27,
     <1>28, <1>29, <1>30, <1>31, <1>32, <1>33, <1>34, <1>35, <1>36,
     <1>37
  DEF Next, Calls, CallerStep, SyncerEvent, CallbackStep, RunEnd

\* The flags are set by a sync that is live, and cleared by every reset.
LEMMA ConnectedNext ==
    TypeOK /\ RefsValid /\ CallbackInRun /\ ConnectedOnlyWhileLive /\ [Next]_vars => ConnectedOnlyWhileLive'
<1> SUFFICES ASSUME TypeOK, RefsValid, CallbackInRun, ConnectedOnlyWhileLive, [Next]_vars PROVE ConnectedOnlyWhileLive'
  OBVIOUS
<1> USE DEF TypeOK, RunType, ConnectedOnlyWhileLive, IsConnectedToDecredNetwork, Live, LiveStates,
        Return, Goto, Crash, dataVars, chanVars, walletVars, runVars, callVars, procVars
<1>1. CASE CancelAllContexts
  BY <1>1 DEF CancelAllContexts
<1>2. ASSUME NEW c \in Callers, CallSpvSync(c) PROVE ConnectedOnlyWhileLive'
  BY <1>2 DEF CallSpvSync
<1>3. ASSUME NEW c \in Callers, CallCancelSync(c) PROVE ConnectedOnlyWhileLive'
  BY <1>3 DEF CallCancelSync
<1>4. ASSUME NEW c \in Callers, CallRestartSpvSync(c) PROVE ConnectedOnlyWhileLive'
  BY <1>4 DEF CallRestartSpvSync
<1>5. ASSUME NEW c \in Callers, CallShutdown(c) PROVE ConnectedOnlyWhileLive'
  BY <1>5 DEF CallShutdown
<1>6. ASSUME NEW c \in Callers, CallPeerInfoRaw(c) PROVE ConnectedOnlyWhileLive'
  BY <1>6 DEF CallPeerInfoRaw
<1>7. ASSUME NEW c \in Callers, CallSaveNewWallet(c) PROVE ConnectedOnlyWhileLive'
  BY <1>7 DEF CallSaveNewWallet, CallWithResync
<1>8. ASSUME NEW c \in Callers, CallDeleteWallet(c) PROVE ConnectedOnlyWhileLive'
  BY <1>8 DEF CallDeleteWallet, CallWithResync
<1>9. ASSUME NEW c \in Callers, PeerInfoRawRead(c) PROVE ConnectedOnlyWhileLive'
  BY <1>9 DEF PeerInfoRawRead
<1>10. ASSUME NEW c \in Callers, CancelSyncRead(c) PROVE ConnectedOnlyWhileLive'
  BY <1>10 DEF CancelSyncRead, AfterCancel
<1>11. ASSUME NEW c \in Callers, CancelSyncFire(c) PROVE ConnectedOnlyWhileLive'
  BY <1>11 DEF CancelSyncFire
<1>12. ASSUME NEW c \in Callers, CancelSyncRecv(c) PROVE ConnectedOnlyWhileLive'
  BY <1>12 DEF CancelSyncRecv
<1>13. ASSUME NEW c \in Callers, CancelSyncReturn(c) PROVE ConnectedOnlyWhileLive'
  BY <1>13 DEF CancelSyncReturn, AfterCancel
<1>14. ASSUME NEW c \in Callers, SaveNewWallet(c) PROVE ConnectedOnlyWhileLive'
  BY <1>14 DEF SaveNewWallet, Deferred
<1>15. ASSUME NEW c \in Callers, DeleteWalletClose(c) PROVE ConnectedOnlyWhileLive'
  BY <1>15 DEF DeleteWalletClose, Deferred
<1>16. ASSUME NEW c \in Callers, DeleteWalletUnlink(c) PROVE ConnectedOnlyWhileLive'
  BY <1>16 DEF DeleteWalletUnlink, Deferred
<1>17. ASSUME NEW c \in Callers, ShutdownWallets(c) PROVE ConnectedOnlyWhileLive'
  BY <1>17 DEF ShutdownWallets
<1>18. ASSUME NEW c \in Callers, SpvSyncCheckSyncing(c) PROVE ConnectedOnlyWhileLive'
  BY <1>18 DEF SpvSyncCheckSyncing
<1>19. ASSUME NEW c \in Callers, SpvSyncCheckSynced(c) PROVE ConnectedOnlyWhileLive'
  BY <1>19 DEF SpvSyncCheckSynced
<1>20. ASSUME NEW c \in Callers, SpvSyncInit(c) PROVE ConnectedOnlyWhileLive'
  BY <1>20 DEF SpvSyncInit
<1>21. ASSUME NEW c \in Callers, SpvSyncPublish(c) PROVE ConnectedOnlyWhileLive'
  BY <1>21 DEF SpvSyncPublish, CallType
<1>22. ASSUME NEW c \in Callers, SpvSyncGo(c) PROVE ConnectedOnlyWhileLive'
  BY <1>22 DEF SpvSyncGo, RefsValid, CallType
<1>23. ASSUME NEW s \in Sessions, SyncerSynced(s) PROVE ConnectedOnlyWhileLive'
  BY <1>23 DEF SyncerSynced
<1>24. ASSUME NEW s \in Sessions, SyncerUnsynced(s) PROVE ConnectedOnlyWhileLive'
  BY <1>24 DEF SyncerUnsynced
<1>25. ASSUME NEW s \in Sessions, ProgressCallback(s) PROVE ConnectedOnlyWhileLive'
  BY <1>25 DEF ProgressCallback
<1>26. ASSUME NEW s \in Sessions, RunReturnsError(s) PROVE ConnectedOnlyWhileLive'
  BY <1>26 DEF RunReturnsError, RunReturns
<1>27. ASSUME NEW s \in Sessions, SyncedRead(s) PROVE ConnectedOnlyWhileLive'
  BY <1>27 DEF SyncedRead
<1>28. ASSUME NEW s \in Sessions, SyncedApply(s) PROVE ConnectedOnlyWhileLive'
  BY <1>28 DEF SyncedApply
<1>29. ASSUME NEW s \in Sessions, SyncedCount(s) PROVE ConnectedOnlyWhileLive'
  BY <1>29 DEF SyncedCount, CallbackInRun
<1>30. ASSUME NEW s \in Sessions, RunReturnsCanceled(s) PROVE ConnectedOnlyWhileLive'
  BY <1>30 DEF RunReturnsCanceled, RunReturns
<1>31. ASSUME NEW s \in Sessions, CloseSyncCanceled(s) PROVE ConnectedOnlyWhileLive'
  BY <1>31 DEF CloseSyncCanceled
<1>32. ASSUME NEW s \in Sessions, NotifySyncCanceled(s) PROVE ConnectedOnlyWhileLive'
  BY <1>32 DEF NotifySyncCanceled
<1>33. ASSUME NEW s \in Sessions, NotifySyncError(s) PROVE ConnectedOnlyWhileLive'
  BY <1>33 DEF NotifySyncError
<1>34. ASSUME NEW s \in Sessions, ResetSyncData(s) PROVE ConnectedOnlyWhileLive'
  BY <1>34 DEF ResetSyncData
<1>35. ASSUME NEW s \in Sessions, RelockWallet(s) PROVE ConnectedOnlyWhileLive'
  BY <1>35 DEF RelockWallet
<1>36. ASSUME NEW s \in Sessions, RunEnds(s) PROVE ConnectedOnlyWhileLive'
  BY <1>36 DEF RunEnds
<1>37. CASE UNCHANGED vars
  BY <1>37 DEF vars
<1> QED
  BY <1>1, <1>2, <1>3, <1>4, <1>5, <1>6, <1>7, <1>8, <1>9,
     <1>10, <1>11, <1>12, <1>13, <1>14, <1>15, <1>16, <1>17, <1>18,
     <1>19, <1>20, <1>21, <1>22, <1>23, <1>24, <1>25, <1>26, <1>27,
     <1>28, <1>29, <1>30, <1>31, <1>32, <1>33, <1>34, <1>35, <1>36,
     <1>37
  DEF Next, Calls, CallerStep, SyncerEvent, CallbackStep, RunEnd

LEMMA ConnectedInvInit == Init => ConnectedInv
<1> SUFFICES ASSUME Init PROVE ConnectedInv
  OBVIOUS
<1>1. RefsValid /\ FreshSessions
  BY DEF Init, RefsValid, FreshSessions
<1>2. CallbackInRun
  BY DEF Init, CallbackInRun, NoCallback
<1>3. ConnectedOnlyWhileLive
  BY DEF Init, ConnectedOnlyWhileLive, IsConnectedToDecredNetwork
<1> QED
  BY <1>1, <1>2, <1>3, TypeOKInit DEF ConnectedInv

LEMMA ConnectedInvNext == ConnectedInv /\ [Next]_vars => ConnectedInv'
BY TypeOKNext, RefsValidNext, FreshSessionsNext, CallbackInRunNext, ConnectedNext
DEF ConnectedInv

\* Type correctness of every reachable state: in particular no nil cancel
\* function is ever called and no nil channel is ever marked closed, whatever
\* calls the application makes at the same time.
THEOREM TypeCorrect == Spec => []TypeOK
<1>1. Init => ConnectedInv
  BY ConnectedInvInit
<1>2. ConnectedInv /\ [Next]_vars => ConnectedInv'
  BY ConnectedInvNext
<1>3. ConnectedInv => TypeOK
  BY DEF ConnectedInv
<1> QED
  BY <1>1, <1>2, <1>3, PTL DEF Spec

\* IsConnectedToDecredNetwork is true only while a sync goroutine has still to
\* run resetSyncData, for any number of concurrent callers, syncs and wallets,
\* with every fault: the flags never get stuck.
THEOREM NeverStuckConnected == Spec => []ConnectedOnlyWhileLive
<1>1. Init => ConnectedInv
  BY ConnectedInvInit
<1>2. ConnectedInv /\ [Next]_vars => ConnectedInv'
  BY ConnectedInvNext
<1>3. ConnectedInv => ConnectedOnlyWhileLive
  BY DEF ConnectedInv
<1> QED
  BY <1>1, <1>2, <1>3, PTL DEF Spec

-------------------------------------------------------------------------------
(***************************************************************************)
(* For an application that makes one call at a time (Serialized), on top   *)
(* of the invariant above.                                                 *)
(***************************************************************************)

\* A call starts only when no other is in progress.
LEMMA OneCallerNext == Serialized /\ TypeOK /\ OneCaller /\ [Next]_vars => OneCaller'
<1> SUFFICES ASSUME Serialized, TypeOK, OneCaller, [Next]_vars PROVE OneCaller'
  OBVIOUS
<1> USE DEF TypeOK, CallType, OneCaller, Return, Goto, Crash, dataVars, chanVars, walletVars, runVars, callVars, procVars
<1>1. CASE CancelAllContexts
  BY <1>1 DEF CancelAllContexts
<1>2. ASSUME NEW c \in Callers, CallSpvSync(c) PROVE OneCaller'
  BY <1>2 DEF CallSpvSync, Call
<1>3. ASSUME NEW c \in Callers, CallCancelSync(c) PROVE OneCaller'
  BY <1>3 DEF CallCancelSync, Call
<1>4. ASSUME NEW c \in Callers, CallRestartSpvSync(c) PROVE OneCaller'
  BY <1>4 DEF CallRestartSpvSync, Call
<1>5. ASSUME NEW c \in Callers, CallShutdown(c) PROVE OneCaller'
  BY <1>5 DEF CallShutdown, Call
<1>6. ASSUME NEW c \in Callers, CallPeerInfoRaw(c) PROVE OneCaller'
  BY <1>6 DEF CallPeerInfoRaw, Call
<1>7. ASSUME NEW c \in Callers, CallSaveNewWallet(c) PROVE OneCaller'
  BY <1>7 DEF CallSaveNewWallet, CallWithResync, Call
<1>8. ASSUME NEW c \in Callers, CallDeleteWallet(c) PROVE OneCaller'
  BY <1>8 DEF CallDeleteWallet, CallWithResync, Call
<1>9. ASSUME NEW c \in Callers, PeerInfoRawRead(c) PROVE OneCaller'
  BY <1>9 DEF PeerInfoRawRead
<1>10. ASSUME NEW c \in Callers, CancelSyncRead(c) PROVE OneCaller'
  BY <1>10 DEF CancelSyncRead, AfterCancel
<1>11. ASSUME NEW c \in Callers, CancelSyncFire(c) PROVE OneCaller'
  BY <1>11 DEF CancelSyncFire
<1>12. ASSUME NEW c \in Callers, CancelSyncRecv(c) PROVE OneCaller'
  BY <1>12 DEF CancelSyncRecv
<1>13. ASSUME NEW c \in Callers, CancelSyncReturn(c) PROVE OneCaller'
  BY <1>13 DEF CancelSyncReturn, AfterCancel
<1>14. ASSUME NEW c \in Callers, SaveNewWallet(c) PROVE OneCaller'
  BY <1>14 DEF SaveNewWallet, Deferred
<1>15. ASSUME NEW c \in Callers, DeleteWalletClose(c) PROVE OneCaller'
  BY <1>15 DEF DeleteWalletClose, Deferred
<1>16. ASSUME NEW c \in Callers, DeleteWalletUnlink(c) PROVE OneCaller'
  BY <1>16 DEF DeleteWalletUnlink, Deferred
<1>17. ASSUME NEW c \in Callers, ShutdownWallets(c) PROVE OneCaller'
  BY <1>17 DEF ShutdownWallets
<1>18. ASSUME NEW c \in Callers, SpvSyncCheckSyncing(c) PROVE OneCaller'
  BY <1>18 DEF SpvSyncCheckSyncing
<1>19. ASSUME NEW c \in Callers, SpvSyncCheckSynced(c) PROVE OneCaller'
  BY <1>19 DEF SpvSyncCheckSynced
<1>20. ASSUME NEW c \in Callers, SpvSyncInit(c) PROVE OneCaller'
  BY <1>20 DEF SpvSyncInit
<1>21. ASSUME NEW c \in Callers, SpvSyncPublish(c) PROVE OneCaller'
  BY <1>21 DEF SpvSyncPublish
<1>22. ASSUME NEW c \in Callers, SpvSyncGo(c) PROVE OneCaller'
  BY <1>22 DEF SpvSyncGo
<1>23. ASSUME NEW s \in Sessions, SyncerSynced(s) PROVE OneCaller'
  BY <1>23 DEF SyncerSynced
<1>24. ASSUME NEW s \in Sessions, SyncerUnsynced(s) PROVE OneCaller'
  BY <1>24 DEF SyncerUnsynced
<1>25. ASSUME NEW s \in Sessions, ProgressCallback(s) PROVE OneCaller'
  BY <1>25 DEF ProgressCallback
<1>26. ASSUME NEW s \in Sessions, RunReturnsError(s) PROVE OneCaller'
  BY <1>26 DEF RunReturnsError, RunReturns
<1>27. ASSUME NEW s \in Sessions, SyncedRead(s) PROVE OneCaller'
  BY <1>27 DEF SyncedRead
<1>28. ASSUME NEW s \in Sessions, SyncedApply(s) PROVE OneCaller'
  BY <1>28 DEF SyncedApply
<1>29. ASSUME NEW s \in Sessions, SyncedCount(s) PROVE OneCaller'
  BY <1>29 DEF SyncedCount
<1>30. ASSUME NEW s \in Sessions, RunReturnsCanceled(s) PROVE OneCaller'
  BY <1>30 DEF RunReturnsCanceled, RunReturns
<1>31. ASSUME NEW s \in Sessions, CloseSyncCanceled(s) PROVE OneCaller'
  <2>1. CASE syncCanceled # NoSession /\ syncCanceled \notin closed
    <3>1. run' = [run EXCEPT ![s] = "closed"] /\ run[s] = "canceled"
      BY <1>31, <2>1 DEF CloseSyncCanceled
    <3>2. UNCHANGED <<dataVars, callVars>>
      BY <1>31, <2>1 DEF CloseSyncCanceled
    <3> QED
      BY <3>1, <3>2
  <2>2. CASE ~ (syncCanceled # NoSession /\ syncCanceled \notin closed)
    BY <1>31, <2>2 DEF CloseSyncCanceled
  <2> QED
    BY <2>1, <2>2
<1>32. ASSUME NEW s \in Sessions, NotifySyncCanceled(s) PROVE OneCaller'
  BY <1>32 DEF NotifySyncCanceled
<1>33. ASSUME NEW s \in Sessions, NotifySyncError(s) PROVE OneCaller'
  BY <1>33 DEF NotifySyncError
<1>34. ASSUME NEW s \in Sessions, ResetSyncData(s) PROVE OneCaller'
  BY <1>34 DEF ResetSyncData
<1>35. ASSUME NEW s \in Sessions, RelockWallet(s) PROVE OneCaller'
  BY <1>35 DEF RelockWallet
<1>36. ASSUME NEW s \in Sessions, RunEnds(s) PROVE OneCaller'
  BY <1>36 DEF RunEnds
<1>37. CASE UNCHANGED vars
  BY <1>37 DEF vars
<1> QED
  BY <1>1, <1>2, <1>3, <1>4, <1>5, <1>6, <1>7, <1>8, <1>9,
     <1>10, <1>11, <1>12, <1>13, <1>14, <1>15, <1>16, <1>17, <1>18,
     <1>19, <1>20, <1>21, <1>22, <1>23, <1>24, <1>25, <1>26, <1>27,
     <1>28, <1>29, <1>30, <1>31, <1>32, <1>33, <1>34, <1>35, <1>36,
     <1>37
  DEF Next, Calls, CallerStep, SyncerEvent, CallbackStep, RunEnd

\* Between the checks of SpvSync and its critical section no other call and no
\* sync is there to change what was checked.
LEMMA ChecksHoldNext ==
    ConnectedInv /\ OneCaller /\ ChecksHold /\ OwnsHandles /\ LiveIsConnected /\ [Next]_vars => ChecksHold'
<1> SUFFICES ASSUME ConnectedInv, OneCaller, ChecksHold, OwnsHandles, LiveIsConnected, [Next]_vars PROVE ChecksHold'
  OBVIOUS
<1> USE DEF ConnectedInv, TypeOK, RunType, CallType, ChecksHold, LiveIsConnected, Live, LiveStates,
        IsConnectedToDecredNetwork, Return, Goto, Crash, dataVars, chanVars, walletVars, runVars, callVars, procVars
<1>1. CASE CancelAllContexts
  BY <1>1 DEF CancelAllContexts
<1>2. ASSUME NEW c \in Callers, CallSpvSync(c) PROVE ChecksHold'
  BY <1>2 DEF CallSpvSync, Call
<1>3. ASSUME NEW c \in Callers, CallCancelSync(c) PROVE ChecksHold'
  BY <1>3 DEF CallCancelSync, Call
<1>4. ASSUME NEW c \in Callers, CallRestartSpvSync(c) PROVE ChecksHold'
  BY <1>4 DEF CallRestartSpvSync, Call
<1>5. ASSUME NEW c \in Callers, CallShutdown(c) PROVE ChecksHold'
  BY <1>5 DEF CallShutdown, Call
<1>6. ASSUME NEW c \in Callers, CallPeerInfoRaw(c) PROVE ChecksHold'
  BY <1>6 DEF CallPeerInfoRaw, Call
<1>7. ASSUME NEW c \in Callers, CallSaveNewWallet(c) PROVE ChecksHold'
  BY <1>7 DEF CallSaveNewWallet, CallWithResync, Call
<1>8. ASSUME NEW c \in Callers, CallDeleteWallet(c) PROVE ChecksHold'
  BY <1>8 DEF CallDeleteWallet, CallWithResync, Call
<1>9. ASSUME NEW c \in Callers, PeerInfoRawRead(c) PROVE ChecksHold'
  BY <1>9 DEF PeerInfoRawRead
<1>10. ASSUME NEW c \in Callers, CancelSyncRead(c) PROVE ChecksHold'
  BY <1>10 DEF CancelSyncRead, AfterCancel
<1>11. ASSUME NEW c \in Callers, CancelSyncFire(c) PROVE ChecksHold'
  BY <1>11 DEF CancelSyncFire
<1>12. ASSUME NEW c \in Callers, CancelSyncRecv(c) PROVE ChecksHold'
  BY <1>12 DEF CancelSyncRecv
<1>13. ASSUME NEW c \in Callers, CancelSyncReturn(c) PROVE ChecksHold'
  BY <1>13 DEF CancelSyncReturn, AfterCancel
<1>14. ASSUME NEW c \in Callers, SaveNewWallet(c) PROVE ChecksHold'
  BY <1>14 DEF SaveNewWallet, Deferred
<1>15. ASSUME NEW c \in Callers, DeleteWalletClose(c) PROVE ChecksHold'
  BY <1>15 DEF DeleteWalletClose, Deferred
<1>16. ASSUME NEW c \in Callers, DeleteWalletUnlink(c) PROVE ChecksHold'
  BY <1>16 DEF DeleteWalletUnlink, Deferred
<1>17. ASSUME NEW c \in Callers, ShutdownWallets(c) PROVE ChecksHold'
  BY <1>17 DEF ShutdownWallets
<1>18. ASSUME NEW c \in Callers, SpvSyncCheckSyncing(c) PROVE ChecksHold'
  BY <1>18 DEF SpvSyncCheckSyncing
<1>19. ASSUME NEW c \in Callers, SpvSyncCheckSynced(c) PROVE ChecksHold'
  BY <1>19 DEF SpvSyncCheckSynced
<1>20. ASSUME NEW c \in Callers, SpvSyncInit(c) PROVE ChecksHold'
  BY <1>20 DEF SpvSyncInit, OneCaller
<1>21. ASSUME NEW c \in Callers, SpvSyncPublish(c) PROVE ChecksHold'
  BY <1>21 DEF SpvSyncPublish, OneCaller
<1>22. ASSUME NEW c \in Callers, SpvSyncGo(c) PROVE ChecksHold'
  <2>1. CASE runWallets[ref[c]] = {}
    BY <1>22, <2>1 DEF SpvSyncGo
  <2>2. CASE runWallets[ref[c]] # {}
    <3>1. \A d \in Callers : pc'[d] = "idle"
      BY <1>22, <2>2 DEF SpvSyncGo, OneCaller
    <3> QED
      BY <3>1
  <2> QED
    BY <2>1, <2>2
<1>23. ASSUME NEW s \in Sessions, SyncerSynced(s) PROVE ChecksHold'
  BY <1>23 DEF SyncerSynced
<1>24. ASSUME NEW s \in Sessions, SyncerUnsynced(s) PROVE ChecksHold'
  BY <1>24 DEF SyncerUnsynced
<1>25. ASSUME NEW s \in Sessions, ProgressCallback(s) PROVE ChecksHold'
  BY <1>25 DEF ProgressCallback
<1>26. ASSUME NEW s \in Sessions, RunReturnsError(s) PROVE ChecksHold'
  BY <1>26 DEF RunReturnsError, RunReturns
<1>27. ASSUME NEW s \in Sessions, SyncedRead(s) PROVE ChecksHold'
  BY <1>27 DEF SyncedRead
<1>28. ASSUME NEW s \in Sessions, SyncedApply(s) PROVE ChecksHold'
  BY <1>28 DEF SyncedApply
<1>29. ASSUME NEW s \in Sessions, SyncedCount(s) PROVE ChecksHold'
  BY <1>29 DEF SyncedCount, CallbackInRun
<1>30. ASSUME NEW s \in Sessions, RunReturnsCanceled(s) PROVE ChecksHold'
  BY <1>30 DEF RunReturnsCanceled, RunReturns
<1>31. ASSUME NEW s \in Sessions, CloseSyncCanceled(s) PROVE ChecksHold'
  <2>1. CASE syncCanceled # NoSession /\ syncCanceled \notin closed
    <3>1. run' = [run EXCEPT ![s] = "closed"] /\ run[s] = "canceled"
      BY <1>31, <2>1 DEF CloseSyncCanceled
    <3>2. UNCHANGED <<dataVars, callVars>>
      BY <1>31, <2>1 DEF CloseSyncCanceled
    <3> QED
      BY <3>1, <3>2
  <2>2. CASE ~ (syncCanceled # NoSession /\ syncCanceled \notin closed)
    BY <1>31, <2>2 DEF CloseSyncCanceled
  <2> QED
    BY <2>1, <2>2
<1>32. ASSUME NEW s \in Sessions, NotifySyncCanceled(s) PROVE ChecksHold'
  BY <1>32 DEF NotifySyncCanceled
<1>33. ASSUME NEW s \in Sessions, NotifySyncError(s) PROVE ChecksHold'
  BY <1>33 DEF NotifySyncError
<1>34. ASSUME NEW s \in Sessions, ResetSyncData(s) PROVE ChecksHold'
  BY <1>34 DEF ResetSyncData
<1>35. ASSUME NEW s \in Sessions, RelockWallet(s) PROVE ChecksHold'
  BY <1>35 DEF RelockWallet
<1>36. ASSUME NEW s \in Sessions, RunEnds(s) PROVE ChecksHold'
  BY <1>36 DEF RunEnds
<1>37. CASE UNCHANGED vars
  BY <1>37 DEF vars
<1> QED
  BY <1>1, <1>2, <1>3, <1>4, <1>5, <1>6, <1>7, <1>8, <1>9,
     <1>10, <1>11, <1>12, <1>13, <1>14, <1>15, <1>16, <1>17, <1>18,
     <1>19, <1>20, <1>21, <1>22, <1>23, <1>24, <1>25, <1>26, <1>27,
     <1>28, <1>29, <1>30, <1>31, <1>32, <1>33, <1>34, <1>35, <1>36,
     <1>37
  DEF Next, Calls, CallerStep, SyncerEvent, CallbackStep, RunEnd

\* A sync is made when none is live, and resets the handles it owns.
LEMMA OwnsHandlesNext ==
    ConnectedInv /\ OneCaller /\ ChecksHold /\ OwnsHandles /\ LiveIsConnected /\ [Next]_vars => OwnsHandles'
<1> SUFFICES ASSUME ConnectedInv, OneCaller, ChecksHold, OwnsHandles, LiveIsConnected, [Next]_vars PROVE OwnsHandles'
  OBVIOUS
<1> USE DEF ConnectedInv, TypeOK, RunType, OwnsHandles, LiveIsConnected, Live, LiveStates,
        IsConnectedToDecredNetwork, Return, Goto, Crash, dataVars, chanVars, walletVars, runVars, callVars, procVars
<1>1. CASE CancelAllContexts
  BY <1>1 DEF CancelAllContexts
<1>2. ASSUME NEW c \in Callers, CallSpvSync(c) PROVE OwnsHandles'
  BY <1>2 DEF CallSpvSync, Call
<1>3. ASSUME NEW c \in Callers, CallCancelSync(c) PROVE OwnsHandles'
  BY <1>3 DEF CallCancelSync, Call
<1>4. ASSUME NEW c \in Callers, CallRestartSpvSync(c) PROVE OwnsHandles'
  BY <1>4 DEF CallRestartSpvSync, Call
<1>5. ASSUME NEW c \in Callers, CallShutdown(c) PROVE OwnsHandles'
  BY <1>5 DEF CallShutdown, Call
<1>6. ASSUME NEW c \in Callers, CallPeerInfoRaw(c) PROVE OwnsHandles'
  BY <1>6 DEF CallPeerInfoRaw, Call
<1>7. ASSUME NEW c \in Callers, CallSaveNewWallet(c) PROVE OwnsHandles'
  BY <1>7 DEF CallSaveNewWallet, CallWithResync, Call
<1>8. ASSUME NEW c \in Callers, CallDeleteWallet(c) PROVE OwnsHandles'
  BY <1>8 DEF CallDeleteWallet, CallWithResync, Call
<1>9. ASSUME NEW c \in Callers, PeerInfoRawRead(c) PROVE OwnsHandles'
  BY <1>9 DEF PeerInfoRawRead
<1>10. ASSUME NEW c \in Callers, CancelSyncRead(c) PROVE OwnsHandles'
  BY <1>10 DEF CancelSyncRead, AfterCancel
<1>11. ASSUME NEW c \in Callers, CancelSyncFire(c) PROVE OwnsHandles'
  BY <1>11 DEF CancelSyncFire
<1>12. ASSUME NEW c \in Callers, CancelSyncRecv(c) PROVE OwnsHandles'
  BY <1>12 DEF CancelSyncRecv
<1>13. ASSUME NEW c \in Callers, CancelSyncReturn(c) PROVE OwnsHandles'
  BY <1>13 DEF CancelSyncReturn, AfterCancel
<1>14. ASSUME NEW c \in Callers, SaveNewWallet(c) PROVE OwnsHandles'
  BY <1>14 DEF SaveNewWallet, Deferred
<1>15. ASSUME NEW c \in Callers, DeleteWalletClose(c) PROVE OwnsHandles'
  BY <1>15 DEF DeleteWalletClose, Deferred
<1>16. ASSUME NEW c \in Callers, DeleteWalletUnlink(c) PROVE OwnsHandles'
  BY <1>16 DEF DeleteWalletUnlink, Deferred
<1>17. ASSUME NEW c \in Callers, ShutdownWallets(c) PROVE OwnsHandles'
  BY <1>17 DEF ShutdownWallets
<1>18. ASSUME NEW c \in Callers, SpvSyncCheckSyncing(c) PROVE OwnsHandles'
  BY <1>18 DEF SpvSyncCheckSyncing
<1>19. ASSUME NEW c \in Callers, SpvSyncCheckSynced(c) PROVE OwnsHandles'
  BY <1>19 DEF SpvSyncCheckSynced
<1>20. ASSUME NEW c \in Callers, SpvSyncInit(c) PROVE OwnsHandles'
  BY <1>20 DEF SpvSyncInit
<1>21. ASSUME NEW c \in Callers, SpvSyncPublish(c) PROVE OwnsHandles'
  BY <1>21 DEF SpvSyncPublish, ChecksHold
<1>22. ASSUME NEW c \in Callers, SpvSyncGo(c) PROVE OwnsHandles'
  BY <1>22 DEF SpvSyncGo, ChecksHold, CallType, RefsValid
<1>23. ASSUME NEW s \in Sessions, SyncerSynced(s) PROVE OwnsHandles'
  BY <1>23 DEF SyncerSynced
<1>24. ASSUME NEW s \in Sessions, SyncerUnsynced(s) PROVE OwnsHandles'
  BY <1>24 DEF SyncerUnsynced
<1>25. ASSUME NEW s \in Sessions, ProgressCallback(s) PROVE OwnsHandles'
  BY <1>25 DEF ProgressCallback
<1>26. ASSUME NEW s \in Sessions, RunReturnsError(s) PROVE OwnsHandles'
  BY <1>26 DEF RunReturnsError, RunReturns
<1>27. ASSUME NEW s \in Sessions, SyncedRead(s) PROVE OwnsHandles'
  BY <1>27 DEF SyncedRead
<1>28. ASSUME NEW s \in Sessions, SyncedApply(s) PROVE OwnsHandles'
  BY <1>28 DEF SyncedApply
<1>29. ASSUME NEW s \in Sessions, SyncedCount(s) PROVE OwnsHandles'
  BY <1>29 DEF SyncedCount, CallbackInRun
<1>30. ASSUME NEW s \in Sessions, RunReturnsCanceled(s) PROVE OwnsHandles'
  BY <1>30 DEF RunReturnsCanceled, RunReturns
<1>31. ASSUME NEW s \in Sessions, CloseSyncCanceled(s) PROVE OwnsHandles'
  BY <1>31 DEF CloseSyncCanceled
<1>32. ASSUME NEW s \in Sessions, NotifySyncCanceled(s) PROVE OwnsHandles'
  BY <1>32 DEF NotifySyncCanceled
<1>33. ASSUME NEW s \in Sessions, NotifySyncError(s) PROVE OwnsHandles'
  BY <1>33 DEF NotifySyncError
<1>34. ASSUME NEW s \in Sessions, ResetSyncData(s) PROVE OwnsHandles'
  BY <1>34 DEF ResetSyncData
<1>35. ASSUME NEW s \in Sessions, RelockWallet(s) PROVE OwnsHandles'
  BY <1>35 DEF RelockWallet
<1>36. ASSUME NEW s \in Sessions, RunEnds(s) PROVE OwnsHandles'
  BY <1>36 DEF RunEnds
<1>37. CASE UNCHANGED vars
  BY <1>37 DEF vars
<1> QED
  BY <1>1, <1>2, <1>3, <1>4, <1>5, <1>6, <1>7, <1>8, <1>9,
     <1>10, <1>11, <1>12, <1>13, <1>14, <1>15, <1>16, <1>17, <1>18,
     <1>19, <1>20, <1>21, <1>22, <1>23, <1>24, <1>25, <1>26, <1>27,
     <1>28, <1>29, <1>30, <1>31, <1>32, <1>33, <1>34, <1>35, <1>36,
     <1>37
  DEF Next, Calls, CallerStep, SyncerEvent, CallbackStep, RunEnd

\* The one live sync has set the flags and not yet cleared them.
LEMMA LiveIsConnectedNext ==
    ConnectedInv /\ OneCaller /\ ChecksHold /\ OwnsHandles /\ LiveIsConnected /\ [Next]_vars => LiveIsConnected'
<1> SUFFICES ASSUME ConnectedInv, OneCaller, ChecksHold, OwnsHandles, LiveIsConnected, [Next]_vars PROVE LiveIsConnected'
  OBVIOUS
<1> USE DEF ConnectedInv, TypeOK, RunType, OwnsHandles, LiveIsConnected, Live, LiveStates,
        IsConnectedToDecredNetwork, Return, Goto, Crash, dataVars, chanVars, walletVars, runVars, callVars, procVars
<1>1. CASE CancelAllContexts
  BY <1>1 DEF CancelAllContexts
<1>2. ASSUME NEW c \in Callers, CallSpvSync(c) PROVE LiveIsConnected'
  BY <1>2 DEF CallSpvSync, Call
<1>3. ASSUME NEW c \in Callers, CallCancelSync(c) PROVE LiveIsConnected'
  BY <1>3 DEF CallCancelSync, Call
<1>4. ASSUME NEW c \in Callers, CallRestartSpvSync(c) PROVE LiveIsConnected'
  BY <1>4 DEF CallRestartSpvSync, Call
<1>5. ASSUME NEW c \in Callers, CallShutdown(c) PROVE LiveIsConnected'
  BY <1>5 DEF CallShutdown, Call
<1>6. ASSUME NEW c \in Callers, CallPeerInfoRaw(c) PROVE LiveIsConnected'
  BY <1>6 DEF CallPeerInfoRaw, Call
<1>7. ASSUME NEW c \in Callers, CallSaveNewWallet(c) PROVE LiveIsConnected'
  BY <1>7 DEF CallSaveNewWallet, CallWithResync, Call
<1>8. ASSUME NEW c \in Callers, CallDeleteWallet(c) PROVE LiveIsConnected'
  BY <1>8 DEF CallDeleteWallet, CallWithResync, Call
<1>9. ASSUME NEW c \in Callers, PeerInfoRawRead(c) PROVE LiveIsConnected'
  BY <1>9 DEF PeerInfoRawRead
<1>10. ASSUME NEW c \in Callers, CancelSyncRead(c) PROVE LiveIsConnected'
  BY <1>10 DEF CancelSyncRead, AfterCancel
<1>11. ASSUME NEW c \in Callers, CancelSyncFire(c) PROVE LiveIsConnected'
  BY <1>11 DEF CancelSyncFire
<1>12. ASSUME NEW c \in Callers, CancelSyncRecv(c) PROVE LiveIsConnected'
  BY <1>12 DEF CancelSyncRecv
<1>13. ASSUME NEW c \in Callers, CancelSyncReturn(c) PROVE LiveIsConnected'
  BY <1>13 DEF CancelSyncReturn, AfterCancel
<1>14. ASSUME NEW c \in Callers, SaveNewWallet(c) PROVE LiveIsConnected'
  BY <1>14 DEF SaveNewWallet, Deferred
<1>15. ASSUME NEW c \in Callers, DeleteWalletClose(c) PROVE LiveIsConnected'
  BY <1>15 DEF DeleteWalletClose, Deferred
<1>16. ASSUME NEW c \in Callers, DeleteWalletUnlink(c) PROVE LiveIsConnected'
  BY <1>16 DEF DeleteWalletUnlink, Deferred
<1>17. ASSUME NEW c \in Callers, ShutdownWallets(c) PROVE LiveIsConnected'
  BY <1>17 DEF ShutdownWallets
<1>18. ASSUME NEW c \in Callers, SpvSyncCheckSyncing(c) PROVE LiveIsConnected'
  BY <1>18 DEF SpvSyncCheckSyncing
<1>19. ASSUME NEW c \in Callers, SpvSyncCheckSynced(c) PROVE LiveIsConnected'
  BY <1>19 DEF SpvSyncCheckSynced
<1>20. ASSUME NEW c \in Callers, SpvSyncInit(c) PROVE LiveIsConnected'
  BY <1>20 DEF SpvSyncInit
<1>21. ASSUME NEW c \in Callers, SpvSyncPublish(c) PROVE LiveIsConnected'
  BY <1>21 DEF SpvSyncPublish, ChecksHold
<1>22. ASSUME NEW c \in Callers, SpvSyncGo(c) PROVE LiveIsConnected'
  BY <1>22 DEF SpvSyncGo, ChecksHold, CallType, RefsValid
<1>23. ASSUME NEW s \in Sessions, SyncerSynced(s) PROVE LiveIsConnected'
  BY <1>23 DEF SyncerSynced
<1>24. ASSUME NEW s \in Sessions, SyncerUnsynced(s) PROVE LiveIsConnected'
  BY <1>24 DEF SyncerUnsynced
<1>25. ASSUME NEW s \in Sessions, ProgressCallback(s) PROVE LiveIsConnected'
  BY <1>25 DEF ProgressCallback
<1>26. ASSUME NEW s \in Sessions, RunReturnsError(s) PROVE LiveIsConnected'
  BY <1>26 DEF RunReturnsError, RunReturns
<1>27. ASSUME NEW s \in Sessions, SyncedRead(s) PROVE LiveIsConnected'
  BY <1>27 DEF SyncedRead
<1>28. ASSUME NEW s \in Sessions, SyncedApply(s) PROVE LiveIsConnected'
  BY <1>28 DEF SyncedApply
<1>29. ASSUME NEW s \in Sessions, SyncedCount(s) PROVE LiveIsConnected'
  BY <1>29 DEF SyncedCount, CallbackInRun
<1>30. ASSUME NEW s \in Sessions, RunReturnsCanceled(s) PROVE LiveIsConnected'
  BY <1>30 DEF RunReturnsCanceled, RunReturns
<1>31. ASSUME NEW s \in Sessions, CloseSyncCanceled(s) PROVE LiveIsConnected'
  BY <1>31 DEF CloseSyncCanceled
<1>32. ASSUME NEW s \in Sessions, NotifySyncCanceled(s) PROVE LiveIsConnected'
  BY <1>32 DEF NotifySyncCanceled
<1>33. ASSUME NEW s \in Sessions, NotifySyncError(s) PROVE LiveIsConnected'
  BY <1>33 DEF NotifySyncError
<1>34. ASSUME NEW s \in Sessions, ResetSyncData(s) PROVE LiveIsConnected'
  BY <1>34 DEF ResetSyncData
<1>35. ASSUME NEW s \in Sessions, RelockWallet(s) PROVE LiveIsConnected'
  BY <1>35 DEF RelockWallet
<1>36. ASSUME NEW s \in Sessions, RunEnds(s) PROVE LiveIsConnected'
  BY <1>36 DEF RunEnds
<1>37. CASE UNCHANGED vars
  BY <1>37 DEF vars
<1> QED
  BY <1>1, <1>2, <1>3, <1>4, <1>5, <1>6, <1>7, <1>8, <1>9,
     <1>10, <1>11, <1>12, <1>13, <1>14, <1>15, <1>16, <1>17, <1>18,
     <1>19, <1>20, <1>21, <1>22, <1>23, <1>24, <1>25, <1>26, <1>27,
     <1>28, <1>29, <1>30, <1>31, <1>32, <1>33, <1>34, <1>35, <1>36,
     <1>37
  DEF Next, Calls, CallerStep, SyncerEvent, CallbackStep, RunEnd

LEMMA SerialInvInit == Init => SerialInv
<1> SUFFICES ASSUME Init PROVE SerialInv
  OBVIOUS
<1>1. OneCaller /\ ChecksHold
  BY DEF Init, OneCaller, ChecksHold
<1>2. \A s \in Sessions : ~ Live(s)
  BY DEF Init, Live, LiveStates
<1> QED
  BY <1>1, <1>2, ConnectedInvInit DEF SerialInv, OwnsHandles, LiveIsConnected

LEMMA SerialInvNext == Serialized /\ SerialInv /\ [Next]_vars => SerialInv'
BY ConnectedInvNext, OneCallerNext, ChecksHoldNext, OwnsHandlesNext,
   LiveIsConnectedNext
DEF SerialInv, ConnectedInv

\* With one call at a time, for any number of wallets and syncs and with every
\* call and fault, one sync runs at a time and the stored cancel function and
\* channel are its own: CancelSync never cancels, or waits for, another sync
\* than the running one.
THEOREM HandlesOfTheRunningSync == Serialized => (Spec => []OwnsHandles)
<1> SUFFICES ASSUME Serialized PROVE Spec => []OwnsHandles
  OBVIOUS
<1>1. Init => SerialInv
  BY SerialInvInit
<1>2. SerialInv /\ [Next]_vars => SerialInv'
  BY SerialInvNext
<1>3. SerialInv => OwnsHandles
  BY DEF SerialInv
<1> QED
  BY <1>1, <1>2, <1>3, PTL DEF Spec

\* With one call at a time a live sync is always reported by
\* IsConnectedToDecredNetwork and has its activeSyncData.
THEOREM RunningSyncIsReported == Serialized => (Spec => []LiveIsConnected)
<1> SUFFICES ASSUME Serialized PROVE Spec => []LiveIsConnected
  OBVIOUS
<1>1. Init => SerialInv
  BY SerialInvInit
<1>2. SerialInv /\ [Next]_vars => SerialInv'
  BY SerialInvNext
<1>3. SerialInv => LiveIsConnected
  BY DEF SerialInv
<1> QED
  BY <1>1, <1>2, <1>3, PTL DEF Spec

\* No call outside Ops is ever in progress.
LEMMA OnlyAddingNext == OnlyAddsWallets /\ TypeOK /\ OnlyAdding /\ [Next]_vars => OnlyAdding'
<1> SUFFICES ASSUME OnlyAddsWallets, TypeOK, OnlyAdding, [Next]_vars PROVE OnlyAdding'
  OBVIOUS
<1> USE DEF OnlyAddsWallets, TypeOK, CallType, OnlyAdding, Return, Goto, Crash, dataVars, chanVars, walletVars, runVars, callVars, procVars
<1>1. CASE CancelAllContexts
  BY <1>1 DEF CancelAllContexts
<1>2. ASSUME NEW c \in Callers, CallSpvSync(c) PROVE OnlyAdding'
  BY <1>2 DEF CallSpvSync, Call
<1>3. ASSUME NEW c \in Callers, CallCancelSync(c) PROVE OnlyAdding'
  BY <1>3 DEF CallCancelSync, Call
<1>4. ASSUME NEW c \in Callers, CallRestartSpvSync(c) PROVE OnlyAdding'
  BY <1>4 DEF CallRestartSpvSync, Call
<1>5. ASSUME NEW c \in Callers, CallShutdown(c) PROVE OnlyAdding'
  BY <1>5 DEF CallShutdown, Call
<1>6. ASSUME NEW c \in Callers, CallPeerInfoRaw(c) PROVE OnlyAdding'
  BY <1>6 DEF CallPeerInfoRaw, Call
<1>7. ASSUME NEW c \in Callers, CallSaveNewWallet(c) PROVE OnlyAdding'
  BY <1>7 DEF CallSaveNewWallet, CallWithResync, Call
<1>8. ASSUME NEW c \in Callers, CallDeleteWallet(c) PROVE OnlyAdding'
  BY <1>8 DEF CallDeleteWallet, CallWithResync, Call
<1>9. ASSUME NEW c \in Callers, PeerInfoRawRead(c) PROVE OnlyAdding'
  BY <1>9 DEF PeerInfoRawRead
<1>10. ASSUME NEW c \in Callers, CancelSyncRead(c) PROVE OnlyAdding'
  BY <1>10 DEF CancelSyncRead, AfterCancel
<1>11. ASSUME NEW c \in Callers, CancelSyncFire(c) PROVE OnlyAdding'
  BY <1>11 DEF CancelSyncFire
<1>12. ASSUME NEW c \in Callers, CancelSyncRecv(c) PROVE OnlyAdding'
  BY <1>12 DEF CancelSyncRecv
<1>13. ASSUME NEW c \in Callers, CancelSyncReturn(c) PROVE OnlyAdding'
  BY <1>13 DEF CancelSyncReturn, AfterCancel
<1>14. ASSUME NEW c \in Callers, SaveNewWallet(c) PROVE OnlyAdding'
  BY <1>14 DEF SaveNewWallet, Deferred
<1>15. ASSUME NEW c \in Callers, DeleteWalletClose(c) PROVE OnlyAdding'
  BY <1>15 DEF DeleteWalletClose, Deferred
<1>16. ASSUME NEW c \in Callers, DeleteWalletUnlink(c) PROVE OnlyAdding'
  BY <1>16 DEF DeleteWalletUnlink, Deferred
<1>17. ASSUME NEW c \in Callers, ShutdownWallets(c) PROVE OnlyAdding'
  BY <1>17 DEF ShutdownWallets
<1>18. ASSUME NEW c \in Callers, SpvSyncCheckSyncing(c) PROVE OnlyAdding'
  BY <1>18 DEF SpvSyncCheckSyncing
<1>19. ASSUME NEW c \in Callers, SpvSyncCheckSynced(c) PROVE OnlyAdding'
  BY <1>19 DEF SpvSyncCheckSynced
<1>20. ASSUME NEW c \in Callers, SpvSyncInit(c) PROVE OnlyAdding'
  BY <1>20 DEF SpvSyncInit
<1>21. ASSUME NEW c \in Callers, SpvSyncPublish(c) PROVE OnlyAdding'
  BY <1>21 DEF SpvSyncPublish
<1>22. ASSUME NEW c \in Callers, SpvSyncGo(c) PROVE OnlyAdding'
  BY <1>22 DEF SpvSyncGo
<1>23. ASSUME NEW s \in Sessions, SyncerSynced(s) PROVE OnlyAdding'
  BY <1>23 DEF SyncerSynced
<1>24. ASSUME NEW s \in Sessions, SyncerUnsynced(s) PROVE OnlyAdding'
  BY <1>24 DEF SyncerUnsynced
<1>25. ASSUME NEW s \in Sessions, ProgressCallback(s) PROVE OnlyAdding'
  BY <1>25 DEF ProgressCallback
<1>26. ASSUME NEW s \in Sessions, RunReturnsError(s) PROVE OnlyAdding'
  BY <1>26 DEF RunReturnsError, RunReturns
<1>27. ASSUME NEW s \in Sessions, SyncedRead(s) PROVE OnlyAdding'
  BY <1>27 DEF SyncedRead
<1>28. ASSUME NEW s \in Sessions, SyncedApply(s) PROVE OnlyAdding'
  BY <1>28 DEF SyncedApply
<1>29. ASSUME NEW s \in Sessions, SyncedCount(s) PROVE OnlyAdding'
  BY <1>29 DEF SyncedCount
<1>30. ASSUME NEW s \in Sessions, RunReturnsCanceled(s) PROVE OnlyAdding'
  BY <1>30 DEF RunReturnsCanceled, RunReturns
<1>31. ASSUME NEW s \in Sessions, CloseSyncCanceled(s) PROVE OnlyAdding'
  BY <1>31 DEF CloseSyncCanceled
<1>32. ASSUME NEW s \in Sessions, NotifySyncCanceled(s) PROVE OnlyAdding'
  BY <1>32 DEF NotifySyncCanceled
<1>33. ASSUME NEW s \in Sessions, NotifySyncError(s) PROVE OnlyAdding'
  BY <1>33 DEF NotifySyncError
<1>34. ASSUME NEW s \in Sessions, ResetSyncData(s) PROVE OnlyAdding'
  BY <1>34 DEF ResetSyncData
<1>35. ASSUME NEW s \in Sessions, RelockWallet(s) PROVE OnlyAdding'
  BY <1>35 DEF RelockWallet
<1>36. ASSUME NEW s \in Sessions, RunEnds(s) PROVE OnlyAdding'
  BY <1>36 DEF RunEnds
<1>37. CASE UNCHANGED vars
  BY <1>37 DEF vars
<1> QED
  BY <1>1, <1>2, <1>3, <1>4, <1>5, <1>6, <1>7, <1>8, <1>9,
     <1>10, <1>11, <1>12, <1>13, <1>14, <1>15, <1>16, <1>17, <1>18,
     <1>19, <1>20, <1>21, <1>22, <1>23, <1>24, <1>25, <1>26, <1>27,
     <1>28, <1>29, <1>30, <1>31, <1>32, <1>33, <1>34, <1>35, <1>36,
     <1>37
  DEF Next, Calls, CallerStep, SyncerEvent, CallbackStep, RunEnd

\* Wallets are only added, opened.
LEMMA AllOpenedNext == OnlyAdding /\ AllOpened /\ [Next]_vars => AllOpened' /\ wallets \subseteq wallets'
<1> SUFFICES ASSUME OnlyAdding, AllOpened, [Next]_vars PROVE AllOpened' /\ wallets \subseteq wallets'
  OBVIOUS
<1> USE DEF OnlyAdding, AllOpened, Crash, dataVars, chanVars, walletVars, runVars, callVars, procVars
<1>1. CASE CancelAllContexts
  BY <1>1 DEF CancelAllContexts
<1>2. ASSUME NEW c \in Callers, CallSpvSync(c) PROVE AllOpened' /\ wallets \subseteq wallets'
  BY <1>2 DEF CallSpvSync, Call
<1>3. ASSUME NEW c \in Callers, CallCancelSync(c) PROVE AllOpened' /\ wallets \subseteq wallets'
  BY <1>3 DEF CallCancelSync, Call
<1>4. ASSUME NEW c \in Callers, CallRestartSpvSync(c) PROVE AllOpened' /\ wallets \subseteq wallets'
  BY <1>4 DEF CallRestartSpvSync, Call
<1>5. ASSUME NEW c \in Callers, CallShutdown(c) PROVE AllOpened' /\ wallets \subseteq wallets'
  BY <1>5 DEF CallShutdown, Call
<1>6. ASSUME NEW c \in Callers, CallPeerInfoRaw(c) PROVE AllOpened' /\ wallets \subseteq wallets'
  BY <1>6 DEF CallPeerInfoRaw, Call
<1>7. ASSUME NEW c \in Callers, CallSaveNewWallet(c) PROVE AllOpened' /\ wallets \subseteq wallets'
  BY <1>7 DEF CallSaveNewWallet, CallWithResync, Call
<1>8. ASSUME NEW c \in Callers, CallDeleteWallet(c) PROVE AllOpened' /\ wallets \subseteq wallets'
  BY <1>8 DEF CallDeleteWallet, CallWithResync, Call
<1>9. ASSUME NEW c \in Callers, PeerInfoRawRead(c) PROVE AllOpened' /\ wallets \subseteq wallets'
  BY <1>9 DEF PeerInfoRawRead
<1>10. ASSUME NEW c \in Callers, CancelSyncRead(c) PROVE AllOpened' /\ wallets \subseteq wallets'
  BY <1>10 DEF CancelSyncRead, AfterCancel
<1>11. ASSUME NEW c \in Callers, CancelSyncFire(c) PROVE AllOpened' /\ wallets \subseteq wallets'
  BY <1>11 DEF CancelSyncFire
<1>12. ASSUME NEW c \in Callers, CancelSyncRecv(c) PROVE AllOpened' /\ wallets \subseteq wallets'
  BY <1>12 DEF CancelSyncRecv
<1>13. ASSUME NEW c \in Callers, CancelSyncReturn(c) PROVE AllOpened' /\ wallets \subseteq wallets'
  BY <1>13 DEF CancelSyncReturn, AfterCancel
<1>14. ASSUME NEW c \in Callers, SaveNewWallet(c) PROVE AllOpened' /\ wallets \subseteq wallets'
  BY <1>14 DEF SaveNewWallet, Deferred
<1>15. ASSUME NEW c \in Callers, DeleteWalletClose(c) PROVE AllOpened' /\ wallets \subseteq wallets'
  BY <1>15 DEF DeleteWalletClose, Deferred
<1>16. ASSUME NEW c \in Callers, DeleteWalletUnlink(c) PROVE AllOpened' /\ wallets \subseteq wallets'
  BY <1>16 DEF DeleteWalletUnlink, Deferred
<1>17. ASSUME NEW c \in Callers, ShutdownWallets(c) PROVE AllOpened' /\ wallets \subseteq wallets'
  BY <1>17 DEF ShutdownWallets
<1>18. ASSUME NEW c \in Callers, SpvSyncCheckSyncing(c) PROVE AllOpened' /\ wallets \subseteq wallets'
  BY <1>18 DEF SpvSyncCheckSyncing
<1>19. ASSUME NEW c \in Callers, SpvSyncCheckSynced(c) PROVE AllOpened' /\ wallets \subseteq wallets'
  BY <1>19 DEF SpvSyncCheckSynced
<1>20. ASSUME NEW c \in Callers, SpvSyncInit(c) PROVE AllOpened' /\ wallets \subseteq wallets'
  BY <1>20 DEF SpvSyncInit
<1>21. ASSUME NEW c \in Callers, SpvSyncPublish(c) PROVE AllOpened' /\ wallets \subseteq wallets'
  BY <1>21 DEF SpvSyncPublish
<1>22. ASSUME NEW c \in Callers, SpvSyncGo(c) PROVE AllOpened' /\ wallets \subseteq wallets'
  BY <1>22 DEF SpvSyncGo
<1>23. ASSUME NEW s \in Sessions, SyncerSynced(s) PROVE AllOpened' /\ wallets \subseteq wallets'
  BY <1>23 DEF SyncerSynced
<1>24. ASSUME NEW s \in Sessions, SyncerUnsynced(s) PROVE AllOpened' /\ wallets \subseteq wallets'
  BY <1>24 DEF SyncerUnsynced
<1>25. ASSUME NEW s \in Sessions, ProgressCallback(s) PROVE AllOpened' /\ wallets \subseteq wallets'
  BY <1>25 DEF ProgressCallback
<1>26. ASSUME NEW s \in Sessions, RunReturnsError(s) PROVE AllOpened' /\ wallets \subseteq wallets'
  BY <1>26 DEF RunReturnsError, RunReturns
<1>27. ASSUME NEW s \in Sessions, SyncedRead(s) PROVE AllOpened' /\ wallets \subseteq wallets'
  BY <1>27 DEF SyncedRead
<1>28. ASSUME NEW s \in Sessions, SyncedApply(s) PROVE AllOpened' /\ wallets \subseteq wallets'
  BY <1>28 DEF SyncedApply
<1>29. ASSUME NEW s \in Sessions, SyncedCount(s) PROVE AllOpened' /\ wallets \subseteq wallets'
  BY <1>29 DEF SyncedCount
<1>30. ASSUME NEW s \in Sessions, RunReturnsCanceled(s) PROVE AllOpened' /\ wallets \subseteq wallets'
  BY <1>30 DEF RunReturnsCanceled, RunReturns
<1>31. ASSUME NEW s \in Sessions, CloseSyncCanceled(s) PROVE AllOpened' /\ wallets \subseteq wallets'
  BY <1>31 DEF CloseSyncCanceled
<1>32. ASSUME NEW s \in Sessions, NotifySyncCanceled(s) PROVE AllOpened' /\ wallets \subseteq wallets'
  BY <1>32 DEF NotifySyncCanceled
<1>33. ASSUME NEW s \in Sessions, NotifySyncError(s) PROVE AllOpened' /\ wallets \subseteq wallets'
  BY <1>33 DEF NotifySyncError
<1>34. ASSUME NEW s \in Sessions, ResetSyncData(s) PROVE AllOpened' /\ wallets \subseteq wallets'
  BY <1>34 DEF ResetSyncData
<1>35. ASSUME NEW s \in Sessions, RelockWallet(s) PROVE AllOpened' /\ wallets \subseteq wallets'
  BY <1>35 DEF RelockWallet
<1>36. ASSUME NEW s \in Sessions, RunEnds(s) PROVE AllOpened' /\ wallets \subseteq wallets'
  BY <1>36 DEF RunEnds
<1>37. CASE UNCHANGED vars
  BY <1>37 DEF vars
<1> QED
  BY <1>1, <1>2, <1>3, <1>4, <1>5, <1>6, <1>7, <1>8, <1>9,
     <1>10, <1>11, <1>12, <1>13, <1>14, <1>15, <1>16, <1>17, <1>18,
     <1>19, <1>20, <1>21, <1>22, <1>23, <1>24, <1>25, <1>26, <1>27,
     <1>28, <1>29, <1>30, <1>31, <1>32, <1>33, <1>34, <1>35, <1>36,
     <1>37
  DEF Next, Calls, CallerStep, SyncerEvent, CallbackStep, RunEnd

\* SpvSync gives the syncer opened wallets.
LEMMA SnapsKnownNext ==
    TypeOK /\ AllOpened /\ wallets \subseteq wallets' /\ SnapsKnown /\ [Next]_vars => SnapsKnown'
<1> SUFFICES ASSUME TypeOK, AllOpened, wallets \subseteq wallets', SnapsKnown, [Next]_vars PROVE SnapsKnown'
  OBVIOUS
<1> USE DEF TypeOK, CallType, AllOpened, SnapsKnown, Return, Goto, Crash, dataVars, chanVars, walletVars, runVars, callVars, procVars
<1>1. CASE CancelAllContexts
  BY <1>1 DEF CancelAllContexts
<1>2. ASSUME NEW c \in Callers, CallSpvSync(c) PROVE SnapsKnown'
  BY <1>2 DEF CallSpvSync, Call
<1>3. ASSUME NEW c \in Callers, CallCancelSync(c) PROVE SnapsKnown'
  BY <1>3 DEF CallCancelSync, Call
<1>4. ASSUME NEW c \in Callers, CallRestartSpvSync(c) PROVE SnapsKnown'
  BY <1>4 DEF CallRestartSpvSync, Call
<1>5. ASSUME NEW c \in Callers, CallShutdown(c) PROVE SnapsKnown'
  BY <1>5 DEF CallShutdown, Call
<1>6. ASSUME NEW c \in Callers, CallPeerInfoRaw(c) PROVE SnapsKnown'
  BY <1>6 DEF CallPeerInfoRaw, Call
<1>7. ASSUME NEW c \in Callers, CallSaveNewWallet(c) PROVE SnapsKnown'
  BY <1>7 DEF CallSaveNewWallet, CallWithResync, Call
<1>8. ASSUME NEW c \in Callers, CallDeleteWallet(c) PROVE SnapsKnown'
  BY <1>8 DEF CallDeleteWallet, CallWithResync, Call
<1>9. ASSUME NEW c \in Callers, PeerInfoRawRead(c) PROVE SnapsKnown'
  BY <1>9 DEF PeerInfoRawRead
<1>10. ASSUME NEW c \in Callers, CancelSyncRead(c) PROVE SnapsKnown'
  BY <1>10 DEF CancelSyncRead, AfterCancel
<1>11. ASSUME NEW c \in Callers, CancelSyncFire(c) PROVE SnapsKnown'
  BY <1>11 DEF CancelSyncFire
<1>12. ASSUME NEW c \in Callers, CancelSyncRecv(c) PROVE SnapsKnown'
  BY <1>12 DEF CancelSyncRecv
<1>13. ASSUME NEW c \in Callers, CancelSyncReturn(c) PROVE SnapsKnown'
  BY <1>13 DEF CancelSyncReturn, AfterCancel
<1>14. ASSUME NEW c \in Callers, SaveNewWallet(c) PROVE SnapsKnown'
  BY <1>14 DEF SaveNewWallet, Deferred
<1>15. ASSUME NEW c \in Callers, DeleteWalletClose(c) PROVE SnapsKnown'
  BY <1>15 DEF DeleteWalletClose, Deferred
<1>16. ASSUME NEW c \in Callers, DeleteWalletUnlink(c) PROVE SnapsKnown'
  BY <1>16 DEF DeleteWalletUnlink, Deferred
<1>17. ASSUME NEW c \in Callers, ShutdownWallets(c) PROVE SnapsKnown'
  BY <1>17 DEF ShutdownWallets
<1>18. ASSUME NEW c \in Callers, SpvSyncCheckSyncing(c) PROVE SnapsKnown'
  BY <1>18 DEF SpvSyncCheckSyncing
<1>19. ASSUME NEW c \in Callers, SpvSyncCheckSynced(c) PROVE SnapsKnown'
  BY <1>19 DEF SpvSyncCheckSynced
<1>20. ASSUME NEW c \in Callers, SpvSyncInit(c) PROVE SnapsKnown'
  BY <1>20 DEF SpvSyncInit
<1>21. ASSUME NEW c \in Callers, SpvSyncPublish(c) PROVE SnapsKnown'
  BY <1>21 DEF SpvSyncPublish
<1>22. ASSUME NEW c \in Callers, SpvSyncGo(c) PROVE SnapsKnown'
  BY <1>22 DEF SpvSyncGo
<1>23. ASSUME NEW s \in Sessions, SyncerSynced(s) PROVE SnapsKnown'
  BY <1>23 DEF SyncerSynced
<1>24. ASSUME NEW s \in Sessions, SyncerUnsynced(s) PROVE SnapsKnown'
  BY <1>24 DEF SyncerUnsynced
<1>25. ASSUME NEW s \in Sessions, ProgressCallback(s) PROVE SnapsKnown'
  BY <1>25 DEF ProgressCallback
<1>26. ASSUME NEW s \in Sessions, RunReturnsError(s) PROVE SnapsKnown'
  BY <1>26 DEF RunReturnsError, RunReturns
<1>27. ASSUME NEW s \in Sessions, SyncedRead(s) PROVE SnapsKnown'
  BY <1>27 DEF SyncedRead
<1>28. ASSUME NEW s \in Sessions, SyncedApply(s) PROVE SnapsKnown'
  BY <1>28 DEF SyncedApply
<1>29. ASSUME NEW s \in Sessions, SyncedCount(s) PROVE SnapsKnown'
  BY <1>29 DEF SyncedCount
<1>30. ASSUME NEW s \in Sessions, RunReturnsCanceled(s) PROVE SnapsKnown'
  BY <1>30 DEF RunReturnsCanceled, RunReturns
<1>31. ASSUME NEW s \in Sessions, CloseSyncCanceled(s) PROVE SnapsKnown'
  BY <1>31 DEF CloseSyncCanceled
<1>32. ASSUME NEW s \in Sessions, NotifySyncCanceled(s) PROVE SnapsKnown'
  BY <1>32 DEF NotifySyncCanceled
<1>33. ASSUME NEW s \in Sessions, NotifySyncError(s) PROVE SnapsKnown'
  BY <1>33 DEF NotifySyncError
<1>34. ASSUME NEW s \in Sessions, ResetSyncData(s) PROVE SnapsKnown'
  BY <1>34 DEF ResetSyncData
<1>35. ASSUME NEW s \in Sessions, RelockWallet(s) PROVE SnapsKnown'
  BY <1>35 DEF RelockWallet
<1>36. ASSUME NEW s \in Sessions, RunEnds(s) PROVE SnapsKnown'
  BY <1>36 DEF RunEnds
<1>37. CASE UNCHANGED vars
  BY <1>37 DEF vars
<1> QED
  BY <1>1, <1>2, <1>3, <1>4, <1>5, <1>6, <1>7, <1>8, <1>9,
     <1>10, <1>11, <1>12, <1>13, <1>14, <1>15, <1>16, <1>17, <1>18,
     <1>19, <1>20, <1>21, <1>22, <1>23, <1>24, <1>25, <1>26, <1>27,
     <1>28, <1>29, <1>30, <1>31, <1>32, <1>33, <1>34, <1>35, <1>36,
     <1>37
  DEF Next, Calls, CallerStep, SyncerEvent, CallbackStep, RunEnd

\* The syncer reports only wallets it was given.
LEMMA RunsKnownNext ==
    TypeOK /\ SnapsKnown /\ wallets \subseteq wallets' /\ RunsKnown /\ [Next]_vars => RunsKnown'
<1> SUFFICES ASSUME TypeOK, SnapsKnown, wallets \subseteq wallets', RunsKnown, [Next]_vars PROVE RunsKnown'
  OBVIOUS
<1> USE DEF TypeOK, RunType, RunsKnown, Return, Goto, Crash, dataVars, chanVars, walletVars, runVars, callVars, procVars
<1>1. CASE CancelAllContexts
  BY <1>1 DEF CancelAllContexts
<1>2. ASSUME NEW c \in Callers, CallSpvSync(c) PROVE RunsKnown'
  BY <1>2 DEF CallSpvSync, Call
<1>3. ASSUME NEW c \in Callers, CallCancelSync(c) PROVE RunsKnown'
  BY <1>3 DEF CallCancelSync, Call
<1>4. ASSUME NEW c \in Callers, CallRestartSpvSync(c) PROVE RunsKnown'
  BY <1>4 DEF CallRestartSpvSync, Call
<1>5. ASSUME NEW c \in Callers, CallShutdown(c) PROVE RunsKnown'
  BY <1>5 DEF CallShutdown, Call
<1>6. ASSUME NEW c \in Callers, CallPeerInfoRaw(c) PROVE RunsKnown'
  BY <1>6 DEF CallPeerInfoRaw, Call
<1>7. ASSUME NEW c \in Callers, CallSaveNewWallet(c) PROVE RunsKnown'
  BY <1>7 DEF CallSaveNewWallet, CallWithResync, Call
<1>8. ASSUME NEW c \in Callers, CallDeleteWallet(c) PROVE RunsKnown'
  BY <1>8 DEF CallDeleteWallet, CallWithResync, Call
<1>9. ASSUME NEW c \in Callers, PeerInfoRawRead(c) PROVE RunsKnown'
  BY <1>9 DEF PeerInfoRawRead
<1>10. ASSUME NEW c \in Callers, CancelSyncRead(c) PROVE RunsKnown'
  BY <1>10 DEF CancelSyncRead, AfterCancel
<1>11. ASSUME NEW c \in Callers, CancelSyncFire(c) PROVE RunsKnown'
  BY <1>11 DEF CancelSyncFire
<1>12. ASSUME NEW c \in Callers, CancelSyncRecv(c) PROVE RunsKnown'
  BY <1>12 DEF CancelSyncRecv
<1>13. ASSUME NEW c \in Callers, CancelSyncReturn(c) PROVE RunsKnown'
  BY <1>13 DEF CancelSyncReturn, AfterCancel
<1>14. ASSUME NEW c \in Callers, SaveNewWallet(c) PROVE RunsKnown'
  BY <1>14 DEF SaveNewWallet, Deferred
<1>15. ASSUME NEW c \in Callers, DeleteWalletClose(c) PROVE RunsKnown'
  BY <1>15 DEF DeleteWalletClose, Deferred
<1>16. ASSUME NEW c \in Callers, DeleteWalletUnlink(c) PROVE RunsKnown'
  BY <1>16 DEF DeleteWalletUnlink, Deferred
<1>17. ASSUME NEW c \in Callers, ShutdownWallets(c) PROVE RunsKnown'
  BY <1>17 DEF ShutdownWallets
<1>18. ASSUME NEW c \in Callers, SpvSyncCheckSyncing(c) PROVE RunsKnown'
  BY <1>18 DEF SpvSyncCheckSyncing
<1>19. ASSUME NEW c \in Callers, SpvSyncCheckSynced(c) PROVE RunsKnown'
  BY <1>19 DEF SpvSyncCheckSynced
<1>20. ASSUME NEW c \in Callers, SpvSyncInit(c) PROVE RunsKnown'
  BY <1>20 DEF SpvSyncInit
<1>21. ASSUME NEW c \in Callers, SpvSyncPublish(c) PROVE RunsKnown'
  BY <1>21 DEF SpvSyncPublish, SnapsKnown
<1>22. ASSUME NEW c \in Callers, SpvSyncGo(c) PROVE RunsKnown'
  BY <1>22 DEF SpvSyncGo
<1>23. ASSUME NEW s \in Sessions, SyncerSynced(s) PROVE RunsKnown'
  BY <1>23 DEF SyncerSynced
<1>24. ASSUME NEW s \in Sessions, SyncerUnsynced(s) PROVE RunsKnown'
  BY <1>24 DEF SyncerUnsynced
<1>25. ASSUME NEW s \in Sessions, ProgressCallback(s) PROVE RunsKnown'
  BY <1>25 DEF ProgressCallback
<1>26. ASSUME NEW s \in Sessions, RunReturnsError(s) PROVE RunsKnown'
  BY <1>26 DEF RunReturnsError, RunReturns
<1>27. ASSUME NEW s \in Sessions, SyncedRead(s) PROVE RunsKnown'
  BY <1>27 DEF SyncedRead, NoCallback, Callbacks
<1>28. ASSUME NEW s \in Sessions, SyncedApply(s) PROVE RunsKnown'
  BY <1>28 DEF SyncedApply, Callbacks
<1>29. ASSUME NEW s \in Sessions, SyncedCount(s) PROVE RunsKnown'
  BY <1>29 DEF SyncedCount, NoCallback, Callbacks
<1>30. ASSUME NEW s \in Sessions, RunReturnsCanceled(s) PROVE RunsKnown'
  BY <1>30 DEF RunReturnsCanceled, RunReturns
<1>31. ASSUME NEW s \in Sessions, CloseSyncCanceled(s) PROVE RunsKnown'
  BY <1>31 DEF CloseSyncCanceled
<1>32. ASSUME NEW s \in Sessions, NotifySyncCanceled(s) PROVE RunsKnown'
  BY <1>32 DEF NotifySyncCanceled
<1>33. ASSUME NEW s \in Sessions, NotifySyncError(s) PROVE RunsKnown'
  BY <1>33 DEF NotifySyncError
<1>34. ASSUME NEW s \in Sessions, ResetSyncData(s) PROVE RunsKnown'
  BY <1>34 DEF ResetSyncData
<1>35. ASSUME NEW s \in Sessions, RelockWallet(s) PROVE RunsKnown'
  BY <1>35 DEF RelockWallet
<1>36. ASSUME NEW s \in Sessions, RunEnds(s) PROVE RunsKnown'
  BY <1>36 DEF RunEnds
<1>37. CASE UNCHANGED vars
  BY <1>37 DEF vars
<1> QED
  BY <1>1, <1>2, <1>3, <1>4, <1>5, <1>6, <1>7, <1>8, <1>9,
     <1>10, <1>11, <1>12, <1>13, <1>14, <1>15, <1>16, <1>17, <1>18,
     <1>19, <1>20, <1>21, <1>22, <1>23, <1>24, <1>25, <1>26, <1>27,
     <1>28, <1>29, <1>30, <1>31, <1>32, <1>33, <1>34, <1>35, <1>36,
     <1>37
  DEF Next, Calls, CallerStep, SyncerEvent, CallbackStep, RunEnd

\* A goroutine closes the channel of its own sync, once.
LEMMA OpenUntilClosedNext == SerialInv /\ OpenUntilClosed /\ [Next]_vars => OpenUntilClosed'
<1> SUFFICES ASSUME SerialInv, OpenUntilClosed, [Next]_vars PROVE OpenUntilClosed'
  OBVIOUS
<1> USE DEF SerialInv, ConnectedInv, TypeOK, RunType, ChanType, OpenUntilClosed, Return, Goto, Crash,
        dataVars, chanVars, walletVars, runVars, callVars, procVars
<1>1. CASE CancelAllContexts
  BY <1>1 DEF CancelAllContexts
<1>2. ASSUME NEW c \in Callers, CallSpvSync(c) PROVE OpenUntilClosed'
  BY <1>2 DEF CallSpvSync, Call
<1>3. ASSUME NEW c \in Callers, CallCancelSync(c) PROVE OpenUntilClosed'
  BY <1>3 DEF CallCancelSync, Call
<1>4. ASSUME NEW c \in Callers, CallRestartSpvSync(c) PROVE OpenUntilClosed'
  BY <1>4 DEF CallRestartSpvSync, Call
<1>5. ASSUME NEW c \in Callers, CallShutdown(c) PROVE OpenUntilClosed'
  BY <1>5 DEF CallShutdown, Call
<1>6. ASSUME NEW c \in Callers, CallPeerInfoRaw(c) PROVE OpenUntilClosed'
  BY <1>6 DEF CallPeerInfoRaw, Call
<1>7. ASSUME NEW c \in Callers, CallSaveNewWallet(c) PROVE OpenUntilClosed'
  BY <1>7 DEF CallSaveNewWallet, CallWithResync, Call
<1>8. ASSUME NEW c \in Callers, CallDeleteWallet(c) PROVE OpenUntilClosed'
  BY <1>8 DEF CallDeleteWallet, CallWithResync, Call
<1>9. ASSUME NEW c \in Callers, PeerInfoRawRead(c) PROVE OpenUntilClosed'
  BY <1>9 DEF PeerInfoRawRead
<1>10. ASSUME NEW c \in Callers, CancelSyncRead(c) PROVE OpenUntilClosed'
  BY <1>10 DEF CancelSyncRead, AfterCancel
<1>11. ASSUME NEW c \in Callers, CancelSyncFire(c) PROVE OpenUntilClosed'
  BY <1>11 DEF CancelSyncFire
<1>12. ASSUME NEW c \in Callers, CancelSyncRecv(c) PROVE OpenUntilClosed'
  BY <1>12 DEF CancelSyncRecv
<1>13. ASSUME NEW c \in Callers, CancelSyncReturn(c) PROVE OpenUntilClosed'
  BY <1>13 DEF CancelSyncReturn, AfterCancel
<1>14. ASSUME NEW c \in Callers, SaveNewWallet(c) PROVE OpenUntilClosed'
  BY <1>14 DEF SaveNewWallet, Deferred
<1>15. ASSUME NEW c \in Callers, DeleteWalletClose(c) PROVE OpenUntilClosed'
  BY <1>15 DEF DeleteWalletClose, Deferred
<1>16. ASSUME NEW c \in Callers, DeleteWalletUnlink(c) PROVE OpenUntilClosed'
  BY <1>16 DEF DeleteWalletUnlink, Deferred
<1>17. ASSUME NEW c \in Callers, ShutdownWallets(c) PROVE OpenUntilClosed'
  BY <1>17 DEF ShutdownWallets
<1>18. ASSUME NEW c \in Callers, SpvSyncCheckSyncing(c) PROVE OpenUntilClosed'
  BY <1>18 DEF SpvSyncCheckSyncing
<1>19. ASSUME NEW c \in Callers, SpvSyncCheckSynced(c) PROVE OpenUntilClosed'
  BY <1>19 DEF SpvSyncCheckSynced
<1>20. ASSUME NEW c \in Callers, SpvSyncInit(c) PROVE OpenUntilClosed'
  BY <1>20 DEF SpvSyncInit
<1>21. ASSUME NEW c \in Callers, SpvSyncPublish(c) PROVE OpenUntilClosed'
  <2>1. CASE ~ activeSyncData
    BY <1>21, <2>1 DEF SpvSyncPublish
  <2>2. CASE activeSyncData
    <3>1. sessions + 1 \in Sessions /\ sessions \in Nat
      BY <1>21, <2>2 DEF SpvSyncPublish
    <3>2. run[sessions + 1] = "none"
      BY <3>1 DEF FreshSessions
    <3>3. closed' = closed /\ run' = [run EXCEPT ![sessions + 1] = "ready"]
      BY <1>21, <2>2 DEF SpvSyncPublish
    <3> QED
      BY <3>1, <3>2, <3>3
  <2> QED
    BY <2>1, <2>2
<1>22. ASSUME NEW c \in Callers, SpvSyncGo(c) PROVE OpenUntilClosed'
  BY <1>22 DEF SpvSyncGo, ChecksHold, CallType
<1>23. ASSUME NEW s \in Sessions, SyncerSynced(s) PROVE OpenUntilClosed'
  BY <1>23 DEF SyncerSynced
<1>24. ASSUME NEW s \in Sessions, SyncerUnsynced(s) PROVE OpenUntilClosed'
  BY <1>24 DEF SyncerUnsynced
<1>25. ASSUME NEW s \in Sessions, ProgressCallback(s) PROVE OpenUntilClosed'
  BY <1>25 DEF ProgressCallback
<1>26. ASSUME NEW s \in Sessions, RunReturnsError(s) PROVE OpenUntilClosed'
  BY <1>26 DEF RunReturnsError, RunReturns
<1>27. ASSUME NEW s \in Sessions, SyncedRead(s) PROVE OpenUntilClosed'
  BY <1>27 DEF SyncedRead
<1>28. ASSUME NEW s \in Sessions, SyncedApply(s) PROVE OpenUntilClosed'
  BY <1>28 DEF SyncedApply
<1>29. ASSUME NEW s \in Sessions, SyncedCount(s) PROVE OpenUntilClosed'
  BY <1>29 DEF SyncedCount
<1>30. ASSUME NEW s \in Sessions, RunReturnsCanceled(s) PROVE OpenUntilClosed'
  BY <1>30 DEF RunReturnsCanceled, RunReturns
<1>31. ASSUME NEW s \in Sessions, CloseSyncCanceled(s) PROVE OpenUntilClosed'
  BY <1>31 DEF CloseSyncCanceled, OwnsHandles, Live, LiveStates
<1>32. ASSUME NEW s \in Sessions, NotifySyncCanceled(s) PROVE OpenUntilClosed'
  BY <1>32 DEF NotifySyncCanceled
<1>33. ASSUME NEW s \in Sessions, NotifySyncError(s) PROVE OpenUntilClosed'
  BY <1>33 DEF NotifySyncError
<1>34. ASSUME NEW s \in Sessions, ResetSyncData(s) PROVE OpenUntilClosed'
  BY <1>34 DEF ResetSyncData
<1>35. ASSUME NEW s \in Sessions, RelockWallet(s) PROVE OpenUntilClosed'
  BY <1>35 DEF RelockWallet
<1>36. ASSUME NEW s \in Sessions, RunEnds(s) PROVE OpenUntilClosed'
  BY <1>36 DEF RunEnds
<1>37. CASE UNCHANGED vars
  BY <1>37 DEF vars
<1> QED
  BY <1>1, <1>2, <1>3, <1>4, <1>5, <1>6, <1>7, <1>8, <1>9,
     <1>10, <1>11, <1>12, <1>13, <1>14, <1>15, <1>16, <1>17, <1>18,
     <1>19, <1>20, <1>21, <1>22, <1>23, <1>24, <1>25, <1>26, <1>27,
     <1>28, <1>29, <1>30, <1>31, <1>32, <1>33, <1>34, <1>35, <1>36,
     <1>37
  DEF Next, Calls, CallerStep, SyncerEvent, CallbackStep, RunEnd

\* Every place that could panic finds what it needs.
LEMMA NoPanicNext == QuietInv /\ [Next]_vars => NoPanic'
<1> SUFFICES ASSUME QuietInv, [Next]_vars PROVE NoPanic'
  OBVIOUS
<1> USE MaxSessionsAssumption
<1> USE DEF QuietInv, NoPanic, procVars
<1>1. CASE CancelAllContexts
  BY <1>1 DEF CancelAllContexts
<1>2. ASSUME NEW c \in Callers, CallSpvSync(c) PROVE NoPanic'
  BY <1>2 DEF CallSpvSync
<1>3. ASSUME NEW c \in Callers, CallCancelSync(c) PROVE NoPanic'
  BY <1>3 DEF CallCancelSync
<1>4. ASSUME NEW c \in Callers, CallRestartSpvSync(c) PROVE NoPanic'
  BY <1>4 DEF CallRestartSpvSync
<1>5. ASSUME NEW c \in Callers, CallShutdown(c) PROVE NoPanic'
  BY <1>5 DEF CallShutdown
<1>6. ASSUME NEW c \in Callers, CallPeerInfoRaw(c) PROVE NoPanic'
  BY <1>6 DEF CallPeerInfoRaw
<1>7. ASSUME NEW c \in Callers, CallSaveNewWallet(c) PROVE NoPanic'
  BY <1>7 DEF CallSaveNewWallet, CallWithResync
<1>8. ASSUME NEW c \in Callers, CallDeleteWallet(c) PROVE NoPanic'
  BY <1>8 DEF CallDeleteWallet, CallWithResync
<1>9. ASSUME NEW c \in Callers, PeerInfoRawRead(c) PROVE NoPanic'
  BY <1>9 DEF PeerInfoRawRead, OnlyAdding
<1>10. ASSUME NEW c \in Callers, CancelSyncRead(c) PROVE NoPanic'
  BY <1>10 DEF CancelSyncRead
<1>11. ASSUME NEW c \in Callers, CancelSyncFire(c) PROVE NoPanic'
  BY <1>11 DEF CancelSyncFire
<1>12. ASSUME NEW c \in Callers, CancelSyncRecv(c) PROVE NoPanic'
  BY <1>12 DEF CancelSyncRecv
<1>13. ASSUME NEW c \in Callers, CancelSyncReturn(c) PROVE NoPanic'
  BY <1>13 DEF CancelSyncReturn
<1>14. ASSUME NEW c \in Callers, SaveNewWallet(c) PROVE NoPanic'
  BY <1>14 DEF SaveNewWallet
<1>15. ASSUME NEW c \in Callers, DeleteWalletClose(c) PROVE NoPanic'
  BY <1>15 DEF DeleteWalletClose
<1>16. ASSUME NEW c \in Callers, DeleteWalletUnlink(c) PROVE NoPanic'
  BY <1>16 DEF DeleteWalletUnlink
<1>17. ASSUME NEW c \in Callers, ShutdownWallets(c) PROVE NoPanic'
  BY <1>17 DEF ShutdownWallets
<1>18. ASSUME NEW c \in Callers, SpvSyncCheckSyncing(c) PROVE NoPanic'
  BY <1>18 DEF SpvSyncCheckSyncing
<1>19. ASSUME NEW c \in Callers, SpvSyncCheckSynced(c) PROVE NoPanic'
  BY <1>19 DEF SpvSyncCheckSynced
<1>20. ASSUME NEW c \in Callers, SpvSyncInit(c) PROVE NoPanic'
  BY <1>20 DEF SpvSyncInit
<1>21. ASSUME NEW c \in Callers, SpvSyncPublish(c) PROVE NoPanic'
  BY <1>21 DEF SpvSyncPublish, SerialInv, ChecksHold
<1>22. ASSUME NEW c \in Callers, SpvSyncGo(c) PROVE NoPanic'
  BY <1>22 DEF SpvSyncGo, SerialInv, ConnectedInv, ChecksHold, RunsKnown, RefsValid, TypeOK, RunType, Sessions
<1>23. ASSUME NEW s \in Sessions, SyncerSynced(s) PROVE NoPanic'
  BY <1>23 DEF SyncerSynced
<1>24. ASSUME NEW s \in Sessions, SyncerUnsynced(s) PROVE NoPanic'
  BY <1>24 DEF SyncerUnsynced
<1>25. ASSUME NEW s \in Sessions, ProgressCallback(s) PROVE NoPanic'
  BY <1>25 DEF ProgressCallback, SerialInv, LiveIsConnected, Live, LiveStates
<1>26. ASSUME NEW s \in Sessions, RunReturnsError(s) PROVE NoPanic'
  BY <1>26 DEF RunReturnsError, RunReturns
<1>27. ASSUME NEW s \in Sessions, SyncedRead(s) PROVE NoPanic'
  BY <1>27 DEF SyncedRead
<1>28. ASSUME NEW s \in Sessions, SyncedApply(s) PROVE NoPanic'
  BY <1>28 DEF SyncedApply, AllOpened, RunsKnown
<1>29. ASSUME NEW s \in Sessions, SyncedCount(s) PROVE NoPanic'
  BY <1>29 DEF SyncedCount
<1>30. ASSUME NEW s \in Sessions, RunReturnsCanceled(s) PROVE NoPanic'
  BY <1>30 DEF RunReturnsCanceled, RunReturns
<1>31. ASSUME NEW s \in Sessions, CloseSyncCanceled(s) PROVE NoPanic'
  BY <1>31 DEF CloseSyncCanceled, SerialInv, OwnsHandles, OpenUntilClosed, Live, LiveStates, NoSession, Sessions
<1>32. ASSUME NEW s \in Sessions, NotifySyncCanceled(s) PROVE NoPanic'
  BY <1>32 DEF NotifySyncCanceled
<1>33. ASSUME NEW s \in Sessions, NotifySyncError(s) PROVE NoPanic'
  BY <1>33 DEF NotifySyncError
<1>34. ASSUME NEW s \in Sessions, ResetSyncData(s) PROVE NoPanic'
  BY <1>34 DEF ResetSyncData
<1>35. ASSUME NEW s \in Sessions, RelockWallet(s) PROVE NoPanic'
  BY <1>35 DEF RelockWallet, AllOpened
<1>36. ASSUME NEW s \in Sessions, RunEnds(s) PROVE NoPanic'
  BY <1>36 DEF RunEnds
<1>37. CASE UNCHANGED vars
  BY <1>37 DEF vars
<1> QED
  BY <1>1, <1>2, <1>3, <1>4, <1>5, <1>6, <1>7, <1>8, <1>9,
     <1>10, <1>11, <1>12, <1>13, <1>14, <1>15, <1>16, <1>17, <1>18,
     <1>19, <1>20, <1>21, <1>22, <1>23, <1>24, <1>25, <1>26, <1>27,
     <1>28, <1>29, <1>30, <1>31, <1>32, <1>33, <1>34, <1>35, <1>36,
     <1>37
  DEF Next, Calls, CallerStep, SyncerEvent, CallbackStep, RunEnd

LEMMA QuietInvInit == OnlyAddsWallets /\ Init => QuietInv
<1> SUFFICES ASSUME OnlyAddsWallets, Init PROVE QuietInv
  OBVIOUS
<1>1. OnlyAdding /\ AllOpened /\ SnapsKnown
  BY DEF Init, OnlyAdding, AllOpened, SnapsKnown
<1>2. RunsKnown
  BY DEF Init, RunsKnown, NoCallback
<1>3. OpenUntilClosed /\ NoPanic
  BY DEF Init, OpenUntilClosed, NoPanic
<1> QED
  BY <1>1, <1>2, <1>3, SerialInvInit DEF QuietInv

LEMMA QuietInvNext ==
    Serialized /\ OnlyAddsWallets /\ QuietInv /\ [Next]_vars => QuietInv'
<1> SUFFICES ASSUME Serialized, OnlyAddsWallets, QuietInv, [Next]_vars
             PROVE  QuietInv'
  OBVIOUS
<1>1. TypeOK /\ SerialInv'
  BY SerialInvNext DEF QuietInv, SerialInv, ConnectedInv
<1>2. OnlyAdding' /\ AllOpened' /\ wallets \subseteq wallets'
  BY <1>1, OnlyAddingNext, AllOpenedNext DEF QuietInv
<1>3. SnapsKnown' /\ RunsKnown'
  BY <1>1, <1>2, SnapsKnownNext, RunsKnownNext DEF QuietInv
<1>4. OpenUntilClosed' /\ NoPanic'
  BY OpenUntilClosedNext, NoPanicNext DEF QuietInv
<1> QED
  BY <1>1, <1>2, <1>3, <1>4 DEF QuietInv

\* An application that makes one call at a time and only starts, cancels and
\* restarts syncs and adds wallets never makes the sync code panic: no nil
\* wallet, no nil activeSyncData, no close of a nil or closed channel.
THEOREM SerialCallsNeverPanic ==
    Serialized /\ OnlyAddsWallets => (Spec => []NoPanic)
<1> SUFFICES ASSUME Serialized, OnlyAddsWallets PROVE Spec => []NoPanic
  OBVIOUS
<1>1. Init => QuietInv
  BY QuietInvInit
<1>2. QuietInv /\ [Next]_vars => QuietInv'
  BY QuietInvNext
<1>3. QuietInv => NoPanic
  BY DEF QuietInv
<1> QED
  BY <1>1, <1>2, <1>3, PTL DEF Spec

-------------------------------------------------------------------------------
(* The first sync completes with all of its wallets, on top of QuietInv.    *)

flagVars == <<walletSynced, atomicWalletsSynced, cb>>

\* A call changes none of what the syncer and its callbacks have reported.
LEMMA CallsKeepFlags ==
    ASSUME OnlyAdding, NEW c \in Callers, Calls(c) \/ CallerStep(c)
    PROVE  /\ UNCHANGED <<flagVars, synced>>
           /\ UNCHANGED <<sessions, run>> \/ SpvSyncPublish(c) \/ SpvSyncGo(c)
<1> USE DEF flagVars, dataVars, chanVars, walletVars, runVars, callVars, procVars, Crash
<1>1. CASE Calls(c)
  BY <1>1 DEF Calls, CallSpvSync, CallCancelSync, CallRestartSpvSync, CallSaveNewWallet,
              CallDeleteWallet, CallWithResync, CallShutdown, CallPeerInfoRaw
<1>2. CASE PeerInfoRawRead(c) \/ CancelSyncRead(c) \/ CancelSyncFire(c) \/ CancelSyncRecv(c)
           \/ CancelSyncReturn(c)
  BY <1>2 DEF PeerInfoRawRead, CancelSyncRead, CancelSyncFire, CancelSyncRecv, CancelSyncReturn
<1>3. CASE SaveNewWallet(c) \/ DeleteWalletClose(c) \/ DeleteWalletUnlink(c) \/ ShutdownWallets(c)
  BY <1>3 DEF SaveNewWallet, DeleteWalletClose, DeleteWalletUnlink, ShutdownWallets, OnlyAdding
<1>4. CASE SpvSyncCheckSyncing(c) \/ SpvSyncCheckSynced(c) \/ SpvSyncInit(c)
  BY <1>4 DEF SpvSyncCheckSyncing, SpvSyncCheckSynced, SpvSyncInit
<1>5. CASE SpvSyncPublish(c)
  BY <1>5 DEF SpvSyncPublish
<1>6. CASE SpvSyncGo(c)
  BY <1>6 DEF SpvSyncGo
<1> QED
  BY <1>1, <1>2, <1>3, <1>4, <1>5, <1>6 DEF CallerStep

\* Run is over for a goroutine that notifies, resets and relocks.
LEMMA EndsLeaveRun ==
    ASSUME TypeOK, NEW s \in Sessions, RunEnd(s) \/ RunReturnsError(s)
    PROVE  /\ UNCHANGED <<sessions, walletSynced>> /\ (synced' => synced)
           /\ \/ UNCHANGED <<run, atomicWalletsSynced, cb>>
              \/ /\ run' = [run EXCEPT ![s] = run'[s]] /\ run'[s] \notin {"ready", "run"}
                 /\ UNCHANGED <<cb, atomicWalletsSynced>> \/ RunReturns(s, run'[s])
<1> USE DEF dataVars, chanVars, walletVars, runVars, callVars, procVars, Crash, TypeOK, RunType
<1>1. CASE RunReturnsCanceled(s) \/ RunReturnsError(s)
  BY <1>1 DEF RunReturnsCanceled, RunReturnsError, RunReturns
<1>2. CASE CloseSyncCanceled(s)
  BY <1>2 DEF CloseSyncCanceled
<1>3. CASE NotifySyncCanceled(s) \/ NotifySyncError(s) \/ ResetSyncData(s) \/ RunEnds(s)
  BY <1>3 DEF NotifySyncCanceled, NotifySyncError, ResetSyncData, RunEnds
<1>4. CASE RelockWallet(s)
  BY <1>4 DEF RelockWallet
<1> QED
  BY <1>1, <1>2, <1>3, <1>4 DEF RunEnd

\* Only the count at the end of a Synced callback sets synced.
LEMMA SyncedIsCounted ==
    ASSUME TypeOK, OnlyAdding, [Next]_vars, ~ synced, synced'
    PROVE  \E s \in Sessions : SyncedCount(s)
<1> USE DEF dataVars, chanVars, walletVars, runVars, callVars, procVars, Crash
<1>1. ASSUME NEW c \in Callers, Calls(c) \/ CallerStep(c) PROVE FALSE
  BY <1>1, CallsKeepFlags
<1>2. ASSUME NEW s \in Sessions, RunEnd(s) \/ RunReturnsError(s) PROVE FALSE
  BY <1>2, EndsLeaveRun
<1>3. ASSUME NEW s \in Sessions, SyncerSynced(s) \/ SyncerUnsynced(s) \/ ProgressCallback(s) PROVE FALSE
  BY <1>3 DEF SyncerSynced, SyncerUnsynced, ProgressCallback
<1>4. ASSUME NEW s \in Sessions, SyncedRead(s) \/ SyncedApply(s) PROVE FALSE
  BY <1>4 DEF SyncedRead, SyncedApply
<1>5. CASE CancelAllContexts \/ UNCHANGED vars
  BY <1>5 DEF CancelAllContexts, vars
<1> QED
  BY <1>1, <1>2, <1>3, <1>4, <1>5 DEF Next, SyncerEvent, CallbackStep

\* A callback in progress is the first sync's as long as there is no other.
LEMMA FirstCallback ==
    ASSUME TypeOK, FreshSessions, NEW s \in Sessions, run[s] \in {"ready", "run"}
    PROVE  /\ sessions # 0
           /\ sessions = 1 => s = 1
BY MaxSessionsAssumption DEF TypeOK, RunType, FreshSessions, Sessions

\* Callbacks carry a flag from the syncer's to the wallet's, one wallet at a time;
\* no other step touches either while the first sync runs.
LEMMA FirstSyncFlagsNext ==
    ASSUME QuietInv, FirstSyncFlags, [Next]_vars
    PROVE  FirstSyncFlags'
<1> USE MaxSessionsAssumption
<1> USE DEF dataVars, chanVars, walletVars, runVars, callVars, procVars, Crash
<1>1. TypeOK /\ RefsValid /\ FreshSessions /\ CallbackInRun /\ OnlyAdding
  BY DEF QuietInv, SerialInv, ConnectedInv
<1>2. ASSUME UNCHANGED <<flagVars, sessions, run>> PROVE FirstSyncFlags'
  BY <1>2 DEF flagVars, FirstSyncFlags, ToClear
<1>3. ASSUME NEW c \in Callers, SpvSyncPublish(c), UNCHANGED flagVars PROVE FirstSyncFlags'
  <2>1. CASE activeSyncData
    <3>1. sessions' = sessions + 1 /\ sessions \in Nat
      BY <1>1, <1>3, <2>1 DEF SpvSyncPublish, TypeOK, RunType
    <3>2. CASE sessions = 0
      <4>1. walletSynced' = {} /\ 1 \in Sessions
        BY <1>3, <2>1, <3>2 DEF FirstSyncFlags, flagVars, SpvSyncPublish
      <4>2. cb'[1].at = "none"
        BY <1>1, <1>3, <3>2, <4>1 DEF FreshSessions, CallbackInRun, flagVars, Sessions
      <4> QED
        BY <3>1, <3>2, <4>1, <4>2 DEF FirstSyncFlags
    <3> QED
      BY <3>1, <3>2 DEF FirstSyncFlags
  <2>2. CASE ~ activeSyncData
    BY <1>2, <1>3, <2>2 DEF SpvSyncPublish
  <2> QED
    BY <2>1, <2>2
<1>4. ASSUME NEW c \in Callers, SpvSyncGo(c), UNCHANGED flagVars PROVE FirstSyncFlags'
  <2>1. CASE runWallets[ref[c]] # {}
    <3>1. run[ref[c]] = "ready" /\ ref[c] \in Sessions
      BY <1>1, <1>4 DEF SpvSyncGo, QuietInv, SerialInv, ChecksHold, RefsValid, TypeOK, RunType, Sessions
    <3>2. sessions' = sessions /\ run' = [run EXCEPT ![ref[c]] = "run"]
      BY <1>4, <2>1 DEF SpvSyncGo
    <3> QED
      BY <1>1, <1>4, <3>1, <3>2, FirstCallback DEF FirstSyncFlags, ToClear, flagVars, TypeOK, RunType
  <2>2. CASE runWallets[ref[c]] = {}
    BY <1>2, <1>4, <2>2 DEF SpvSyncGo
  <2> QED
    BY <2>1, <2>2
<1>5. ASSUME NEW c \in Callers, Calls(c) \/ CallerStep(c) PROVE FirstSyncFlags'
  BY <1>1, <1>2, <1>3, <1>4, <1>5, CallsKeepFlags DEF flagVars
<1>6. ASSUME NEW s \in Sessions, RunEnd(s) \/ RunReturnsError(s) PROVE FirstSyncFlags'
  <2>1. CASE UNCHANGED <<run, atomicWalletsSynced, cb>>
    BY <1>1, <1>2, <1>6, <2>1, EndsLeaveRun DEF flagVars
  <2>2. CASE /\ run' = [run EXCEPT ![s] = run'[s]] /\ run'[s] \notin {"ready", "run"}
             /\ UNCHANGED <<cb, atomicWalletsSynced>>
    BY <1>1, <1>6, <2>2, EndsLeaveRun DEF FirstSyncFlags, ToClear, TypeOK, RunType, Sessions
  <2>3. CASE RunReturns(s, run'[s]) /\ run'[s] \notin {"ready", "run"}
    <3>1. run[s] = "run" /\ UNCHANGED <<sessions, walletSynced>>
      BY <2>3 DEF RunReturns
    <3> QED
      BY <1>1, <2>3, <3>1, FirstCallback DEF FirstSyncFlags
  <2> QED
    BY <1>1, <1>6, <2>1, <2>2, <2>3, EndsLeaveRun
<1>7. ASSUME NEW s \in Sessions, SyncerEvent(s) \/ CallbackStep(s), cb[s].at # "none" \/ run[s] = "run"
      PROVE  FirstSyncFlags'
  <2>1. run[s] = "run"
    BY <1>1, <1>7 DEF CallbackInRun
  <2>2. sessions # 0 /\ (sessions = 1 => s = 1)
    BY <1>1, <2>1, FirstCallback
  <2>3. cb[s] \in Callbacks /\ DOMAIN cb = Sessions /\ DOMAIN atomicWalletsSynced = Sessions
    BY <1>1 DEF TypeOK, RunType
  <2>4. CASE SyncerSynced(s)
    BY <2>1, <2>2, <2>3, <2>4 DEF SyncerSynced, FirstSyncFlags, ToClear, Callbacks
  <2>5. CASE SyncerUnsynced(s)
    BY <2>1, <2>2, <2>3, <2>5 DEF SyncerUnsynced, FirstSyncFlags, ToClear, Callbacks
  <2>6. CASE SyncedRead(s)
    BY <2>1, <2>2, <2>3, <2>6 DEF SyncedRead, FirstSyncFlags, ToClear, Callbacks, NoCallback
  <2>7. CASE SyncedApply(s)
    BY <1>2, <2>1, <2>2, <2>3, <2>7 DEF SyncedApply, FirstSyncFlags, ToClear, Callbacks, flagVars
  <2>8. CASE SyncedCount(s)
    BY <2>1, <2>2, <2>3, <2>8 DEF SyncedCount, FirstSyncFlags, ToClear, Callbacks, NoCallback
  <2>9. CASE ProgressCallback(s)
    BY <1>2, <2>9 DEF ProgressCallback, flagVars
  <2> QED
    BY <1>6, <1>7, <2>4, <2>5, <2>6, <2>7, <2>8, <2>9 DEF SyncerEvent, CallbackStep
<1>8. ASSUME NEW s \in Sessions, SyncerEvent(s) \/ CallbackStep(s) PROVE FirstSyncFlags'
  <2>1. cb[s].at # "none" \/ run[s] = "run"
    BY <1>8 DEF SyncerEvent, CallbackStep, SyncerSynced, SyncerUnsynced, ProgressCallback,
                RunReturnsError, RunReturns, SyncedRead, SyncedApply, SyncedCount
  <2> QED
    BY <1>7, <1>8, <2>1
<1>9. CASE CancelAllContexts \/ UNCHANGED vars
  BY <1>2, <1>9 DEF CancelAllContexts, vars, flagVars
<1> QED
  BY <1>5, <1>6, <1>8, <1>9 DEF Next

\* The count of the first sync finds the flags of all opened wallets set, and the
\* syncer has what is flagged.
LEMMA FirstCountHasAll ==
    ASSUME QuietInv, FirstSyncFlags, [Next]_vars
    PROVE  ~ synced /\ synced' /\ sessions = 1 => AllSynced(1)
<1> SUFFICES ASSUME ~ synced, synced', sessions = 1 PROVE AllSynced(1)
  OBVIOUS
<1>1. TypeOK /\ FreshSessions /\ CallbackInRun /\ OnlyAdding
  BY DEF QuietInv, SerialInv, ConnectedInv
<1>2. PICK s \in Sessions : SyncedCount(s)
  BY <1>1, SyncedIsCounted
<1>3. run[s] = "run" /\ cb[s].at = "count"
  BY <1>1, <1>2 DEF SyncedCount, CallbackInRun
<1>4. s = 1
  BY <1>1, <1>3, FirstCallback
<1>5. wallets \cap opened \subseteq walletSynced
  BY <1>2 DEF SyncedCount, dataVars
<1>6. walletSynced \subseteq atomicWalletsSynced[1]
  BY <1>3, <1>4 DEF FirstSyncFlags, ToClear
<1> QED
  BY <1>4, <1>5, <1>6 DEF AllSynced, QuietInv, AllOpened, RunsKnown

\* The first sync of a process that starts, cancels and restarts syncs and adds
\* wallets one call at a time is counted as complete only when the syncer has
\* every wallet it was given synced, though OpenedWalletsCount looks at the
\* wallets' own flags.
THEOREM FirstSyncHasAllWallets ==
    Serialized /\ OnlyAddsWallets => (Spec => FirstSyncCompletes)
<1> SUFFICES ASSUME Serialized, OnlyAddsWallets PROVE Spec => FirstSyncCompletes
  OBVIOUS
<1>1. Init => FirstSyncInv
  BY QuietInvInit DEF FirstSyncInv, FirstSyncFlags, Init
<1>2. FirstSyncInv /\ [Next]_vars => FirstSyncInv'
  BY QuietInvNext, FirstSyncFlagsNext DEF FirstSyncInv
<1>3. FirstSyncInv /\ [Next]_vars => [~ synced /\ synced' /\ sessions = 1 => AllSynced(1)]_vars
  BY FirstCountHasAll DEF FirstSyncInv
<1> QED
  BY <1>1, <1>2, <1>3, PTL DEF Spec, FirstSyncCompletes

-------------------------------------------------------------------------------
(* The refinement of SyncService.                                           *)

serviceVars == <<IF synced THEN "synced" ELSE IF syncing THEN "syncing" ELSE "off",
                 cancelSync, sessions>>
ServiceNext == [Service!Next]_serviceVars

\* SpvSyncPublish is Start, the last step of a Synced callback is Complete,
\* resetSyncData is Stop, and every other step is invisible.
LEMMA ServiceStep == SerialInv /\ [Next]_vars => ServiceNext
<1> SUFFICES ASSUME SerialInv, [Next]_vars PROVE ServiceNext
  OBVIOUS
<1> USE DEF ServiceNext, serviceVars, Service!Next, Crash, dataVars, runVars
<1>1. CASE CancelAllContexts
  BY <1>1 DEF CancelAllContexts
<1>2. ASSUME NEW c \in Callers, CallSpvSync(c) PROVE ServiceNext
  BY <1>2 DEF CallSpvSync
<1>3. ASSUME NEW c \in Callers, CallCancelSync(c) PROVE ServiceNext
  BY <1>3 DEF CallCancelSync
<1>4. ASSUME NEW c \in Callers, CallRestartSpvSync(c) PROVE ServiceNext
  BY <1>4 DEF CallRestartSpvSync
<1>5. ASSUME NEW c \in Callers, CallShutdown(c) PROVE ServiceNext
  BY <1>5 DEF CallShutdown
<1>6. ASSUME NEW c \in Callers, CallPeerInfoRaw(c) PROVE ServiceNext
  BY <1>6 DEF CallPeerInfoRaw
<1>7. ASSUME NEW c \in Callers, CallSaveNewWallet(c) PROVE ServiceNext
  BY <1>7 DEF CallSaveNewWallet, CallWithResync
<1>8. ASSUME NEW c \in Callers, CallDeleteWallet(c) PROVE ServiceNext
  BY <1>8 DEF CallDeleteWallet, CallWithResync
<1>9. ASSUME NEW c \in Callers, PeerInfoRawRead(c) PROVE ServiceNext
  BY <1>9 DEF PeerInfoRawRead
<1>10. ASSUME NEW c \in Callers, CancelSyncRead(c) PROVE ServiceNext
  BY <1>10 DEF CancelSyncRead
<1>11. ASSUME NEW c \in Callers, CancelSyncFire(c) PROVE ServiceNext
  BY <1>11 DEF CancelSyncFire
<1>12. ASSUME NEW c \in Callers, CancelSyncRecv(c) PROVE ServiceNext
  BY <1>12 DEF CancelSyncRecv
<1>13. ASSUME NEW c \in Callers, CancelSyncReturn(c) PROVE ServiceNext
  BY <1>13 DEF CancelSyncReturn
<1>14. ASSUME NEW c \in Callers, SaveNewWallet(c) PROVE ServiceNext
  BY <1>14 DEF SaveNewWallet
<1>15. ASSUME NEW c \in Callers, DeleteWalletClose(c) PROVE ServiceNext
  BY <1>15 DEF DeleteWalletClose
<1>16. ASSUME NEW c \in Callers, DeleteWalletUnlink(c) PROVE ServiceNext
  BY <1>16 DEF DeleteWalletUnlink
<1>17. ASSUME NEW c \in Callers, ShutdownWallets(c) PROVE ServiceNext
  BY <1>17 DEF ShutdownWallets
<1>18. ASSUME NEW c \in Callers, SpvSyncCheckSyncing(c) PROVE ServiceNext
  BY <1>18 DEF SpvSyncCheckSyncing
<1>19. ASSUME NEW c \in Callers, SpvSyncCheckSynced(c) PROVE ServiceNext
  BY <1>19 DEF SpvSyncCheckSynced
<1>20. ASSUME NEW c \in Callers, SpvSyncInit(c) PROVE ServiceNext
  BY <1>20 DEF SpvSyncInit
<1>21. ASSUME NEW c \in Callers, SpvSyncPublish(c) PROVE ServiceNext
  BY <1>21 DEF SpvSyncPublish, Service!Start, SerialInv, ConnectedInv, TypeOK, RunType, ChecksHold, IsConnectedToDecredNetwork
<1>22. ASSUME NEW c \in Callers, SpvSyncGo(c) PROVE ServiceNext
  BY <1>22 DEF SpvSyncGo
<1>23. ASSUME NEW s \in Sessions, SyncerSynced(s) PROVE ServiceNext
  BY <1>23 DEF SyncerSynced
<1>24. ASSUME NEW s \in Sessions, SyncerUnsynced(s) PROVE ServiceNext
  BY <1>24 DEF SyncerUnsynced
<1>25. ASSUME NEW s \in Sessions, ProgressCallback(s) PROVE ServiceNext
  BY <1>25 DEF ProgressCallback
<1>26. ASSUME NEW s \in Sessions, RunReturnsError(s) PROVE ServiceNext
  BY <1>26 DEF RunReturnsError, RunReturns
<1>27. ASSUME NEW s \in Sessions, SyncedRead(s) PROVE ServiceNext
  BY <1>27 DEF SyncedRead
<1>28. ASSUME NEW s \in Sessions, SyncedApply(s) PROVE ServiceNext
  BY <1>28 DEF SyncedApply
<1>29. ASSUME NEW s \in Sessions, SyncedCount(s) PROVE ServiceNext
  BY <1>29 DEF SyncedCount, Service!Complete, SerialInv, ConnectedInv, CallbackInRun, LiveIsConnected, Live, LiveStates, IsConnectedToDecredNetwork
<1>30. ASSUME NEW s \in Sessions, RunReturnsCanceled(s) PROVE ServiceNext
  BY <1>30 DEF RunReturnsCanceled, RunReturns
<1>31. ASSUME NEW s \in Sessions, CloseSyncCanceled(s) PROVE ServiceNext
  BY <1>31 DEF CloseSyncCanceled
<1>32. ASSUME NEW s \in Sessions, NotifySyncCanceled(s) PROVE ServiceNext
  BY <1>32 DEF NotifySyncCanceled
<1>33. ASSUME NEW s \in Sessions, NotifySyncError(s) PROVE ServiceNext
  BY <1>33 DEF NotifySyncError
<1>34. ASSUME NEW s \in Sessions, ResetSyncData(s) PROVE ServiceNext
  BY <1>34 DEF ResetSyncData, Service!Stop, NoSession, SerialInv, LiveIsConnected, Live, LiveStates, IsConnectedToDecredNetwork
<1>35. ASSUME NEW s \in Sessions, RelockWallet(s) PROVE ServiceNext
  BY <1>35 DEF RelockWallet
<1>36. ASSUME NEW s \in Sessions, RunEnds(s) PROVE ServiceNext
  BY <1>36 DEF RunEnds
<1>37. CASE UNCHANGED vars
  BY <1>37 DEF vars
<1> QED
  BY <1>1, <1>2, <1>3, <1>4, <1>5, <1>6, <1>7, <1>8, <1>9,
     <1>10, <1>11, <1>12, <1>13, <1>14, <1>15, <1>16, <1>17, <1>18,
     <1>19, <1>20, <1>21, <1>22, <1>23, <1>24, <1>25, <1>26, <1>27,
     <1>28, <1>29, <1>30, <1>31, <1>32, <1>33, <1>34, <1>35, <1>36,
     <1>37
  DEF Next, Calls, CallerStep, SyncerEvent, CallbackStep, RunEnd

\* With one call at a time MultiWallet's syncing implements SyncService: a sync
\* starts only when none is on, can be canceled from its start to its end,
\* completes only while on, and gives up its handle when it ends.
THEOREM Refinement == Serialized => (Spec => ImplementsSyncService)
<1> SUFFICES ASSUME Serialized PROVE Spec => ImplementsSyncService
  OBVIOUS
<1>1. Init => SerialInv
  BY SerialInvInit
<1>2. SerialInv /\ [Next]_vars => SerialInv'
  BY SerialInvNext
<1>3. Init => Service!Init
  BY DEF Init, Service!Init, NoSession
<1>4. SerialInv /\ [Next]_vars => ServiceNext
  BY ServiceStep
<1> QED
  BY <1>1, <1>2, <1>3, <1>4, PTL
  DEF Spec, ImplementsSyncService, Service!Spec, ServiceNext, serviceVars
===============================================================================
