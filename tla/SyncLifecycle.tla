---------------------------- MODULE SyncLifecycle ----------------------------
(***************************************************************************)
(* The life of an SPV sync in MultiWallet (sync.go, syncnotification.go,   *)
(* multiwallet.go): the application's calls SpvSync, CancelSync,           *)
(* RestartSpvSync, saveNewWallet, DeleteWallet, Shutdown and PeerInfoRaw,  *)
(* interleaved with the goroutine SpvSync starts, the Synced callbacks the *)
(* syncer makes from inside Run, and resetSyncData when Run has returned.  *)
(*                                                                         *)
(* A critical section of syncData.mu is one step, and so is every unlocked *)
(* read or write of a shared field.  A sync (one call of syncer.Run) is    *)
(* named by a number s in Sessions; the context, the cancel function and   *)
(* the syncCanceled channel that SpvSync makes for it share that name, and *)
(* NoSession is the nil function and the nil channel.                      *)
(***************************************************************************)
EXTENDS Integers, FiniteSets

CONSTANTS
    Callers,      \* application goroutines that call the API
    Wallets,      \* wallet ids
    MaxSessions,  \* bound: syncs started in a behaviour
    Ops,          \* the API calls the application makes
    Faults,       \* what may go wrong: "run_error", "invalid_peers", "setup"
    Serialized    \* TRUE when the application makes one call at a time

AllOps == {"SpvSync", "CancelSync", "RestartSpvSync", "saveNewWallet",
           "DeleteWallet", "Shutdown", "PeerInfoRaw"}

ASSUME MaxSessionsAssumption == MaxSessions \in Nat
ASSUME OpsAssumption == Ops \subseteq AllOps
ASSUME SerializedAssumption == Serialized \in BOOLEAN

Sessions  == 1 .. MaxSessions
NoSession == 0
SessionOrNil == Sessions \cup {NoSession}

VARIABLES
    \* syncData, sync.go:20
    syncing, synced,         \* the two flags IsSyncing and IsSynced report
    restartSyncRequested,
    cancelSync,              \* the cancel function stored, a session or nil
    syncCanceled,            \* the channel stored, a session or nil
    activeSyncData,          \* TRUE iff the embedded pointer is not nil
    \* channels and contexts
    closed,                  \* the syncCanceled channels that are closed
    canceled,                \* the contexts that are canceled
    \* MultiWallet.wallets and the wallets themselves
    wallets,                 \* ids in the map mw.wallets
    opened,                  \* ids of the wallets whose loader is loaded
    walletSynced,            \* ids of the wallets with wallet.synced set
    \* the goroutines that SpvSync starts
    sessions,                \* number of syncs started so far
    run,                     \* where each of those goroutines is
    runWallets,              \* the wallets given to NewSyncer
    atomicWalletsSynced,     \* the syncer's own flags, spv/sync.go:38
    cb,                      \* the Synced callback in progress
    relock,                  \* wallets resetSyncData has still to visit
    \* the callers
    pc, op,                  \* where a caller is, and in which call
    arg,                     \* the wallet it creates or deletes
    ref,                     \* the cancel function or channel it has read
    snap,                    \* the wallets map it has built for NewSyncer
    resync,                  \* a deferred SpvSync is pending
    \* the process
    shutdown,                \* "no", "signaled", "canceled"
    notice,                  \* what the progress listener was last told
    panic                    \* a goroutine panicked: the process is gone

dataVars   == <<syncing, synced, restartSyncRequested, cancelSync,
                syncCanceled, activeSyncData>>
chanVars   == <<closed, canceled>>
walletVars == <<wallets, opened, walletSynced>>
runVars    == <<sessions, run, runWallets, atomicWalletsSynced, cb, relock>>
callVars   == <<pc, op, arg, ref, snap, resync>>
procVars   == <<shutdown, notice, panic>>
vars == <<dataVars, chanVars, walletVars, runVars, callVars, procVars>>

RunStates == {"none", "ready", "run", "canceled", "closed", "error",
              "reset", "relock", "done"}
CallStates == {"idle", "cancel", "fire", "recv", "wait", "body", "unlink",
               "check", "check2", "init", "publish", "go", "peers"}
Callbacks == [at: {"none", "read", "apply", "count"},
              w: SUBSET Wallets, val: BOOLEAN]
NoCallback == [at |-> "none", w |-> {}, val |-> FALSE]

DataType ==
    /\ syncing \in BOOLEAN /\ synced \in BOOLEAN
    /\ restartSyncRequested \in BOOLEAN
    /\ cancelSync \in SessionOrNil /\ syncCanceled \in SessionOrNil
    /\ activeSyncData \in BOOLEAN

ChanType == closed \subseteq Sessions /\ canceled \subseteq Sessions

WalletType ==
    /\ wallets \subseteq Wallets /\ opened \subseteq Wallets
    /\ walletSynced \subseteq Wallets

RunType ==
    /\ sessions \in 0 .. MaxSessions
    /\ run \in [Sessions -> RunStates]
    /\ runWallets \in [Sessions -> SUBSET Wallets]
    /\ atomicWalletsSynced \in [Sessions -> SUBSET Wallets]
    /\ cb \in [Sessions -> Callbacks]
    /\ relock \in [Sessions -> SUBSET Wallets]

CallType ==
    /\ pc \in [Callers -> CallStates]
    /\ op \in [Callers -> AllOps \cup {"none"}]
    /\ arg \in [Callers -> SUBSET Wallets]
    /\ ref \in [Callers -> SessionOrNil]
    /\ snap \in [Callers -> SUBSET Wallets]
    /\ resync \in [Callers -> BOOLEAN]

ProcType ==
    /\ shutdown \in {"no", "signaled", "canceled"}
    /\ notice \in {"none", "started", "canceled", "willRestart", "error"}
    /\ panic \in BOOLEAN

\* Every variable keeps its type.
TypeOK == DataType /\ ChanType /\ WalletType /\ RunType /\ CallType /\ ProcType

-------------------------------------------------------------------------------
(* Initial state: a MultiWallet that NewMultiWallet has just returned, with *)
(* at least one opened wallet and no sync.                                  *)

Init ==
    /\ syncing = FALSE /\ synced = FALSE /\ restartSyncRequested = FALSE
    /\ cancelSync = NoSession /\ syncCanceled = NoSession
    /\ activeSyncData = FALSE
    /\ closed = {} /\ canceled = {}
    /\ wallets \in (SUBSET Wallets) \ {{}}
    /\ opened = wallets /\ walletSynced = {}
    /\ sessions = 0
    /\ run = [s \in Sessions |-> "none"]
    /\ runWallets = [s \in Sessions |-> {}]
    /\ atomicWalletsSynced = [s \in Sessions |-> {}]
    /\ cb = [s \in Sessions |-> NoCallback]
    /\ relock = [s \in Sessions |-> {}]
    /\ pc = [c \in Callers |-> "idle"]
    /\ op = [c \in Callers |-> "none"]
    /\ arg = [c \in Callers |-> {}]
    /\ ref = [c \in Callers |-> NoSession]
    /\ snap = [c \in Callers |-> {}]
    /\ resync = [c \in Callers |-> FALSE]
    /\ shutdown = "no" /\ notice = "none" /\ panic = FALSE

IsConnectedToDecredNetwork == syncing \/ synced

\* A nil dereference or a bad close: the process dies, nothing else changes.
Crash ==
    /\ panic' = TRUE
    /\ UNCHANGED <<dataVars, chanVars, walletVars, runVars, callVars,
                   shutdown, notice>>

-------------------------------------------------------------------------------
(* The calls.  Call(c, o) is the common part of starting call o: the caller *)
(* is free, the application allows the call now, and the bound on sessions  *)
(* leaves room for a sync in every call that is in progress.                *)

Call(c, o) ==
    /\ o \in Ops
    /\ pc[c] = "idle"
    /\ Serialized => \A d \in Callers : pc[d] = "idle"
    /\ shutdown = "no"
    /\ \/ o \in {"CancelSync", "Shutdown", "PeerInfoRaw"}
       \/ sessions + Cardinality({d \in Callers : pc[d] # "idle"}) < MaxSessions
    /\ op' = [op EXCEPT ![c] = o]

\* The call of c returns: its local variables are gone.
Return(c) ==
    /\ pc' = [pc EXCEPT ![c] = "idle"]
    /\ op' = [op EXCEPT ![c] = "none"]
    /\ arg' = [arg EXCEPT ![c] = {}]
    /\ ref' = [ref EXCEPT ![c] = NoSession]
    /\ snap' = [snap EXCEPT ![c] = {}]
    /\ resync' = [resync EXCEPT ![c] = FALSE]

\* The call of c goes on at l.
Goto(c, l) ==
    /\ pc' = [pc EXCEPT ![c] = l]
    /\ UNCHANGED <<op, arg, ref, snap, resync>>

\* SpvSync starts with its check of IsSyncing.
CallSpvSync(c) ==
    /\ Call(c, "SpvSync")
    /\ pc' = [pc EXCEPT ![c] = "check"]
    /\ UNCHANGED <<dataVars, chanVars, walletVars, runVars, procVars,
                   arg, ref, snap, resync>>

CallCancelSync(c) ==
    /\ Call(c, "CancelSync")
    /\ pc' = [pc EXCEPT ![c] = "cancel"]
    /\ UNCHANGED <<dataVars, chanVars, walletVars, runVars, procVars,
                   arg, ref, snap, resync>>

CallRestartSpvSync(c) ==
    /\ Call(c, "RestartSpvSync")
    /\ restartSyncRequested' = TRUE
    /\ pc' = [pc EXCEPT ![c] = "cancel"]
    /\ UNCHANGED <<syncing, synced, cancelSync, syncCanceled, activeSyncData,
                   chanVars, walletVars, runVars, procVars,
                   arg, ref, snap, resync>>

\* saveNewWallet and DeleteWallet cancel the sync first, and leave a deferred
\* SpvSync behind, only if IsConnectedToDecredNetwork.
CallWithResync(c, o, w) ==
    /\ Call(c, o)
    /\ arg' = [arg EXCEPT ![c] = {w}]
    /\ resync' = [resync EXCEPT ![c] = IsConnectedToDecredNetwork]
    /\ pc' = [pc EXCEPT ![c] =
                IF IsConnectedToDecredNetwork THEN "cancel" ELSE "body"]
    /\ UNCHANGED <<dataVars, chanVars, walletVars, runVars, procVars, ref, snap>>

CallSaveNewWallet(c) ==
    \E w \in Wallets \ wallets : CallWithResync(c, "saveNewWallet", w)

CallDeleteWallet(c) ==
    \E w \in wallets : CallWithResync(c, "DeleteWallet", w)

\* Shutdown hands its signal to the goroutine of listenForShutdown, then goes
\* on with CancelSync.
CallShutdown(c) ==
    /\ Call(c, "Shutdown")
    /\ shutdown' = "signaled"
    /\ pc' = [pc EXCEPT ![c] = "cancel"]
    /\ UNCHANGED <<dataVars, chanVars, walletVars, runVars, notice, panic,
                   arg, ref, snap, resync>>

\* listenForShutdown: every context made so far is canceled.
CancelAllContexts ==
    /\ shutdown = "signaled"
    /\ shutdown' = "canceled"
    /\ canceled' = canceled \cup 1 .. sessions
    /\ UNCHANGED <<dataVars, closed, walletVars, runVars, callVars,
                   notice, panic>>

\* PeerInfoRaw returns ErrNotConnected unless the flags say connected.
CallPeerInfoRaw(c) ==
    /\ Call(c, "PeerInfoRaw")
    /\ IsConnectedToDecredNetwork
    /\ pc' = [pc EXCEPT ![c] = "peers"]
    /\ UNCHANGED <<dataVars, chanVars, walletVars, runVars, procVars,
                   arg, ref, snap, resync>>

\* syncer := mw.syncData.syncer, through the embedded pointer, without mu.
PeerInfoRawRead(c) ==
    /\ pc[c] = "peers"
    /\ IF activeSyncData
       THEN /\ Return(c)
            /\ UNCHANGED <<dataVars, chanVars, walletVars, runVars, procVars>>
       ELSE Crash

-------------------------------------------------------------------------------
(* CancelSync, in the four steps another goroutine can come between.        *)

\* Where a call goes on once its CancelSync has returned.
AfterCancel(c) ==
    CASE op[c] = "CancelSync"     -> Return(c)
      [] op[c] = "RestartSpvSync" -> Goto(c, "check")
      [] OTHER                    -> Goto(c, "body")

\* cancelSync is read under mu; nothing more to do when it is nil.
CancelSyncRead(c) ==
    /\ pc[c] = "cancel"
    /\ IF cancelSync = NoSession
       THEN AfterCancel(c)
       ELSE /\ pc' = [pc EXCEPT ![c] = "fire"]
            /\ ref' = [ref EXCEPT ![c] = cancelSync]
            /\ UNCHANGED <<op, arg, snap, resync>>
    /\ UNCHANGED <<dataVars, chanVars, walletVars, runVars, procVars>>

\* The cancel function that was read cancels its own context.
CancelSyncFire(c) ==
    /\ pc[c] = "fire"
    /\ canceled' = canceled \cup {ref[c]}
    /\ Goto(c, "recv")
    /\ UNCHANGED <<dataVars, closed, walletVars, runVars, procVars>>

\* The operand of <-mw.syncData.syncCanceled is evaluated, without mu.
CancelSyncRecv(c) ==
    /\ pc[c] = "recv"
    /\ ref' = [ref EXCEPT ![c] = syncCanceled]
    /\ pc' = [pc EXCEPT ![c] = "wait"]
    /\ UNCHANGED <<dataVars, chanVars, walletVars, runVars, procVars,
                   op, arg, snap, resync>>

\* The receive returns when that channel is closed; on nil it never does.
CancelSyncReturn(c) ==
    /\ pc[c] = "wait"
    /\ ref[c] \in closed
    /\ AfterCancel(c)
    /\ UNCHANGED <<dataVars, chanVars, walletVars, runVars, procVars>>

-------------------------------------------------------------------------------
(* What saveNewWallet, DeleteWallet and Shutdown do after CancelSync.       *)

\* The deferred SpvSync, or the return.
Deferred(c) == IF resync[c] THEN Goto(c, "check") ELSE Return(c)

\* The database batch of saveNewWallet: it is rolled back on an error, and
\* the wallet is added to the map when it commits.
SaveNewWallet(c) ==
    /\ pc[c] = "body" /\ op[c] = "saveNewWallet"
    /\ \/ /\ wallets' = wallets \cup arg[c]
          /\ opened' = opened \cup arg[c]
       \/ "setup" \in Faults /\ UNCHANGED <<wallets, opened>>
    /\ Deferred(c)
    /\ UNCHANGED <<dataVars, chanVars, walletSynced, runVars, procVars>>

\* deleteWallet closes the wallet, or returns an error (wrong passphrase).
DeleteWalletClose(c) ==
    /\ pc[c] = "body" /\ op[c] = "DeleteWallet"
    /\ \/ /\ arg[c] \subseteq opened
          /\ opened' = opened \ arg[c]
          /\ Goto(c, "unlink")
       \/ /\ "setup" \in Faults \/ ~ (arg[c] \subseteq opened)
          /\ UNCHANGED opened
          /\ IF opened # {} THEN Deferred(c) ELSE Return(c)
    /\ UNCHANGED <<dataVars, chanVars, wallets, walletSynced, runVars, procVars>>

\* DeleteStruct, then delete(mw.wallets, walletID), then the deferred call,
\* which starts a sync only if some wallet is still opened.
DeleteWalletUnlink(c) ==
    /\ pc[c] = "unlink"
    /\ \/ /\ wallets' = wallets \ arg[c]
          /\ walletSynced' = walletSynced \ arg[c]
       \/ "setup" \in Faults /\ UNCHANGED <<wallets, walletSynced>>
    /\ IF opened # {} THEN Deferred(c) ELSE Return(c)
    /\ UNCHANGED <<dataVars, chanVars, opened, runVars, procVars>>

\* Shutdown closes every wallet.
ShutdownWallets(c) ==
    /\ pc[c] = "body" /\ op[c] = "Shutdown"
    /\ opened' = {}
    /\ Return(c)
    /\ UNCHANGED <<dataVars, chanVars, wallets, walletSynced, runVars, procVars>>

-------------------------------------------------------------------------------
(* SpvSync.                                                                 *)

\* IsSyncing and IsSynced each take mu on their own; either refuses the call
\* with ErrSyncAlreadyInProgress.
SpvSyncCheckSyncing(c) ==
    /\ pc[c] = "check"
    /\ IF syncing THEN Return(c) ELSE Goto(c, "check2")
    /\ UNCHANGED <<dataVars, chanVars, walletVars, runVars, procVars>>

\* Mutant: only IsSyncing is asked.
SpvSyncCheckSynced_NoCheck(c) ==
    /\ pc[c] = "check2"
    /\ Goto(c, "init")
    /\ UNCHANGED <<dataVars, chanVars, walletVars, runVars, procVars>>

SpvSyncCheckSynced(c) ==
    /\ pc[c] = "check2"
    /\ \/ synced /\ Return(c)
       \/ ~ synced /\ "invalid_peers" \in Faults /\ Return(c)
       \/ ~ synced /\ Goto(c, "init")
    /\ UNCHANGED <<dataVars, chanVars, walletVars, runVars, procVars>>

\* Mutant: initActiveSyncData is not called.
SpvSyncInit_NoData(c) ==
    /\ pc[c] = "init"
    /\ snap' = [snap EXCEPT ![c] = wallets]
    /\ pc' = [pc EXCEPT ![c] = "publish"]
    /\ UNCHANGED <<dataVars, chanVars, walletVars, runVars, procVars,
                   op, arg, ref, resync>>

\* initActiveSyncData, and the wallets for the new syncer.  The map holds a
\* nil wallet for a wallet that is not opened; {} stands for a map that Run
\* cannot start from, because it is empty or holds a nil wallet.
SpvSyncInit(c) ==
    /\ pc[c] = "init"
    /\ activeSyncData' = TRUE
    /\ snap' = [snap EXCEPT ![c] =
                  IF wallets \subseteq opened THEN wallets ELSE {}]
    /\ pc' = [pc EXCEPT ![c] = "publish"]
    /\ UNCHANGED <<syncing, synced, restartSyncRequested, cancelSync,
                   syncCanceled, chanVars, walletVars, runVars, procVars,
                   op, arg, ref, resync>>

\* contextWithShutdownCancel and the critical section that stores the new
\* sync; its last line stores the syncer through the embedded pointer.
SpvSyncPublish(c) ==
    /\ pc[c] = "publish"
    /\ IF activeSyncData
       THEN LET s == sessions + 1 IN
            /\ s \in Sessions
            /\ sessions' = s
            /\ restartSyncRequested' = FALSE
            /\ syncing' = TRUE
            /\ cancelSync' = s
            /\ syncCanceled' = s
            /\ run' = [run EXCEPT ![s] = "ready"]
            /\ runWallets' = [runWallets EXCEPT ![s] = snap[c]]
            /\ ref' = [ref EXCEPT ![c] = s]
            /\ pc' = [pc EXCEPT ![c] = "go"]
            /\ UNCHANGED <<synced, activeSyncData, chanVars, walletVars,
                           atomicWalletsSynced, cb, relock, procVars,
                           op, arg, snap, resync>>
       ELSE Crash

\* OnSyncStarted, then the goroutine: Run takes a chain tip from
\* its wallets first.
SpvSyncGo(c) ==
    /\ pc[c] = "go"
    /\ IF runWallets[ref[c]] = {}
       THEN Crash
       ELSE /\ notice' = "started"
            /\ run' = [run EXCEPT ![ref[c]] = "run"]
            /\ Return(c)
            /\ UNCHANGED <<dataVars, chanVars, walletVars, sessions,
                           runWallets, atomicWalletsSynced, cb, relock,
                           shutdown, panic>>

-------------------------------------------------------------------------------
(* Inside Run: the catch-up part of startupSync, which atomicCatchUpTryLock *)
(* keeps to one peer at a time, reports a wallet as synced or unsynced when *)
(* it flips the syncer's own flag.  Run returns only after startupSync.     *)

SyncerSynced(s) ==
    /\ run[s] = "run" /\ cb[s].at = "none"
    /\ \E w \in runWallets[s] \ atomicWalletsSynced[s] :
          /\ atomicWalletsSynced' = [atomicWalletsSynced EXCEPT ![s] = @ \cup {w}]
          /\ cb' = [cb EXCEPT ![s] = [at |-> "read", w |-> {w}, val |-> TRUE]]
    /\ UNCHANGED <<dataVars, chanVars, walletVars, callVars, procVars,
                   sessions, run, runWallets, relock>>

\* A new peer brought headers with a rescan point: the wallet is behind.
SyncerUnsynced(s) ==
    /\ run[s] = "run" /\ cb[s].at = "none"
    /\ \E w \in atomicWalletsSynced[s] :
          /\ atomicWalletsSynced' = [atomicWalletsSynced EXCEPT ![s] = @ \ {w}]
          /\ cb' = [cb EXCEPT ![s] = [at |-> "read", w |-> {w}, val |-> FALSE]]
    /\ UNCHANGED <<dataVars, chanVars, walletVars, callVars, procVars,
                   sessions, run, runWallets, relock>>

\* synced(walletID, synced): once all wallets are synced, another TRUE only
\* starts indexing again.
SyncedRead(s) ==
    /\ cb[s].at = "read"
    /\ cb' = [cb EXCEPT ![s] =
                IF synced /\ cb[s].val THEN NoCallback
                ELSE [cb[s] EXCEPT !.at = "apply"]]
    /\ UNCHANGED <<dataVars, chanVars, walletVars, callVars, procVars,
                   sessions, run, runWallets, atomicWalletsSynced, relock>>

\* wallet := mw.wallets[walletID]; its flag; wallet.Internal().Locked().
SyncedApply(s) ==
    /\ cb[s].at = "apply"
    /\ IF cb[s].w \subseteq wallets \cap opened
       THEN /\ walletSynced' = IF cb[s].val THEN walletSynced \cup cb[s].w
                               ELSE walletSynced \ cb[s].w
            /\ cb' = [cb EXCEPT ![s].at = "count"]
            /\ UNCHANGED <<dataVars, chanVars, wallets, opened, callVars,
                           procVars, sessions, run, runWallets,
                           atomicWalletsSynced, relock>>
       ELSE Crash

\* Mutant: the first synced wallet completes the sync.
SyncedCount_AnyWallet(s) ==
    /\ cb[s].at = "count"
    /\ cb' = [cb EXCEPT ![s] = NoCallback]
    /\ syncing' = (syncing /\ walletSynced = {})
    /\ synced' = (synced \/ walletSynced # {})
    /\ UNCHANGED <<restartSyncRequested, cancelSync, syncCanceled,
                   activeSyncData, chanVars, walletVars, callVars, procVars,
                   sessions, run, runWallets, atomicWalletsSynced, relock>>

\* Mutant: mu is still read-locked when the callback wants to write.
SyncedCount_Upgrade(s) ==
    /\ cb[s].at = "count"
    /\ ~ (wallets \cap opened \subseteq walletSynced)
    /\ cb' = [cb EXCEPT ![s] = NoCallback]
    /\ UNCHANGED <<dataVars, chanVars, walletVars, callVars, procVars,
                   sessions, run, runWallets, atomicWalletsSynced, relock>>

\* OpenedWalletsCount() == SyncedWalletsCount() completes the sync.
SyncedCount(s) ==
    /\ cb[s].at = "count"
    /\ cb' = [cb EXCEPT ![s] = NoCallback]
    /\ IF wallets \cap opened \subseteq walletSynced
       THEN syncing' = FALSE /\ synced' = TRUE
       ELSE UNCHANGED <<syncing, synced>>
    /\ UNCHANGED <<restartSyncRequested, cancelSync, syncCanceled,
                   activeSyncData, chanVars, walletVars, callVars, procVars,
                   sessions, run, runWallets, atomicWalletsSynced, relock>>

\* A progress callback (fetchCFiltersStarted and the like) writes through the
\* embedded pointer without asking whether a sync is on.
ProgressCallback(s) ==
    /\ run[s] = "run"
    /\ ~ activeSyncData
    /\ Crash

-------------------------------------------------------------------------------
(* Run returns, and the goroutine of SpvSync finishes.                      *)

\* Run is over, and so is its syncer.
RunReturns(s, outcome) ==
    /\ run[s] = "run" /\ cb[s].at = "none"
    /\ run' = [run EXCEPT ![s] = outcome]
    /\ runWallets' = [runWallets EXCEPT ![s] = {}]
    /\ atomicWalletsSynced' = [atomicWalletsSynced EXCEPT ![s] = {}]
    /\ UNCHANGED <<dataVars, chanVars, walletVars, callVars, procVars,
                   sessions, cb, relock>>

RunReturnsCanceled(s) ==
    /\ s \in canceled
    /\ RunReturns(s, "canceled")

RunReturnsError(s) ==
    /\ "run_error" \in Faults
    /\ RunReturns(s, "error")

\* Mutant: the channel is never closed.
CloseSyncCanceled_NoClose(s) ==
    /\ run[s] = "canceled"
    /\ run' = [run EXCEPT ![s] = "closed"]
    /\ UNCHANGED <<dataVars, chanVars, walletVars, callVars, procVars,
                   sessions, runWallets, atomicWalletsSynced, cb, relock>>

\* close(mw.syncData.syncCanceled), whatever channel the field holds now.
CloseSyncCanceled(s) ==
    /\ run[s] = "canceled"
    /\ IF syncCanceled # NoSession /\ syncCanceled \notin closed
       THEN /\ closed' = closed \cup {syncCanceled}
            /\ run' = [run EXCEPT ![s] = "closed"]
            /\ UNCHANGED <<dataVars, canceled, walletVars, callVars, procVars,
                           sessions, runWallets, atomicWalletsSynced, cb, relock>>
       ELSE Crash

NotifySyncCanceled(s) ==
    /\ run[s] = "closed"
    /\ notice' = IF restartSyncRequested THEN "willRestart" ELSE "canceled"
    /\ run' = [run EXCEPT ![s] = "reset"]
    /\ UNCHANGED <<dataVars, chanVars, walletVars, callVars, shutdown, panic,
                   sessions, runWallets, atomicWalletsSynced, cb, relock>>

NotifySyncError(s) ==
    /\ run[s] = "error"
    /\ notice' = "error"
    /\ run' = [run EXCEPT ![s] = "reset"]
    /\ UNCHANGED <<dataVars, chanVars, walletVars, callVars, shutdown, panic,
                   sessions, runWallets, atomicWalletsSynced, cb, relock>>

\* Mutant: cancelSync keeps the function of the sync that ended.
ResetSyncData_KeepCancel(s) ==
    /\ run[s] = "reset"
    /\ syncing' = FALSE /\ synced' = FALSE
    /\ syncCanceled' = NoSession
    /\ activeSyncData' = FALSE
    /\ run' = [run EXCEPT ![s] = "relock"]
    /\ relock' = [relock EXCEPT ![s] = wallets]
    /\ UNCHANGED <<restartSyncRequested, cancelSync, chanVars, walletVars,
                   callVars, procVars, sessions, runWallets,
                   atomicWalletsSynced, cb>>

\* Mutant: only syncing is cleared.
ResetSyncData_KeepSynced(s) ==
    /\ run[s] = "reset"
    /\ syncing' = FALSE
    /\ cancelSync' = NoSession /\ syncCanceled' = NoSession
    /\ activeSyncData' = FALSE
    /\ run' = [run EXCEPT ![s] = "relock"]
    /\ relock' = [relock EXCEPT ![s] = wallets]
    /\ UNCHANGED <<restartSyncRequested, synced, chanVars, walletVars,
                   callVars, procVars, sessions, runWallets,
                   atomicWalletsSynced, cb>>

\* The critical section of resetSyncData.
ResetSyncData(s) ==
    /\ run[s] = "reset"
    /\ syncing' = FALSE /\ synced' = FALSE
    /\ cancelSync' = NoSession /\ syncCanceled' = NoSession
    /\ activeSyncData' = FALSE
    /\ run' = [run EXCEPT ![s] = "relock"]
    /\ relock' = [relock EXCEPT ![s] = wallets]
    /\ UNCHANGED <<restartSyncRequested, chanVars, walletVars, callVars,
                   procVars, sessions, runWallets, atomicWalletsSynced, cb>>

\* Its loop over mw.wallets: LockWallet dereferences wallet.Internal(); a
\* wallet deleted from the map in the meantime is not visited.
RelockWallet(s) ==
    /\ run[s] = "relock"
    /\ \E w \in relock[s] :
          IF w \in wallets \ opened
          THEN Crash
          ELSE /\ relock' = [relock EXCEPT ![s] = @ \ {w}]
               /\ UNCHANGED <<dataVars, chanVars, walletVars, callVars,
                              procVars, sessions, run, runWallets,
                              atomicWalletsSynced, cb>>

RunEnds(s) ==
    /\ run[s] = "relock" /\ relock[s] = {}
    /\ run' = [run EXCEPT ![s] = "done"]
    /\ UNCHANGED <<dataVars, chanVars, walletVars, callVars, procVars,
                   sessions, runWallets, atomicWalletsSynced, cb, relock>>

-------------------------------------------------------------------------------
Calls(c) ==
    \/ CallSpvSync(c) \/ CallCancelSync(c) \/ CallRestartSpvSync(c)
    \/ CallSaveNewWallet(c) \/ CallDeleteWallet(c) \/ CallShutdown(c)
    \/ CallPeerInfoRaw(c)

CallerStep(c) ==
    \/ PeerInfoRawRead(c)
    \/ CancelSyncRead(c) \/ CancelSyncFire(c) \/ CancelSyncRecv(c)
    \/ CancelSyncReturn(c)
    \/ SaveNewWallet(c) \/ DeleteWalletClose(c) \/ DeleteWalletUnlink(c)
    \/ ShutdownWallets(c)
    \/ SpvSyncCheckSyncing(c) \/ SpvSyncCheckSynced(c) \/ SpvSyncInit(c)
    \/ SpvSyncPublish(c) \/ SpvSyncGo(c)

CallbackStep(s) == SyncedRead(s) \/ SyncedApply(s) \/ SyncedCount(s)

RunEnd(s) ==
    \/ RunReturnsCanceled(s) \/ CloseSyncCanceled(s) \/ NotifySyncCanceled(s)
    \/ NotifySyncError(s) \/ ResetSyncData(s) \/ RelockWallet(s) \/ RunEnds(s)

SyncerEvent(s) ==
    \/ SyncerSynced(s) \/ SyncerUnsynced(s) \/ ProgressCallback(s)
    \/ RunReturnsError(s)

Next ==
    /\ ~ panic
    /\ \/ CancelAllContexts
       \/ \E c \in Callers : Calls(c) \/ CallerStep(c)
       \/ \E s \in Sessions : SyncerEvent(s) \/ CallbackStep(s) \/ RunEnd(s)

Spec == Init /\ [][Next]_vars

(***************************************************************************)
(* The Go scheduler runs every goroutine that can go on, and Run returns   *)
(* once its context is canceled: strong fairness, since startupSync may    *)
(* make more callbacks, but not for ever, before it notices.  Nothing      *)
(* makes the application call, the peers send or Run fail.                 *)
(***************************************************************************)
Fairness ==
    /\ WF_vars(~ panic /\ CancelAllContexts)
    /\ \A c \in Callers : WF_vars(~ panic /\ CallerStep(c))
    /\ \A s \in Sessions : /\ WF_vars(~ panic /\ CallbackStep(s))
                           /\ WF_vars(~ panic /\ RunEnd(s))
                           /\ SF_vars(~ panic /\ RunReturnsCanceled(s))

FairSpec == Spec /\ Fairness

-------------------------------------------------------------------------------
(* Properties.                                                              *)

\* The goroutine of s was started (or is about to be) and has not yet reset
\* the sync data.
LiveStates == {"ready", "run", "canceled", "closed", "error", "reset"}
Live(s) == run[s] \in LiveStates

\* IsConnectedToDecredNetwork never outlives the sync it reports: whatever
\* the interleaving of calls, callbacks and resets (two syncs at once
\* included), the flags are set only while some sync goroutine has still to
\* run resetSyncData.  If they could be left set, SpvSync would refuse every
\* later call.
ConnectedOnlyWhileLive == IsConnectedToDecredNetwork => \E s \in Sessions : Live(s)

\* With one call at a time there is one sync at a time, and cancelSync and
\* syncCanceled are that sync's own, so CancelSync stops the sync that runs.
OwnsHandles ==
    \A s \in Sessions : Live(s) =>
        /\ cancelSync = s /\ syncCanceled = s
        /\ \A t \in Sessions : Live(t) => t = s

\* With one call at a time a running sync is always reported as syncing or
\* synced, so that saveNewWallet and DeleteWallet cancel it before they touch
\* the wallets, and its progress callbacks find their activeSyncData.
LiveIsConnected ==
    \A s \in Sessions : Live(s) => IsConnectedToDecredNetwork /\ activeSyncData

\* No nil dereference, no close of a nil or closed channel.
NoPanic == ~ panic

\* A CancelSync that found the channel of a sync still before its reset
\* returns, unless Run ended with an error of its own, of which the listener
\* was told.
CancelSyncWoken ==
    \A c \in Callers :
        (pc[c] = "wait" /\ ref[c] # NoSession)
            ~> (pc[c] # "wait" \/ notice = "error" \/ panic)

\* A canceled sync ends: its goroutine gets through callbacks, notifications
\* and reset, whatever the callers do.
CanceledRunEnds ==
    \A s \in Sessions :
        (run[s] = "run" /\ s \in canceled) ~> (run[s] = "done" \/ panic)

\* In the first sync of a process the service is reported as synced only at a
\* moment when the syncer has every one of its wallets synced, although the
\* decision is taken from the wallets' flags, three steps after the syncer
\* set its own.
AllSynced(s) == run[s] = "run" => runWallets[s] \subseteq atomicWalletsSynced[s]
FirstSyncCompletes ==
    [][~ synced /\ synced' /\ sessions = 1 => AllSynced(1)]_vars

\* Seen from outside, with one call at a time, this is SyncService.
Service == INSTANCE SyncService WITH
    phase   <- IF synced THEN "synced" ELSE IF syncing THEN "syncing" ELSE "off",
    current <- cancelSync,
    started <- sessions
ImplementsSyncService == Service!Spec

-------------------------------------------------------------------------------
(* The inductive strengthening of ConnectedOnlyWhileLive.                   *)

\* A cancel function is called, and a goroutine started, for a sync that was
\* really made.
RefsValid ==
    \A c \in Callers : /\ pc[c] = "fire" => ref[c] \in Sessions
                       /\ pc[c] = "go" => ref[c] \in 1 .. sessions

\* No goroutine belongs to a sync that is still to be made.
FreshSessions == \A s \in Sessions : s > sessions => run[s] = "none"

\* A Synced callback is only ever in progress inside Run.
CallbackInRun == \A s \in Sessions : cb[s].at # "none" => run[s] = "run"

ConnectedInv == TypeOK /\ RefsValid /\ FreshSessions /\ CallbackInRun
                       /\ ConnectedOnlyWhileLive

-------------------------------------------------------------------------------
(* The inductive strengthening of OwnsHandles and LiveIsConnected, when     *)
(* Serialized.                                                              *)

OneCaller ==
    \A c, d \in Callers : pc[c] # "idle" /\ pc[d] # "idle" => c = d

\* What SpvSync has found in its checks still holds when it acts on them.
ChecksHold ==
    \A c \in Callers :
        /\ pc[c] = "check2" => ~ syncing
        /\ pc[c] \in {"init", "publish"} => ~ IsConnectedToDecredNetwork
        /\ pc[c] = "publish" => activeSyncData
        /\ pc[c] = "go" => run[ref[c]] = "ready"

SerialInv == ConnectedInv /\ OneCaller /\ ChecksHold /\ OwnsHandles
                          /\ LiveIsConnected

(* The strengthening of NoPanic, when Serialized and wallets are only added. *)

OnlyAddsWallets == Ops \cap {"DeleteWallet", "Shutdown", "PeerInfoRaw"} = {}

OnlyAdding ==
    \A c \in Callers : /\ op[c] \notin {"DeleteWallet", "Shutdown", "PeerInfoRaw"}
                       /\ pc[c] \notin {"unlink", "peers"}

AllOpened == wallets = opened /\ wallets # {}

SnapsKnown ==
    \A c \in Callers : /\ snap[c] \subseteq wallets
                       /\ pc[c] = "publish" => snap[c] # {}

RunsKnown ==
    \A s \in Sessions : /\ runWallets[s] \subseteq wallets
                        /\ atomicWalletsSynced[s] \subseteq wallets
                        /\ cb[s].w \subseteq wallets
                        /\ run[s] = "ready" => runWallets[s] # {}

\* The channel of a sync is open until its own goroutine closes it.
OpenUntilClosed ==
    \A s \in closed : run[s] \notin {"none", "ready", "run", "canceled"}

QuietInv == SerialInv /\ OnlyAdding /\ AllOpened /\ SnapsKnown /\ RunsKnown
                      /\ OpenUntilClosed /\ NoPanic

(* The strengthening of FirstSyncCompletes. *)

\* The wallets whose flag a callback in progress is going to clear.
ToClear(s) == IF cb[s].at \in {"read", "apply"} /\ ~ cb[s].val THEN cb[s].w ELSE {}

\* In the first sync no wallet has a flag left from another one: what is flagged
\* is what the syncer has synced, but for the callback in progress.
FirstSyncFlags ==
    /\ sessions = 0 => walletSynced = {}
    /\ sessions = 1 /\ run[1] \in {"ready", "run"} =>
         /\ walletSynced \subseteq atomicWalletsSynced[1] \cup ToClear(1)
         /\ cb[1].at # "none" /\ cb[1].val => cb[1].w \subseteq atomicWalletsSynced[1]

FirstSyncInv == QuietInv /\ FirstSyncFlags
===============================================================================
