------------------------------- MODULE Services -------------------------------
(***************************************************************************)
(* The long running services a caller starts and stops beside the sync:    *)
(* the rescan (rescan.go) and the account mixer (account_mixer.go), with   *)
(* the calls that unlock and lock the wallet around them (wallet.go), the  *)
(* check that stops a mixer with nothing to mix                            *)
(* (txandblocknotifications.go) and the contexts that Shutdown cancels     *)
(* (utils.go, wallet.go, multiwallet.go).                                  *)
(*                                                                         *)
(* One wallet is enough: a mixer is a matter of its wallet alone, and a    *)
(* rescan uses only fields of the MultiWallet.  Each service is a          *)
(* goroutine that registers its context, publishes its cancel function in  *)
(* a field, works, and clears the field; none of these fields knows whose  *)
(* cancel function it holds.  What a rescan does to the index is in module *)
(* TxIndex, CancelSync in SyncLifecycle, how Shutdown closes the wallets   *)
(* in WalletManager.                                                       *)
(***************************************************************************)
EXTENDS Naturals, FiniteSets

CONSTANTS
    Rescans,     \* bound: rescan goroutines at a time
    Mixers,      \* bound: mixer goroutines at a time
    CallerWaits  \* callers wait for a service to be set up before the next call

None == "none"

ServicesDistinct == /\ Rescans \cap Mixers = {}
                    /\ None \notin Rescans \cup Mixers
                    /\ CallerWaits \in BOOLEAN

ASSUME ServicesAssumption == ServicesDistinct

VARIABLES
    \* fields of MultiWallet and of the wallet
    rescanning, cancelRescan,   \* syncData, under syncData.mu
    cancelAccountMixer,         \* not under any lock
    mixerCfg,                   \* AccountMixerConfigSet and the two accounts
    cancelFuncs,                \* contexts registered with mw or the wallet
    \* the wallet
    lockedBy,                   \* "" when unlocked, or who locked it
    mixable,                    \* the unmixed account has a mixable output
    \* goroutines
    pc,                         \* where each service is
    canceled,                   \* services whose context is canceled
    stop,                       \* where the StopAccountMixer calls are
    user,                       \* where the caller is
    shutdown,                   \* where Shutdown is
    fired,                      \* goroutines that have canceled their contexts
    panic                       \* a goroutine panicked: the process is gone

fieldVars  == <<rescanning, cancelRescan, cancelAccountMixer>>
mixingVars == <<mixerCfg, lockedBy, mixable>>
ctxVars    == <<cancelFuncs, canceled>>
procVars   == <<shutdown, fired, panic>>
servicesVars == <<fieldVars, mixingVars, ctxVars, pc, stop, user, procVars>>

Services == Rescans \cup Mixers
Stoppers == {"user", "listener"}

ServicesInit ==
    /\ rescanning = FALSE /\ cancelRescan = None /\ cancelAccountMixer = None
    /\ mixerCfg \in BOOLEAN /\ mixable \in BOOLEAN /\ lockedBy = "LockWallet"
    /\ cancelFuncs = {} /\ canceled = {}
    /\ pc = [x \in Services |-> "none"]
    /\ stop = [a \in Stoppers |-> "idle"] /\ user = "idle"
    /\ shutdown = "no" /\ fired = {} /\ panic = FALSE

Goto(x, label) == pc' = [pc EXCEPT ![x] = label]

\* No service is between the call that starts it and the fields it sets.
Settled == \A x \in Services : pc[x] \notin {"start", "registered", "unlock"}

\* A caller makes its next call; a patient one lets services settle first.
Idle == user = "idle" /\ ~panic /\ (CallerWaits => Settled)

\* A goroutine is started for service x, with a context of its own.
Start(x) ==
    /\ pc[x] = "none" /\ Goto(x, "start")
    /\ canceled' = canceled \ {x} /\ cancelFuncs' = cancelFuncs \ {x}

\* Mutant: the context is made without being kept for the shutdown.
Unregistered(x) == cancelFuncs

\* contextWithShutdownCancel and shutdownContextWithCancel.
Registered(x) == cancelFuncs \cup {x}

\* The goroutine makes its context, before it publishes the cancel function.
Registers(x) ==
    /\ pc[x] = "start" /\ ~panic /\ Goto(x, "registered")
    /\ cancelFuncs' = Registered(x)
    /\ UNCHANGED <<fieldVars, mixingVars, canceled, stop, user, procVars>>

----------------------------------------------------------------------------
(* Rescan. *)

\* The check of RescanBlocksFromHeight (IsSynced is TxIndex's affair).
MayRescan == ~rescanning

RescanBlocksFromHeight(r) ==
    /\ Idle /\ MayRescan /\ Start(r)
    /\ UNCHANGED <<fieldVars, mixingVars, stop, user, procVars>>

RescanStarted(r) ==
    /\ pc[r] = "registered" /\ ~panic /\ Goto(r, "run")
    /\ rescanning' = TRUE /\ cancelRescan' = r
    /\ UNCHANGED <<cancelAccountMixer, mixingVars, ctxVars, stop, user, procVars>>

\* The loop over the progress channel ends with an error or a canceled context,
\* or with the channel; the transactions are then indexed.
RescanStops(r) ==
    /\ pc[r] = "run" /\ ~panic /\ Goto(r, "return")
    /\ UNCHANGED <<fieldVars, mixingVars, ctxVars, stop, user, procVars>>

RescanScanned(r) ==
    /\ pc[r] = "run" /\ ~panic /\ Goto(r, "index")
    /\ UNCHANGED <<fieldVars, mixingVars, ctxVars, stop, user, procVars>>

RescanIndexed(r) ==
    /\ pc[r] = "index" /\ ~panic /\ Goto(r, "return")
    /\ UNCHANGED <<fieldVars, mixingVars, ctxVars, stop, user, procVars>>

\* The deferred function.
RescanEnded(r) ==
    /\ pc[r] = "return" /\ ~panic /\ Goto(r, "none")
    /\ rescanning' = FALSE /\ cancelRescan' = None
    /\ UNCHANGED <<cancelAccountMixer, mixingVars, ctxVars, stop, user, procVars>>

CancelRescan ==
    /\ canceled' = canceled \cup (Rescans \cap {cancelRescan})
    /\ cancelRescan' = None

CallCancelRescan ==
    /\ Idle /\ cancelRescan # None /\ CancelRescan
    /\ UNCHANGED <<rescanning, cancelAccountMixer, mixingVars, cancelFuncs, pc,
                   stop, user, procVars>>

----------------------------------------------------------------------------
(* Locking the wallet. *)

IsAccountMixerActive == cancelAccountMixer # None

\* Mutant: the mixer is not looked at.
AlwaysLocks == "lock"

\* LockWallet looks at the mixer first, and locks in a second step.
LockWalletChecks == IF IsAccountMixerActive THEN "idle" ELSE "lock"

CallLockWallet ==
    /\ Idle /\ user' = LockWalletChecks
    /\ UNCHANGED <<fieldVars, mixingVars, ctxVars, pc, stop, procVars>>

LockWalletLocks ==
    /\ user = "lock" /\ ~panic /\ user' = "idle" /\ lockedBy' = "LockWallet"
    /\ UNCHANGED <<fieldVars, mixerCfg, mixable, ctxVars, pc, stop, procVars>>

\* UnlockWallet with the right passphrase.  SetAccountMixerConfig unlocks only
\* to verify it; its settings are of no account to any other step of the call.
UnlockWallet(next) ==
    /\ Idle /\ lockedBy' = "" /\ user' = next
    /\ UNCHANGED <<fieldVars, mixable, ctxVars, pc, stop, procVars>>

CreateMixerAccounts == ~mixerCfg /\ UnlockWallet("create") /\ UNCHANGED mixerCfg

SetAccountMixerConfig == UnlockWallet("verified") /\ mixerCfg' = TRUE

\* CastVotes unlocks the wallet itself to sign the votes.
CastVotes == UnlockWallet("vote") /\ UNCHANGED mixerCfg

\* The deferred or following LockWallet; the accounts may not be created.
UnlockedCallEnds ==
    /\ user \in {"create", "verified"} /\ ~panic /\ user' = LockWalletChecks
    /\ \/ user = "create" /\ mixerCfg' = TRUE
       \/ UNCHANGED mixerCfg
    /\ UNCHANGED <<fieldVars, lockedBy, mixable, ctxVars, pc, stop, procVars>>

\* The deferred wallet.Lock of CastVotes does not go through LockWallet.
CastVotesEnds ==
    /\ user = "vote" /\ ~panic /\ user' = "idle" /\ lockedBy' = "CastVotes"
    /\ UNCHANGED <<fieldVars, mixerCfg, mixable, ctxVars, pc, stop, procVars>>

ClearMixerConfig ==
    /\ Idle /\ mixerCfg /\ mixerCfg' = FALSE
    /\ UNCHANGED <<fieldVars, lockedBy, mixable, ctxVars, pc, stop, user, procVars>>

----------------------------------------------------------------------------
(* The account mixer. *)

\* readCSPPConfig finds both accounts.
ReadCSPPConfig == mixerCfg

\* A connected and configured wallet with a mixable output is unlocked.  Nothing
\* refuses a second mixer: a patient caller waits for OnAccountMixerEnded.
StartAccountMixer(m) ==
    /\ Idle /\ ReadCSPPConfig /\ mixable /\ lockedBy' = ""
    /\ CallerWaits => \A n \in Mixers : pc[n] = "none"
    /\ Start(m)
    /\ UNCHANGED <<fieldVars, mixerCfg, mixable, stop, user, procVars>>

MixerStarted(m) ==
    /\ pc[m] = "registered" /\ ~panic /\ Goto(m, "unlock")
    /\ cancelAccountMixer' = m
    /\ UNCHANGED <<rescanning, cancelRescan, mixingVars, ctxVars, stop, user, procVars>>

\* tb.Run unlocks the wallet again, and runs.
MixerUnlocks(m) ==
    /\ pc[m] = "unlock" /\ ~panic /\ Goto(m, "run") /\ lockedBy' = ""
    /\ UNCHANGED <<fieldVars, mixerCfg, mixable, ctxVars, stop, user, procVars>>

\* tb.Run returns: its context is canceled, or it cannot go on.
MixerReturns(m) ==
    /\ pc[m] \in {"unlock", "run"} /\ ~panic /\ Goto(m, "return")
    /\ UNCHANGED <<fieldVars, mixingVars, ctxVars, stop, user, procVars>>

MixerClears(m) ==
    /\ pc[m] = "return" /\ ~panic /\ Goto(m, "notify")
    /\ cancelAccountMixer' = None
    /\ UNCHANGED <<rescanning, cancelRescan, mixingVars, ctxVars, stop, user, procVars>>

MixerEnded(m) ==
    /\ pc[m] = "notify" /\ ~panic /\ Goto(m, "none")
    /\ UNCHANGED <<fieldVars, mixingVars, ctxVars, stop, user, procVars>>

\* StopAccountMixer, called by the user or by checkWalletMixers.
StopAccountMixer ==
    /\ Idle /\ user' = "stop" /\ stop' = [stop EXCEPT !["user"] = "check"]
    /\ UNCHANGED <<fieldVars, mixingVars, ctxVars, pc, procVars>>

\* A block was attached, and the active mixer has nothing left to mix.
CheckWalletMixers ==
    /\ stop["listener"] = "idle" /\ ~panic /\ IsAccountMixerActive /\ ~mixable
    /\ stop' = [stop EXCEPT !["listener"] = "check"]
    /\ UNCHANGED <<fieldVars, mixingVars, ctxVars, pc, user, procVars>>

StopReturns(a) ==
    /\ stop' = [stop EXCEPT ![a] = "idle"]
    /\ user' = IF a = "user" THEN "idle" ELSE user

StopChecks(a) ==
    /\ stop[a] = "check" /\ ~panic
    /\ IF IsAccountMixerActive
       THEN stop' = [stop EXCEPT ![a] = "call"] /\ UNCHANGED user
       ELSE StopReturns(a)
    /\ UNCHANGED <<fieldVars, mixingVars, ctxVars, pc, procVars>>

\* Mutant: the handle is dropped without being called.
HandleDropped == canceled

HandleCalled == canceled \cup {cancelAccountMixer}

\* The handle is read again to be called, and may be gone by now.
StopCalls(a) ==
    /\ stop[a] = "call" /\ ~panic /\ StopReturns(a)
    /\ IF IsAccountMixerActive
       THEN canceled' = HandleCalled /\ UNCHANGED panic
       ELSE panic' = TRUE /\ UNCHANGED canceled
    /\ cancelAccountMixer' = None
    /\ UNCHANGED <<rescanning, cancelRescan, mixingVars, cancelFuncs, pc,
                   shutdown, fired>>

\* Transactions change what the unmixed account holds.
MixableChanges ==
    /\ mixable' = ~mixable /\ ~panic /\ shutdown = "no"
    /\ UNCHANGED <<fieldVars, mixerCfg, lockedBy, ctxVars, pc, stop, user, procVars>>

----------------------------------------------------------------------------
(* Shutdown. *)

\* The goroutine of listenForShutdown has taken the signal.
Shutdown ==
    /\ Idle /\ shutdown = "no" /\ shutdown' = "signaled" /\ user' = "shutdown"
    /\ UNCHANGED <<fieldVars, mixingVars, ctxVars, pc, stop, fired, panic>>

\* A listening goroutine cancels the contexts collected so far, once: the
\* mixers' are kept by the MultiWallet, the rescans' by the wallet.
Fires(g, running) ==
    /\ g \notin fired /\ ~panic /\ fired' = fired \cup {g}
    /\ canceled' = canceled \cup (cancelFuncs \cap running)
    /\ UNCHANGED <<fieldVars, mixingVars, cancelFuncs, pc, stop, user, shutdown, panic>>

ListenForShutdown == shutdown # "no" /\ Fires("mw", Mixers)

WalletListens == shutdown = "wallets" /\ Fires("wallet", Rescans)

\* Shutdown goes on with CancelRescan and CancelSync, and then signals every
\* wallet.
ShutdownWallets ==
    /\ shutdown = "signaled" /\ ~panic /\ shutdown' = "wallets"
    /\ CancelRescan
    /\ UNCHANGED <<rescanning, cancelAccountMixer, mixingVars, cancelFuncs, pc,
                   stop, user, fired, panic>>

----------------------------------------------------------------------------
RescanNext(r) ==
    \/ Registers(r) \/ RescanStarted(r) \/ RescanStops(r) \/ RescanScanned(r)
    \/ RescanIndexed(r) \/ RescanEnded(r)

MixerNext(m) ==
    \/ Registers(m) \/ MixerStarted(m) \/ MixerUnlocks(m) \/ MixerReturns(m)
    \/ MixerClears(m) \/ MixerEnded(m)

CallerNext ==
    \/ \E r \in Rescans : RescanBlocksFromHeight(r)
    \/ \E m \in Mixers : StartAccountMixer(m)
    \/ CallCancelRescan \/ CallLockWallet \/ LockWalletLocks
    \/ CreateMixerAccounts \/ SetAccountMixerConfig \/ UnlockedCallEnds
    \/ CastVotes \/ CastVotesEnds \/ ClearMixerConfig \/ StopAccountMixer
    \/ Shutdown

ShutdownNext == ListenForShutdown \/ ShutdownWallets \/ WalletListens

ServicesNext ==
    \/ CallerNext \/ ShutdownNext \/ CheckWalletMixers \/ MixableChanges
    \/ \E a \in Stoppers : StopChecks(a) \/ StopCalls(a)
    \/ \E r \in Rescans : RescanNext(r)
    \/ \E m \in Mixers : MixerNext(m)

ServicesSpec == ServicesInit /\ [][ServicesNext]_servicesVars

\* Goroutines are scheduled, a canceled rescan or mixer returns, and indexing
\* ends.  A rescan or a mixer that is not canceled may go on for ever.
Fairness ==
    /\ WF_servicesVars(ShutdownNext)
    /\ \A r \in Rescans :
          /\ WF_servicesVars(Registers(r) \/ RescanStarted(r) \/ RescanIndexed(r)
                             \/ RescanEnded(r))
          /\ WF_servicesVars(r \in canceled /\ RescanStops(r))
    /\ \A m \in Mixers :
          /\ WF_servicesVars(Registers(m) \/ MixerStarted(m) \/ MixerUnlocks(m)
                             \/ MixerClears(m) \/ MixerEnded(m))
          /\ WF_servicesVars(m \in canceled /\ MixerReturns(m))

ServicesFairSpec == ServicesSpec /\ Fairness

----------------------------------------------------------------------------
(* Properties. *)

\* A service at work can be stopped: cancelRescan or cancelAccountMixer is its
\* own unless its context is canceled already, and IsRescanning tells of a
\* rescan, whatever ends and stops (of the user, of checkWalletMixers) of
\* earlier services went before.
ServicesAreStoppable ==
    CallerWaits =>
        /\ \A r \in Rescans : pc[r] \in {"run", "index"} =>
              rescanning /\ (cancelRescan = r \/ r \in canceled)
        /\ \A m \in Mixers : pc[m] = "run" =>
              cancelAccountMixer = m \/ m \in canceled

\* LockWallet never locks the wallet under a mixer that is at work and not
\* canceled, neither directly nor at the end of a call that unlocked it.
MixingIsUnlocked ==
    CallerWaits => \A m \in Mixers : pc[m] = "run" /\ m \notin canceled =>
                       lockedBy # "LockWallet"

\* Once Shutdown is called, every rescan and every mixer comes to its end.
ShutdownEndsServices ==
    shutdown # "no" ~> (panic \/ \A x \in Services : pc[x] = "none")
==============================================================================
