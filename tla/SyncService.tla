----------------------------- MODULE SyncService ------------------------------
(***************************************************************************)
(* What MultiWallet promises about syncing to an application that makes    *)
(* one call at a time: there is at most one sync, it has a handle by which *)
(* it can be canceled from its start to its end, it may complete, and it   *)
(* ends before the next one starts.                                        *)
(***************************************************************************)
EXTENDS Integers

VARIABLES
    phase,    \* "off", "syncing" or "synced", as IsSyncing and IsSynced say
    current,  \* the sync that CancelSync would cancel, 0 when there is none
    started   \* number of syncs started

Init == phase = "off" /\ current = 0 /\ started = 0

Start ==
    /\ phase = "off"
    /\ phase' = "syncing"
    /\ started' = started + 1
    /\ current' = started'

Complete ==
    /\ phase = "syncing"
    /\ phase' = "synced"
    /\ UNCHANGED <<current, started>>

Stop ==
    /\ phase # "off"
    /\ phase' = "off"
    /\ current' = 0
    /\ UNCHANGED started

Next == Start \/ Complete \/ Stop

Spec == Init /\ [][Next]_<<phase, current, started>>
===============================================================================
