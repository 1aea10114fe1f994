---------------------------- MODULE WalletManager ----------------------------
(***************************************************************************)
(* The wallets of MultiWallet and where they live (multiwallet.go,         *)
(* multiwallet_utils.go, wallet.go, internal/loader/loader.go): the record *)
(* of a wallet in wallets.db, its directory with wallet.db, and the Wallet *)
(* in memory with its loader.  Wallets are created, linked, opened,        *)
(* renamed and deleted, their passphrase is changed and their seed         *)
(* verified; a startup passphrase guards their opening; the process may    *)
(* end at any step and is started again.                                   *)
(*                                                                         *)
(* A call that touches more than one place is several steps, with a crash  *)
(* or an error possible between them.  The application makes one such call *)
(* at a time.  A wallet.db is told from every other by the number of the   *)
(* call that made it (its owner); the one to be linked has owner 0.  Names *)
(* are left out: a name that exists ends a call before it changes anything. *)
(* storm and bolt (a transaction is committed as a whole), the file system *)
(* and dcrwallet are external.                                             *)
(***************************************************************************)
EXTENDS Naturals, FiniteSets

CONSTANTS
    MaxCreations,   \* bound: calls that create or link a wallet
    MaxCrashes      \* bound: crashes

ASSUME BoundsAssumption == MaxCreations \in Nat /\ MaxCrashes \in Nat

Ids == 1 .. MaxCreations
Passphrases == {"p1", "p2"}
Linked == 0
LinkedPass == "p1"                     \* passphrase of the wallet to be linked
StartupPassphrases == {"", "s"}        \* "" is none

VARIABLES
    \* on disk
    db,             \* wallets.db: [id -> record of the wallet]
    lastId,         \* wallets.db: the counter of ids
    files,          \* <id>/wallet.db: [id -> owner and passphrase]
    backups,        \* owners of the wallet.db of directories moved out of the way
    source,         \* wallet.db to be linked is where it was
    startup,        \* wallets.db: what the hash of the startup passphrase is of,
                    \* and IsStartupSecuritySet
    \* in memory
    running,
    wallets,        \* mw.wallets
    badWallets,
    opened,         \* wallets whose loader has a wallet
    listening,      \* wallets whose shutdown goroutine waits
    op,             \* the call in progress
    \* history and bounds
    created,        \* number of creations
    made, deleted,  \* owners whose wallet.db was made, was deleted on request
    torn,           \* wallets with a passphrase change that was not saved
    halfDeleted,    \* wallets of which only a part was deleted
    crashes

diskVars == <<db, lastId, files, backups, source, startup, startup>>
memVars  == <<running, wallets, badWallets, opened, listening>>
histVars == <<created, made, deleted, torn, halfDeleted, crashes>>
vars == <<diskVars, memVars, op, histVars>>

----------------------------------------------------------------------------
(* Partial functions of Ids. *)
Put(f, i, v) == [j \in DOMAIN f \cup {i} |-> IF j = i THEN v ELSE f[j]]
Drop(f, i) == [j \in DOMAIN f \ {i} |-> f[j]]
None == [i \in {} |-> 0]

NoOp == [kind |-> "none", pc |-> "", id |-> 0, seed |-> "nil", pass |-> "nil"]

\* An empty root directory, and a wallet of another application.
Init ==
    /\ db = None /\ lastId = 0 /\ files = None /\ backups = {} /\ source = TRUE
    /\ startup = [hash |-> "", set |-> FALSE]
    /\ running = FALSE /\ wallets = None /\ badWallets = {} /\ opened = {} /\ listening = {}
    /\ op = NoOp
    /\ created = 0 /\ made = {Linked} /\ deleted = {} /\ torn = {} /\ halfDeleted = {} /\ crashes = 0

Idle == running /\ op = NoOp
At(kind, pc) == running /\ op.kind = kind /\ op.pc = pc
Goto(pc) == op' = [op EXCEPT !.pc = pc]

----------------------------------------------------------------------------
(* Starting and ending. *)

\* The wallets NewMultiWallet keeps.
Good(bad) == DOMAIN db \ bad

\* NewMultiWallet: a wallet that cannot be prepared, or whose wallet.db is
\* missing, is bad.
NewMultiWallet(bad) ==
    /\ ~running /\ running' = TRUE
    /\ bad \subseteq DOMAIN db
    /\ badWallets' = bad \cup (DOMAIN db \ DOMAIN files)
    /\ wallets' = [i \in Good(badWallets') |-> db[i]]
    /\ opened' = {} /\ listening' = DOMAIN wallets'
    /\ UNCHANGED <<diskVars, op, histVars>>

\* No hash is the hash of the empty passphrase.
VerifyStartupPassphrase(pass) == pass = startup.hash

\* A loader opens a wallet.db that is there, if it has no wallet yet.
OpenExistingWallet(i) == i \notin opened /\ i \in DOMAIN files

\* OpenWallets: it stops at the first wallet that does not open.
OpenWallets(pass, more) ==
    /\ Idle /\ VerifyStartupPassphrase(pass)
    /\ more \subseteq DOMAIN wallets /\ more # {}
    /\ \A i \in more : OpenExistingWallet(i)
    /\ opened' = opened \cup more
    /\ UNCHANGED <<diskVars, running, wallets, badWallets, listening, op, histVars>>

\* The hash of the startup passphrase is written, and then the flag.
SetStartupHash(old, new) ==
    /\ Idle /\ VerifyStartupPassphrase(old)
    /\ startup' = [startup EXCEPT !.hash = new]
    /\ op' = [NoOp EXCEPT !.kind = "startup"]
    /\ UNCHANGED <<db, lastId, files, backups, source, memVars, histVars>>

\* SetStartupPassphrase is the change from no passphrase.
ChangeStartupPassphrase(old, new) == new # "" /\ SetStartupHash(old, new)

RemoveStartupPassphrase(old) == SetStartupHash(old, "")

\* SaveUserConfigValue(IsStartupSecuritySet): an error is logged, no more.
SaveStartupConfig ==
    /\ At("startup", "") /\ op' = NoOp
    /\ startup' \in {startup, [startup EXCEPT !.set = startup.hash # ""]}
    /\ UNCHANGED <<db, lastId, files, backups, source, memVars, histVars>>

\* Shutdown: the wallets one after the other.
Shutdown ==
    /\ Idle /\ op' = [NoOp EXCEPT !.kind = "shutdown"]
    /\ UNCHANGED <<diskVars, memVars, histVars>>

\* Wallet.Shutdown: the send on shuttingDown needs the goroutine of prepare.
ShutdownWallet(i) ==
    /\ At("shutdown", "") /\ i \in listening
    /\ listening' = listening \ {i} /\ opened' = opened \ {i}
    /\ wallets' = Drop(wallets, i)
    /\ UNCHANGED <<diskVars, running, badWallets, op, histVars>>

ShutdownDone ==
    /\ At("shutdown", "") /\ DOMAIN wallets = {}
    /\ running' = FALSE /\ badWallets' = {} /\ op' = NoOp
    /\ UNCHANGED <<diskVars, wallets, opened, listening, histVars>>

Crash ==
    /\ running /\ crashes < MaxCrashes /\ crashes' = crashes + 1
    /\ running' = FALSE /\ wallets' = None /\ badWallets' = {} /\ opened' = {} /\ listening' = {}
    /\ torn' = IF op.kind = "change" THEN torn \cup {op.id} ELSE torn
    /\ halfDeleted' = IF op.kind = "delete" THEN halfDeleted \cup {op.id} ELSE halfDeleted
    /\ op' = NoOp
    /\ UNCHANGED <<diskVars, created, made, deleted>>

----------------------------------------------------------------------------
(* saveNewWallet: one transaction of wallets.db, with a directory made and  *)
(* filled before it is committed.                                           *)

\* Mutant: whatever is at the new directory's place is taken over.
NotMoved(id) == <<files, backups>>

\* "Undocumented file at %s moved to %s"
MovedAway(id) ==
    IF id \in DOMAIN files THEN <<Drop(files, id), backups \cup {files[id].owner}>>
                           ELSE <<files, backups>>

\* saveNewWallet up to the making of the directory.  The transaction has the
\* next id.
SaveNewWallet(kind, seed, pass) ==
    /\ Idle
    /\ created < MaxCreations /\ created' = created + 1
    /\ LET id == lastId + 1 IN
        /\ files' = MovedAway(id)[1] /\ backups' = MovedAway(id)[2]
        /\ op' = [kind |-> kind, pc |-> "setup", id |-> id, seed |-> seed, pass |-> pass]
    /\ UNCHANGED <<db, lastId, source, startup, memVars, made, deleted, torn, halfDeleted,
                   crashes>>

\* The record has the seed, encrypted with the passphrase, until it is verified.
CreateNewWallet(pass) == SaveNewWallet("create", pass, pass)

\* The user has the seed already.
RestoreWallet(pass) == SaveNewWallet("restore", "nil", pass)

\* No seed and no private passphrase.
CreateWatchOnlyWallet == SaveNewWallet("watch", "nil", "nil")

\* wallet.db is where it is said to be, and opens with its public passphrase.
LinkExistingWallet == source /\ SaveNewWallet("link", "nil", LinkedPass)

\* The transaction is rolled back; what is in the directory stays.
CreationFails == op' = NoOp

\* The loader makes a wallet.db where there is none, and opens it.
MakeFile ==
    /\ op.id \notin DOMAIN files
    /\ files' = Put(files, op.id, [owner |-> created, pass |-> op.pass])
    /\ made' = made \cup {created}
    /\ Goto("commit")
    /\ UNCHANGED <<db, lastId, backups, source, startup, memVars,
                   created, deleted, torn, halfDeleted, crashes>>

\* Wallet.createWallet and Loader.CreateNewWallet.
CreateFile == (At("create", "setup") \/ At("restore", "setup")) /\ MakeFile

\* Wallet.createWatchingOnlyWallet and Loader.CreateWatchingOnlyWallet.
CreateWatchingOnlyFile == At("watch", "setup") /\ MakeFile

\* prepare fails, the seed is no seed, the loader finds a wallet.db or removes
\* the one it could not fill.
CreateFileFails ==
    /\ running /\ op.kind \in {"create", "restore", "watch"} /\ op.pc = "setup"
    /\ CreationFails
    /\ UNCHANGED <<diskVars, memVars, histVars>>

\* LinkExistingWallet: wallet.db is moved into the new directory.
LinkMovesFile ==
    /\ At("link", "setup")
    /\ files' = Put(files, op.id, [owner |-> Linked, pass |-> op.pass]) /\ source' = FALSE
    /\ Goto("open")
    /\ UNCHANGED <<db, lastId, backups, startup, memVars, histVars>>

LinkMoveFails ==
    /\ At("link", "setup") /\ CreationFails
    /\ UNCHANGED <<diskVars, memVars, histVars>>

\* tx.db is moved too, the wallet prepared, its public passphrase changed if
\* it has another, and opened.
LinkOpens ==
    /\ At("link", "open") /\ Goto("commit")
    /\ UNCHANGED <<diskVars, memVars, histVars>>

\* tx.db cannot be moved: wallet.db stays where it is now.
LinkTxDbFails ==
    /\ At("link", "open") /\ CreationFails
    /\ UNCHANGED <<diskVars, memVars, histVars>>

\* "restore db files to their original location if there was an error"
Restored == files' = Drop(files, op.id) /\ source' = TRUE

LinkOpenFails ==
    /\ At("link", "open") /\ CreationFails
    /\ Restored
    /\ UNCHANGED <<db, lastId, backups, startup, memVars, histVars>>

Creating == running /\ op.kind \in {"create", "restore", "watch", "link"}

\* Mutant: setupWallet is called after the commit.
CommittedFirst == op.pc \in {"setup", "open", "commit"}

\* setupWallet has returned.
SetUp == op.pc = "commit"

\* Mutant: wallet.prepare starts no goroutine.
NotListening == listening

\* wallet.prepare starts the goroutine that waits on shuttingDown.
Listening == listening \cup {op.id}

\* The transaction is committed, and the wallet is one of mw.wallets.
SaveNewWalletCommits ==
    /\ Creating /\ SetUp
    /\ LET record == [owner |-> IF op.kind = "link" THEN Linked ELSE created, seed |-> op.seed] IN
        /\ db' = Put(db, op.id, record) /\ lastId' = op.id
        /\ wallets' = Put(wallets, op.id, record)
    /\ opened' = opened \cup {op.id} /\ listening' = Listening
    /\ op' = NoOp
    /\ UNCHANGED <<files, backups, source, startup, running, badWallets, histVars>>

SaveNewWalletCommitFails ==
    /\ Creating /\ op.pc = "commit" /\ CreationFails
    /\ UNCHANGED <<diskVars, memVars, histVars>>

----------------------------------------------------------------------------
(* Calls that save a wallet that exists. *)

\* db.Save of a wallet: the whole record is written, unless there is an error.
Save(i, record) ==
    \/ /\ db' = Put(db, i, record)
       /\ torn' = IF i \in DOMAIN files /\ record.seed \in {"nil", files[i].pass}
                  THEN torn \ {i} ELSE torn
    \/ UNCHANGED <<db, torn>>

\* RenameWallet and markWalletAsDiscoveredAccounts.
SaveWallet(i) ==
    /\ Idle /\ i \in DOMAIN wallets /\ Save(i, wallets[i])
    /\ UNCHANGED <<lastId, files, backups, source, startup, running, wallets, badWallets, opened, listening,
                   op, created, made, deleted, halfDeleted, crashes>>

\* VerifySeedForWallet, with the passphrase the seed was encrypted with.
VerifySeedForWallet(i) ==
    /\ Idle /\ i \in DOMAIN wallets /\ wallets[i].seed # "nil"
    /\ wallets' = [wallets EXCEPT ![i].seed = "nil"]
    /\ Save(i, wallets'[i])
    /\ UNCHANGED <<lastId, files, backups, source, startup, running, badWallets, opened, listening,
                   op, created, made, deleted, halfDeleted, crashes>>

\* ChangePrivatePassphraseForWallet(i, old, new): the seed is decrypted with
\* the old passphrase and encrypted with the new one, and wallet.db changed.
ChangePassphrase(i, old, new) ==
    /\ Idle /\ i \in opened /\ old # new
    /\ wallets[i].seed \in {"nil", old}
    /\ i \in DOMAIN files /\ files[i].pass = old
    /\ files' = [files EXCEPT ![i].pass = new]
    /\ op' = [kind |-> "change", pc |-> "save", id |-> i, pass |-> "nil",
              seed |-> IF wallets[i].seed = "nil" THEN "nil" ELSE new]
    /\ UNCHANGED <<db, lastId, backups, source, startup, memVars, histVars>>

\* Mutant: the record keeps the seed as it was encrypted.
SeedKept == wallets

\* wallet.EncryptedSeed = encryptedSeed
Reencrypted == [wallets EXCEPT ![op.id].seed = op.seed]

\* The record is saved.
ChangeSaved ==
    /\ At("change", "save")
    /\ wallets' = Reencrypted
    /\ db' = Put(db, op.id, wallets'[op.id])
    /\ torn' = torn \ {op.id}
    /\ op' = NoOp
    /\ UNCHANGED <<lastId, files, backups, source, startup, running, badWallets, opened, listening,
                   created, made, deleted, halfDeleted, crashes>>

\* The record is not saved.  The change is undone with the passphrases that
\* changePrivatePassphrase has overwritten with zeros, which fails too.
ChangeNotSaved ==
    /\ At("change", "save")
    /\ wallets' = Reencrypted
    /\ torn' = torn \cup {op.id}
    /\ op' = NoOp
    /\ UNCHANGED <<diskVars, running, badWallets, opened, listening, created, made, deleted, halfDeleted, crashes>>

----------------------------------------------------------------------------
(* Deletion. *)

\* deleteWallet up to the end of Wallet.Shutdown, which waits for the
\* goroutine of prepare.
DeleteWallet(i) ==
    /\ Idle /\ i \in opened /\ i \in listening
    /\ opened' = opened \ {i} /\ listening' = listening \ {i}
    /\ op' = [NoOp EXCEPT !.kind = "delete", !.pc = "remove", !.id = i]
    /\ UNCHANGED <<diskVars, running, wallets, badWallets, histVars>>

DeleteWalletHangs(i) ==
    /\ Idle /\ i \in opened /\ i \notin listening
    /\ op' = [NoOp EXCEPT !.kind = "delete", !.pc = "hang", !.id = i]
    /\ UNCHANGED <<diskVars, memVars, histVars>>

\* os.RemoveAll(wallet.dataDir)
RemoveAll(i) ==
    /\ files' = Drop(files, i)
    /\ deleted' = deleted \cup {files[j].owner : j \in {i} \cap DOMAIN files}
    /\ UNCHANGED <<created, made, torn, halfDeleted, crashes>>

DeleteRemovesFiles ==
    /\ At("delete", "remove")
    /\ RemoveAll(op.id)
    /\ Goto("record")
    /\ UNCHANGED <<db, lastId, backups, source, startup, memVars>>

\* RemoveAll or DeleteStruct fails: the wallet stays in mw.wallets.
DeleteFails ==
    /\ running /\ op.kind = "delete" /\ op.pc \in {"remove", "record"}
    /\ halfDeleted' = halfDeleted \cup {op.id} /\ op' = NoOp
    /\ UNCHANGED <<diskVars, memVars, created, made, deleted, torn, crashes>>

DeleteDone ==
    /\ At("delete", "record")
    /\ db' = Drop(db, op.id) /\ wallets' = Drop(wallets, op.id) /\ op' = NoOp
    /\ UNCHANGED <<lastId, files, backups, source, startup, running, badWallets, opened, listening,
                   histVars>>

\* The record goes first, then the files.
DeleteBadWallet(i) ==
    /\ Idle /\ i \in badWallets
    /\ db' = Drop(db, i) /\ badWallets' = badWallets \ {i}
    /\ op' = [NoOp EXCEPT !.kind = "delete", !.pc = "removebad", !.id = i]
    /\ UNCHANGED <<lastId, files, backups, source, startup, running, wallets, opened, listening, histVars>>

DeleteBadWalletDone ==
    /\ At("delete", "removebad")
    /\ RemoveAll(op.id) /\ op' = NoOp
    /\ UNCHANGED <<db, lastId, backups, source, startup, memVars>>

----------------------------------------------------------------------------
CreationNext ==
    \/ \E pass \in Passphrases : CreateNewWallet(pass) \/ RestoreWallet(pass)
    \/ CreateWatchOnlyWallet \/ LinkExistingWallet
    \/ CreateFile \/ CreateWatchingOnlyFile \/ CreateFileFails \/ LinkMovesFile
    \/ LinkMoveFails \/ LinkOpens \/ LinkTxDbFails \/ LinkOpenFails
    \/ SaveNewWalletCommits \/ SaveNewWalletCommitFails

SaveNext ==
    \/ \E i \in DOMAIN wallets : SaveWallet(i) \/ VerifySeedForWallet(i)
    \/ \E i \in opened, old, new \in Passphrases : ChangePassphrase(i, old, new)
    \/ ChangeSaved \/ ChangeNotSaved

DeletionNext ==
    \/ \E i \in opened : DeleteWallet(i) \/ DeleteWalletHangs(i)
    \/ DeleteRemovesFiles \/ DeleteFails \/ DeleteDone
    \/ \E i \in badWallets : DeleteBadWallet(i)
    \/ DeleteBadWalletDone

StartupNext ==
    \/ \E old, new \in StartupPassphrases : ChangeStartupPassphrase(old, new)
    \/ \E old \in StartupPassphrases : RemoveStartupPassphrase(old)
    \/ SaveStartupConfig

ShutdownNext == (\E i \in listening : ShutdownWallet(i)) \/ ShutdownDone

Next ==
    \/ \E bad \in SUBSET DOMAIN db : NewMultiWallet(bad)
    \/ \E pass \in StartupPassphrases, more \in SUBSET DOMAIN wallets : OpenWallets(pass, more)
    \/ StartupNext
    \/ CreationNext \/ SaveNext \/ DeletionNext
    \/ Shutdown \/ ShutdownNext \/ Crash

Spec == Init /\ [][Next]_vars

\* A Shutdown that was called goes on while it can.
FairSpec == Spec /\ WF_vars(ShutdownNext)

----------------------------------------------------------------------------
(* Properties. *)

\* "db changes are rolled back if any of the steps below return an error"
\* (multiwallet.go saveNewWallet): whatever crash or error happened before, a
\* wallet that is recorded has the wallet.db that was made for it, and no
\* other's; only a deletion that was cut short leaves a record without one.
RecordHasItsFile ==
    \A i \in DOMAIN db :
        \/ i \in DOMAIN files /\ files[i].owner = db[i].owner
        \/ i \notin DOMAIN files /\ (i \in halfDeleted \/ op.id = i)

\* Nothing but a deletion destroys a wallet.db (multiwallet.go
\* saveNewWallet, LinkExistingWallet, utils.go backupFile): the one to be
\* linked and every one the loader has made is in one place, and in one only.
FilesAreKept ==
    \A o \in made :
        \/ o \in deleted
        \/ Cardinality({i \in DOMAIN files : files[i].owner = o})
            + (IF o \in backups THEN 1 ELSE 0) + (IF o = Linked /\ source THEN 1 ELSE 0) = 1

\* The seed a user is to write down can be decrypted with the wallet's
\* passphrase (multiwallet.go ChangePrivatePassphraseForWallet), unless a
\* passphrase change was not saved; in memory it can even then.
SeedOpensWithPassphrase ==
    /\ \A i \in DOMAIN db \cap DOMAIN files :
           db[i].seed \in {"nil", files[i].pass} \/ i \in torn \/ op.id = i
    /\ \A i \in DOMAIN wallets \cap DOMAIN files :
           wallets[i].seed \in {"nil", files[i].pass, db[i].seed} \/ op.id = i

\* Shutdown ends (multiwallet.go Shutdown, wallet.go Shutdown): the channel
\* shuttingDown of every wallet has a receiver, unless a deletion failed after
\* it was used.
ShutdownReturns == (op.kind = "shutdown") ~> (~running \/ halfDeleted # {})
==============================================================================
