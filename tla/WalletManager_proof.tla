------------------------- MODULE WalletManager_proof -------------------------
(***************************************************************************)
(* Proofs about WalletManager, for any number of wallets and crashes: a    *)
(* recorded wallet has the wallet.db that was made for it, no wallet.db is *)
(* lost or doubled, and the seed opens with the wallet's passphrase.       *)
(***************************************************************************)
EXTENDS WalletManager, FiniteSetTheorems, TLAPS

Seeds == {"nil", "p1", "p2"}
WalletRec == [owner : Nat, seed : Seeds]
FileRec == [owner : Nat, pass : Seeds]
Making == {"create", "restore", "watch", "link"}
OpRec == [kind : Making \cup {"none", "startup", "shutdown", "change", "delete"},
          pc : {"", "setup", "open", "commit", "save", "remove", "hang", "record", "removebad"},
          id : Nat, seed : Seeds, pass : Seeds]

ManagerType ==
    /\ lastId \in Nat /\ created \in Nat
    /\ db \in [DOMAIN db -> WalletRec] /\ DOMAIN db \subseteq 1 .. lastId
    /\ files \in [DOMAIN files -> FileRec]
    /\ wallets \in [DOMAIN wallets -> WalletRec]
    /\ op \in OpRec

\* The wallets in memory are recorded, as the same wallets, and not as bad ones.
InMemory ==
    /\ ~running => op = NoOp
    /\ badWallets \subseteq DOMAIN db
    /\ opened \subseteq DOMAIN wallets /\ opened \subseteq DOMAIN files
    /\ \A i \in DOMAIN wallets : /\ i \in DOMAIN db /\ i \notin badWallets
                                 /\ wallets[i].owner = db[i].owner

\* Whose wallet.db the call that makes a wallet puts into the new directory.
NewOwner == IF op.kind = "link" THEN Linked ELSE created

\* A call that makes a wallet has the next id; its directory is empty first, and
\* then has the wallet.db of the record that is to be committed.
MakeCall ==
    op.kind \in Making =>
        /\ op.id = lastId + 1 /\ op.seed \in {"nil", op.pass}
        /\ op.pc \in {"setup", "open", "commit"} /\ (op.pc = "open" => op.kind = "link")
        /\ op.pc = "setup" => op.id \notin DOMAIN files /\ (op.kind = "link" => source)
        /\ op.pc # "setup" => /\ op.id \in DOMAIN files
                              /\ files[op.id] = [owner |-> NewOwner, pass |-> op.pass]

\* A change of the passphrase has changed wallet.db; the record is to follow.
ChangeCall ==
    op.kind = "change" => /\ op.id \in DOMAIN wallets /\ op.id \in DOMAIN files
                          /\ op.seed \in {"nil", files[op.id].pass}

\* A deletion has closed the wallet first, or has removed the record of a bad one.
DeleteCall ==
    op.kind = "delete" =>
        /\ op.pc \in {"remove", "record"} => op.id \in DOMAIN wallets /\ op.id \notin opened
        /\ op.pc = "removebad" => op.id \notin DOMAIN db

\* RecordHasItsFile, with the one step of the one call that may break it.
RecordKept ==
    \A i \in DOMAIN db :
        \/ i \in DOMAIN files /\ files[i].owner = db[i].owner
        \/ /\ i \notin DOMAIN files
           /\ i \in halfDeleted \/ (op.kind = "delete" /\ op.pc = "record" /\ op.id = i)

\* A wallet.db is not in two places, and numbers of calls are not used twice.
OnePlace ==
    /\ \A i, j \in DOMAIN files : files[i].owner = files[j].owner => i = j
    /\ \A i \in DOMAIN files : /\ files[i].owner \notin backups /\ files[i].owner <= created
                               /\ ~(source /\ files[i].owner = Linked)
    /\ \A o \in backups : o \in Nat /\ o <= created /\ ~(source /\ o = Linked)
    /\ op.kind \in Making \ {"link"} /\ op.pc = "setup" =>
          /\ created # Linked /\ created \notin backups
          /\ \A i \in DOMAIN files : files[i].owner # created

\* And it is in one.
SomePlace ==
    \A o \in made : \/ o \in deleted \/ o \in backups \/ (o = Linked /\ source)
                    \/ \E i \in DOMAIN files : files[i].owner = o

\* SeedOpensWithPassphrase, with the one call that may break it.
SeedOpens ==
    /\ \A i \in DOMAIN db : i \in DOMAIN files =>
           \/ db[i].seed \in {"nil", files[i].pass} \/ i \in torn
           \/ op.kind = "change" /\ op.id = i
    /\ \A i \in DOMAIN wallets : i \in DOMAIN files =>
           \/ wallets[i].seed \in {"nil", files[i].pass, db[i].seed}
           \/ op.kind = "change" /\ op.id = i

ManagerInv == /\ ManagerType /\ InMemory /\ MakeCall /\ ChangeCall /\ DeleteCall
              /\ RecordKept /\ OnePlace /\ SomePlace /\ SeedOpens

----------------------------------------------------------------------------
(* Partial functions of ids. *)

LEMMA PutType ==
    ASSUME NEW R, NEW f, f \in [DOMAIN f -> R], NEW i, NEW v \in R
    PROVE  /\ Put(f, i, v) \in [DOMAIN f \cup {i} -> R] /\ Put(f, i, v)[i] = v
           /\ DOMAIN Put(f, i, v) = DOMAIN f \cup {i}
           /\ \A j \in DOMAIN f : j # i => Put(f, i, v)[j] = f[j]
BY DEF Put

LEMMA DropType ==
    ASSUME NEW R, NEW f, f \in [DOMAIN f -> R], NEW i
    PROVE  /\ Drop(f, i) \in [DOMAIN f \ {i} -> R]
           /\ DOMAIN Drop(f, i) = DOMAIN f \ {i}
           /\ \A j \in DOMAIN f \ {i} : Drop(f, i)[j] = f[j]
BY DEF Drop

\* Of no call, and of one that makes, changes or deletes nothing.
LEMMA NoOpType ==
    /\ NoOp \in OpRec /\ NoOp.kind \notin Making \cup {"change", "delete"}
    /\ \A k \in {"startup", "shutdown"} :
          LET o == [NoOp EXCEPT !.kind = k]
          IN  o \in OpRec /\ o.kind \notin Making \cup {"change", "delete"}
BY DEF NoOp, OpRec, Seeds, Making

LEMMA ManagerInvInit == Init => ManagerInv
<1> SUFFICES ASSUME Init PROVE ManagerInv
    OBVIOUS
<1>1. DOMAIN db = {} /\ DOMAIN files = {} /\ DOMAIN wallets = {}
    BY DEF Init, None
<1>2. /\ db \in [DOMAIN db -> WalletRec] /\ files \in [DOMAIN files -> FileRec]
      /\ wallets \in [DOMAIN wallets -> WalletRec]
    BY DEF Init, None
<1>3. ManagerType
    BY <1>1, <1>2, NoOpType DEF Init, ManagerType
<1>4. InMemory /\ MakeCall /\ ChangeCall /\ DeleteCall
    BY <1>1 DEF Init, InMemory, MakeCall, ChangeCall, DeleteCall, NoOp, Making
<1>5. RecordKept /\ OnePlace /\ SomePlace /\ SeedOpens
    BY <1>1 DEF Init, RecordKept, OnePlace, SomePlace, SeedOpens, NoOp, Making
<1> QED BY <1>3, <1>4, <1>5 DEF ManagerInv

----------------------------------------------------------------------------
(* Steps that change nothing on disk. *)

DiskKept == UNCHANGED <<db, lastId, files, backups, source, created, made, deleted>>

\* A call begins or ends that neither makes, changes nor deletes a wallet, or
\* one that was to make a wallet fails.
QuietCall ==
    /\ DiskKept /\ running /\ UNCHANGED <<memVars, torn, halfDeleted>>
    /\ op.kind \notin {"change", "delete"}
    /\ op'.kind \notin Making \cup {"change", "delete"}
    /\ op' \in OpRec

LEMMA QuietCallKeepsInv ==
    ASSUME ManagerInv, QuietCall
    PROVE  ManagerInv'
<1> USE DEF QuietCall, DiskKept, memVars
<1>1. ManagerType' /\ InMemory'
    BY DEF ManagerInv, ManagerType, InMemory
<1>2. MakeCall' /\ ChangeCall' /\ DeleteCall'
    BY DEF MakeCall, ChangeCall, DeleteCall
<1>3. RecordKept' /\ SeedOpens'
    BY DEF ManagerInv, RecordKept, SeedOpens
<1>4. OnePlace' /\ SomePlace'
    BY DEF ManagerInv, OnePlace, SomePlace
<1> QED BY <1>1, <1>2, <1>3, <1>4 DEF ManagerInv

\* Wallets are loaded, opened or closed; no call that touches one goes on.
MemoryStep ==
    /\ DiskKept /\ UNCHANGED <<torn, halfDeleted>>
    /\ op.kind \notin Making \cup {"change", "delete"} /\ (op' = op \/ op' = NoOp)
    /\ ~running' => op' = NoOp
    /\ DOMAIN wallets' \subseteq DOMAIN db
    /\ wallets' = [i \in DOMAIN wallets' |-> wallets'[i]]
    /\ \A i \in DOMAIN wallets' : \/ i \in DOMAIN wallets /\ wallets'[i] = wallets[i]
                                  \/ wallets'[i] = db[i]
    /\ badWallets' \subseteq DOMAIN db /\ badWallets' \cap DOMAIN wallets' = {}
    /\ opened' \subseteq DOMAIN wallets' /\ opened' \subseteq DOMAIN files

LEMMA MemoryStepKeepsInv ==
    ASSUME ManagerInv, MemoryStep
    PROVE  ManagerInv'
<1> USE DEF MemoryStep, DiskKept
<1>1. ManagerType'
  <2>1. \A i \in DOMAIN wallets' : wallets'[i] \in WalletRec
    BY DEF ManagerInv, ManagerType
  <2>2. op' \in OpRec
    BY NoOpType DEF ManagerInv, ManagerType
  <2> QED BY <2>1, <2>2 DEF ManagerInv, ManagerType
<1>2. InMemory'
    BY DEF ManagerInv, ManagerType, InMemory
<1>3. op'.kind \notin Making \cup {"change", "delete"}
    BY NoOpType
<1>4. MakeCall' /\ ChangeCall' /\ DeleteCall'
    BY <1>3 DEF MakeCall, ChangeCall, DeleteCall
<1>5. RecordKept'
    BY DEF ManagerInv, RecordKept
<1>6. SeedOpens'
    BY <1>3 DEF ManagerInv, SeedOpens
<1>7. OnePlace' /\ SomePlace'
    BY <1>3 DEF ManagerInv, OnePlace, SomePlace
<1> QED BY <1>1, <1>2, <1>4, <1>5, <1>6, <1>7 DEF ManagerInv

LEMMA CrashKeepsInv ==
    ASSUME ManagerInv, Crash
    PROVE  ManagerInv'
<1>1. /\ DiskKept /\ DOMAIN wallets' = {} /\ badWallets' = {} /\ opened' = {} /\ op' = NoOp
      /\ wallets' \in [DOMAIN wallets' -> WalletRec]
      /\ torn' = IF op.kind = "change" THEN torn \cup {op.id} ELSE torn
      /\ halfDeleted' = IF op.kind = "delete" THEN halfDeleted \cup {op.id} ELSE halfDeleted
    BY DEF Crash, DiskKept, diskVars, None
<1> USE <1>1 DEF DiskKept
<1>2. ManagerType'
    BY NoOpType DEF ManagerInv, ManagerType
<1>3. InMemory' /\ MakeCall' /\ ChangeCall' /\ DeleteCall'
    BY DEF InMemory, MakeCall, ChangeCall, DeleteCall, NoOp, Making
<1>4. RecordKept' /\ SeedOpens'
    BY DEF ManagerInv, RecordKept, SeedOpens
<1>5. OnePlace' /\ SomePlace'
    BY DEF ManagerInv, OnePlace, SomePlace, NoOp, Making
<1> QED BY <1>2, <1>3, <1>4, <1>5 DEF ManagerInv

----------------------------------------------------------------------------
(* Calls that make a wallet. *)

\* What is in the way of the new directory is of no recorded wallet.
LEMMA SaveNewWalletKeepsInv ==
    ASSUME ManagerInv, NEW kind \in Making, NEW seed \in Seeds, NEW pass \in Seeds,
           seed = "nil" \/ seed = pass, kind = "link" => source, SaveNewWallet(kind, seed, pass)
    PROVE  ManagerInv'
<1> DEFINE id == lastId + 1
<1>1. /\ op = NoOp /\ running /\ created' = created + 1
      /\ op' = [kind |-> kind, pc |-> "setup", id |-> id, seed |-> seed, pass |-> pass]
      /\ UNCHANGED <<db, lastId, source, running, wallets, badWallets, opened, made, deleted,
                     torn, halfDeleted>>
      /\ IF id \in DOMAIN files
         THEN files' = Drop(files, id) /\ backups' = backups \cup {files[id].owner}
         ELSE files' = files /\ backups' = backups
    BY DEF SaveNewWallet, MovedAway, Idle, memVars
<1>2. /\ op'.kind = kind /\ op'.pc = "setup" /\ op'.id = id /\ op'.seed = seed /\ op'.pass = pass
      /\ op.kind \notin Making \cup {"change", "delete"}
    BY <1>1, NoOpType
<1>3. /\ id \in Nat /\ id \notin DOMAIN db /\ lastId \in Nat /\ created \in Nat
      /\ \A i \in DOMAIN files : files[i] \in FileRec /\ files[i].owner \in Nat
    BY DEF ManagerInv, ManagerType, FileRec
<1>4. /\ files' \in [DOMAIN files' -> FileRec]
      /\ DOMAIN files' = DOMAIN files \ {id}
      /\ \A i \in DOMAIN files' : files'[i] = files[i]
  <2>1. files \in [DOMAIN files -> FileRec]
    BY DEF ManagerInv, ManagerType
  <2>2. /\ Drop(files, id) \in [DOMAIN files \ {id} -> FileRec]
        /\ DOMAIN Drop(files, id) = DOMAIN files \ {id}
        /\ \A j \in DOMAIN files \ {id} : Drop(files, id)[j] = files[j]
    BY <2>1, DropType
  <2>3. CASE id \in DOMAIN files
    BY <1>1, <2>2, <2>3
  <2>4. CASE id \notin DOMAIN files
    BY <1>1, <2>1, <2>4
  <2> QED BY <2>3, <2>4
<1>5. /\ backups \subseteq backups'
      /\ \A o \in backups' : o \in backups \/ (id \in DOMAIN files /\ o = files[id].owner)
      /\ id \in DOMAIN files => files[id].owner \in backups'
    BY <1>1
<1> HIDE DEF id
<1>6. ManagerType'
  <2>1. op' \in OpRec
    BY <1>1, <1>3 DEF OpRec
  <2> QED BY <1>1, <1>3, <1>4, <2>1 DEF ManagerInv, ManagerType
<1>7. InMemory'
    BY <1>1, <1>3, <1>4 DEF ManagerInv, InMemory
<1>8. MakeCall' /\ ChangeCall' /\ DeleteCall'
    BY <1>1, <1>2, <1>4 DEF id, MakeCall, ChangeCall, DeleteCall, Making
<1>9. RecordKept'
    BY <1>1, <1>2, <1>3, <1>4 DEF ManagerInv, RecordKept
<1>10. SeedOpens'
    BY <1>1, <1>2, <1>3, <1>4 DEF ManagerInv, InMemory, SeedOpens
<1>11. OnePlace'
  <2>1. OnePlace
    BY DEF ManagerInv
  <2>2. \A i \in DOMAIN files' :
           /\ files'[i].owner \in Nat /\ files'[i].owner \notin backups'
           /\ files'[i].owner <= created /\ ~(source /\ files'[i].owner = Linked)
    BY <1>3, <1>4, <1>5, <2>1 DEF OnePlace
  <2>3. \A o \in backups' : o \in Nat /\ o <= created /\ ~(source /\ o = Linked)
    BY <1>3, <1>5, <2>1 DEF OnePlace
  <2>4. \A i, j \in DOMAIN files' : files'[i].owner = files'[j].owner => i = j
    BY <1>4, <2>1 DEF OnePlace
  <2>5. /\ \A n \in Nat : n <= created => n # created' /\ n <= created'
        /\ created' # Linked
    BY <1>1, <1>3 DEF Linked
  <2>6. \A o \in backups' : o # created'
    BY <2>3, <2>5
  <2> QED BY <1>1, <2>2, <2>3, <2>4, <2>5, <2>6 DEF OnePlace
<1>12. SomePlace'
  <2> SUFFICES ASSUME NEW o \in made', o \notin deleted', o \notin backups', ~(o = Linked /\ source')
               PROVE  \E i \in DOMAIN files' : files'[i].owner = o
    BY DEF SomePlace
  <2>1. PICK i \in DOMAIN files : files[i].owner = o
    BY <1>1, <1>5 DEF ManagerInv, SomePlace
  <2> QED BY <1>4, <1>5, <2>1
<1> QED BY <1>6, <1>7, <1>8, <1>9, <1>10, <1>11, <1>12 DEF ManagerInv

\* A wallet.db that is nowhere else is put where there is none.
PutsFile(o) ==
    /\ op.kind \in Making /\ op.pc = "setup" /\ op'.pc # "setup"
    /\ \E l \in {"open", "commit"} : op' = [op EXCEPT !.pc = l] /\ (l = "open" => op.kind = "link")
    /\ files' = Put(files, op.id, [owner |-> o, pass |-> op.pass])
    /\ made' \subseteq made \cup {o} /\ source' = (IF op.kind = "link" THEN FALSE ELSE source)
    /\ UNCHANGED <<db, lastId, backups, created, deleted, running, wallets, badWallets, opened,
                   torn, halfDeleted>>

LEMMA PutsFileKeepsInv ==
    ASSUME ManagerInv, PutsFile(NewOwner)
    PROVE  ManagerInv'
<1> DEFINE o == NewOwner
           v == [owner |-> o, pass |-> op.pass]
<1>1. /\ op.kind \in Making /\ op.pc = "setup" /\ op'.kind = op.kind /\ op'.id = op.id
      /\ op'.seed = op.seed /\ op'.pass = op.pass /\ op' \in OpRec
      /\ op'.pc \in {"open", "commit"} /\ (op'.pc = "open" => op.kind = "link")
    BY DEF PutsFile, ManagerInv, ManagerType, OpRec
<1>2. o \in Nat /\ created \in Nat /\ v \in FileRec /\ v.owner = o /\ v.pass = op.pass
    BY DEF NewOwner, Linked, FileRec, ManagerInv, ManagerType, OpRec
<1>3. /\ files' \in [DOMAIN files' -> FileRec]
      /\ DOMAIN files' = DOMAIN files \cup {op.id} /\ files'[op.id] = v
      /\ \A i \in DOMAIN files : i # op.id => files'[i] = files[i]
  <2>1. files \in [DOMAIN files -> FileRec] /\ files' = Put(files, op.id, v)
    BY DEF PutsFile, ManagerInv, ManagerType
  <2>2. v \in FileRec
    BY <1>2
  <2> HIDE DEF v
  <2>3. /\ DOMAIN files' = DOMAIN files \cup {op.id}
        /\ files' = [j \in DOMAIN files \cup {op.id} |-> IF j = op.id THEN v ELSE files[j]]
    BY <2>1 DEF Put
  <2> QED BY <2>1, <2>2, <2>3
<1>4. /\ op.id = lastId + 1 /\ op.seed \in {"nil", op.pass} /\ op.id \notin DOMAIN files
      /\ op.kind = "link" => source
    BY <1>1 DEF ManagerInv, MakeCall
<1>5. op.id \notin DOMAIN db
    BY <1>4 DEF ManagerInv, ManagerType
<1>6. o' = o /\ (o = Linked <=> op.kind = "link") /\ (o # Linked => o = created)
    BY <1>1 DEF NewOwner, PutsFile, ManagerInv, OnePlace, Making
<1> HIDE DEF o
<1>7. ManagerType'
    BY <1>1, <1>3 DEF PutsFile, ManagerInv, ManagerType
<1>8. InMemory'
  <2>1. running
    BY <1>1, NoOpType DEF ManagerInv, InMemory
  <2> QED BY <1>3, <2>1 DEF PutsFile, ManagerInv, InMemory
<1>9. MakeCall'
    BY <1>1, <1>3, <1>4, <1>6 DEF PutsFile, MakeCall, o
<1>10. ChangeCall' /\ DeleteCall'
    BY <1>1 DEF ChangeCall, DeleteCall, Making
<1>11. RecordKept'
    BY <1>1, <1>3, <1>5 DEF PutsFile, ManagerInv, RecordKept, Making
<1>12. SeedOpens'
    BY <1>1, <1>3, <1>4, <1>5 DEF PutsFile, ManagerInv, InMemory, SeedOpens, Making
<1>13. /\ o \notin backups /\ \A i \in DOMAIN files : files[i].owner # o
       /\ o <= created
    BY <1>1, <1>2, <1>4, <1>6 DEF ManagerInv, OnePlace, Linked
<1>14. OnePlace'
    BY <1>1, <1>2, <1>3, <1>4, <1>6, <1>13 DEF PutsFile, ManagerInv, OnePlace
<1>15. SomePlace'
  <2> SUFFICES ASSUME NEW q \in made', q \notin deleted', q \notin backups', ~(q = Linked /\ source')
               PROVE  \E i \in DOMAIN files' : files'[i].owner = q
    BY DEF SomePlace
  <2>1. CASE q = o
    BY <1>2, <1>3, <2>1
  <2>2. CASE q # o
    <3>1. q \in made /\ q \notin deleted /\ q \notin backups /\ ~(q = Linked /\ source)
      BY <1>6, <2>2 DEF PutsFile, o
    <3>2. PICK i \in DOMAIN files : files[i].owner = q
      BY <3>1 DEF ManagerInv, SomePlace
    <3> QED BY <1>3, <1>4, <3>2
  <2> QED BY <2>1, <2>2
<1> QED BY <1>7, <1>8, <1>9, <1>10, <1>11, <1>12, <1>14, <1>15 DEF ManagerInv

LEMMA LinkOpensKeepsInv ==
    ASSUME ManagerInv, LinkOpens
    PROVE  ManagerInv'
<1>1. /\ DiskKept /\ UNCHANGED <<running, wallets, badWallets, opened, torn, halfDeleted>>
      /\ op' = [op EXCEPT !.pc = "commit"] /\ op.kind = "link" /\ op.pc = "open" /\ running
    BY DEF LinkOpens, At, Goto, DiskKept, diskVars, memVars, histVars
<1>2. /\ op'.kind = op.kind /\ op'.id = op.id /\ op'.seed = op.seed /\ op'.pass = op.pass
      /\ op'.pc = "commit" /\ op' \in OpRec
    BY <1>1 DEF ManagerInv, ManagerType, OpRec
<1> USE <1>1, <1>2 DEF DiskKept
<1>3. ManagerType' /\ InMemory'
    BY DEF ManagerInv, ManagerType, InMemory
<1>4. MakeCall' /\ ChangeCall' /\ DeleteCall'
    BY DEF ManagerInv, MakeCall, ChangeCall, DeleteCall, Making, NewOwner
<1>5. RecordKept' /\ SeedOpens'
    BY DEF ManagerInv, RecordKept, SeedOpens
<1>6. OnePlace' /\ SomePlace'
    BY DEF ManagerInv, OnePlace, SomePlace
<1> QED BY <1>3, <1>4, <1>5, <1>6 DEF ManagerInv

\* wallet.db goes back to where it was.
LEMMA LinkOpenFailsKeepsInv ==
    ASSUME ManagerInv, LinkOpenFails
    PROVE  ManagerInv'
<1>1. /\ op.kind = "link" /\ op.pc = "open" /\ op' = NoOp /\ running /\ source' = TRUE
      /\ files' = [j \in DOMAIN files \ {op.id} |-> files[j]]
      /\ UNCHANGED <<db, lastId, backups, running, wallets, badWallets, opened, created, made,
                     deleted, torn, halfDeleted>>
    BY DEF LinkOpenFails, At, CreationFails, Restored, Drop, memVars, histVars
<1>2. /\ op'.kind \notin Making \cup {"change", "delete"} /\ op' \in OpRec
    BY <1>1, NoOpType
<1>3. /\ op.id = lastId + 1 /\ op.id \in DOMAIN files
      /\ files[op.id] = [owner |-> Linked, pass |-> op.pass]
    BY <1>1 DEF ManagerInv, MakeCall, NewOwner, Making
<1>4. op.id \notin DOMAIN db /\ files[op.id].owner = Linked
    BY <1>3 DEF ManagerInv, ManagerType
<1>5. ManagerType'
    BY <1>1, <1>2 DEF ManagerInv, ManagerType
<1>6. InMemory'
    BY <1>1, <1>4 DEF ManagerInv, InMemory
<1>7. MakeCall' /\ ChangeCall' /\ DeleteCall'
    BY <1>2 DEF MakeCall, ChangeCall, DeleteCall
<1>8. RecordKept'
    BY <1>1, <1>4 DEF ManagerInv, RecordKept
<1>9. SeedOpens'
    BY <1>1, <1>4 DEF ManagerInv, InMemory, SeedOpens
<1>10. OnePlace'
    BY <1>1, <1>2, <1>3, <1>4 DEF ManagerInv, OnePlace
<1>11. SomePlace'
    BY <1>1, <1>4 DEF ManagerInv, SomePlace
<1> QED BY <1>5, <1>6, <1>7, <1>8, <1>9, <1>10, <1>11 DEF ManagerInv

\* The record is written for the wallet.db that the call has made or moved.
LEMMA CommitKeepsInv ==
    ASSUME ManagerInv, SaveNewWalletCommits
    PROVE  ManagerInv'
<1> DEFINE record == [owner |-> NewOwner, seed |-> op.seed]
<1>1. /\ op.kind \in Making /\ op.pc = "commit" /\ op' = NoOp /\ running
      /\ db' = Put(db, op.id, record) /\ lastId' = op.id
      /\ wallets' = Put(wallets, op.id, record) /\ opened' = opened \cup {op.id}
      /\ UNCHANGED <<files, backups, source, running, badWallets, created, made, deleted, torn,
                     halfDeleted>>
    BY DEF SaveNewWalletCommits, Creating, SetUp, Making, NewOwner, histVars
<1>2. /\ op.id = lastId + 1 /\ op.seed \in {"nil", op.pass} /\ op.id \in DOMAIN files
      /\ files[op.id] = [owner |-> NewOwner, pass |-> op.pass]
    BY <1>1 DEF ManagerInv, MakeCall
<1>3. /\ record \in WalletRec /\ record.owner = NewOwner /\ record.seed = op.seed
      /\ lastId \in Nat
    BY DEF NewOwner, Linked, WalletRec, ManagerInv, ManagerType, OpRec
<1> HIDE DEF record
<1>4. /\ DOMAIN db' = DOMAIN db \cup {op.id} /\ DOMAIN wallets' = DOMAIN wallets \cup {op.id}
      /\ db' = [j \in DOMAIN db \cup {op.id} |-> IF j = op.id THEN record ELSE db[j]]
      /\ wallets' = [j \in DOMAIN wallets \cup {op.id} |->
                        IF j = op.id THEN record ELSE wallets[j]]
    BY <1>1 DEF Put
<1>5. /\ op'.kind \notin Making \cup {"change", "delete"} /\ op' \in OpRec
    BY <1>1, NoOpType
<1>6. /\ op.id \notin DOMAIN db /\ op.id \notin badWallets /\ op.id \notin DOMAIN wallets
    BY <1>2 DEF ManagerInv, ManagerType, InMemory
<1>7. ManagerType'
    BY <1>1, <1>2, <1>3, <1>4, <1>5 DEF ManagerInv, ManagerType
<1>8. InMemory'
    BY <1>1, <1>2, <1>4, <1>6 DEF ManagerInv, InMemory
<1>9. MakeCall' /\ ChangeCall' /\ DeleteCall'
    BY <1>5 DEF MakeCall, ChangeCall, DeleteCall
<1>10. RecordKept'
    BY <1>1, <1>2, <1>3, <1>4, <1>5 DEF ManagerInv, RecordKept, Making
<1>11. SeedOpens'
    BY <1>1, <1>2, <1>3, <1>4, <1>5 DEF ManagerInv, InMemory, SeedOpens, Making
<1>12. OnePlace' /\ SomePlace'
    BY <1>1, <1>5 DEF ManagerInv, OnePlace, SomePlace
<1> QED BY <1>7, <1>8, <1>9, <1>10, <1>11, <1>12 DEF ManagerInv

LEMMA CreationKeepsInv ==
    ASSUME ManagerInv, CreationNext
    PROVE  ManagerInv'
<1>1. ASSUME NEW pass \in Passphrases, CreateNewWallet(pass) \/ RestoreWallet(pass)
      PROVE  ManagerInv'
    BY <1>1, SaveNewWalletKeepsInv
       DEF CreateNewWallet, RestoreWallet, Passphrases, Seeds, Making
<1>2. CASE CreateWatchOnlyWallet
    BY <1>2, SaveNewWalletKeepsInv DEF CreateWatchOnlyWallet, Seeds, Making
<1>3. CASE LinkExistingWallet
    BY <1>3, SaveNewWalletKeepsInv DEF LinkExistingWallet, LinkedPass, Seeds, Making
<1>4. CASE CreateFile \/ CreateWatchingOnlyFile
  <2>1. /\ op.kind \in Making \ {"link"} /\ op.pc = "setup" /\ NewOwner = created
        /\ made' = made \cup {created} /\ source' = source
    BY <1>4 DEF CreateFile, CreateWatchingOnlyFile, At, MakeFile, Making, NewOwner
  <2>2. PutsFile(NewOwner)
    BY <1>4, <2>1 DEF CreateFile, CreateWatchingOnlyFile, At, MakeFile, Goto, PutsFile, memVars,
                      Making, ManagerInv, ManagerType, OpRec
  <2> QED BY <2>2, PutsFileKeepsInv
<1>5. CASE LinkMovesFile
  <2>1. /\ op.kind = "link" /\ op.pc = "setup" /\ NewOwner = Linked /\ source' = FALSE
        /\ made' = made
    BY <1>5 DEF LinkMovesFile, At, NewOwner, histVars
  <2>2. PutsFile(NewOwner)
    BY <1>5, <2>1 DEF LinkMovesFile, Goto, PutsFile, memVars, histVars, Making,
                      ManagerInv, ManagerType, OpRec
  <2> QED BY <2>2, PutsFileKeepsInv
<1>6. CASE CreateFileFails \/ LinkMoveFails \/ LinkTxDbFails \/ SaveNewWalletCommitFails
  <2>1. /\ running /\ op.kind \in Making /\ op' = NoOp /\ UNCHANGED <<diskVars, memVars, histVars>>
    BY <1>6 DEF CreateFileFails, LinkMoveFails, LinkTxDbFails, SaveNewWalletCommitFails,
                Creating, CreationFails, At, Making
  <2>2. QuietCall
    BY <2>1, NoOpType DEF QuietCall, DiskKept, diskVars, histVars, Making
  <2> QED BY <2>2, QuietCallKeepsInv
<1> QED BY <1>1, <1>2, <1>3, <1>4, <1>5, <1>6, LinkOpensKeepsInv, LinkOpenFailsKeepsInv,
           CommitKeepsInv DEF CreationNext

----------------------------------------------------------------------------
(* Calls that save a wallet. *)

\* The record in memory may differ from the one that is saved only as long as a
\* change of the passphrase is unsaved, which saving it makes good.
LEMMA SaveKeepsInv ==
    ASSUME ManagerInv, NEW i \in DOMAIN wallets, SaveWallet(i) \/ VerifySeedForWallet(i)
    PROVE  ManagerInv'
<1>1. /\ op = NoOp /\ running
      /\ UNCHANGED <<lastId, files, backups, source, running, badWallets, opened, op, created,
                     made, deleted, halfDeleted>>
    BY DEF SaveWallet, VerifySeedForWallet, Idle
<1>2. wallets[i] \in WalletRec /\ i \in DOMAIN db /\ wallets \in [DOMAIN wallets -> WalletRec]
    BY DEF ManagerInv, ManagerType, InMemory
<1>3. /\ DOMAIN wallets' = DOMAIN wallets /\ wallets'[i] \in WalletRec
      /\ \A j \in DOMAIN wallets : j # i => wallets'[j] = wallets[j]
      /\ wallets'[i].owner = wallets[i].owner
      /\ wallets'[i].seed \in {"nil", wallets[i].seed}
      /\ wallets' \in [DOMAIN wallets' -> WalletRec]
    BY <1>2 DEF SaveWallet, VerifySeedForWallet, WalletRec, Seeds
<1>4. /\ DOMAIN db' = DOMAIN db
      /\ \A j \in DOMAIN db : j # i => db'[j] = db[j] /\ (j \in torn => j \in torn')
      /\ \/ db' = db /\ torn' = torn
         \/ /\ db'[i] = wallets'[i] /\ db' \in [DOMAIN db' -> WalletRec]
            /\ torn' = IF i \in DOMAIN files /\ wallets'[i].seed \in {"nil", files[i].pass}
                       THEN torn \ {i} ELSE torn
    BY <1>2, <1>3 DEF SaveWallet, VerifySeedForWallet, Save, Put, ManagerInv, ManagerType
<1>5. op.kind \notin Making \cup {"change", "delete"}
    BY <1>1, NoOpType
<1>6. ManagerType'
    BY <1>1, <1>3, <1>4 DEF ManagerInv, ManagerType
<1>7. InMemory'
    BY <1>1, <1>3, <1>4 DEF ManagerInv, InMemory
<1>8. MakeCall' /\ ChangeCall' /\ DeleteCall'
    BY <1>1, <1>5 DEF MakeCall, ChangeCall, DeleteCall
<1>9. RecordKept'
    BY <1>1, <1>2, <1>3, <1>4 DEF ManagerInv, InMemory, RecordKept
<1>10. SeedOpens'
  <2>1. SeedOpens /\ \A j \in DOMAIN wallets : j \in DOMAIN db
    BY DEF ManagerInv, InMemory
  <2>2. CASE db' = db /\ torn' = torn
    BY <1>1, <1>3, <1>5, <2>1, <2>2 DEF SeedOpens
  <2>3. CASE ~(db' = db /\ torn' = torn)
    BY <1>1, <1>2, <1>3, <1>4, <1>5, <2>1, <2>3 DEF SeedOpens
  <2> QED BY <2>2, <2>3
<1>11. OnePlace' /\ SomePlace'
    BY <1>1 DEF ManagerInv, OnePlace, SomePlace
<1> QED BY <1>6, <1>7, <1>8, <1>9, <1>10, <1>11 DEF ManagerInv

LEMMA ChangePassphraseKeepsInv ==
    ASSUME ManagerInv, NEW i \in opened, NEW old \in Seeds, NEW new \in Seeds,
           ChangePassphrase(i, old, new)
    PROVE  ManagerInv'
<1>1. /\ op = NoOp /\ running /\ i \in DOMAIN files /\ files' = [files EXCEPT ![i].pass = new]
      /\ op' = [kind |-> "change", pc |-> "save", id |-> i, pass |-> "nil",
                seed |-> IF wallets[i].seed = "nil" THEN "nil" ELSE new]
      /\ UNCHANGED <<db, lastId, backups, source, running, wallets, badWallets, opened, created,
                     made, deleted, torn, halfDeleted>>
    BY DEF ChangePassphrase, Idle, memVars, histVars
<1>2. i \in DOMAIN wallets /\ i \in Nat
    BY DEF ManagerInv, ManagerType, InMemory
<1>3. /\ op'.kind = "change" /\ op'.pc = "save" /\ op'.id = i /\ op'.seed \in {"nil", new}
      /\ op' \in OpRec /\ op.kind \notin Making \cup {"change", "delete"}
    BY <1>1, <1>2, NoOpType DEF OpRec, Seeds
<1>4. /\ DOMAIN files' = DOMAIN files /\ files' \in [DOMAIN files' -> FileRec]
      /\ \A j \in DOMAIN files : files'[j].owner = files[j].owner
      /\ files'[i].pass = new /\ \A j \in DOMAIN files : j # i => files'[j] = files[j]
    BY <1>1 DEF ManagerInv, ManagerType, FileRec
<1>5. ManagerType' /\ InMemory'
    BY <1>1, <1>3, <1>4 DEF ManagerInv, ManagerType, InMemory
<1>6. MakeCall' /\ ChangeCall' /\ DeleteCall'
    BY <1>1, <1>2, <1>3, <1>4 DEF MakeCall, ChangeCall, DeleteCall, Making
<1>7. RecordKept' /\ SeedOpens'
    BY <1>1, <1>3, <1>4 DEF ManagerInv, RecordKept, SeedOpens
<1>8. OnePlace' /\ SomePlace'
    BY <1>1, <1>3, <1>4 DEF ManagerInv, OnePlace, SomePlace, Making
<1> QED BY <1>5, <1>6, <1>7, <1>8 DEF ManagerInv

\* The record in memory has the seed as wallet.db's passphrase opens it, saved or not.
LEMMA ChangeEndsKeepsInv ==
    ASSUME ManagerInv, ChangeSaved \/ ChangeNotSaved
    PROVE  ManagerInv'
<1> DEFINE i == op.id
<1>1. /\ running /\ op.kind = "change" /\ op' = NoOp
      /\ wallets' = [wallets EXCEPT ![i].seed = op.seed]
      /\ UNCHANGED <<lastId, files, backups, source, running, badWallets, opened, created, made,
                     deleted, halfDeleted>>
      /\ \/ db' = Put(db, i, wallets'[i]) /\ torn' = torn \ {i}
         \/ db' = db /\ torn' = torn \cup {i}
    BY DEF ChangeSaved, ChangeNotSaved, At, Reencrypted, diskVars
<1>2. i \in DOMAIN wallets /\ i \in DOMAIN files /\ op.seed \in {"nil", files[i].pass}
    BY <1>1 DEF ManagerInv, ChangeCall
<1>3. /\ DOMAIN wallets' = DOMAIN wallets /\ wallets' \in [DOMAIN wallets' -> WalletRec]
      /\ wallets'[i].seed = op.seed /\ wallets'[i].owner = wallets[i].owner
      /\ \A j \in DOMAIN wallets : j # i => wallets'[j] = wallets[j]
    BY <1>1, <1>2 DEF ManagerInv, ManagerType, WalletRec, OpRec
<1> HIDE DEF i
<1>4. i \in DOMAIN db
    BY <1>2 DEF ManagerInv, InMemory
<1>5. /\ DOMAIN db' = DOMAIN db /\ db' \in [DOMAIN db' -> WalletRec]
      /\ \A j \in DOMAIN db : j # i => db'[j] = db[j] /\ (j \in torn => j \in torn')
      /\ \/ db'[i] = wallets'[i]
         \/ db'[i] = db[i] /\ i \in torn'
    BY <1>1, <1>2, <1>3, <1>4 DEF Put, ManagerInv, ManagerType
<1>6. op'.kind \notin Making \cup {"change", "delete"} /\ op' \in OpRec
    BY <1>1, NoOpType
<1>7. ManagerType' /\ InMemory'
    BY <1>1, <1>2, <1>3, <1>5, <1>6 DEF ManagerInv, ManagerType, InMemory
<1>8. MakeCall' /\ ChangeCall' /\ DeleteCall'
    BY <1>6 DEF MakeCall, ChangeCall, DeleteCall
<1>9. RecordKept'
    BY <1>1, <1>2, <1>3, <1>5 DEF ManagerInv, InMemory, RecordKept
<1>10. SeedOpens'
  <2>1. SeedOpens /\ \A j \in DOMAIN wallets : j \in DOMAIN db
    BY DEF ManagerInv, InMemory
  <2> QED BY <1>1, <1>2, <1>3, <1>5, <2>1 DEF SeedOpens, i
<1>11. OnePlace' /\ SomePlace'
    BY <1>1, <1>6 DEF ManagerInv, OnePlace, SomePlace
<1> QED BY <1>7, <1>8, <1>9, <1>10, <1>11 DEF ManagerInv

----------------------------------------------------------------------------
(* Deletions. *)

LEMMA DeleteWalletKeepsInv ==
    ASSUME ManagerInv, NEW i \in opened, DeleteWallet(i) \/ DeleteWalletHangs(i)
    PROVE  ManagerInv'
<1>1. /\ DiskKept /\ UNCHANGED <<running, wallets, badWallets, torn, halfDeleted>>
      /\ op = NoOp /\ running
      /\ \/ opened' = opened \ {i} /\ op' = [NoOp EXCEPT !.kind = "delete", !.pc = "remove", !.id = i]
         \/ opened' = opened /\ op' = [NoOp EXCEPT !.kind = "delete", !.pc = "hang", !.id = i]
    BY DEF DeleteWallet, DeleteWalletHangs, Idle, DiskKept, diskVars, memVars, histVars
<1>2. i \in DOMAIN wallets /\ i \in Nat
    BY DEF ManagerInv, ManagerType, InMemory
<1>3. /\ op'.kind = "delete" /\ op'.id = i /\ op' \in OpRec
      /\ (op'.pc = "remove" /\ i \notin opened') \/ op'.pc = "hang"
      /\ op.kind \notin Making \cup {"change", "delete"}
    BY <1>1, <1>2, NoOpType, ZenonT(60) DEF NoOp, OpRec, Seeds
<1> USE DEF DiskKept
<1>4. ManagerType' /\ InMemory'
    BY <1>1, <1>3 DEF ManagerInv, ManagerType, InMemory
<1>5. MakeCall' /\ ChangeCall' /\ DeleteCall'
    BY <1>1, <1>2, <1>3 DEF MakeCall, ChangeCall, DeleteCall, Making
<1>6. RecordKept' /\ SeedOpens'
    BY <1>1, <1>3 DEF ManagerInv, RecordKept, SeedOpens
<1>7. OnePlace' /\ SomePlace'
    BY <1>1, <1>3 DEF ManagerInv, OnePlace, SomePlace, Making
<1> QED BY <1>4, <1>5, <1>6, <1>7 DEF ManagerInv

\* The wallet.db of a closed wallet, or of no recorded one, is removed.
RemovesFile ==
    /\ op.kind = "delete" /\ running /\ op.id \notin opened
    /\ files' = [j \in DOMAIN files \ {op.id} |-> files[j]]
    /\ \A o \in deleted : o \in deleted'
    /\ op.id \in DOMAIN files => files[op.id].owner \in deleted'
    /\ UNCHANGED <<db, lastId, backups, source, running, wallets, badWallets, opened, created, made,
                   torn, halfDeleted>>
    /\ op' \in OpRec
    /\ \/ /\ op'.kind = "delete" /\ op'.pc = "record" /\ op'.id = op.id
          /\ op.id \in DOMAIN wallets
       \/ op'.kind = "none" /\ op.id \notin DOMAIN db /\ op.pc # "record"

LEMMA RemovesFileKeepsInv ==
    ASSUME ManagerInv, RemovesFile
    PROVE  ManagerInv'
<1> USE DEF RemovesFile
<1>1. ManagerType' /\ InMemory'
    BY DEF ManagerInv, ManagerType, InMemory
<1>2. MakeCall' /\ ChangeCall' /\ DeleteCall'
    BY DEF MakeCall, ChangeCall, DeleteCall, Making
<1>3. RecordKept'
    BY DEF ManagerInv, RecordKept
<1>4. SeedOpens'
    BY DEF ManagerInv, SeedOpens
<1>5. OnePlace'
    BY DEF ManagerInv, OnePlace, Making
<1>6. SomePlace'
    BY DEF ManagerInv, SomePlace
<1> QED BY <1>1, <1>2, <1>3, <1>4, <1>5, <1>6 DEF ManagerInv

LEMMA FilesRemovedKeepsInv ==
    ASSUME ManagerInv, DeleteRemovesFiles \/ DeleteBadWalletDone
    PROVE  ManagerInv'
<1>1. /\ op.kind = "delete" /\ running
      /\ files' = [j \in DOMAIN files \ {op.id} |-> files[j]]
      /\ deleted' = deleted \cup {files[j].owner : j \in {op.id} \cap DOMAIN files}
      /\ UNCHANGED <<db, lastId, backups, source, running, wallets, badWallets, opened, created,
                     made, torn, halfDeleted>>
      /\ \/ op.pc = "remove" /\ op' = [op EXCEPT !.pc = "record"]
         \/ op.pc = "removebad" /\ op' = NoOp
    BY DEF DeleteRemovesFiles, DeleteBadWalletDone, At, Goto, RemoveAll, Drop, memVars
<1>2. /\ \A o \in deleted : o \in deleted'
      /\ op.id \in DOMAIN files => files[op.id].owner \in deleted'
    BY <1>1
<1>3. /\ op.pc = "remove" => op.id \in DOMAIN wallets /\ op.id \notin opened
      /\ op.pc = "removebad" => op.id \notin DOMAIN db
    BY <1>1 DEF ManagerInv, DeleteCall
<1>4. op.id \notin opened
    BY <1>1, <1>3 DEF ManagerInv, InMemory
<1>5. /\ op' \in OpRec
      /\ op.pc = "remove" => op'.kind = "delete" /\ op'.pc = "record" /\ op'.id = op.id
      /\ op.pc = "removebad" => op'.kind = "none"
    BY <1>1, NoOpType DEF ManagerInv, ManagerType, OpRec, NoOp
<1>6. RemovesFile
    BY <1>1, <1>2, <1>3, <1>4, <1>5 DEF RemovesFile
<1> QED BY <1>6, RemovesFileKeepsInv

LEMMA DeleteFailsKeepsInv ==
    ASSUME ManagerInv, DeleteFails
    PROVE  ManagerInv'
<1>1. /\ DiskKept /\ UNCHANGED <<running, wallets, badWallets, opened, torn>>
      /\ running /\ op.kind = "delete" /\ op' = NoOp /\ halfDeleted' = halfDeleted \cup {op.id}
    BY DEF DeleteFails, DiskKept, diskVars, memVars
<1>2. op' \in OpRec /\ op'.kind \notin Making \cup {"change", "delete"}
    BY <1>1, NoOpType
<1> USE DEF DiskKept
<1>3. ManagerType' /\ InMemory'
    BY <1>1, <1>2 DEF ManagerInv, ManagerType, InMemory
<1>4. MakeCall' /\ ChangeCall' /\ DeleteCall'
    BY <1>2 DEF MakeCall, ChangeCall, DeleteCall
<1>5. RecordKept' /\ SeedOpens'
    BY <1>1 DEF ManagerInv, RecordKept, SeedOpens
<1>6. OnePlace' /\ SomePlace'
    BY <1>1, <1>2 DEF ManagerInv, OnePlace, SomePlace
<1> QED BY <1>3, <1>4, <1>5, <1>6 DEF ManagerInv

LEMMA DeleteDoneKeepsInv ==
    ASSUME ManagerInv, DeleteDone
    PROVE  ManagerInv'
<1>1. /\ running /\ op.kind = "delete" /\ op.pc = "record" /\ op' = NoOp
      /\ db' = [j \in DOMAIN db \ {op.id} |-> db[j]]
      /\ wallets' = [j \in DOMAIN wallets \ {op.id} |-> wallets[j]]
      /\ UNCHANGED <<lastId, files, backups, source, running, badWallets, opened, created, made,
                     deleted, torn, halfDeleted>>
    BY DEF DeleteDone, At, Drop, histVars
<1>2. op' \in OpRec /\ op'.kind \notin Making \cup {"change", "delete"}
    BY <1>1, NoOpType
<1>3. op.id \in DOMAIN wallets /\ op.id \notin opened
    BY <1>1 DEF ManagerInv, DeleteCall
<1>4. ManagerType' /\ InMemory'
    BY <1>1, <1>2, <1>3 DEF ManagerInv, ManagerType, InMemory
<1>5. MakeCall' /\ ChangeCall' /\ DeleteCall'
    BY <1>2 DEF MakeCall, ChangeCall, DeleteCall
<1>6. RecordKept' /\ SeedOpens'
    BY <1>1 DEF ManagerInv, InMemory, RecordKept, SeedOpens
<1>7. OnePlace' /\ SomePlace'
    BY <1>1, <1>2 DEF ManagerInv, OnePlace, SomePlace
<1> QED BY <1>4, <1>5, <1>6, <1>7 DEF ManagerInv

LEMMA DeleteBadWalletKeepsInv ==
    ASSUME ManagerInv, NEW i \in badWallets, DeleteBadWallet(i)
    PROVE  ManagerInv'
<1>1. /\ op = NoOp /\ running
      /\ op' = [NoOp EXCEPT !.kind = "delete", !.pc = "removebad", !.id = i]
      /\ db' = [j \in DOMAIN db \ {i} |-> db[j]] /\ badWallets' = badWallets \ {i}
      /\ UNCHANGED <<lastId, files, backups, source, running, wallets, opened, created, made,
                     deleted, torn, halfDeleted>>
    BY DEF DeleteBadWallet, Idle, Drop, histVars
<1>2. i \in Nat /\ i \notin DOMAIN wallets
    BY DEF ManagerInv, ManagerType, InMemory
<1>3. /\ op'.kind = "delete" /\ op'.pc = "removebad" /\ op'.id = i /\ op' \in OpRec
      /\ op.kind \notin Making \cup {"change", "delete"}
    BY <1>1, <1>2, NoOpType DEF NoOp, OpRec, Seeds
<1>4. ManagerType' /\ InMemory'
    BY <1>1, <1>2, <1>3 DEF ManagerInv, ManagerType, InMemory
<1>5. MakeCall' /\ ChangeCall' /\ DeleteCall'
    BY <1>1, <1>3 DEF MakeCall, ChangeCall, DeleteCall, Making
<1>6. RecordKept' /\ SeedOpens'
    BY <1>1, <1>2, <1>3 DEF ManagerInv, InMemory, RecordKept, SeedOpens
<1>7. OnePlace' /\ SomePlace'
    BY <1>1, <1>3 DEF ManagerInv, OnePlace, SomePlace, Making
<1> QED BY <1>4, <1>5, <1>6, <1>7 DEF ManagerInv

----------------------------------------------------------------------------
\* The steps that change what is in memory, and no call of a wallet goes on.
LEMMA MemoryKeepsInv ==
    ASSUME ManagerInv,
           \/ \E bad \in SUBSET DOMAIN db : NewMultiWallet(bad)
           \/ \E pass \in StartupPassphrases, more \in SUBSET DOMAIN wallets : OpenWallets(pass, more)
           \/ ShutdownNext
    PROVE  ManagerInv'
<1>0. /\ wallets = [i \in DOMAIN wallets |-> wallets[i]]
      /\ DOMAIN wallets \subseteq DOMAIN db /\ badWallets \subseteq DOMAIN db
      /\ badWallets \cap DOMAIN wallets = {}
      /\ opened \subseteq DOMAIN wallets /\ opened \subseteq DOMAIN files
    BY DEF ManagerInv, ManagerType, InMemory
<1>1. ASSUME NEW bad \in SUBSET DOMAIN db, NewMultiWallet(bad) PROVE MemoryStep
  <2>1. op = NoOp /\ op' = NoOp /\ op.kind \notin Making \cup {"change", "delete"}
    BY <1>1, NoOpType DEF NewMultiWallet, ManagerInv, InMemory
  <2>2. /\ badWallets' \subseteq DOMAIN db /\ DOMAIN wallets' = DOMAIN db \ badWallets'
        /\ wallets' = [i \in DOMAIN wallets' |-> wallets'[i]]
        /\ \A i \in DOMAIN wallets' : wallets'[i] = db[i]
        /\ opened' = {}
    BY <1>1 DEF NewMultiWallet, Good
  <2> QED BY <1>1, <2>1, <2>2
        DEF NewMultiWallet, MemoryStep, DiskKept, diskVars, histVars
<1>2. ASSUME NEW pass, NEW more \in SUBSET DOMAIN wallets, OpenWallets(pass, more)
      PROVE  MemoryStep
  <2>1. op = NoOp /\ op' = op /\ op.kind \notin Making \cup {"change", "delete"} /\ running'
    BY <1>2, NoOpType DEF OpenWallets, Idle
  <2>2. opened' \subseteq DOMAIN wallets /\ opened' \subseteq DOMAIN files
    BY <1>0, <1>2 DEF OpenWallets, OpenExistingWallet
  <2> QED BY <1>0, <1>2, <2>1, <2>2
        DEF OpenWallets, MemoryStep, DiskKept, diskVars, histVars
<1>3. ASSUME NEW i \in listening, ShutdownWallet(i) PROVE MemoryStep
  <2>1. op' = op /\ op.kind = "shutdown" /\ running'
    BY <1>3 DEF ShutdownWallet, At
  <2>2. /\ DOMAIN wallets' = DOMAIN wallets \ {i}
        /\ wallets' = [j \in DOMAIN wallets' |-> wallets'[j]]
        /\ \A j \in DOMAIN wallets' : wallets'[j] = wallets[j]
        /\ opened' = opened \ {i}
    BY <1>3 DEF ShutdownWallet, Drop
  <2> QED BY <1>0, <1>3, <2>1, <2>2
        DEF ShutdownWallet, MemoryStep, DiskKept, diskVars, histVars, Making
<1>4. ASSUME ShutdownDone PROVE MemoryStep
  <2>1. op' = NoOp /\ op.kind = "shutdown"
    BY <1>4 DEF ShutdownDone, At
  <2>2. badWallets' = {} /\ wallets' = wallets /\ opened' = opened
    BY <1>4 DEF ShutdownDone
  <2> QED BY <1>0, <1>4, <2>1, <2>2
        DEF ShutdownDone, MemoryStep, DiskKept, diskVars, histVars, Making
<1> QED BY <1>1, <1>2, <1>3, <1>4, MemoryStepKeepsInv DEF ShutdownNext

LEMMA ManagerInvStep == ManagerInv /\ [Next]_vars => ManagerInv'
<1> SUFFICES ASSUME ManagerInv, [Next]_vars PROVE ManagerInv'
    OBVIOUS
<1>1. CASE StartupNext \/ Shutdown
  <2>1. /\ running /\ op.kind \notin Making \cup {"change", "delete"}
        /\ UNCHANGED <<db, lastId, files, backups, source, memVars, histVars>>
    BY <1>1, NoOpType DEF StartupNext, ChangeStartupPassphrase, RemoveStartupPassphrase, SetStartupHash,
                SaveStartupConfig, Shutdown, Idle, At, diskVars, Making
  <2>2. op' \in OpRec /\ op'.kind \notin Making \cup {"change", "delete"}
    BY <1>1, NoOpType DEF StartupNext, ChangeStartupPassphrase, RemoveStartupPassphrase,
                          SetStartupHash, SaveStartupConfig, Shutdown
  <2>3. QuietCall
    BY <2>1, <2>2 DEF QuietCall, DiskKept, histVars
  <2> QED BY <2>3, QuietCallKeepsInv
<1>2. CASE SaveNext
  <2>1. ASSUME NEW i \in opened, NEW old \in Passphrases, NEW new \in Passphrases,
               ChangePassphrase(i, old, new)
        PROVE  ManagerInv'
    BY <2>1, ChangePassphraseKeepsInv DEF Passphrases, Seeds
  <2> QED BY <1>2, <2>1, SaveKeepsInv, ChangeEndsKeepsInv DEF SaveNext
<1>3. CASE DeletionNext
    BY <1>3, DeleteWalletKeepsInv, FilesRemovedKeepsInv, DeleteFailsKeepsInv,
       DeleteDoneKeepsInv, DeleteBadWalletKeepsInv DEF DeletionNext
<1>4. CASE UNCHANGED vars
  <2> USE <1>4 DEF vars, diskVars, memVars, histVars
  <2>1. ManagerType' /\ InMemory' /\ MakeCall' /\ ChangeCall' /\ DeleteCall'
    BY DEF ManagerInv, ManagerType, InMemory, MakeCall, NewOwner, ChangeCall, DeleteCall
  <2>2. RecordKept' /\ OnePlace' /\ SomePlace' /\ SeedOpens'
    BY DEF ManagerInv, RecordKept, OnePlace, SomePlace, SeedOpens
  <2> QED BY <2>1, <2>2 DEF ManagerInv
<1> QED BY <1>1, <1>2, <1>3, <1>4, MemoryKeepsInv, CreationKeepsInv, CrashKeepsInv DEF Next

LEMMA ManagerInvariant == Spec => []ManagerInv
BY ManagerInvInit, ManagerInvStep, PTL DEF Spec

\* However often saveNewWallet fails or the process ends in it, a recorded
\* wallet has its own wallet.db, or is half deleted.
THEOREM RecordsHaveTheirFiles == Spec => []RecordHasItsFile
<1>1. ManagerInv => RecordHasItsFile
    BY DEF ManagerInv, RecordKept, RecordHasItsFile
<1> QED BY ManagerInvariant, <1>1, PTL

\* saveNewWallet, LinkExistingWallet and backupFile move every wallet.db to one
\* place, and nothing but a deletion removes one.
THEOREM NoFileIsLost == Spec => []FilesAreKept
<1>1. ManagerInv => FilesAreKept
  <2> SUFFICES ASSUME ManagerInv, NEW o \in made, o \notin deleted
               PROVE  Cardinality({i \in DOMAIN files : files[i].owner = o})
                        + (IF o \in backups THEN 1 ELSE 0)
                        + (IF o = Linked /\ source THEN 1 ELSE 0) = 1
    BY DEF FilesAreKept
  <2> DEFINE places == {i \in DOMAIN files : files[i].owner = o}
  <2>1. CASE o \in backups \/ (o = Linked /\ source)
    <3>1. places = {}
      BY <2>1 DEF ManagerInv, OnePlace
    <3>2. ~(o \in backups /\ o = Linked /\ source)
      BY DEF ManagerInv, OnePlace
    <3>3. Cardinality(places) = 0
      BY <3>1, FS_EmptySet
    <3> HIDE DEF places
    <3>4. Cardinality(places) + (IF o \in backups THEN 1 ELSE 0)
            + (IF o = Linked /\ source THEN 1 ELSE 0) = 1
      BY <2>1, <3>2, <3>3
    <3> QED BY <3>4 DEF places
  <2>2. CASE o \notin backups /\ ~(o = Linked /\ source)
    <3>1. PICK i \in DOMAIN files : files[i].owner = o
      BY <2>2 DEF ManagerInv, SomePlace
    <3>2. places = {i}
      BY <3>1 DEF ManagerInv, OnePlace
    <3>3. Cardinality(places) = 1
      BY <3>2, FS_Singleton
    <3> HIDE DEF places
    <3>4. Cardinality(places) + (IF o \in backups THEN 1 ELSE 0)
            + (IF o = Linked /\ source THEN 1 ELSE 0) = 1
      BY <2>2, <3>3
    <3> QED BY <3>4 DEF places
  <2> QED BY <2>1, <2>2
<1> QED BY ManagerInvariant, <1>1, PTL

\* The seed of ChangePrivatePassphraseForWallet, VerifySeedForWallet and the
\* saves between them opens with the wallet's passphrase, but for a change that
\* was not saved.
THEOREM SeedsOpen == Spec => []SeedOpensWithPassphrase
<1>1. ManagerInv => SeedOpensWithPassphrase
    BY DEF ManagerInv, SeedOpens, SeedOpensWithPassphrase
<1> QED BY ManagerInvariant, <1>1, PTL
===============================================================================
