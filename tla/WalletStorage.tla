--------------------------- MODULE WalletStorage ---------------------------
(***************************************************************************)
(* The wallet file: WalletStorage in electronfittexxcoin/storage.py and the *)
(* wallet's save functions that fill it (wallet.py).                        *)
(*                                                                         *)
(* put and write take the storage's lock; save_transactions makes its puts  *)
(* one by one under the wallet's lock, which other threads that put or      *)
(* write do not take.  The dictionary holds for each key the version of the *)
(* ledger its value was made from.  The program may be killed and the       *)
(* machine may lose power at any point.                                    *)
(***************************************************************************)
EXTENDS Naturals, Sequences, FiniteSets

CONSTANTS
    Thread,         \* threads that call the storage
    Daemon,         \* those for which isDaemon() is true
    Pubkey,         \* keys the file may be encrypted to
    NoKey,          \* pubkey is None: the file is plain
    NoFile,         \* no file at this path
    Broken,         \* contents that cannot be read
    Nobody,         \* a lock nobody holds
    MaxVersion,     \* bound on the changes of the ledger
    MaxContacts,    \* bound on the changes of the contacts
    MaxFailures     \* bound on failed writes, kills and power losses

ASSUME StorageAssumption ==
    /\ Daemon \subseteq Thread /\ Nobody \notin Thread
    /\ NoKey \notin Pubkey
    /\ MaxVersion \in Nat /\ MaxContacts \in Nat /\ MaxFailures \in Nat

\* Mutant: the histories are put before the maps they refer to.
Puts_HistoryFirst == <<"transactions", "addr_history", "txi", "txo", "pruned_txo", "ct_txid_hash">>

\* The keys save_transactions puts, in its order.  tx_fees goes with
\* pruned_txo, and slp, ct_txi and ct_txo go with ct_txid_hash: they are put
\* next to them and play no part of their own.
Puts == <<"transactions", "txi", "txo", "pruned_txo", "addr_history", "ct_txid_hash">>

Key == {"transactions", "txi", "txo", "pruned_txo", "addr_history", "ct_txid_hash", "contacts2"}

VARIABLES
    ledger,         \* version of the wallet's maps in memory
    wallet_lock,    \* who holds wallet.lock for save_transactions
    saving,         \* index in Puts of its next put
    data,           \* self.data
    modified,       \* self.modified
    pubkey,         \* self.pubkey
    lock,           \* who holds self.lock for _write
    step,           \* how far _write is
    temp,           \* the file at temp_path; never read, so forgotten after a failure
    file,           \* the file at path
    disk,           \* the file the directory names on the disk: _write never syncs it
    failures        \* failures so far

walletVars == <<ledger, wallet_lock, saving>>
memVars == <<data, modified, pubkey>>
writeVars == <<lock, step, temp, file, disk>>
vars == <<walletVars, memVars, writeVars, failures>>

Fresh == [k \in Key |-> 0]
Idle == lock = Nobody

\* A file: the entries, the key they are encrypted to, whether all of it was
\* written and whether it is sure to survive a power loss.
File == [data : [Key -> Nat], key : Pubkey \cup {NoKey}, whole : BOOLEAN, synced : BOOLEAN]
Contents(d, k) == [data |-> d, key |-> k, whole |-> TRUE, synced |-> FALSE]

ASSUME FileAssumption == NoFile \notin File /\ NoFile \notin [Key -> Nat]

\* __init__ with no file at path: the put of seed_version sets modified.
Init ==
    /\ ledger = 0 /\ wallet_lock = Nobody /\ saving = 0
    /\ data = Fresh /\ modified = TRUE /\ pubkey = NoKey
    /\ lock = Nobody /\ step = "idle"
    /\ temp = NoFile /\ file = NoFile /\ disk = NoFile
    /\ failures = 0

-----------------------------------------------------------------------------
(* put and its callers.                                                    *)

put(k, v) ==
    /\ Idle
    /\ data' = [data EXCEPT ![k] = v]
    /\ modified' = (modified \/ data[k] # v)
    /\ UNCHANGED <<pubkey, writeVars, failures>>

\* Contacts.save and the like: a put under no lock but the storage's.
put_contacts ==
    /\ data["contacts2"] < MaxContacts
    /\ put("contacts2", data["contacts2"] + 1)
    /\ UNCHANGED walletVars

\* The network thread's callbacks change the maps under wallet.lock.
change_ledger ==
    /\ wallet_lock = Nobody /\ ledger < MaxVersion
    /\ ledger' = ledger + 1
    /\ UNCHANGED <<wallet_lock, saving, memVars, writeVars, failures>>

\* The cleaner of pruned_txo removes an entry and puts that map alone.
clean_pruned_txo ==
    /\ wallet_lock = Nobody /\ ledger < MaxVersion
    /\ ledger' = ledger + 1
    /\ put("pruned_txo", ledger + 1)
    /\ UNCHANGED <<wallet_lock, saving>>

save_transactions(t) ==
    /\ wallet_lock = Nobody
    /\ wallet_lock' = t /\ saving' = 1
    /\ UNCHANGED <<ledger, memVars, writeVars, failures>>

save_next ==
    /\ saving \in 1..Len(Puts)
    /\ put(Puts[saving], ledger)
    /\ saving' = saving + 1
    /\ UNCHANGED <<ledger, wallet_lock>>

\* set_up_to_date and save_network_state write before they let go of the
\* lock; check_history and clear_history do not write.
save_done ==
    /\ saving = Len(Puts) + 1 /\ lock # wallet_lock
    /\ wallet_lock' = Nobody /\ saving' = 0
    /\ UNCHANGED <<ledger, memVars, writeVars, failures>>

\* The rest of set_password, after its put: it takes no lock.
set_password(k) ==
    /\ k # pubkey
    /\ pubkey' = k
    /\ modified' = TRUE
    /\ UNCHANGED <<walletVars, data, writeVars, failures>>

-----------------------------------------------------------------------------
(* _write.                                                                 *)

\* Thread t may call write: it is not in the middle of its puts.
free(t) == wallet_lock = t => saving = Len(Puts) + 1

write(t) ==
    /\ Idle /\ free(t)
    /\ t \notin Daemon
    /\ modified
    /\ lock' = t /\ step' = "write"
    /\ temp' = [Contents(data, pubkey) EXCEPT !.whole = FALSE]
    /\ UNCHANGED <<walletVars, memVars, file, disk, failures>>

write_temp ==
    /\ step = "write"
    /\ temp' = [temp EXCEPT !.whole = TRUE]
    /\ step' = "fsync"
    /\ UNCHANGED <<walletVars, memVars, lock, file, disk, failures>>

\* Mutant: flush without fsync.
fsync_FlushOnly ==
    /\ step = "fsync"
    /\ step' = "replace"
    /\ UNCHANGED <<walletVars, memVars, lock, temp, file, disk, failures>>

fsync ==
    /\ step = "fsync"
    /\ temp' = [temp EXCEPT !.synced = TRUE]
    /\ step' = "replace"
    /\ UNCHANGED <<walletVars, memVars, lock, file, disk, failures>>

replace ==
    /\ step = "replace"
    /\ file' = temp /\ temp' = NoFile
    /\ step' = "done"
    /\ UNCHANGED <<walletVars, memVars, lock, disk, failures>>

written ==
    /\ step = "done"
    /\ modified' = FALSE
    /\ lock' = Nobody /\ step' = "idle"
    /\ UNCHANGED <<walletVars, data, pubkey, temp, file, disk, failures>>

\* Mutant: modified is cleared by a write that failed, too.
after_failure_Clean == FALSE

\* modified after an exception in _write
after_failure == modified

\* Mutant: the wallet's lock is given back in the middle of a save.
let_go_Half == wallet_lock' = Nobody /\ UNCHANGED saving

\* The with statements: a save that ends in an exception gives the lock back.
let_go ==
    IF wallet_lock = lock THEN wallet_lock' = Nobody /\ saving' = 0
    ELSE UNCHANGED <<wallet_lock, saving>>

\* The disk is full, or the file system refuses: an exception leaves _write.
\* It ends the call that was to save, which lets go of the wallet's lock.
write_fails ==
    /\ failures < MaxFailures /\ failures' = failures + 1
    /\ step \in {"write", "fsync", "replace"}
    /\ temp' = NoFile
    /\ modified' = after_failure
    /\ lock' = Nobody /\ step' = "idle"
    /\ let_go
    /\ UNCHANGED <<ledger, data, pubkey, file, disk>>

-----------------------------------------------------------------------------
(* Death and return.                                                       *)

\* What a power loss leaves of the file f.
survives(f) == IF f = NoFile THEN {NoFile}
               ELSE IF f.synced THEN {f} ELSE {f, [f EXCEPT !.whole = FALSE]}

\* The program starts again: load_data, or a new wallet.
start(f) ==
    /\ failures < MaxFailures /\ failures' = failures + 1
    /\ file' = f /\ temp' = NoFile
    /\ data' = IF f = NoFile THEN Fresh ELSE f.data
    /\ pubkey' = IF f = NoFile THEN NoKey ELSE f.key
    /\ modified' = (f = NoFile)
    /\ ledger' = data'["transactions"]
    /\ wallet_lock' = Nobody /\ saving' = 0
    /\ lock' = Nobody /\ step' = "idle"

\* The program is killed: what it replaced is still there.
killed == start(file) /\ UNCHANGED disk

\* The power fails: the path names the file that the directory on the disk names.
power_loss == \E f \in survives(disk) : start(f) /\ disk' = f

\* The operating system writes the directory, in its own time.
flush_directory ==
    /\ disk # file /\ disk' = file
    /\ UNCHANGED <<walletVars, memVars, lock, step, temp, file, failures>>

Next ==
    \/ put_contacts \/ change_ledger \/ clean_pruned_txo
    \/ \E t \in Thread : save_transactions(t) \/ write(t)
    \/ save_next \/ save_done
    \/ \E k \in Pubkey \cup {NoKey} : set_password(k)
    \/ write_temp \/ fsync \/ replace \/ written \/ write_fails
    \/ killed \/ power_loss \/ flush_directory

Spec == Init /\ [][Next]_vars

-----------------------------------------------------------------------------
(* Properties.                                                             *)

\* Every variable keeps to its values, and a lock is held exactly while the
\* call that took it is under way, failed writes included.
TypeOK ==
    /\ ledger \in 0..MaxVersion
    /\ {wallet_lock, lock} \subseteq Thread \cup {Nobody}
    /\ saving \in 0..(Len(Puts) + 1) /\ (saving = 0 <=> wallet_lock = Nobody)
    /\ data \in [Key -> Nat] /\ modified \in BOOLEAN
    /\ pubkey \in Pubkey \cup {NoKey}
    /\ step \in {"idle", "write", "fsync", "replace", "done"} /\ (step = "idle" <=> Idle)
    /\ \A f \in {temp, file, disk} : f = NoFile \/ f \in File
    /\ failures \in 0..MaxFailures

Entries == [Key -> 0..(MaxVersion + MaxContacts)]

\* What can be read of a file.
Readable(f) == IF f = NoFile THEN NoFile ELSE IF f.whole THEN f.data ELSE Broken

Abstract == INSTANCE AtomicFile WITH saved <- Readable(file), durable <- Readable(disk)

\* However a write is interrupted, the wallet file holds all entries of one moment
\* and the program comes back with them: after a kill those of the last write that
\* reached os.replace, after a power loss those or, because the directory is not
\* synced, those of an earlier write.
SavesAtomically == Abstract!Spec

\* When nothing is marked as modified the file holds the entries in memory:
\* write skips nothing that is not in the file, after failed writes too.
NothingUnsaved == ~modified /\ Idle => file # NoFile /\ file.data = data

\* The histories in the file are never newer than the maps in it, whichever
\* thread wrote and however far save_transactions was.  A newer history would
\* match the server's status, so nothing would fetch what the maps lack.  (Newer by
\* version: clear_history empties the maps and saves them with the histories.)
HistoryIsBacked ==
    file # NoFile =>
       \A k \in {"transactions", "txi", "txo"} : file.data["addr_history"] <= file.data[k]

\* After a write the file is encrypted as the user chose.
SavedAsChosen == ~modified /\ Idle => file.key = pubkey

-----------------------------------------------------------------------------
(* The inductive invariant of WalletStorageProofs.                         *)

\* Entries within the bounds on versions.
Bounded(d) ==
    /\ d \in [Key -> Nat] /\ d["contacts2"] <= MaxContacts
    /\ \A k \in Key \ {"contacts2"} : d[k] <= MaxVersion

\* The histories are not newer than the maps.
Backed(d) == \A k \in {"transactions", "txi", "txo"} : d["addr_history"] <= d[k]

\* A write under way saves the entries in memory, and they are marked.
WriteUnderWay ==
    /\ step # "idle" => modified
    /\ step \in {"write", "fsync", "replace"} => temp # NoFile /\ temp.data = data
    /\ step \in {"fsync", "replace"} => temp.whole
    /\ step = "replace" => temp.synced
    /\ step = "done" => file # NoFile /\ file.data = data

\* What save_transactions has put so far is of the version it saves.
SaveUnderWay ==
    /\ data["addr_history"] <= ledger
    /\ \A i \in 1..3 : saving > i => data[Puts[i]] = ledger

\* A file that replaced the wallet file is complete, its contents are synced, and its
\* histories are backed.
Sound(f) == f # NoFile => Bounded(f.data) /\ Backed(f.data) /\ f.whole /\ f.synced

\* Every entry and every file keeps to its bounds, histories are backed in memory
\* too, and what a write and a save under way have done so far is of the present:
\* together they make NothingUnsaved and HistoryIsBacked inductive.
StorageInv ==
    /\ TypeOK
    /\ Bounded(data) /\ Backed(data)
    /\ Sound(file) /\ Sound(disk)
    /\ WriteUnderWay /\ SaveUnderWay
    /\ NothingUnsaved
=============================================================================
