------------------------ MODULE WalletStorageProofs ------------------------
(***************************************************************************)
(* Theorems about WalletStorage, for any number of threads, keys and        *)
(* versions, failed writes and power losses.                                *)
(***************************************************************************)
EXTENDS WalletStorage, TLAPS

\* The order of the puts, spelled out.
LEMMA PutsFacts ==
    /\ Len(Puts) = 6 /\ \A i \in 1..6 : Puts[i] \in Key \ {"contacts2"}
    /\ Puts[1] = "transactions" /\ Puts[2] = "txi" /\ Puts[3] = "txo"
    /\ Puts[4] = "pruned_txo" /\ Puts[5] = "addr_history" /\ Puts[6] = "ct_txid_hash"
BY DEF Puts, Key

\* A new wallet satisfies the invariant.
LEMMA InitInv == Init => StorageInv
BY StorageAssumption, PutsFacts
   DEF Init, StorageInv, TypeOK, Sound, Bounded, Backed, WriteUnderWay, SaveUnderWay,
       NothingUnsaved, Fresh, Idle, Key

\* The changes outside the dictionary: versions, and starting a save.
LEMMA MemoryInv ==
    ASSUME StorageInv,
           change_ledger \/ (\E t \in Thread : save_transactions(t)) \/ save_done
    PROVE  StorageInv'
<1> USE StorageAssumption, PutsFacts
<1>1. CASE change_ledger
  BY <1>1 DEF change_ledger, memVars, writeVars, StorageInv, TypeOK, Sound, Bounded, Backed,
       WriteUnderWay, SaveUnderWay, NothingUnsaved, Idle, Key
<1>2. ASSUME NEW t \in Thread, save_transactions(t) PROVE StorageInv'
  BY <1>2 DEF save_transactions, memVars, writeVars, StorageInv, TypeOK, Sound, Bounded, Backed,
       WriteUnderWay, SaveUnderWay, NothingUnsaved, Idle, Key
<1>3. CASE save_done
  BY <1>3 DEF save_done, memVars, writeVars, StorageInv, TypeOK, Sound, Bounded, Backed,
       WriteUnderWay, SaveUnderWay, NothingUnsaved, Idle, Key
<1> QED BY <1>1, <1>2, <1>3

\* What a step of _write keeps while it leaves the memory and the file alone.
LEMMA WritingInv ==
    ASSUME StorageInv, UNCHANGED <<walletVars, memVars, file, disk>>,
           ~ Idle', TypeOK', WriteUnderWay'
    PROVE  StorageInv'
<1>1. UNCHANGED <<ledger, saving, data, file, disk>>
  BY DEF walletVars, memVars
<1>2. Bounded(data)' /\ Backed(data)' /\ SaveUnderWay'
  BY <1>1 DEF StorageInv, Bounded, Backed, SaveUnderWay
<1>3. Sound(file)' /\ Sound(disk)'
  BY <1>1 DEF StorageInv, Sound, Bounded, Backed
<1>4. NothingUnsaved'
  BY DEF NothingUnsaved
<1>5. QED
  BY <1>2, <1>3, <1>4 DEF StorageInv

\* The steps of _write, and set_password.
LEMMA WriteInv ==
    ASSUME StorageInv,
           \/ \E t \in Thread : write(t)
           \/ write_temp \/ fsync \/ replace \/ written \/ write_fails
           \/ \E k \in Pubkey \cup {NoKey} : set_password(k)
    PROVE  StorageInv'
<1> USE StorageAssumption, FileAssumption, PutsFacts
<1>1. ASSUME NEW t \in Thread, write(t) PROVE StorageInv'
  <2>1. /\ modified /\ lock' = t /\ step' = "write" /\ temp' = [Contents(data, pubkey) EXCEPT !.whole = FALSE]
        /\ UNCHANGED <<walletVars, memVars, file, disk, failures>>
    BY <1>1 DEF write
  <2>2. UNCHANGED <<ledger, wallet_lock, saving, data, modified, pubkey>>
    BY <2>1 DEF walletVars, memVars
  <2>3. t # Nobody
    OBVIOUS
  <2>4. data \in [Key -> Nat] /\ pubkey \in Pubkey \cup {NoKey}
    BY DEF StorageInv, TypeOK
  <2>5. temp' = [data |-> data, key |-> pubkey, whole |-> FALSE, synced |-> FALSE]
    BY <2>1 DEF Contents
  <2>6. temp' \in File /\ temp'.data = data
    BY <2>4, <2>5 DEF File
  <2>7. TypeOK'
    BY <2>1, <2>2, <2>3, <2>6 DEF StorageInv, TypeOK, Idle
  <2>8. WriteUnderWay'
    BY <2>1, <2>2, <2>6 DEF WriteUnderWay
  <2>9. QED
    BY <2>1, <2>3, <2>7, <2>8, WritingInv DEF Idle
<1>2. CASE write_temp
  <2>1. /\ step = "write" /\ step' = "fsync" /\ temp' = [temp EXCEPT !.whole = TRUE]
        /\ UNCHANGED <<walletVars, memVars, lock, file, disk, failures>>
    BY <1>2 DEF write_temp
  <2>2. UNCHANGED <<ledger, wallet_lock, saving, data, modified, pubkey>>
    BY <2>1 DEF walletVars, memVars
  <2>3. modified /\ temp \in File /\ temp.data = data /\ ~ Idle
    BY <2>1 DEF StorageInv, TypeOK, WriteUnderWay
  <2>4. temp' \in File /\ temp'.data = data /\ temp'.whole
    BY <2>1, <2>3 DEF File
  <2>5. TypeOK'
    BY <2>1, <2>2, <2>3, <2>4 DEF StorageInv, TypeOK, Idle
  <2>6. WriteUnderWay'
    BY <2>1, <2>2, <2>3, <2>4 DEF WriteUnderWay
  <2>7. QED
    BY <2>1, <2>3, <2>5, <2>6, WritingInv DEF Idle
<1>3. CASE fsync
  <2>1. /\ step = "fsync" /\ step' = "replace" /\ temp' = [temp EXCEPT !.synced = TRUE]
        /\ UNCHANGED <<walletVars, memVars, lock, file, disk, failures>>
    BY <1>3 DEF fsync
  <2>2. UNCHANGED <<ledger, wallet_lock, saving, data, modified, pubkey>>
    BY <2>1 DEF walletVars, memVars
  <2>3. modified /\ temp \in File /\ temp.data = data /\ temp.whole /\ ~ Idle
    BY <2>1 DEF StorageInv, TypeOK, WriteUnderWay
  <2>4. temp' \in File /\ temp'.data = data /\ temp'.whole /\ temp'.synced
    BY <2>1, <2>3 DEF File
  <2>5. TypeOK'
    BY <2>1, <2>2, <2>3, <2>4 DEF StorageInv, TypeOK, Idle
  <2>6. WriteUnderWay'
    BY <2>1, <2>2, <2>3, <2>4 DEF WriteUnderWay
  <2>7. QED
    BY <2>1, <2>3, <2>5, <2>6, WritingInv DEF Idle
<1>4. CASE replace
  BY <1>4 DEF replace, walletVars, memVars, StorageInv, TypeOK, File, Sound, Bounded, Backed,
       WriteUnderWay, SaveUnderWay, NothingUnsaved, Idle, Key
<1>5. CASE written
  BY <1>5 DEF written, walletVars, StorageInv, TypeOK, File, Sound, Bounded, Backed,
       WriteUnderWay, SaveUnderWay, NothingUnsaved, Idle, Key
<1>6. CASE write_fails
  BY <1>6 DEF write_fails, after_failure, let_go, StorageInv, TypeOK, File, Sound, Bounded, Backed,
       WriteUnderWay, SaveUnderWay, NothingUnsaved, Idle, Key
<1>7. ASSUME NEW k \in Pubkey \cup {NoKey}, set_password(k) PROVE StorageInv'
  BY <1>7 DEF set_password, walletVars, writeVars, StorageInv, TypeOK, File, Sound, Bounded, Backed,
       WriteUnderWay, SaveUnderWay, NothingUnsaved, Idle, Key
<1> QED BY <1>1, <1>2, <1>3, <1>4, <1>5, <1>6, <1>7

\* The puts.
LEMMA PutInv ==
    ASSUME StorageInv, put_contacts \/ clean_pruned_txo \/ save_next
    PROVE  StorageInv'
<1> USE StorageAssumption, FileAssumption, PutsFacts
<1>1. CASE put_contacts
  <2>1. /\ data' = [data EXCEPT !["contacts2"] = data["contacts2"] + 1]
        /\ modified' = (modified \/ data["contacts2"] # data["contacts2"] + 1)
        /\ Idle /\ data["contacts2"] < MaxContacts
        /\ UNCHANGED <<ledger, wallet_lock, saving, pubkey, lock, step, temp, file, disk, failures>>
    BY <1>1 DEF put_contacts, put, walletVars, writeVars
  <2>2. /\ data' \in [Key -> Nat] /\ data'["contacts2"] = data["contacts2"] + 1
        /\ \A k \in Key \ {"contacts2"} : data'[k] = data[k]
    BY <2>1 DEF StorageInv, Bounded, Key
  <2>3. TypeOK' /\ WriteUnderWay'
    BY <2>1, <2>2 DEF StorageInv, TypeOK, WriteUnderWay, Idle
  <2>4. Bounded(data') /\ Backed(data') /\ SaveUnderWay'
    BY <2>1, <2>2 DEF StorageInv, Bounded, Backed, SaveUnderWay, Key
  <2>5. modified'
    <3>1. data["contacts2"] # data["contacts2"] + 1
      BY DEF StorageInv, Bounded, Key
    <3> QED BY <2>1, <3>1, Zenon
  <2> QED BY <2>1, <2>3, <2>4, <2>5 DEF StorageInv, Sound, Bounded, Backed, NothingUnsaved
<1>2. CASE clean_pruned_txo
  <2>1. /\ data' = [data EXCEPT !["pruned_txo"] = ledger + 1]
        /\ modified' = (modified \/ data["pruned_txo"] # ledger + 1) /\ Idle
        /\ ledger' = ledger + 1 /\ ledger < MaxVersion /\ wallet_lock = Nobody
        /\ UNCHANGED <<wallet_lock, saving, pubkey, lock, step, temp, file, disk, failures>>
    BY <1>2 DEF clean_pruned_txo, put, writeVars
  <2>2. /\ data' \in [Key -> Nat] /\ data'["pruned_txo"] = ledger + 1
        /\ \A k \in Key \ {"pruned_txo"} : data'[k] = data[k]
    BY <2>1 DEF StorageInv, TypeOK, Bounded, Key
  <2>3. TypeOK' /\ WriteUnderWay'
    BY <2>1, <2>2 DEF StorageInv, TypeOK, WriteUnderWay, Idle
  <2>4. Bounded(data') /\ Backed(data') /\ SaveUnderWay'
    BY <2>1, <2>2 DEF StorageInv, TypeOK, Sound, Bounded, Backed, SaveUnderWay, Key
  <2>5. NothingUnsaved'
    <3> SUFFICES ASSUME ~modified' PROVE file # NoFile /\ file.data = data'
      BY <2>1 DEF NothingUnsaved
    <3>1. ~modified /\ data["pruned_txo"] = ledger + 1 /\ data' = data
      BY <2>1 DEF StorageInv, TypeOK
    <3> QED BY <2>1, <3>1 DEF StorageInv, NothingUnsaved
  <2> QED BY <2>1, <2>3, <2>4, <2>5 DEF StorageInv, Sound, Bounded, Backed
<1>3. CASE save_next
  <2> DEFINE k == Puts[saving]
  <2>1. /\ saving \in 1..6 /\ saving' = saving + 1 /\ k \in Key \ {"contacts2"}
        /\ data' = [data EXCEPT ![k] = ledger] /\ data' \in [Key -> Nat]
        /\ modified' = (modified \/ data[k] # ledger)
        /\ step = "idle" /\ Idle
        /\ UNCHANGED <<ledger, wallet_lock, pubkey, lock, step, temp, file, disk, failures>>
    BY <1>3 DEF save_next, put, writeVars, StorageInv, TypeOK, Bounded, Idle
  <2>2. TypeOK'
    BY <2>1 DEF StorageInv, TypeOK, Idle, File
  <2>3. Bounded(data') /\ SaveUnderWay' /\ Backed(data')
    <3>1. Bounded(data')
      BY <2>1 DEF StorageInv, TypeOK, Bounded, Key
    <3>2. SaveUnderWay'
      BY <2>1 DEF StorageInv, TypeOK, Bounded, SaveUnderWay, Key
    <3>3. Backed(data')
      BY <2>1, <3>2 DEF StorageInv, TypeOK, Bounded, SaveUnderWay, Backed, Key
    <3> QED BY <3>1, <3>2, <3>3
  <2>4. WriteUnderWay'
    BY <2>1 DEF StorageInv, WriteUnderWay
  <2>5. NothingUnsaved'
    <3> SUFFICES ASSUME ~modified' PROVE file # NoFile /\ file.data = data'
      BY <2>1 DEF NothingUnsaved
    <3>1. ~modified /\ data[k] = ledger /\ data' = data
      BY <2>1 DEF StorageInv, TypeOK
    <3> QED BY <2>1, <3>1 DEF StorageInv, NothingUnsaved
  <2> QED BY <2>1, <2>2, <2>3, <2>4, <2>5 DEF StorageInv, Sound, Bounded, Backed
<1> QED BY <1>1, <1>2, <1>3

\* The program comes back with the entries of a sound file.
LEMMA StartInv ==
    ASSUME StorageInv, NEW f, f = NoFile \/ f \in File, Sound(f), start(f),
           disk' = NoFile \/ disk' \in File, Sound(disk')
    PROVE  StorageInv'
<1> USE StorageAssumption, FileAssumption, PutsFacts
<1>1. /\ file' = f /\ temp' = NoFile /\ step' = "idle" /\ lock' = Nobody
      /\ data' = (IF f = NoFile THEN Fresh ELSE f.data)
      /\ pubkey' = (IF f = NoFile THEN NoKey ELSE f.key)
      /\ modified' = (f = NoFile)
      /\ ledger' = data'["transactions"] /\ wallet_lock' = Nobody /\ saving' = 0
      /\ failures < MaxFailures /\ failures' = failures + 1
  BY DEF start
<1>2. Bounded(data') /\ Backed(data')
  <2>1. CASE f = NoFile
    BY <1>1, <2>1 DEF Bounded, Backed, Fresh, Key
  <2>2. CASE f # NoFile
    BY <1>1, <2>2 DEF Sound
  <2> QED BY <2>1, <2>2
<1>3. ledger' \in 0..MaxVersion /\ SaveUnderWay'
  BY <1>1, <1>2 DEF Bounded, Backed, SaveUnderWay, Key
<1>4. TypeOK'
  <2>1. failures' \in 0..MaxFailures
    BY <1>1 DEF StorageInv, TypeOK
  <2>2. saving' \in 0..(Len(Puts) + 1) /\ (saving' = 0 <=> wallet_lock' = Nobody)
    BY <1>1
  <2>3. \A g \in {temp', file', disk'} : g = NoFile \/ g \in File
    BY <1>1
  <2>4. pubkey' \in Pubkey \cup {NoKey}
    BY <1>1 DEF File
  <2>5. /\ data' \in [Key -> Nat] /\ modified' \in BOOLEAN
        /\ {wallet_lock', lock'} \subseteq Thread \cup {Nobody}
        /\ step' \in {"idle", "write", "fsync", "replace", "done"} /\ (step' = "idle" <=> Idle')
    BY <1>1, <1>2 DEF Idle, Bounded
  <2> QED BY <1>3, <2>1, <2>2, <2>3, <2>4, <2>5 DEF TypeOK
<1>5. WriteUnderWay' /\ NothingUnsaved' /\ Sound(file')
  BY <1>1 DEF WriteUnderWay, NothingUnsaved, Idle
<1>6. QED
  BY <1>2, <1>3, <1>4, <1>5 DEF StorageInv, Sound, Bounded, Backed

\* A kill and a power loss leave one of the two files; the directory is written.
LEMMA PowerInv ==
    ASSUME StorageInv, killed \/ power_loss \/ flush_directory
    PROVE  StorageInv'
<1> USE StorageAssumption, FileAssumption, PutsFacts
<1>1. /\ Sound(file) /\ Sound(disk)
      /\ file = NoFile \/ file \in File
      /\ disk = NoFile \/ disk \in File
  BY DEF StorageInv, TypeOK
<1>2. CASE killed
  BY <1>1, <1>2, StartInv DEF killed
<1>3. CASE power_loss
  <2>1. PICK f \in survives(disk) : start(f) /\ disk' = f
    BY <1>3 DEF power_loss
  <2>2. f = disk
    BY <1>1, <2>1 DEF survives, Sound
  <2> QED BY <1>1, <2>1, <2>2, StartInv
<1>4. CASE flush_directory
  BY <1>4 DEF flush_directory, walletVars, memVars, StorageInv, TypeOK, Sound, Bounded, Backed,
       WriteUnderWay, SaveUnderWay, NothingUnsaved, Idle
<1> QED BY <1>2, <1>3, <1>4

\* Every step keeps the invariant.
LEMMA NextInv == StorageInv /\ [Next]_vars => StorageInv'
<1> SUFFICES ASSUME StorageInv, [Next]_vars PROVE StorageInv'
  OBVIOUS
<1>1. CASE Next
  BY <1>1, MemoryInv, WriteInv, PutInv, PowerInv DEF Next
<1>2. CASE UNCHANGED vars
  BY <1>2 DEF vars, walletVars, memVars, writeVars, StorageInv, TypeOK, Sound, Bounded, Backed,
       WriteUnderWay, SaveUnderWay, NothingUnsaved, Idle
<1> QED BY <1>1, <1>2

\* The invariant of the storage holds in every state.
THEOREM StorageAlways == Spec => []StorageInv
BY InitInv, NextInv, PTL DEF Spec

\* Every variable of the storage keeps its type and its bound, and a lock is
\* held exactly while the call that took it runs, failed writes included.
THEOREM TypeCorrect == Spec => []TypeOK
<1>1. StorageInv => TypeOK
  BY DEF StorageInv
<1> QED BY <1>1, StorageAlways, PTL

\* write (storage.py) never skips entries that are not in the file, for any
\* number of threads and failed writes.
THEOREM NothingLost == Spec => []NothingUnsaved
<1>1. StorageInv => NothingUnsaved
  BY DEF StorageInv
<1> QED BY <1>1, StorageAlways, PTL

\* save_transactions puts the histories after the maps they refer to: the file
\* never has a history newer than its maps, whichever thread writes between
\* two puts and wherever the program dies.
THEOREM HistoryBacked == Spec => []HistoryIsBacked
<1>1. StorageInv => HistoryIsBacked
  BY DEF StorageInv, HistoryIsBacked, Sound, Backed
<1> QED BY <1>1, StorageAlways, PTL

\* A step of the storage is a step of AtomicFile or leaves it alone.
LEMMA NextAtomic ==
    ASSUME StorageInv, StorageInv', [Next]_vars
    PROVE  [Abstract!Next]_<<data, Readable(file), Readable(disk), failures>>
<1> USE StorageAssumption, FileAssumption
<1>0. ASSUME NEW f, Sound(f) PROVE Readable(f) = (IF f = NoFile THEN NoFile ELSE f.data) /\ (f # NoFile => f.data # NoFile)
  BY <1>0 DEF Readable, Sound, Bounded
<1>6. Sound(file) /\ Sound(disk)
  BY DEF StorageInv
<1>1. CASE replace
  <2>1. data' = data /\ file' = temp /\ temp # NoFile /\ temp.whole /\ temp.data = data
        /\ failures' = failures /\ disk' = disk
    BY <1>1 DEF replace, memVars, StorageInv, WriteUnderWay
  <2> QED BY <2>1 DEF Abstract!Next, Abstract!Save, Readable
<1>2. ASSUME NEW f \in {file, disk}, start(f), Readable(disk)' = Readable(disk)
      PROVE  Abstract!Restart(Readable(file)) \/ Abstract!Restart(Readable(disk))
  <2>1. Readable(f) = (IF f = NoFile THEN NoFile ELSE f.data) /\ (f # NoFile => f.data # NoFile)
    BY <1>0, <1>6
  <2>2. /\ file' = f /\ failures' = failures + 1
        /\ data' = (IF f = NoFile THEN Fresh ELSE f.data)
    BY <1>2 DEF start
  <2>3. Readable(file)' = Readable(f)
    BY <2>2 DEF Readable
  <2>4. data' = (IF Readable(f) = NoFile THEN Fresh ELSE Readable(f))
    BY <2>1, <2>2
  <2>5. Abstract!Restart(Readable(f))
    BY <1>2, <2>2, <2>3, <2>4 DEF Abstract!Restart
  <2> QED BY <2>5
<1>3. CASE killed
  <2>1. start(file) /\ Readable(disk)' = Readable(disk)
    BY <1>3 DEF killed, Readable
  <2> QED BY <1>2, <2>1 DEF Abstract!Next
<1>4. CASE power_loss
  <2>1. PICK f \in survives(disk) : start(f) /\ disk' = f
    BY <1>4 DEF power_loss
  <2>2. f = disk
    BY <1>6, <2>1 DEF survives, Sound
  <2>3. start(disk) /\ Readable(disk)' = Readable(disk)
    BY <2>1, <2>2 DEF Readable
  <2> QED BY <1>2, <2>3 DEF Abstract!Next
<1>5. CASE flush_directory
  <2>1. disk' = file /\ UNCHANGED <<data, file, failures>>
    BY <1>5 DEF flush_directory, memVars
  <2> QED BY <2>1 DEF Abstract!Next, Abstract!Settle, Readable
<1>7. CASE write_fails
  BY <1>7 DEF write_fails, Abstract!Next, Abstract!Fail, Readable
<1>8. ASSUME Next \/ UNCHANGED vars, ~replace, ~killed, ~power_loss, ~flush_directory, ~write_fails
      PROVE  UNCHANGED <<file, disk, failures>>
  BY <1>8 DEF Next, put_contacts, put, change_ledger, clean_pruned_txo, save_transactions, write,
       save_next, save_done, set_password, write_temp, fsync, written, writeVars, vars
<1>9. CASE UNCHANGED <<file, disk, failures>>
  <2>1. data' \in Entries
    BY DEF StorageInv, Bounded, Entries, Key
  <2> QED BY <1>9, <2>1 DEF Abstract!Next, Abstract!Change, Readable
<1> QED BY <1>1, <1>3, <1>4, <1>5, <1>7, <1>8, <1>9

\* The storage implements AtomicFile: the wallet file goes from one complete
\* set of entries to the next, a failed write changes nothing, a killed program
\* finds the last set saved, and a power loss brings back a set saved whole, the
\* last one if the directory has reached the disk since and an earlier one if not.
THEOREM AtomicSaves == Spec => SavesAtomically
<1>1. Init => Abstract!Init
  BY DEF Init, Abstract!Init, Readable
<1> QED BY <1>1, StorageAlways, NextAtomic, PTL DEF Spec, SavesAtomically, Abstract!Spec
=============================================================================
