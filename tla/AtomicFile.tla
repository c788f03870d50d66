----------------------------- MODULE AtomicFile -----------------------------
(***************************************************************************)
(* What storage.py promises: the wallet file changes from one complete set  *)
(* of entries to the next, a write that fails changes nothing, and a        *)
(* program that dies comes back with the set that is in the file.  A power  *)
(* loss may take the file back to a set saved before, never to a mixture.   *)
(***************************************************************************)
EXTENDS Naturals

CONSTANTS
    Entries,        \* what the dictionary can hold
    Fresh,          \* the entries of a new wallet
    NoFile          \* there is no wallet file yet

VARIABLES
    data,           \* the entries in memory
    saved,          \* the entries in the file
    durable,        \* the entries that survive a power loss
    failures        \* failed writes and deaths so far

Init == data = Fresh /\ saved = NoFile /\ durable = NoFile /\ failures = 0

Change == data' \in Entries /\ UNCHANGED <<saved, durable, failures>>

Save == saved' = data /\ UNCHANGED <<data, durable, failures>>

Settle == durable' = saved /\ UNCHANGED <<data, saved, failures>>

Fail == failures' = failures + 1 /\ UNCHANGED <<data, saved, durable>>

\* The program starts again from the set `from'.
Restart(from) ==
    /\ failures' = failures + 1
    /\ data' = IF from = NoFile THEN Fresh ELSE from
    /\ saved' = from
    /\ UNCHANGED durable

Next == Change \/ Save \/ Settle \/ Fail \/ Restart(saved) \/ Restart(durable)

Spec == Init /\ [][Next]_<<data, saved, durable, failures>>
=============================================================================
