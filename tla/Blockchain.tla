----------------------------- MODULE Blockchain -----------------------------
(***************************************************************************)
(* The header store, electronfittexxcoin/blockchain.py.                     *)
(*                                                                         *)
(* Headers above the checkpoint live in one file per Blockchain object: the *)
(* root file blockchain_headers and forks/fork_<parent base>_<base>.  The   *)
(* base heights of the objects are distinct, so a base height names a file, *)
(* an object finds its file through its base height, and the dictionary     *)
(* blockchains finds the object.  Writes are steps of the network thread;   *)
(* the program can be killed between and inside them.                       *)
(***************************************************************************)
EXTENDS Integers, Sequences, FiniteSets

CONSTANTS
    Header,         \* block headers
    Genesis,        \* the header at height 0, networks.net.GENESIS
    Prev,           \* Prev[h]: the header whose hash h names as its parent
    Height,         \* Height[h]: block_height of h
    Checkpoint,     \* the header at VERIFICATION_BLOCK_HEIGHT
    Trunk,          \* headers of heights 0, 1, ... up to the checkpoint's
    Insufficient,   \* headers with the expected bits and too little work
    Chunks,         \* sequences of headers a server may send as a chunk
    Chain,          \* Blockchain objects
    NULL_HEADER,    \* a header of the sparse part never asked for
    NoHeader,       \* read_header's None
    Broken,         \* the tip of a chain that is no path of the tree
    NoSwap,         \* no exchange of files under way
    MaxForks,       \* bound on the number of fork files
    MaxCrashes      \* bound on the number of crashes

VERIFICATION_BLOCK_HEIGHT == Height[Checkpoint]
ROOT == 0           \* the base height of the root file

\* What swap_with_parent holds between its writes: base of the fork, the data
\* it read from the two files, and the last step it made.
Exchange ==
    [base : Nat \ {ROOT}, my_data : Seq(Header \cup {NULL_HEADER}),
     parent_data : Seq(Header \cup {NULL_HEADER}), step : {"read", "self", "both"}]

ASSUME HeaderAssumption ==
    /\ Checkpoint \in Header /\ VERIFICATION_BLOCK_HEIGHT \in Nat \ {0}
    /\ Height \in [Header -> Nat]
    /\ Trunk \in Seq(Header) /\ Len(Trunk) = VERIFICATION_BLOCK_HEIGHT + 1
    /\ Trunk[Len(Trunk)] = Checkpoint
    /\ \A i \in 1..Len(Trunk) : Height[Trunk[i]] = i - 1
    /\ Prev \in [Header \ {Genesis} -> Header] /\ Height[Genesis] = 0
    /\ \A h \in Header \ {Genesis} : Height[h] = Height[Prev[h]] + 1
    /\ Insufficient \subseteq Header
    /\ Chunks \subseteq Seq(Header)
    /\ NULL_HEADER \notin Header /\ NoHeader \notin Header \cup {NULL_HEADER}
    /\ Broken \notin Header
    /\ NoSwap \notin Exchange
    /\ MaxForks \in Nat /\ MaxCrashes \in Nat

VARIABLES
    file,           \* file[b]: headers in the file with base height b
    parent,         \* parent[b]: parent_base_height in that file's name
    blockchains,    \* blockchains[b]: the object with base_height b
    swapping,       \* what swap_with_parent has read, and how far it is
    crashes         \* crashes so far

vars == <<file, parent, blockchains, swapping, crashes>>

-----------------------------------------------------------------------------
(* Reading.  f is the contents of the files.                               *)

Base == DOMAIN file
top(f, b) == b + Len(f[b]) - 1                      \* height()
base_height(o) == CHOOSE b \in Base : blockchains[b] = o
height(o) == top(file, base_height(o))

\* the file that holds height h of the chain with base b
owner(b, h) == LET own[s \in Base] == IF h >= s THEN s ELSE own[parent[s]] IN own[b]

header_in(f, b, h) ==
    LET s == owner(b, h)
    IN IF h \in s..top(f, s) /\ f[s][h - s + 1] # NULL_HEADER
       THEN f[s][h - s + 1] ELSE NoHeader

read_header(o, h) == header_in(file, base_height(o), h)
check_header(o, h) == h = Genesis \/ read_header(o, Height[h]) = h

\* module-level check_header: the root is the first entry of blockchains
holders(h) ==
    IF check_header(blockchains[ROOT], h) THEN {blockchains[ROOT]}
    ELSE {blockchains[b] : b \in {c \in Base : check_header(blockchains[c], h)}}

verify_header(h) == h \notin Insufficient

can_connect(o, h, check_height) ==
    /\ check_height => height(o) = Height[h] - 1
    /\ h # Genesis => read_header(o, Height[h] - 1) = Prev[h]
    /\ verify_header(h)

-----------------------------------------------------------------------------
(* Writing.                                                                *)

\* write: what the file holds after data went to position off
written(b, data, off) == [file EXCEPT ![b] = SubSeq(@, 1, off) \o data]

\* Mutant: the fork must be two headers longer.
swap_with_parent_Late(f, b) ==
    IF b = ROOT THEN NoSwap
    ELSE LET p == parent[b]
             parent_branch_size == top(f, p) - b + 1
         IN IF parent_branch_size + 1 >= Len(f[b]) THEN NoSwap
            ELSE [base |-> b, my_data |-> f[b],
                  parent_data |-> SubSeq(f[p], b - p + 1, Len(f[p])), step |-> "read"]

\* swap_with_parent: nothing, or the data it reads before its first write
swap_with_parent(f, b) ==
    IF b = ROOT THEN NoSwap
    ELSE LET p == parent[b]
             parent_branch_size == top(f, p) - b + 1
         IN IF parent_branch_size >= Len(f[b]) THEN NoSwap
            ELSE [base |-> b, my_data |-> f[b],
                  parent_data |-> SubSeq(f[p], b - p + 1, Len(f[p])), step |-> "read"]

Save(f, b) ==
    /\ file' = f
    /\ swapping' = swap_with_parent(f, b)
    /\ UNCHANGED <<parent, blockchains, crashes>>

\* A single header that connects: _process_latest_tip and catching up.
save_header(o, h) ==
    /\ swapping = NoSwap
    /\ can_connect(o, h, TRUE)
    /\ LET b == base_height(o)
       IN Save(written(b, <<h>>, Height[h] - b), b)

\* A header that branches off below the top of o opens a new file.
branches(o, h) ==
    /\ swapping = NoSwap
    /\ Height[h] > VERIFICATION_BLOCK_HEIGHT
    /\ Height[h] \notin Base /\ Cardinality(Base) <= MaxForks
    /\ can_connect(o, h, FALSE) /\ o \in holders(Prev[h])
    /\ height(o) >= Height[h] /\ ~check_header(o, h)

new_file(o, b, data) ==
    \E new \in Chain \ {blockchains[c] : c \in Base} :
       /\ file' = [c \in Base \cup {b} |-> IF c = b THEN data ELSE file[c]]
       /\ parent' = [c \in Base \cup {b} |-> IF c = b THEN base_height(o) ELSE parent[c]]
       /\ blockchains' = [c \in Base \cup {b} |-> IF c = b THEN new ELSE blockchains[c]]

fork(o, h) ==
    /\ branches(o, h)
    /\ new_file(o, Height[h], <<h>>)
    /\ UNCHANGED <<swapping, crashes>>

\* The file for that base height holds another branch: it is emptied and
\* started again with h.
replaceable(o, h) ==
    /\ swapping = NoSwap
    /\ Height[h] > VERIFICATION_BLOCK_HEIGHT
    /\ Height[h] \in Base
    /\ can_connect(o, h, FALSE)
    /\ ~check_header(blockchains[Height[h]], h)
    /\ ~check_header(blockchains[parent[Height[h]]], h)

replace(o, h) ==
    /\ replaceable(o, h)
    /\ Save(written(Height[h], <<h>>, 0), Height[h])

\* A chunk that joins the top of o.  verify_chunk's verdict makes no
\* difference: the chunk is saved either way.
connect_chunk(o, data) ==
    /\ swapping = NoSwap
    /\ data # <<>>
    /\ Height[data[1]] = height(o) + 1
    /\ read_header(o, height(o)) = Prev[data[1]]
    /\ LET b == base_height(o)
       IN Save(written(b, data, Height[data[1]] - b), b)

\* A proven chunk of heights b..e is laid over the sparse part of the root
\* file, which is not truncated.  (On a fork nothing is written: the headers
\* lie below its base.)
connect_proof(b, e) ==
    /\ swapping = NoSwap
    /\ b <= e
    /\ file' = [file EXCEPT ![ROOT] =
                   [i \in DOMAIN @ |-> IF i - 1 \in b..e THEN Trunk[i] ELSE @[i]]]
    /\ UNCHANGED <<parent, blockchains, swapping, crashes>>

-----------------------------------------------------------------------------
(* swap_with_parent: two files are rewritten, then the two objects trade    *)
(* their base heights.                                                     *)

write_self ==
    /\ swapping # NoSwap /\ swapping.step = "read"
    /\ file' = [file EXCEPT ![swapping.base] = swapping.parent_data]
    /\ swapping' = [swapping EXCEPT !.step = "self"]
    /\ UNCHANGED <<parent, blockchains, crashes>>

\* Mutant: the offset in the parent's file is one too low.
write_parent_Low ==
    /\ swapping # NoSwap /\ swapping.step = "self"
    /\ LET p == parent[swapping.base]
       IN file' = written(p, swapping.my_data, swapping.base - p - 1)
    /\ swapping' = [swapping EXCEPT !.step = "both"]
    /\ UNCHANGED <<parent, blockchains, crashes>>

write_parent ==
    /\ swapping # NoSwap /\ swapping.step = "self"
    /\ LET p == parent[swapping.base]
       IN file' = written(p, swapping.my_data, swapping.base - p)
    /\ swapping' = [swapping EXCEPT !.step = "both"]
    /\ UNCHANGED <<parent, blockchains, crashes>>

\* Mutant: only the fork's entry in blockchains is changed.
swap_pointers_One ==
    /\ swapping # NoSwap /\ swapping.step = "both"
    /\ blockchains' = [blockchains EXCEPT ![parent[swapping.base]] = blockchains[swapping.base]]
    /\ swapping' = NoSwap
    /\ UNCHANGED <<file, parent, crashes>>

swap_pointers ==
    /\ swapping # NoSwap /\ swapping.step = "both"
    /\ LET b == swapping.base
           p == parent[b]
       IN blockchains' = [blockchains EXCEPT ![b] = blockchains[p], ![p] = blockchains[b]]
    /\ swapping' = NoSwap
    /\ UNCHANGED <<file, parent, crashes>>

-----------------------------------------------------------------------------
(* Crashes.  A write is cut short after any number of whole headers; a part *)
(* of one at the end of a file does not count (update_size).  read_blockchains *)
(* then finds what is on the disk.                                         *)

torn(data) == {SubSeq(data, 1, n) : n \in 0..Len(data)}

\* contents the files may be left with
on_disk ==
    {file} \cup
    (IF swapping = NoSwap THEN {}
     ELSE LET b == swapping.base
              p == parent[b]
          IN CASE swapping.step = "read" -> {written(b, d, 0) : d \in torn(swapping.parent_data)}
               [] swapping.step = "self" -> {written(p, d, b - p) : d \in torn(swapping.my_data)}
               [] OTHER -> {})

read_blockchains ==
    /\ crashes < MaxCrashes
    /\ crashes' = crashes + 1
    /\ swapping' = NoSwap

crash ==
    /\ read_blockchains
    /\ file' \in on_disk
    /\ UNCHANGED <<parent, blockchains>>

\* fork and replace make an empty file before they write the header
crash_in_fork(o, h) ==
    /\ read_blockchains
    /\ branches(o, h)
    /\ new_file(o, Height[h], <<>>)

crash_in_replace(o, h) ==
    /\ read_blockchains
    /\ replaceable(o, h)
    /\ file' = written(Height[h], <<>>, 0)
    /\ UNCHANGED <<parent, blockchains>>

-----------------------------------------------------------------------------
Init ==
    /\ file = [b \in {ROOT} |-> [i \in 1..(VERIFICATION_BLOCK_HEIGHT + 1) |-> NULL_HEADER]]
    /\ parent = [b \in {ROOT} |-> ROOT]
    /\ \E o \in Chain : blockchains = [b \in {ROOT} |-> o]
    /\ swapping = NoSwap
    /\ crashes = 0

Live == {blockchains[b] : b \in Base}

Next ==
    \/ \E o \in Live, h \in Header : save_header(o, h) \/ fork(o, h) \/ replace(o, h)
    \/ \E o \in Live, data \in Chunks : connect_chunk(o, data)
    \/ \E b, e \in 0..VERIFICATION_BLOCK_HEIGHT : connect_proof(b, e)
    \/ write_self \/ write_parent \/ swap_pointers
    \/ crash
    \/ \E o \in Live, h \in Header : crash_in_fork(o, h) \/ crash_in_replace(o, h)

Spec == Init /\ [][Next]_vars

-----------------------------------------------------------------------------
(* What the store promises.                                                *)

\* The contents the objects stand for: while two files are exchanged, those
\* from before the exchange.
meant ==
    IF swapping = NoSwap THEN file
    ELSE LET b == swapping.base
             p == parent[b]
         IN [file EXCEPT ![b] = swapping.my_data,
                         ![p] = SubSeq(@, 1, b - p) \o swapping.parent_data]

\* Every header of b's chain follows the one below it.
Linked(b) ==
    \A h \in (VERIFICATION_BLOCK_HEIGHT + 1)..top(meant, b) :
       /\ header_in(meant, b, h) \in Header
       /\ IF h = VERIFICATION_BLOCK_HEIGHT + 1 THEN Prev[header_in(meant, b, h)] = Checkpoint
          ELSE Prev[header_in(meant, b, h)] = header_in(meant, b, h - 1)

tip_of(b) ==
    IF ~Linked(b) THEN Broken
    ELSE IF top(meant, b) = VERIFICATION_BLOCK_HEIGHT THEN Checkpoint
    ELSE header_in(meant, b, top(meant, b))

\* The last header of every object's chain.
tips == [o \in Chain |-> IF o \in Live THEN tip_of(base_height(o)) ELSE NoHeader]

Chains == INSTANCE HeaderChains WITH tip <- tips, main <- blockchains[ROOT]

\* Each known chain is a path of the header tree and changes only by being
\* extended, by a new branch, or by a crash that invents no header and keeps
\* the root's chain: exchanging the files of a fork and its parent
\* (swap_with_parent) changes no chain, wherever it is interrupted.
ChainsAreLinked == Chains!Spec

\* Without a crash the longest chain is in the root file whenever no
\* exchange is under way: swap_with_parent is called after every write.
RootIsLongest ==
    swapping = NoSwap /\ crashes = 0 => \A b \in Base : top(file, b) <= top(file, ROOT)

\* Files and objects stay paired: every file has a parent below it and an
\* object of its own, however often forks and their parents traded places.
TypeOK ==
    /\ file \in [Base -> Seq(Header \cup {NULL_HEADER})]
    /\ parent \in [Base -> Base] /\ blockchains \in [Base -> Chain]
    /\ Base \subseteq Nat /\ ROOT \in Base /\ \A b \in Base \ {ROOT} : parent[b] < b
    /\ \A a, b \in Base : blockchains[a] = blockchains[b] => a = b
    /\ swapping = NoSwap \/ swapping.base \in Base \ {ROOT}
    /\ crashes \in 0..MaxCrashes

\* Half-way through an exchange the two files and the data in memory make up
\* the two branches, and the fork's is the longer one.
ExchangeInv ==
    LET b == swapping.base
    IN  swapping # NoSwap =>
            /\ swapping \in Exchange /\ b \in Base
            /\ Len(swapping.my_data) > Len(swapping.parent_data)
            /\ file[b] = IF swapping.step = "read" THEN swapping.my_data ELSE swapping.parent_data
            /\ SubSeq(file[ROOT], b + 1, Len(file[ROOT])) =
                  IF swapping.step = "both" THEN swapping.my_data ELSE swapping.parent_data

\* What RootIsLongest rests on, with at most one fork file: the fork leaves the
\* root's chain above the checkpoint, and there is no gap below it.
StoreInv ==
    /\ TypeOK /\ RootIsLongest /\ ExchangeInv
    /\ \A b \in Base \ {ROOT} : Base = {ROOT, b}
    /\ Len(file[ROOT]) > VERIFICATION_BLOCK_HEIGHT
    /\ \A b \in Base \ {ROOT} : b > VERIFICATION_BLOCK_HEIGHT /\ Len(file[ROOT]) >= b

\* With at most one fork file: the headers of b's chain from height 0 on.
chain_of(f, b) == IF b = ROOT THEN f[ROOT] ELSE SubSeq(f[ROOT], 1, b) \o f[b]

\* Position i of a chain; the checkpoint is there though its header may not be.
link(s, i) == IF i = VERIFICATION_BLOCK_HEIGHT + 1 THEN Checkpoint ELSE s[i]

IsPath(s) ==
    /\ \A i \in 1..(VERIFICATION_BLOCK_HEIGHT + 1) : s[i] \in {NULL_HEADER, Trunk[i]}
    /\ \A i \in (VERIFICATION_BLOCK_HEIGHT + 2)..Len(s) :
          s[i] \in Header /\ Height[s[i]] = i - 1 /\ Prev[s[i]] = link(s, i - 1)

\* What ChainsAreLinked rests on: the chains, as they were before an exchange
\* that is under way, are paths of the tree.
PathInv == \A b \in Base : IsPath(chain_of(meant, b))

\* Every header above the checkpoint that a chain stores passed
\* verify_header.  False of connect_chunk, which saves a chunk that fails.
StoredIsVerified ==
    \A b \in Base : \A i \in DOMAIN file[b] : file[b][i] \notin Insufficient
=============================================================================
