-------------------------------- MODULE SPV --------------------------------
(***************************************************************************)
(* Simple payment verification: SPV in electronfittexxcoin/verifier.py and  *)
(* the maps unverified_tx and verified_tx it maintains in wallet.py.        *)
(*                                                                         *)
(* run, the handlers and the history callbacks are steps of the network     *)
(* thread.  The headers the client knows form a tree of Blockchain objects; *)
(* each keeps its headers and only grows, and a reorganisation is the main  *)
(* interface moving from one object to another.  A merkle root stands for   *)
(* its block: a branch hashes to the root of the block that was proved, and *)
(* the hash function is taken to be collision free.                         *)
(***************************************************************************)
EXTENDS Integers, Sequences, FiniteSets, FiniteSetsExt

CONSTANTS
    Tx,             \* transactions of the wallet
    Chain,          \* Blockchain objects
    Base,           \* Base[c]: base_height, the height of c's first own header
    Parent,         \* Parent[c]: the object c forks from, or NoChain
    Blocks,         \* Blocks[c]: the blocks of c from height 1 on
    Includes,       \* Includes[b]: the transactions in block b
    Time,           \* Time[b]: the timestamp in b's header
    FirstChain,     \* the chain followed at the start
    MaxQlen,        \* max_qlen of get_merkle_for_transaction
    MaxSwitches, MaxRestarts,   \* bounds on what the environment does
    NoChain, NoTx, Error        \* no parent; no entry; an error response

Block == UNION {{Blocks[c][i] : i \in DOMAIN Blocks[c]} : c \in Chain}

ASSUME ChainAssumption ==
    /\ FirstChain \in Chain
    /\ NoChain \notin Chain
    /\ Base \in [Chain -> Nat]
    /\ Parent \in [Chain -> Chain \cup {NoChain}]
    /\ \A c \in Chain : Blocks[c] \in Seq(Block)
    /\ \A c \in Chain : Parent[c] # NoChain =>
          \A i \in 1..(Base[c] - 1) : Blocks[c][i] = Blocks[Parent[c]][i]
    /\ Includes \in [Block -> SUBSET Tx]
    /\ Time \in [Block -> Nat]
    /\ \A c \in Chain : Len(Blocks[c]) >= 1 /\ Base[c] <= Len(Blocks[c])
    /\ \A c \in Chain : Parent[c] # NoChain => Base[c] <= Len(Blocks[Parent[c]])
    /\ IsFiniteSet(Tx)
    /\ NoTx \notin [height : Nat, block : Block] /\ NoTx \notin Nat /\ NoTx \notin Block
    /\ MaxQlen \in Nat \ {0} /\ MaxSwitches \in Nat /\ MaxRestarts \in Nat

VARIABLES
    tip,                \* tip[c]: height of the last header c has
    followed,           \* network.blockchain(), the chain of the main interface
    hist,               \* hist[t]: height of t in the wallet's histories
    unverified_tx,      \* unverified_tx[t]: height, or NoTx
    verified_tx,        \* verified_tx[t]: the proved height and block, or NoTx
    blockchain,         \* SPV: the chain it last looked at
    merkle_roots,       \* SPV: transactions proved since it started
    requested_merkle,   \* SPV: transactions with a proof under way
    requests,           \* Network: unanswered get_merkle requests
    replies,            \* answers not yet handled
    switches, restarts  \* how often the environment has acted

walletVars == <<hist, unverified_tx, verified_tx>>
spvVars == <<blockchain, merkle_roots, requested_merkle>>
netVars == <<requests, replies>>
envVars == <<tip, followed, switches, restarts>>
vars == <<walletVars, spvVars, netVars, envVars>>

-----------------------------------------------------------------------------
(* Blockchain                                                               *)

\* read_header(h) of chain c: the block, or NoTx when there is no header yet.
read_header(c, h) == IF h \in 1..tip[c] THEN Blocks[c][h] ELSE NoTx

\* get_base_height: the fork point of the highest child, or of c itself.
get_base_height(c) ==
    LET children == {Base[d] : d \in {e \in Chain : Parent[e] = c}}
    IN  IF children = {} THEN Base[c] ELSE Max(children)

\* Where a server that follows c lists t; 0 is the mempool.
height_on(c, t) ==
    LET at == {i \in DOMAIN Blocks[c] : t \in Includes[Blocks[c][i]]}
    IN  IF at = {} THEN 0 ELSE Min(at)

Init ==
    /\ tip = [c \in Chain |-> Max({1, Base[c]} \cup {Base[d] : d \in {e \in Chain : Parent[e] = c}})]
    /\ followed = FirstChain
    /\ hist = [t \in Tx |-> NoTx]
    /\ unverified_tx = [t \in Tx |-> NoTx]
    /\ verified_tx = [t \in Tx |-> NoTx]
    /\ blockchain = FirstChain
    /\ merkle_roots = {}
    /\ requested_merkle = {}
    /\ requests = {}
    /\ replies = {}
    /\ switches = 0
    /\ restarts = 0

-----------------------------------------------------------------------------
(* The wallet's side                                                        *)

\* Mutant: the proof is kept.
without_proof_Kept(T) == merkle_roots

\* merkle_roots after the proofs of T are forgotten: remove_spv_proof_for_tx.
without_proof(T) == merkle_roots \ T

\* receive_history_callback or receive_tx_callback brings a height for t and
\* calls add_unverified_tx.  A server lists t unconfirmed or where its chain
\* has it, and does not take back a block of the chain it follows.
add_unverified_tx(t, h) ==
    LET dropped == h <= 0 /\ verified_tx[t] # NoTx
    IN  /\ hist[t] # h
        /\ h \in {0, height_on(followed, t)}
        /\ h = 0 => hist[t] # height_on(followed, t)
        /\ hist' = [hist EXCEPT ![t] = h]
        /\ verified_tx' = [verified_tx EXCEPT ![t] = IF dropped THEN NoTx ELSE @]
        /\ merkle_roots' = without_proof(IF dropped THEN {t} ELSE {})
        /\ unverified_tx' = [unverified_tx EXCEPT ![t] = IF verified_tx'[t] = NoTx THEN h ELSE @]
        /\ UNCHANGED <<blockchain, requested_merkle, netVars, envVars>>

\* Mutant: the block at the base height itself is taken as common.
undone_Above(c) ==
    {t \in Tx : /\ verified_tx[t] # NoTx
                /\ verified_tx[t].height > get_base_height(c)
                /\ \/ read_header(c, verified_tx[t].height) = NoTx
                   \/ Time[read_header(c, verified_tx[t].height)] # Time[verified_tx[t].block]}

\* wallet.undo_verifications: proofs whose header is not in c, told by its
\* timestamp.
undone(c) ==
    {t \in Tx : /\ verified_tx[t] # NoTx
                /\ verified_tx[t].height >= get_base_height(c)
                /\ \/ read_header(c, verified_tx[t].height) = NoTx
                   \/ Time[read_header(c, verified_tx[t].height)] # Time[verified_tx[t].block]}

-----------------------------------------------------------------------------
(* The verifier                                                             *)

\* Mutant: a transaction is taken as requested although the queue was full.
sent_All(eligible, S) == eligible

\* The transactions run adds to requested_merkle: those whose request was taken.
sent(eligible, S) == S

\* Mutant: the queue is refused only once it is longer than max_qlen.
room_OneMore == MaxQlen + 1 - Cardinality(requests)

\* How many more requests queue_request takes; the verifier's are the only ones
\* counted.
room == MaxQlen - Cardinality(requests)

\* One tick: ask for the proofs that are due while the request queue takes
\* them, then undo what does not belong to the chain now followed.
run(S) ==
    LET eligible == {t \in Tx : /\ unverified_tx[t] # NoTx
                                /\ t \notin requested_merkle \cup merkle_roots
                                /\ unverified_tx[t] > 0 /\ unverified_tx[t] <= tip[followed]}
        undo == IF followed # blockchain THEN undone(followed) ELSE {}
    IN  /\ S \subseteq eligible
        /\ Cardinality(S) = Min({Cardinality(eligible), room})
        /\ requests' = requests \cup {[tx |-> t, height |-> unverified_tx[t]] : t \in S}
        /\ blockchain' = followed
        /\ verified_tx' = [t \in Tx |-> IF t \in undo THEN NoTx ELSE verified_tx[t]]
        /\ merkle_roots' = without_proof(undo)
        /\ requested_merkle' = (requested_merkle \cup sent(eligible, S)) \ undo
        /\ UNCHANGED <<hist, unverified_tx, replies, envVars>>

\* Mutant: the branch is not compared with the root in the header.
proved_Unchecked(r) == r.block # Error /\ read_header(followed, r.height) # NoTx

\* The branch in r hashes to the merkle root of the header at that height.
proved(r) == r.block # Error /\ read_header(followed, r.height) = r.block

\* A success moves the transaction to verified_tx.  After a failure it stays in
\* requested_merkle.
verify_merkle(r) ==
    /\ r \in replies
    /\ replies' = replies \ {r}
    /\ IF proved(r)
       THEN /\ merkle_roots' = merkle_roots \cup {r.tx}
            /\ requested_merkle' = requested_merkle \ {r.tx}
            /\ unverified_tx' = [unverified_tx EXCEPT ![r.tx] = NoTx]
            /\ verified_tx' = [verified_tx EXCEPT ![r.tx] =
                                  [height |-> r.height, block |-> read_header(followed, r.height)]]
       ELSE UNCHANGED <<merkle_roots, requested_merkle, unverified_tx, verified_tx>>
    /\ UNCHANGED <<hist, blockchain, requests, envVars>>

\* The wallet is closed and opened again, on a chain that may have moved on:
\* verified_tx comes from the file, prepare_for_verifier fills unverified_tx,
\* and a new SPV starts.
restart(c) ==
    /\ restarts < MaxRestarts
    /\ restarts' = restarts + 1
    /\ followed' = c
    /\ blockchain' = c
    /\ verified_tx' = [t \in Tx |-> IF hist[t] = 0 THEN NoTx ELSE verified_tx[t]]
    /\ unverified_tx' = [t \in Tx |-> IF verified_tx'[t] = NoTx THEN hist[t] ELSE NoTx]
    /\ merkle_roots' = {} /\ requested_merkle' = {}
    /\ requests' = {} /\ replies' = {}
    /\ UNCHANGED <<hist, tip, switches>>

-----------------------------------------------------------------------------
(* The network                                                              *)

\* The server proves t in the block at that height of its chain, if it is there.
answer(q) ==
    /\ q \in requests
    /\ requests' = requests \ {q}
    /\ LET b == Blocks[followed][q.height]
           found == q.height \in DOMAIN Blocks[followed] /\ q.tx \in Includes[b]
       IN  replies' = replies \cup {[tx |-> q.tx, height |-> q.height,
                                     block |-> IF found THEN b ELSE Error]}
    /\ UNCHANGED <<walletVars, spvVars, envVars>>

header_arrives(c) ==
    /\ tip[c] < Len(Blocks[c])
    /\ tip' = [tip EXCEPT ![c] = @ + 1]
    /\ UNCHANGED <<walletVars, spvVars, netVars, followed, switches, restarts>>

\* The main interface reorganises, or another server becomes the main one.
switch_chain(c) ==
    /\ switches < MaxSwitches
    /\ c # followed
    /\ followed' = c
    /\ switches' = switches + 1
    /\ UNCHANGED <<walletVars, spvVars, netVars, tip, restarts>>

Next ==
    \/ \E t \in Tx, h \in 0..Len(Blocks[followed]) : add_unverified_tx(t, h)
    \/ \E S \in SUBSET Tx : run(S)
    \/ \E r \in replies : verify_merkle(r)
    \/ \E q \in requests : answer(q)
    \/ \E c \in Chain : header_arrives(c)
    \/ \E c \in Chain : switch_chain(c)
    \/ \E c \in Chain : restart(c)

Spec == Init /\ [][Next]_vars

\* The network thread runs its jobs and handles what has arrived in every turn
\* of its loop; servers answer and send their headers and histories.
FairSpec ==
    /\ Spec
    /\ WF_vars(\E S \in SUBSET Tx : run(S))
    /\ \A t \in Tx : WF_vars(add_unverified_tx(t, height_on(followed, t)))
    /\ WF_vars(\E r \in replies : verify_merkle(r))
    /\ WF_vars(\E q \in requests : answer(q))
    /\ \A c \in Chain : WF_vars(header_arrives(c))

-----------------------------------------------------------------------------
(* Properties                                                               *)

Height == UNION {0..Len(Blocks[c]) : c \in Chain}

\* The maps have the shapes the code gives them, what is verified has a height
\* above the mempool's, and get_merkle_for_transaction never has more than
\* max_qlen requests unanswered.
TypeOK ==
    /\ tip \in [Chain -> Height]
    /\ followed \in Chain /\ blockchain \in Chain
    /\ \A t \in Tx : {hist[t], unverified_tx[t]} \subseteq Height \cup {NoTx}
    /\ \A t \in Tx : \/ verified_tx[t] = NoTx
                     \/ verified_tx[t] \in [height : Height \ {0}, block : Block]
    /\ merkle_roots \subseteq Tx /\ requested_merkle \subseteq Tx
    /\ requests \subseteq [tx : Tx, height : Height \ {0}]
    /\ Cardinality(requests) <= MaxQlen

\* Whatever chain is followed while a proof travels, a transaction counts as
\* verified only with a block that really contains it: verify_merkle compares
\* the branch with the header of the chain followed when the reply is handled.
VerifiedIsIncluded ==
    \A t \in Tx : verified_tx[t] # NoTx => t \in Includes[verified_tx[t].block]

\* A proof SPV remembers is one the wallet has: run skips what is in
\* merkle_roots, so a transaction forgotten by the wallet alone is never asked
\* for again.
ProvedIsVerified ==
    \A t \in merkle_roots : verified_tx[t] # NoTx

\* The shapes the two facts above rest on, and what a reply on its way says: a
\* branch that is not an error proves its transaction in the block it names.
ProofInv ==
    /\ followed \in Chain
    /\ hist \in [Tx -> Nat \cup {NoTx}] /\ unverified_tx \in [Tx -> Nat \cup {NoTx}]
    /\ verified_tx \in [Tx -> {NoTx} \cup [height : Nat, block : Block]]
    /\ merkle_roots \subseteq Tx
    /\ requests \subseteq [tx : Tx, height : Nat]
    /\ replies \subseteq [tx : Tx, height : Nat, block : Block \cup {Error}]
    /\ \A r \in replies : r.block # Error => r.tx \in Includes[r.block]
    /\ VerifiedIsIncluded /\ ProvedIsVerified

\* What TypeOK and SwitchUndoes rest on besides: every header a fork is told
\* apart by is there from the start, a request or a reply is for a height above
\* the mempool's, and what is verified is at its height in some chain.
HeightInv ==
    /\ TypeOK /\ IsFiniteSet(requests)
    /\ replies \subseteq [tx : Tx, height : Height \ {0}, block : Block \cup {Error}]
    /\ \A c \in Chain : tip[c] \in 1..Len(Blocks[c]) /\ Base[c] <= tip[c]
    /\ \A c \in Chain : Parent[c] # NoChain => Base[c] <= tip[Parent[c]]
    /\ \A t \in Tx : verified_tx[t] # NoTx =>
          \E c \in Chain : /\ verified_tx[t].height \in DOMAIN Blocks[c]
                          /\ verified_tx[t].block = Blocks[c][verified_tx[t].height]

\* t's proof is one for the chain the client follows.
OnChain(t) == read_header(followed, verified_tx[t].height) = verified_tx[t].block

\* The tick that notices another chain leaves no proof of a block outside it:
\* the base height undo_verifications starts from is below every difference.
SwitchUndoes ==
    [][blockchain' # blockchain /\ restarts' = restarts =>
          \A t \in Tx : verified_tx'[t] # NoTx => OnChain(t)']_vars

\* A transaction whose place in the followed chain the wallet already knows is
\* verified or still waits to be: undoing a proof means doing it again.
ListedIsTracked ==
    \A t \in Tx : /\ blockchain = followed
                  /\ hist[t] = height_on(followed, t) /\ hist[t] > 0
                  => verified_tx[t] # NoTx \/ unverified_tx[t] # NoTx

\* As long as the client stays on one chain, every transaction it includes is
\* verified in the end, also when the request queue was full when its turn came.
Verifies ==
    \A t \in Tx : height_on(followed, t) > 0 ~>
       verified_tx[t] # NoTx \/ switches > 0 \/ followed # FirstChain

=============================================================================
