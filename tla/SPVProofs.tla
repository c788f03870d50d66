----------------------------- MODULE SPVProofs -----------------------------
(***************************************************************************)
(* Proofs about SPV, for every header tree and every assignment of          *)
(* transactions to blocks.                                                  *)
(***************************************************************************)
EXTENDS SPV, FiniteSetTheorems, TLAPS

USE ChainAssumption

\* Initially nothing is verified and nothing is on its way.
LEMMA ProofInit == Init => ProofInv
  BY DEF Init, ProofInv, VerifiedIsIncluded, ProvedIsVerified

\* A history callback: it may drop a proof, and then drops SPV's copy with it.
LEMMA ProofUnverified ==
    ASSUME ProofInv, NEW t \in Tx, NEW h \in Nat, add_unverified_tx(t, h)
    PROVE  ProofInv'
<1> USE DEF add_unverified_tx, ProofInv, without_proof, envVars, netVars
<1>1. hist' \in [Tx -> Nat \cup {NoTx}]
  OBVIOUS
<1>2. verified_tx' \in [Tx -> {NoTx} \cup [height : Nat, block : Block]]
  OBVIOUS
<1>3. unverified_tx' \in [Tx -> Nat \cup {NoTx}]
  BY <1>2
<1>4. VerifiedIsIncluded'
  BY DEF VerifiedIsIncluded
<1>5. ProvedIsVerified'
  BY DEF ProvedIsVerified
<1>6. QED
  BY <1>1, <1>2, <1>3, <1>4, <1>5

\* A tick: it adds requests for known heights and only removes proofs, from the
\* wallet and from SPV alike.
LEMMA ProofRun ==
    ASSUME ProofInv, NEW S \in SUBSET Tx, run(S)
    PROVE  ProofInv'
<1> DEFINE undo == IF followed # blockchain THEN undone(followed) ELSE {}
<1>1. /\ \A t \in S : unverified_tx[t] # NoTx
      /\ requests' = requests \cup {[tx |-> t, height |-> unverified_tx[t]] : t \in S}
      /\ verified_tx' = [t \in Tx |-> IF t \in undo THEN NoTx ELSE verified_tx[t]]
      /\ merkle_roots' = merkle_roots \ undo
      /\ UNCHANGED <<hist, unverified_tx, replies, followed>>
  BY DEF run, without_proof, envVars
<1> HIDE DEF undo
<1>2. requests' \subseteq [tx : Tx, height : Nat]
  BY <1>1 DEF ProofInv
<1>3. verified_tx' \in [Tx -> {NoTx} \cup [height : Nat, block : Block]]
  BY <1>1 DEF ProofInv
<1>4. VerifiedIsIncluded'
  BY <1>1 DEF ProofInv, VerifiedIsIncluded
<1>5. ProvedIsVerified'
  BY <1>1 DEF ProofInv, ProvedIsVerified
<1>6. QED
  BY <1>1, <1>2, <1>3, <1>4, <1>5 DEF ProofInv

\* A reply: a branch that matches the header followed now names that block.
LEMMA ProofVerify ==
    ASSUME ProofInv, NEW r \in replies, verify_merkle(r)
    PROVE  ProofInv'
<1>1. /\ r.tx \in Tx /\ r.height \in Nat /\ r.block \in Block \cup {Error}
      /\ replies' \subseteq replies
      /\ UNCHANGED <<hist, requests, followed>>
  BY DEF ProofInv, verify_merkle, envVars
<1>2. CASE proved(r)
  <2> DEFINE e == [height |-> r.height, block |-> r.block]
  <2>1. e \in [height : Nat, block : Block] /\ r.tx \in Includes[e.block]
    BY <1>1, <1>2 DEF proved, ProofInv
  <2>2. /\ verified_tx' = [verified_tx EXCEPT ![r.tx] = e]
        /\ unverified_tx' = [unverified_tx EXCEPT ![r.tx] = NoTx]
        /\ merkle_roots' = merkle_roots \cup {r.tx}
    BY <1>2 DEF verify_merkle, proved
  <2> HIDE DEF e
  <2>3. /\ verified_tx' \in [Tx -> {NoTx} \cup [height : Nat, block : Block]]
        /\ unverified_tx' \in [Tx -> Nat \cup {NoTx}]
    BY <1>1, <2>1, <2>2 DEF ProofInv
  <2>4. VerifiedIsIncluded'
    BY <1>1, <2>1, <2>2 DEF ProofInv, VerifiedIsIncluded
  <2>5. e # NoTx
    BY <2>1
  <2>6. ProvedIsVerified'
    BY <1>1, <2>2, <2>5 DEF ProofInv, ProvedIsVerified
  <2>7. QED
    BY <1>1, <2>2, <2>3, <2>4, <2>6 DEF ProofInv
<1>3. CASE ~ proved(r)
  <2>1. UNCHANGED <<verified_tx, unverified_tx, merkle_roots>>
    BY <1>3 DEF verify_merkle
  <2>2. VerifiedIsIncluded' /\ ProvedIsVerified'
    BY <2>1 DEF ProofInv, VerifiedIsIncluded, ProvedIsVerified
  <2>3. QED
    BY <1>1, <2>1, <2>2 DEF ProofInv
<1>4. QED
  BY <1>2, <1>3

\* The server's answer names a block only if the transaction is in it.
LEMMA ProofAnswer ==
    ASSUME ProofInv, NEW q \in requests, answer(q)
    PROVE  ProofInv'
<1> DEFINE b == Blocks[followed][q.height]
           found == q.height \in DOMAIN Blocks[followed] /\ q.tx \in Includes[b]
           r == [tx |-> q.tx, height |-> q.height, block |-> IF found THEN b ELSE Error]
<1>1. /\ q.tx \in Tx /\ q.height \in Nat
      /\ replies' = replies \cup {r}
      /\ requests' \subseteq requests
      /\ UNCHANGED <<hist, unverified_tx, verified_tx, merkle_roots, followed>>
  BY DEF ProofInv, answer, walletVars, spvVars, envVars
<1>2. found => b \in Block
  BY DEF ProofInv, Block
<1>3. r \in [tx : Tx, height : Nat, block : Block \cup {Error}]
  BY <1>1, <1>2
<1>4. r.block # Error => r.tx \in Includes[r.block]
  OBVIOUS
<1> HIDE DEF r
<1>5. VerifiedIsIncluded' /\ ProvedIsVerified'
  BY <1>1 DEF ProofInv, VerifiedIsIncluded, ProvedIsVerified
<1>6. QED
  BY <1>1, <1>3, <1>4, <1>5 DEF ProofInv

\* The wallet is opened again: proofs are only dropped, and SPV starts empty.
LEMMA ProofRestart ==
    ASSUME ProofInv, NEW c \in Chain, restart(c)
    PROVE  ProofInv'
<1>1. verified_tx' \in [Tx -> {NoTx} \cup [height : Nat, block : Block]]
  BY DEF ProofInv, restart
<1>2. unverified_tx' \in [Tx -> Nat \cup {NoTx}]
  BY DEF ProofInv, restart
<1>3. VerifiedIsIncluded'
  BY DEF ProofInv, restart, VerifiedIsIncluded
<1>4. ProvedIsVerified'
  BY DEF restart, ProvedIsVerified
<1>5. QED
  BY <1>1, <1>2, <1>3, <1>4 DEF ProofInv, restart

\* Every step of the program and of its environment preserves ProofInv.
LEMMA ProofStep == ProofInv /\ [Next]_vars => ProofInv'
<1> SUFFICES ASSUME ProofInv, [Next]_vars
             PROVE  ProofInv'
  OBVIOUS
<1>1. CASE \E t \in Tx, h \in 0..Len(Blocks[followed]) : add_unverified_tx(t, h)
  BY <1>1, ProofUnverified
<1>2. CASE \E S \in SUBSET Tx : run(S)
  BY <1>2, ProofRun
<1>3. CASE \E r \in replies : verify_merkle(r)
  BY <1>3, ProofVerify
<1>4. CASE \E q \in requests : answer(q)
  BY <1>4, ProofAnswer
<1>5. CASE \/ \E c \in Chain : header_arrives(c)
           \/ \E c \in Chain : switch_chain(c)
           \/ UNCHANGED vars
  <2>1. /\ UNCHANGED <<hist, unverified_tx, verified_tx, merkle_roots, requests, replies>>
        /\ followed' \in Chain
    BY <1>5 DEF ProofInv, header_arrives, switch_chain, vars, walletVars, spvVars, netVars, envVars
  <2>2. QED
    BY <2>1 DEF ProofInv, VerifiedIsIncluded, ProvedIsVerified
<1>6. CASE \E c \in Chain : restart(c)
  BY <1>6, ProofRestart
<1>7. QED
  BY <1>1, <1>2, <1>3, <1>4, <1>5, <1>6 DEF Next

\* ProofInv holds in every reachable state.
THEOREM ProofsHold == Spec => []ProofInv
  BY ProofInit, ProofStep, PTL DEF Spec

\* For every header tree and any number of reorganisations, restarts and late
\* replies, a transaction counts as verified only with a block that contains it
\* (the comparison in verify_merkle).
THEOREM VerifiedGenuine == Spec => []VerifiedIsIncluded
<1>1. ProofInv => VerifiedIsIncluded
  BY DEF ProofInv
<1>2. QED
  BY <1>1, ProofsHold, PTL

\* run never skips a transaction the wallet has no proof for: what SPV remembers
\* in merkle_roots is in verified_tx, through every undo and every drop.
THEOREM ProvedKept == Spec => []ProvedIsVerified
<1>1. ProofInv => ProvedIsVerified
  BY DEF ProofInv
<1>2. QED
  BY <1>1, ProofsHold, PTL

-----------------------------------------------------------------------------
(* Heights and limits.                                                     *)

\* A bounded set of heights has a largest one.
LEMMA LargestHeight ==
    ASSUME NEW L \in Nat, NEW S \in SUBSET (0..L), S # {}
    PROVE  Max(S) \in S /\ \A y \in S : y <= Max(S)
<1> DEFINE R == StrictSubsetOrdering(Nat)
           F == FiniteSubsetsOf(Nat)
           T == {x..L : x \in S}
<1>1. IsWellFoundedOn(R, F)
  BY FS_StrictSubsetOrderingWellFounded
<1>2. T \subseteq F /\ T # {}
  <2>1. \A x \in 0..L : IsFiniteSet(x..L) /\ x..L \subseteq Nat
    <3> SUFFICES ASSUME NEW x \in 0..L PROVE IsFiniteSet(x..L) /\ x..L \subseteq Nat
      OBVIOUS
    <3>1. x \in Int /\ L \in Int
      OBVIOUS
    <3>2. IsFiniteSet(x..L)
      BY <3>1, FS_Interval
    <3>3. QED
      BY <3>2
  <2>2. \A x \in 0..L : x..L \in F
    BY <2>1 DEF FiniteSubsetsOf
  <2> HIDE DEF F
  <2>3. \A x \in S : x \in 0..L
    OBVIOUS
  <2>4. ASSUME NEW y \in T PROVE y \in F
    <3>1. PICK x \in S : y = x..L
      BY <2>4
    <3>2. QED
      BY <2>2, <2>3, <3>1
  <2>5. PICK x \in S : x..L \in T
    OBVIOUS
  <2> HIDE DEF T
  <2>6. QED
    BY <2>4, <2>5
<1>3. PICK m \in S : \A z \in S : ~(<<z..L, m..L>> \in R)
  <2> HIDE DEF R, F, T
  <2>1. PICK a \in T : \A b \in T : ~(<<b, a>> \in R)
    BY <1>1, <1>2, WFMin
  <2>2. QED
    BY <2>1 DEF T
<1>4. \A z \in S : z <= m
  <2> SUFFICES ASSUME NEW z \in S, ~(z <= m) PROVE FALSE
    OBVIOUS
  <2>1. <<z..L, m..L>> \in R
    BY DEF StrictSubsetOrdering
  <2>2. QED
    BY <1>3, <2>1
<1>5. \E x \in S : \A y \in S : x >= y
  BY <1>4
<1>6. QED
  BY <1>5 DEF Max

\* The smaller of two numbers.
LEMMA SmallerOf ==
    ASSUME NEW a \in Int, NEW b \in Int
    PROVE  Min({a, b}) <= b /\ Min({a, b}) \in {a, b}
<1>1. \E x \in {a, b} : \A y \in {a, b} : x <= y
  OBVIOUS
<1>2. QED
  BY <1>1 DEF Min

\* The heights of a chain.
LEMMA HeightFacts ==
    /\ \A c \in Chain : /\ Len(Blocks[c]) \in Nat /\ Len(Blocks[c]) >= 1 /\ DOMAIN Blocks[c] = 1..Len(Blocks[c])
                        /\ Base[c] \in Nat /\ Base[c] <= Len(Blocks[c]) /\ 0..Len(Blocks[c]) \subseteq Height
                        /\ Parent[c] # NoChain => Parent[c] \in Chain /\ Base[c] <= Len(Blocks[Parent[c]])
    /\ Height \subseteq Nat /\ NoTx \notin Height
<1>1. \A c \in Chain : Len(Blocks[c]) \in Nat /\ DOMAIN Blocks[c] = 1..Len(Blocks[c])
  BY DEF Block
<1>2. QED
  BY <1>1 DEF Height

\* The first tip of a chain is at its base, or at the highest fork's.
LEMMA FirstTip ==
    ASSUME NEW c \in Chain
    PROVE  LET n == Max({1, Base[c]} \cup {Base[d] : d \in {e \in Chain : Parent[e] = c}})
           IN  /\ n \in 1..Len(Blocks[c]) /\ Base[c] <= n
               /\ \A d \in Chain : Parent[d] = c => Base[d] <= n
<1> DEFINE S == {1, Base[c]} \cup {Base[d] : d \in {e \in Chain : Parent[e] = c}}
           L == Len(Blocks[c])
<1>1. L \in Nat /\ 1 \in 0..L /\ Base[c] \in 0..L
  BY HeightFacts
<1>2. \A d \in Chain : Parent[d] = c => Base[d] \in 0..L
  BY HeightFacts
<1>3. S \in SUBSET (0..L) /\ 1 \in S /\ Base[c] \in S /\ \A d \in Chain : Parent[d] = c => Base[d] \in S
  BY <1>1, <1>2
<1> HIDE DEF S, L
<1>4. Max(S) \in S /\ \A y \in S : y <= Max(S)
  BY <1>1, <1>3, LargestHeight
<1>5. Max(S) \in 1..L
  <2>1. Max(S) \in 0..L /\ 1 <= Max(S)
    BY <1>3, <1>4
  <2>2. QED
    BY <1>1, <2>1
<1>6. Base[c] <= Max(S) /\ \A d \in Chain : Parent[d] = c => Base[d] <= Max(S)
  BY <1>3, <1>4
<1>7. QED
  BY <1>5, <1>6, Zenon DEF S, L

\* The requests of a tick fit in the queue.
LEMMA QueueTakes ==
    ASSUME IsFiniteSet(requests), Cardinality(requests) <= MaxQlen, NEW S \in SUBSET Tx, run(S)
    PROVE  IsFiniteSet(requests') /\ Cardinality(requests') <= MaxQlen
<1> DEFINE E == {t \in Tx : /\ unverified_tx[t] # NoTx
                            /\ t \notin requested_merkle \cup merkle_roots
                            /\ unverified_tx[t] > 0 /\ unverified_tx[t] <= tip[followed]}
           f == [t \in S |-> [tx |-> t, height |-> unverified_tx[t]]]
           T == {[tx |-> t, height |-> unverified_tx[t]] : t \in S}
<1>1. Cardinality(S) = Min({Cardinality(E), MaxQlen - Cardinality(requests)}) /\ requests' = requests \cup T
  BY DEF run, room
<1>2. IsFiniteSet(S) /\ IsFiniteSet(E)
  BY FS_Subset
<1> HIDE DEF E
<1>3. Cardinality(E) \in Nat /\ Cardinality(S) \in Nat /\ Cardinality(requests) \in Nat /\ MaxQlen \in Nat
  BY <1>2, FS_CardinalityType
<1>4. Cardinality(S) <= MaxQlen - Cardinality(requests)
  <2> DEFINE a == Cardinality(E)
             b == MaxQlen - Cardinality(requests)
  <2>1. a \in Int /\ b \in Int
    BY <1>3
  <2> HIDE DEF a, b
  <2>2. Min({a, b}) <= b
    BY <2>1, SmallerOf
  <2>3. QED
    BY <1>1, <2>2 DEF a, b
<1>5. f \in Surjection(S, T)
  BY DEF Surjection
<1>6. IsFiniteSet(T) /\ Cardinality(T) <= Cardinality(S) /\ Cardinality(T) \in Nat
  <2> HIDE DEF f, T
  <2>1. QED
    BY <1>2, <1>5, FS_Surjection, FS_CardinalityType
<1> HIDE DEF T
<1>7. /\ IsFiniteSet(requests \cup T)
      /\ Cardinality(requests \cup T) = Cardinality(requests) + Cardinality(T) - Cardinality(requests \cap T)
  BY <1>6, FS_Union
<1>8. Cardinality(requests \cap T) \in Nat
  BY <1>6, FS_Intersection, FS_CardinalityType
<1>9. QED
  BY <1>1, <1>3, <1>4, <1>6, <1>7, <1>8

\* What a verified transaction is verified with.
Proof == [height : Height \ {0}, block : Block]

\* A proof is of a block that some chain has at that height.
InSome(p) == \E c \in Chain : p.height \in DOMAIN Blocks[c] /\ p.block = Blocks[c][p.height]

\* The headers that tell the forks apart are there.
TipsReach ==
    /\ tip \in [Chain -> Height]
    /\ \A c \in Chain : tip[c] \in 1..Len(Blocks[c]) /\ Base[c] <= tip[c]
    /\ \A c \in Chain : Parent[c] # NoChain => Base[c] <= tip[Parent[c]]

\* The maps of the wallet and the messages under way, with their heights.
MapsTyped ==
    /\ hist \in [Tx -> Height \cup {NoTx}] /\ unverified_tx \in [Tx -> Height \cup {NoTx}]
    /\ verified_tx \in [Tx -> {NoTx} \cup Proof]
    /\ \A t \in Tx : verified_tx[t] # NoTx => InSome(verified_tx[t])
    /\ requests \subseteq [tx : Tx, height : Height \ {0}]
    /\ replies \subseteq [tx : Tx, height : Height \ {0}, block : Block \cup {Error}]
    /\ merkle_roots \subseteq Tx /\ requested_merkle \subseteq Tx
    /\ followed \in Chain /\ blockchain \in Chain /\ restarts \in Nat

\* The request queue keeps to its limit.
QueueShort == IsFiniteSet(requests) /\ Cardinality(requests) <= MaxQlen

\* The parts make HeightInv.
LEMMA HeightParts == TipsReach /\ MapsTyped /\ QueueShort => HeightInv
<1> SUFFICES ASSUME TipsReach, MapsTyped, QueueShort PROVE HeightInv
  OBVIOUS
<1>1. \A t \in Tx : {hist[t], unverified_tx[t]} \subseteq Height \cup {NoTx}
  BY DEF MapsTyped
<1>2. \A t \in Tx : verified_tx[t] = NoTx \/ verified_tx[t] \in [height : Height \ {0}, block : Block]
  BY DEF MapsTyped, Proof
<1>3. TypeOK
  BY <1>1, <1>2 DEF TypeOK, TipsReach, MapsTyped, QueueShort
<1>4. QED
  BY <1>3 DEF HeightInv, TipsReach, MapsTyped, QueueShort, InSome

\* Initially.
LEMMA HeightInit == Init => TipsReach /\ MapsTyped /\ QueueShort
<1> SUFFICES ASSUME Init PROVE TipsReach /\ MapsTyped /\ QueueShort
  OBVIOUS
<1>1. \A c \in Chain : /\ tip[c] \in 1..Len(Blocks[c]) /\ Base[c] <= tip[c]
                       /\ \A d \in Chain : Parent[d] = c => Base[d] <= tip[c]
  <2> SUFFICES ASSUME NEW c \in Chain
               PROVE  /\ tip[c] \in 1..Len(Blocks[c]) /\ Base[c] <= tip[c]
                      /\ \A d \in Chain : Parent[d] = c => Base[d] <= tip[c]
    OBVIOUS
  <2>1. tip[c] = Max({1, Base[c]} \cup {Base[d] : d \in {e \in Chain : Parent[e] = c}})
    BY DEF Init
  <2> DEFINE n == Max({1, Base[c]} \cup {Base[d] : d \in {e \in Chain : Parent[e] = c}})
  <2>2. /\ n \in 1..Len(Blocks[c]) /\ Base[c] <= n
        /\ \A d \in Chain : Parent[d] = c => Base[d] <= n
    BY FirstTip, Zenon
  <2> HIDE DEF n
  <2>3. tip[c] = n
    BY <2>1 DEF n
  <2>4. QED
    BY <2>2, <2>3
<1>2. tip \in [Chain -> Height]
  <2>1. \A c \in Chain : tip[c] \in Height
    BY <1>1, HeightFacts
  <2>2. tip = [c \in Chain |-> tip[c]]
    BY DEF Init
  <2>3. QED
    BY <2>1, <2>2
<1>3. TipsReach
  BY <1>1, <1>2, HeightFacts DEF TipsReach
<1>4. MapsTyped
  BY DEF Init, MapsTyped
<1>5. QueueShort
  BY FS_EmptySet DEF Init, QueueShort
<1>6. QED
  BY <1>3, <1>4, <1>5

\* Only a header that arrives moves a tip, and one up.
LEMMA TipsStep == TipsReach /\ [Next]_vars => TipsReach'
<1> SUFFICES ASSUME TipsReach, [Next]_vars PROVE TipsReach'
  OBVIOUS
<1>1. CASE \E c \in Chain : header_arrives(c)
  <2>1. PICK c \in Chain : tip[c] < Len(Blocks[c]) /\ tip' = [tip EXCEPT ![c] = @ + 1]
    BY <1>1 DEF header_arrives
  <2>2. \A d \in Chain : tip[d] \in 1..Len(Blocks[d]) /\ Len(Blocks[d]) \in Nat /\ Base[d] \in Nat
    BY HeightFacts DEF TipsReach
  <2>3. \A d \in Chain : tip'[d] \in 1..Len(Blocks[d]) /\ tip[d] <= tip'[d] /\ tip[d] \in Nat /\ tip'[d] \in Nat
    <3> SUFFICES ASSUME NEW d \in Chain
                 PROVE  tip'[d] \in 1..Len(Blocks[d]) /\ tip[d] <= tip'[d] /\ tip[d] \in Nat /\ tip'[d] \in Nat
      OBVIOUS
    <3>1. tip'[d] = IF d = c THEN tip[c] + 1 ELSE tip[d]
      BY <2>1 DEF TipsReach
    <3>2. QED
      BY <2>1, <2>2, <3>1, SMTT(60)
  <2>4. \A d \in Chain : tip'[d] \in Height
    BY <2>3, HeightFacts, SMTT(60)
  <2>5. tip' \in [Chain -> Height]
    BY <2>1, <2>4 DEF TipsReach
  <2>6. \A d \in Chain : Base[d] <= tip'[d]
    BY <2>2, <2>3 DEF TipsReach
  <2>7. \A d \in Chain : Parent[d] # NoChain => Base[d] <= tip'[Parent[d]]
    <3> SUFFICES ASSUME NEW d \in Chain, Parent[d] # NoChain PROVE Base[d] <= tip'[Parent[d]]
      OBVIOUS
    <3>1. Parent[d] \in Chain /\ Base[d] <= tip[Parent[d]]
      BY HeightFacts DEF TipsReach
    <3>2. QED
      BY <2>2, <2>3, <3>1
  <2>8. QED
    BY <2>3, <2>5, <2>6, <2>7 DEF TipsReach
<1>2. CASE tip' = tip
  BY <1>2 DEF TipsReach
<1>3. QED
  BY <1>1, <1>2 DEF Next, add_unverified_tx, run, verify_merkle, answer, switch_chain, restart, vars, envVars

\* The queue grows in run only, as far as it takes requests.
LEMMA QueueStep == QueueShort /\ [Next]_vars => QueueShort'
<1> SUFFICES ASSUME QueueShort, [Next]_vars PROVE QueueShort'
  OBVIOUS
<1>1. CASE \E S \in SUBSET Tx : run(S)
  BY <1>1, QueueTakes DEF QueueShort
<1>2. CASE \E q \in requests : answer(q)
  <2>1. PICK q \in requests : requests' = requests \ {q}
    BY <1>2 DEF answer
  <2>2. /\ IsFiniteSet(requests \ {q}) /\ Cardinality(requests \ {q}) = Cardinality(requests) - 1
        /\ Cardinality(requests) \in Nat
    BY FS_RemoveElement, FS_CardinalityType DEF QueueShort
  <2>3. QED
    BY <2>1, <2>2 DEF QueueShort
<1>3. CASE requests' = requests
  BY <1>3 DEF QueueShort
<1>4. CASE requests' = {}
  BY <1>4, FS_EmptySet DEF QueueShort
<1>5. QED
  BY <1>1, <1>2, <1>3, <1>4
     DEF Next, add_unverified_tx, verify_merkle, header_arrives, switch_chain, restart, vars, netVars

\* Every step keeps the maps and the messages.
LEMMA MapsStep == TipsReach /\ MapsTyped /\ [Next]_vars => MapsTyped'
<1> SUFFICES ASSUME TipsReach, MapsTyped, [Next]_vars PROVE MapsTyped'
  OBVIOUS
<1>1. ASSUME NEW t \in Tx, NEW h \in 0..Len(Blocks[followed]), add_unverified_tx(t, h) PROVE MapsTyped'
  <2>1. h \in Height
    BY HeightFacts DEF MapsTyped
  <2>2. /\ hist' = [hist EXCEPT ![t] = h]
        /\ \A u \in Tx : verified_tx'[u] \in {verified_tx[u], NoTx}
        /\ \A u \in Tx : unverified_tx'[u] \in {unverified_tx[u], h}
        /\ merkle_roots' \subseteq merkle_roots
    BY <1>1 DEF add_unverified_tx, without_proof, MapsTyped
  <2>3. /\ \E x : verified_tx' = [verified_tx EXCEPT ![t] = x]
        /\ \E x : unverified_tx' = [unverified_tx EXCEPT ![t] = x]
        /\ UNCHANGED <<blockchain, requested_merkle, requests, replies, followed, restarts>>
    BY <1>1 DEF add_unverified_tx, netVars, envVars
  <2>4. verified_tx' \in [Tx -> {NoTx} \cup Proof] /\ \A u \in Tx : verified_tx'[u] # NoTx => InSome(verified_tx'[u])
    BY <2>2, <2>3 DEF MapsTyped
  <2>5. hist' \in [Tx -> Height \cup {NoTx}] /\ unverified_tx' \in [Tx -> Height \cup {NoTx}]
    BY <2>1, <2>2, <2>3 DEF MapsTyped
  <2>6. QED
    BY <2>2, <2>3, <2>4, <2>5 DEF MapsTyped
<1>2. ASSUME NEW S \in SUBSET Tx, run(S) PROVE MapsTyped'
  <2> DEFINE undo == IF followed # blockchain THEN undone(followed) ELSE {}
  <2>1. verified_tx' = [t \in Tx |-> IF t \in undo THEN NoTx ELSE verified_tx[t]]
    BY <1>2 DEF run
  <2> HIDE DEF undo
  <2>2. /\ requests' = requests \cup {[tx |-> t, height |-> unverified_tx[t]] : t \in S}
        /\ \A t \in S : unverified_tx[t] # NoTx /\ unverified_tx[t] > 0
        /\ blockchain' = followed /\ merkle_roots' \subseteq merkle_roots /\ requested_merkle' \subseteq Tx
        /\ UNCHANGED <<hist, unverified_tx, replies, followed, restarts>>
    BY <1>2 DEF run, sent, without_proof, envVars, MapsTyped
  <2>3. verified_tx' \in [Tx -> {NoTx} \cup Proof] /\ \A u \in Tx : verified_tx'[u] # NoTx => InSome(verified_tx'[u])
    BY <2>1 DEF MapsTyped
  <2>4. \A t \in S : unverified_tx[t] \in Height \ {0}
    BY <2>2, HeightFacts DEF MapsTyped
  <2>5. requests' \subseteq [tx : Tx, height : Height \ {0}]
    BY <2>2, <2>4 DEF MapsTyped
  <2>6. QED
    BY <2>2, <2>3, <2>5 DEF MapsTyped
<1>3. ASSUME NEW r \in replies, verify_merkle(r) PROVE MapsTyped'
  <2>1. /\ r.tx \in Tx /\ r.height \in Height \ {0} /\ r.block \in Block \cup {Error}
    BY DEF MapsTyped
  <2>2. replies' \subseteq replies /\ UNCHANGED <<hist, requests, followed, blockchain, restarts>>
    BY <1>3 DEF verify_merkle, envVars
  <2>3. CASE proved(r)
    <3> DEFINE e == [height |-> r.height, block |-> r.block]
    <3>1. r.block \in Block /\ read_header(followed, r.height) = r.block
      BY <2>1, <2>3 DEF proved
    <3>2. /\ verified_tx' = [verified_tx EXCEPT ![r.tx] = e]
          /\ unverified_tx' = [unverified_tx EXCEPT ![r.tx] = NoTx]
          /\ merkle_roots' = merkle_roots \cup {r.tx} /\ requested_merkle' \subseteq requested_merkle
      BY <1>3, <2>3, <3>1 DEF verify_merkle
    <3>3. e \in Proof
      BY <2>1, <3>1 DEF Proof
    <3>4. InSome(e)
      <4>1. r.height \in 1..tip[followed] /\ r.block = Blocks[followed][r.height]
        BY <3>1 DEF read_header
      <4>2. followed \in Chain /\ r.height \in DOMAIN Blocks[followed]
        BY <4>1, HeightFacts DEF MapsTyped, TipsReach
      <4>3. QED
        BY <4>1, <4>2 DEF InSome
    <3> HIDE DEF e
    <3>5. verified_tx' \in [Tx -> {NoTx} \cup Proof] /\ \A u \in Tx : verified_tx'[u] # NoTx => InSome(verified_tx'[u])
      BY <2>1, <3>2, <3>3, <3>4 DEF MapsTyped
    <3>6. QED
      BY <2>1, <2>2, <3>2, <3>5 DEF MapsTyped
  <2>4. CASE ~proved(r)
    BY <1>3, <2>2, <2>4 DEF verify_merkle, MapsTyped
  <2>5. QED
    BY <2>3, <2>4
<1>4. ASSUME NEW q \in requests, answer(q) PROVE MapsTyped'
  <2> DEFINE b == Blocks[followed][q.height]
             found == q.height \in DOMAIN Blocks[followed] /\ q.tx \in Includes[b]
             r == [tx |-> q.tx, height |-> q.height, block |-> IF found THEN b ELSE Error]
  <2>1. /\ requests' \subseteq requests /\ replies' = replies \cup {r}
        /\ UNCHANGED <<hist, unverified_tx, verified_tx, blockchain, merkle_roots, requested_merkle, followed, restarts>>
    BY <1>4 DEF answer, walletVars, spvVars, envVars
  <2>2. q.tx \in Tx /\ q.height \in Height \ {0}
    BY DEF MapsTyped
  <2>3. found => b \in Block
    BY DEF MapsTyped, Block
  <2>4. r \in [tx : Tx, height : Height \ {0}, block : Block \cup {Error}]
    BY <2>2, <2>3
  <2> HIDE DEF r
  <2>5. QED
    BY <2>1, <2>4 DEF MapsTyped
<1>5. ASSUME NEW c \in Chain, header_arrives(c) \/ switch_chain(c) PROVE MapsTyped'
  <2>1. /\ UNCHANGED <<hist, unverified_tx, verified_tx, blockchain, merkle_roots, requested_merkle, requests, replies>>
        /\ followed' \in Chain /\ restarts' = restarts
    BY <1>5 DEF header_arrives, switch_chain, walletVars, spvVars, netVars, MapsTyped
  <2>2. QED
    BY <2>1 DEF MapsTyped
<1>6. ASSUME NEW c \in Chain, restart(c) PROVE MapsTyped'
  <2>1. /\ verified_tx' = [t \in Tx |-> IF hist[t] = 0 THEN NoTx ELSE verified_tx[t]]
        /\ unverified_tx' = [t \in Tx |-> IF verified_tx'[t] = NoTx THEN hist[t] ELSE NoTx]
        /\ merkle_roots' = {} /\ requested_merkle' = {} /\ requests' = {} /\ replies' = {}
        /\ followed' = c /\ blockchain' = c /\ hist' = hist /\ restarts' = restarts + 1
    BY <1>6 DEF restart
  <2>2. verified_tx' \in [Tx -> {NoTx} \cup Proof] /\ \A u \in Tx : verified_tx'[u] # NoTx => InSome(verified_tx'[u])
    BY <2>1 DEF MapsTyped
  <2>3. unverified_tx' \in [Tx -> Height \cup {NoTx}]
    BY <2>1 DEF MapsTyped
  <2>4. QED
    BY <2>1, <2>2, <2>3 DEF MapsTyped
<1>7. CASE UNCHANGED vars
  BY <1>7 DEF MapsTyped, vars, walletVars, spvVars, netVars, envVars
<1>8. QED
  BY <1>1, <1>2, <1>3, <1>4, <1>5, <1>6, <1>7 DEF Next

\* The heights of everything the wallet and the verifier hold, at all times.
THEOREM HeightsHold == Spec => []HeightInv
<1> DEFINE I == TipsReach /\ MapsTyped /\ QueueShort
<1>1. Init => I
  BY HeightInit
<1>2. I /\ [Next]_vars => I'
  BY TipsStep, MapsStep, QueueStep
<1>3. I => HeightInv
  BY HeightParts
<1>4. QED
  BY <1>1, <1>2, <1>3, PTL DEF Spec

\* The maps keep their shapes, what is verified has a height above the
\* mempool's, and the request queue (queue_request) keeps to max_qlen, for every
\* header tree and any number of transactions.
THEOREM SPVTyped == Spec => []TypeOK
<1>1. HeightInv => TypeOK
  BY DEF HeightInv
<1>2. QED
  BY <1>1, HeightsHold, PTL

-----------------------------------------------------------------------------
(* What a switch undoes, with one fork.                                    *)

\* A root chain and one fork of it.
OneFork == \E r, x \in Chain : Chain = {r, x} /\ Parent[x] = r /\ Parent[r] = NoChain

\* Two headers of one height have the same timestamp only if they are the same.
TimesDiffer ==
    \A c, d \in Chain : \A i \in (DOMAIN Blocks[c]) \cap (DOMAIN Blocks[d]) :
        Time[Blocks[c][i]] = Time[Blocks[d][i]] => Blocks[c][i] = Blocks[d][i]

\* undo_verifications starts at the fork point, whichever chain is followed.
LEMMA ForkPoint ==
    ASSUME NEW r \in Chain, NEW x \in Chain, Chain = {r, x}, Parent[x] = r, Parent[r] = NoChain, NEW c \in Chain
    PROVE  get_base_height(c) = Base[x]
<1> DEFINE D == {e \in Chain : Parent[e] = c}
           B == {Base[d] : d \in D}
<1>1. r # x
  OBVIOUS
<1>2. CASE c = r
  <2>1. D = {x}
    BY <1>1, <1>2
  <2>2. B = {Base[x]}
    BY <2>1
  <2>3. Max(B) = Base[x]
    <3> HIDE DEF B
    <3>1. \E y \in B : \A z \in B : y >= z
      BY <2>2, HeightFacts
    <3>2. Max(B) \in B
      BY <3>1 DEF Max
    <3>3. QED
      BY <2>2, <3>2
  <2>4. QED
    BY <2>2, <2>3 DEF get_base_height
<1>3. CASE c = x
  <2>1. D = {}
    BY <1>1, <1>3
  <2>2. QED
    BY <1>3, <2>1 DEF get_base_height
<1>4. QED
  BY <1>2, <1>3

\* What is left of the proofs after the tick is on the chain followed.
LEMMA SwitchStep ==
    ASSUME OneFork, TimesDiffer, TipsReach, MapsTyped, NEW S \in SUBSET Tx, run(S), blockchain' # blockchain,
           NEW t \in Tx, verified_tx'[t] # NoTx
    PROVE  OnChain(t)'
<1>1. PICK r \in Chain, x \in Chain : Chain = {r, x} /\ Parent[x] = r /\ Parent[r] = NoChain
  BY DEF OneFork
<1> DEFINE p == verified_tx[t]
           c == followed
<1>2. c \in Chain /\ blockchain' = c /\ c # blockchain /\ tip' = tip /\ followed' = c
  BY DEF run, MapsTyped, envVars
<1>3. verified_tx' = [u \in Tx |-> IF u \in undone(c) THEN NoTx ELSE verified_tx[u]]
  BY <1>2 DEF run
<1>4. verified_tx'[t] = p /\ p # NoTx /\ t \notin undone(c)
  BY <1>3
<1>5. /\ p \in Proof /\ p.height \in Nat /\ p.height >= 1
  <2>1. p \in Proof
    BY <1>4 DEF MapsTyped
  <2>2. QED
    BY <2>1, HeightFacts DEF Proof
<1>6. PICK d \in Chain : p.height \in DOMAIN Blocks[d] /\ p.block = Blocks[d][p.height]
  BY <1>4 DEF MapsTyped, InSome
<1>7. get_base_height(c) = Base[x] /\ Base[x] \in Nat
  BY <1>1, <1>2, ForkPoint, HeightFacts
<1>8. tip[c] \in 1..Len(Blocks[c]) /\ Base[x] <= tip[c] /\ Len(Blocks[c]) \in Nat
  <2>1. Base[x] <= tip[x] /\ Base[x] <= tip[r]
    BY <1>1 DEF TipsReach
  <2>2. QED
    BY <1>1, <1>2, <2>1, HeightFacts DEF TipsReach
<1>9. p.height >= get_base_height(c) =>
         read_header(c, p.height) # NoTx /\ Time[read_header(c, p.height)] = Time[p.block]
  BY <1>4, Zenon DEF undone
<1> HIDE DEF p, c
<1>10. read_header(c, p.height) = p.block
  <2>1. CASE p.height >= Base[x]
    <3>1. read_header(c, p.height) # NoTx /\ Time[read_header(c, p.height)] = Time[p.block]
      BY <1>7, <1>9, <2>1
    <3>2. p.height \in 1..tip[c] /\ read_header(c, p.height) = Blocks[c][p.height]
      BY <3>1, Zenon DEF read_header
    <3>3. p.height \in (DOMAIN Blocks[c]) \cap (DOMAIN Blocks[d])
      <4>1. DOMAIN Blocks[c] = 1..Len(Blocks[c])
        BY <1>2, HeightFacts
      <4>2. p.height \in 1..Len(Blocks[c])
        BY <1>8, <3>2
      <4>3. QED
        BY <1>6, <4>1, <4>2
    <3>4. Time[Blocks[c][p.height]] = Time[Blocks[d][p.height]]
      BY <1>6, <3>1, <3>2
    <3>5. Blocks[c][p.height] = Blocks[d][p.height]
      <4>1. c \in Chain
        BY <1>2
      <4>2. \A i \in (DOMAIN Blocks[c]) \cap (DOMAIN Blocks[d]) :
               Time[Blocks[c][i]] = Time[Blocks[d][i]] => Blocks[c][i] = Blocks[d][i]
        BY <4>1, Zenon DEF TimesDiffer
      <4>3. QED
        BY <3>3, <3>4, <4>2, Zenon
    <3>6. QED
      BY <1>6, <3>2, <3>5
  <2>2. CASE p.height < Base[x]
    <3>1. p.height \in 1..tip[c] /\ p.height \in 1..(Base[x] - 1)
      BY <1>5, <1>7, <1>8, <2>2
    <3>2. read_header(c, p.height) = Blocks[c][p.height]
      BY <3>1 DEF read_header
    <3>3. Blocks[x][p.height] = Blocks[r][p.height]
      BY <1>1, <3>1
    <3>4. Blocks[c][p.height] = Blocks[d][p.height]
      BY <1>1, <1>2, <3>3
    <3>5. QED
      BY <1>6, <3>2, <3>4
  <2>3. QED
    BY <1>5, <1>7, <2>1, <2>2
<1>11. OnChain(t)' <=> (IF p.height \in 1..tip[c] THEN Blocks[c][p.height] ELSE NoTx) = p.block
  BY <1>2, <1>4 DEF OnChain, read_header
<1>12. QED
  BY <1>10, <1>11 DEF read_header

\* With one fork whose headers differ in their timestamps, the tick that
\* notices a switch leaves no proof of a block outside the chain followed
\* (run, undo_verifications and get_base_height), however histories, replies
\* and headers came before it.
THEOREM SwitchIsUndone ==
    ASSUME OneFork, TimesDiffer
    PROVE  Spec => SwitchUndoes
<1> DEFINE I == TipsReach /\ MapsTyped
           A == blockchain' # blockchain /\ restarts' = restarts =>
                   \A t \in Tx : verified_tx'[t] # NoTx => OnChain(t)'
<1>1. Init => I
  BY HeightInit
<1>2. I /\ [Next]_vars => I'
  BY TipsStep, MapsStep
<1>3. I /\ [Next]_vars => [A]_vars
  <2> SUFFICES ASSUME I, Next, blockchain' # blockchain, restarts' = restarts,
                      NEW t \in Tx, verified_tx'[t] # NoTx
               PROVE  OnChain(t)'
    OBVIOUS
  <2>1. restarts \in Nat
    BY DEF MapsTyped
  <2>2. PICK S \in SUBSET Tx : run(S)
    <3>1. ~ \E c \in Chain : restart(c)
      BY <2>1 DEF restart
    <3>2. ~ \E q \in requests : answer(q)
      BY DEF answer, spvVars
    <3>3. ~ \E c \in Chain : header_arrives(c) \/ switch_chain(c)
      BY DEF header_arrives, switch_chain, spvVars
    <3>4. ~ \E r \in replies : verify_merkle(r)
      BY DEF verify_merkle
    <3>5. ~ \E u \in Tx, h \in 0..Len(Blocks[followed]) : add_unverified_tx(u, h)
      BY DEF add_unverified_tx
    <3>6. QED
      BY <3>1, <3>2, <3>3, <3>4, <3>5, Zenon DEF Next
  <2>3. QED
    BY <2>2, SwitchStep
<1>4. QED
  BY <1>1, <1>2, <1>3, PTL DEF Spec, SwitchUndoes
=============================================================================
