------------------------- MODULE SynchronizerProofs -------------------------
(***************************************************************************)
(* Proofs about Synchronizer, for every wallet, transaction graph, limit    *)
(* and number of changes, errors and lost connections.                      *)
(***************************************************************************)
EXTENDS Synchronizer, FiniteSetTheorems, SequenceTheorems, TLAPS

\* More requests, one each.
LEMMA MoreRequests ==
    ASSUME NEW B, IsABag(B), NEW S
    PROVE  /\ DOMAIN (B (+) SetToBag(S)) = DOMAIN B \cup S /\ IsABag(B (+) SetToBag(S))
           /\ \A e \in DOMAIN B : e \notin S => (B (+) SetToBag(S))[e] = B[e]
           /\ \A e \in S : e \notin DOMAIN B => (B (+) SetToBag(S))[e] = 1
<1> DEFINE D == B (+) SetToBag(S)
<1>1. /\ DOMAIN SetToBag(S) = S /\ \A e \in S : SetToBag(S)[e] = 1
  BY DEF SetToBag
<1>2. /\ DOMAIN D = DOMAIN B \cup S
      /\ \A e \in DOMAIN B \cup S : D[e] = (IF e \in DOMAIN B THEN B[e] ELSE 0) + (IF e \in S THEN 1 ELSE 0)
      /\ D = [e \in DOMAIN D |-> D[e]]
  BY <1>1 DEF (+)
<1>3. \A e \in DOMAIN B : B[e] \in Nat /\ B[e] > 0
  BY DEF IsABag
<1> HIDE DEF D
<1>4. \A e \in DOMAIN D : D[e] \in Nat /\ D[e] > 0
  BY <1>2, <1>3
<1>5. IsABag(D)
  BY <1>2, <1>4 DEF IsABag
<1>6. QED
  BY <1>2, <1>3, <1>5 DEF D

\* One request less.
LEMMA LessRequests ==
    ASSUME NEW B, IsABag(B), NEW r \in DOMAIN B
    PROVE  /\ DOMAIN (B (-) SetToBag({r})) = IF B[r] = 1 THEN DOMAIN B \ {r} ELSE DOMAIN B
           /\ IsABag(B (-) SetToBag({r}))
           /\ \A e \in DOMAIN B : e # r => (B (-) SetToBag({r}))[e] = B[e]
<1> DEFINE D == B (-) SetToBag({r})
           E == [e \in DOMAIN B |-> IF e \in {r} THEN B[e] - 1 ELSE B[e]]
<1>1. /\ DOMAIN SetToBag({r}) = {r} /\ SetToBag({r})[r] = 1
  BY DEF SetToBag
<1>2. D = [e \in {d \in DOMAIN E : E[d] > 0} |-> E[e]]
  BY <1>1 DEF (-)
<1>3. \A e \in DOMAIN B : B[e] \in Nat /\ B[e] > 0
  BY DEF IsABag
<1>4. DOMAIN E = DOMAIN B /\ \A e \in DOMAIN B : E[e] = IF e = r THEN B[e] - 1 ELSE B[e]
  OBVIOUS
<1> HIDE DEF E, D
<1>5. DOMAIN D = {d \in DOMAIN B : E[d] > 0} /\ \A e \in DOMAIN D : D[e] = E[e]
  BY <1>2, <1>4
<1>6. \A e \in DOMAIN B : E[e] > 0 <=> ~(e = r /\ B[r] = 1)
  BY <1>3, <1>4
<1>7. DOMAIN D = IF B[r] = 1 THEN DOMAIN B \ {r} ELSE DOMAIN B
  BY <1>5, <1>6
<1>8. \A e \in DOMAIN D : D[e] \in Nat /\ D[e] > 0
  BY <1>3, <1>4, <1>5
<1>9. IsABag(D)
  BY <1>2, <1>5, <1>8 DEF IsABag
<1>10. \A e \in DOMAIN B : e # r => e \in DOMAIN D /\ D[e] = B[e]
  BY <1>4, <1>5, <1>7
<1>11. QED
  BY <1>7, <1>9, <1>10 DEF D

\* Requests and the messages that answer them.
LEMMA RequestFacts ==
    /\ \A a : Subscribe(a).m = "subscribe" /\ Subscribe(a).key = a /\ Subscribe(a).sh = a
    /\ \A a : GetHistory(a).m = "history" /\ GetHistory(a).key = a /\ GetHistory(a).sh = a
    /\ \A t, a : GetTx(t, a).m = "tx" /\ GetTx(t, a).key = t /\ GetTx(t, a).sh = a
    /\ \A w : Asked(w).m = w.m /\ Asked(w).key = w.key /\ Asked(w).sh = w.sh
    /\ \A a \in Addr : Subscribe(a) \in Request /\ GetHistory(a) \in Request
    /\ \A t \in Tx, a \in Addr : GetTx(t, a) \in Request
    /\ \A r \in Request : \/ r.m = "subscribe" /\ r.key \in Addr /\ r = Subscribe(r.key)
                          \/ r.m = "history" /\ r.key \in Addr /\ r = GetHistory(r.key)
                          \/ r.m = "tx" /\ r.key \in Tx /\ r.sh \in Addr /\ r = GetTx(r.key, r.sh)
<1>1. /\ \A a : Subscribe(a).m = "subscribe" /\ Subscribe(a).key = a /\ Subscribe(a).sh = a
      /\ \A a : GetHistory(a).m = "history" /\ GetHistory(a).key = a /\ GetHistory(a).sh = a
      /\ \A t, a : GetTx(t, a).m = "tx" /\ GetTx(t, a).key = t /\ GetTx(t, a).sh = a
      /\ \A w : Asked(w).m = w.m /\ Asked(w).key = w.key /\ Asked(w).sh = w.sh
  BY DEF Subscribe, GetHistory, GetTx, Asked
<1>2. /\ \A a \in Addr : Subscribe(a) \in Request /\ GetHistory(a) \in Request
      /\ \A t \in Tx, a \in Addr : GetTx(t, a) \in Request
  BY DEF Request
<1>3. ASSUME NEW r \in Request
      PROVE  \/ r.m = "subscribe" /\ r.key \in Addr /\ r = Subscribe(r.key)
             \/ r.m = "history" /\ r.key \in Addr /\ r = GetHistory(r.key)
             \/ r.m = "tx" /\ r.key \in Tx /\ r.sh \in Addr /\ r = GetTx(r.key, r.sh)
  <2>1. \/ \E a \in Addr : r = Subscribe(a)
        \/ \E a \in Addr : r = GetHistory(a)
        \/ \E t \in Tx, a \in Addr : r = GetTx(t, a)
    BY DEF Request
  <2>2. QED
    BY <1>1, <2>1
<1>4. QED
  BY <1>1, <1>2, <1>3

\* A reply is one to a request.
LEMMA ReplyFacts ==
    ASSUME NEW w \in Reply
    PROVE  /\ Asked(w) \in Request /\ w.error \in BOOLEAN /\ w.result \subseteq Tx
           /\ w.sh \in Addr
           /\ \/ w.m = "subscribe" /\ w.key \in Addr /\ Asked(w) = Subscribe(w.key)
              \/ w.m = "history" /\ w.key \in Addr /\ Asked(w) = GetHistory(w.key)
              \/ w.m = "tx" /\ w.key \in Tx /\ Asked(w) = GetTx(w.key, w.sh)
<1>1. Asked(w) \in Request /\ w.error \in BOOLEAN /\ w.result \in SUBSET Tx /\ w.sh \in Addr
  BY DEF Reply
<1>2. QED
  BY <1>1, RequestFacts

-----------------------------------------------------------------------------
(* The wire.                                                               *)

\* The first message is read.
LEMMA WireTail ==
    ASSUME wire \in Seq(Reply), wire # <<>>, wire' = Tail(wire)
    PROVE  /\ Head(wire) \in Reply /\ wire' \in Seq(Reply) /\ Head(wire) = wire[1] /\ 1 \in DOMAIN wire
           /\ \A i \in DOMAIN wire' : i \in Nat /\ i + 1 \in DOMAIN wire /\ wire'[i] = wire[i + 1]
           /\ \A i \in DOMAIN wire : i # 1 => i \in Nat /\ i - 1 \in DOMAIN wire' /\ wire'[i - 1] = wire[i]
<1>1. Head(wire) \in Reply /\ Tail(wire) \in Seq(Reply) /\ Head(wire) = wire[1]
  BY HeadTailProperties
<1>2. PICK n \in Nat \ {0} : Len(wire) = n
  BY EmptySeq, Zenon
<1>3. DOMAIN wire = 1..n
  BY <1>2, LenProperties
<1>4. Len(Tail(wire)) = n - 1 /\ \A i \in 1..(n - 1) : Tail(wire)[i] = wire[i + 1]
  BY <1>2, HeadTailProperties
<1>5. DOMAIN Tail(wire) = 1..(n - 1)
  BY <1>1, <1>4, LenProperties
<1>6. 1 \in 1..n /\ (\A i \in 1..(n - 1) : i \in Nat /\ i + 1 \in 1..n)
      /\ \A i \in 1..n : i # 1 => i \in Nat /\ i - 1 \in 1..(n - 1) /\ (i - 1) + 1 = i
  OBVIOUS
<1>7. \A i \in 1..n : i # 1 => Tail(wire)[i - 1] = wire[i]
  <2> SUFFICES ASSUME NEW i \in 1..n, i # 1 PROVE Tail(wire)[i - 1] = wire[i]
    OBVIOUS
  <2>1. i - 1 \in 1..(n - 1) /\ (i - 1) + 1 = i
    BY <1>6
  <2>2. Tail(wire)[i - 1] = wire[(i - 1) + 1]
    BY <1>4, <2>1, Zenon
  <2>3. QED
    BY <2>1, <2>2, Zenon
<1>8. QED
  BY <1>1, <1>3, <1>4, <1>5, <1>6, <1>7, Zenon

\* A message is put on it.
LEMMA WireAppend ==
    ASSUME wire \in Seq(Reply), NEW w \in Reply, wire' = Append(wire, w)
    PROVE  /\ wire' \in Seq(Reply)
           /\ \A i \in DOMAIN wire : i \in DOMAIN wire' /\ wire'[i] = wire[i]
           /\ \E k \in DOMAIN wire' : /\ k \notin DOMAIN wire /\ wire'[k] = w
                                      /\ \A i \in DOMAIN wire' : i \in DOMAIN wire \/ i = k
<1>1. PICK n \in Nat : n = Len(wire)
  BY LenProperties
<1>2. DOMAIN wire = 1..n
  BY <1>1, LenProperties
<1>3. /\ wire' \in Seq(Reply) /\ Len(wire') = n + 1
      /\ \A i \in 1..n : wire'[i] = wire[i]
      /\ wire'[n + 1] = w
  BY <1>1, AppendProperties
<1>4. DOMAIN wire' = 1..(n + 1)
  BY <1>3, LenProperties
<1>5. n + 1 \in 1..(n + 1) /\ n + 1 \notin 1..n /\ \A i \in 1..(n + 1) : i \in 1..n \/ i = n + 1
  OBVIOUS
<1>6. \A i \in 1..n : i \in 1..(n + 1)
  OBVIOUS
<1>7. QED
  BY <1>2, <1>3, <1>4, <1>5, <1>6, Zenon

-----------------------------------------------------------------------------
(* Types.                                                                  *)

\* Addresses are derived in a fixed order.
LEMMA DerivedFacts ==
    /\ Len(Derivation) \in Nat /\ DOMAIN Derivation = 1..Len(Derivation)
    /\ \A k \in 1..Len(Derivation) : Derivation[k] \in Addr
    /\ \A i \in Nat, j \in 0..Len(Derivation) : Derived(i + 1, j) \subseteq Addr
<1>1. /\ Len(Derivation) \in Nat /\ DOMAIN Derivation = 1..Len(Derivation)
      /\ \A k \in 1..Len(Derivation) : Derivation[k] \in Addr
  BY SyncAssumption, LenProperties, ElementOfSeq
<1>2. ASSUME NEW i \in Nat, NEW j \in 0..Len(Derivation) PROVE Derived(i + 1, j) \subseteq Addr
  <2>1. \A k \in (i + 1)..j : k \in 1..Len(Derivation)
    BY <1>1
  <2>2. QED
    BY <1>1, <2>1, Zenon DEF Derived
<1>3. QED
  BY <1>1, <1>2

\* The ones picked from a set are members of it.
LEMMA Selections ==
    /\ \A S, n : oldest(S, n) \subseteq S
    /\ \A S : popped(S) \subseteq S
    /\ \A S, R : expired(S, R) \subseteq candidates /\ expired(S, R) \cap R = {}
BY DEF oldest, popped, expired

\* What _check_change_scripthash leaves in the candidates.
LEMMA CheckTyped ==
    ASSUME TypeOK, NEW a, _check_change_scripthash(a)
    PROVE  candidates' \subseteq ChangeAddr
<1>1. change_scripthashes \subseteq ChangeAddr /\ candidates \subseteq ChangeAddr
  BY DEF TypeOK
<1>2. \/ candidates' = candidates
      \/ stable(a) /\ candidates' = candidates \cup {a}
      \/ candidates' = candidates \ {a}
  BY Zenon DEF _check_change_scripthash
<1>3. stable(a) => a \in ChangeAddr
  BY <1>1 DEF stable
<1>4. QED
  BY <1>1, <1>2, <1>3

\* The answer to a request.
LEMMA AnswerTyped ==
    ASSUME chain \subseteq Tx, NEW r \in Request, NEW error \in BOOLEAN
    PROVE  [m |-> r.m, key |-> r.key, sh |-> r.sh, error |-> error,
            result |-> IF r.m = "tx" THEN {r.key} ELSE Listed(r.key)] \in Reply
<1> DEFINE w == [m |-> r.m, key |-> r.key, sh |-> r.sh, error |-> error,
                 result |-> IF r.m = "tx" THEN {r.key} ELSE Listed(r.key)]
<1>1. /\ r.m \in {"subscribe", "history", "tx"} /\ r.key \in Addr \cup Tx /\ r.sh \in Addr
      /\ r.m = "tx" => r.key \in Tx
      /\ r = Asked(r)
  <2>1. CASE r.m = "subscribe" /\ r.key \in Addr /\ r = Subscribe(r.key)
    BY <2>1 DEF Subscribe, Asked
  <2>2. CASE r.m = "history" /\ r.key \in Addr /\ r = GetHistory(r.key)
    BY <2>2 DEF GetHistory, Asked
  <2>3. CASE r.m = "tx" /\ r.key \in Tx /\ r.sh \in Addr /\ r = GetTx(r.key, r.sh)
    BY <2>3 DEF GetTx, Asked
  <2>4. QED
    BY <2>1, <2>2, <2>3, RequestFacts
<1>2. Listed(r.key) \subseteq Tx
  BY DEF Listed
<1>3. w \in [m : {"subscribe", "history", "tx"}, key : Addr \cup Tx, sh : Addr,
             error : BOOLEAN, result : SUBSET Tx]
  BY <1>1, <1>2
<1>4. Asked(w) = Asked(r)
  BY DEF Asked
<1>5. QED
  BY <1>1, <1>3, <1>4 DEF Reply

\* A notification looks like the answer to a subscription.
LEMMA NotifyTyped ==
    ASSUME chain \subseteq Tx, NEW a \in Addr
    PROVE  [m |-> "subscribe", key |-> a, sh |-> a, error |-> FALSE, result |-> Listed(a)] \in Reply
<1>1. Subscribe(a) \in Request /\ Subscribe(a).m = "subscribe" /\ Subscribe(a).key = a /\ Subscribe(a).sh = a
  BY RequestFacts
<1>2. [m |-> Subscribe(a).m, key |-> Subscribe(a).key, sh |-> Subscribe(a).sh, error |-> FALSE,
       result |-> IF Subscribe(a).m = "tx" THEN {Subscribe(a).key} ELSE Listed(Subscribe(a).key)] \in Reply
  BY <1>1, AnswerTyped
<1>3. QED
  BY <1>1, <1>2

\* The answers to a request can be counted.
LEMMA AnswersFinite ==
    ASSUME wire \in Seq(Reply), NEW r
    PROVE  /\ IsFiniteSet(AnswersTo(r)) /\ Cardinality(AnswersTo(r)) \in Nat
           /\ Cardinality(AnswersTo(r)) = 0 <=> AnswersTo(r) = {}
<1>1. IsFiniteSet(DOMAIN wire)
  <2>1. PICK n \in Nat : DOMAIN wire = 1..n
    BY LenProperties
  <2>2. QED
    BY <2>1, FS_Interval
<1>2. AnswersTo(r) \subseteq DOMAIN wire
  BY DEF AnswersTo
<1>3. IsFiniteSet(AnswersTo(r))
  BY <1>1, <1>2, FS_Subset, Zenon
<1>4. QED
  BY <1>3, FS_CardinalityType, FS_EmptySet

\* send_subscriptions asks again what was asked and not delivered.
LEMMA ResendFacts ==
    ASSUME TypeOK
    PROVE  /\ IsABag(resend) /\ DOMAIN resend \subseteq Request
           /\ \A a \in Addr : Subscribe(a) \in DOMAIN resend <=> a \in subscriptions
           /\ \A r \in Request : r.m # "subscribe" =>
                 /\ r \in DOMAIN resend <=> r \in DOMAIN unanswered_requests \/ AnswersTo(r) # {}
                 /\ r \in DOMAIN resend =>
                       resend[r] = (IF r \in DOMAIN unanswered_requests THEN unanswered_requests[r] ELSE 0)
                                      + Cardinality(AnswersTo(r))
<1> DEFINE U == unanswered_requests
           P(r) == (IF BagIn(r, U) THEN U[r] ELSE 0) + Cardinality(AnswersTo(r))
           A == {GetHistory(a) : a \in Addr} \cup {GetTx(t, a) : t \in Tx, a \in Addr}
           D == {q \in A : P(q) > 0}
           B == [r \in D |-> P(r)]
           S == {Subscribe(a) : a \in subscriptions}
<1>1. resend = B (+) SetToBag(S)
  BY DEF resend
<1>2. wire \in Seq(Reply) /\ IsABag(U) /\ subscriptions \subseteq Addr
  BY DEF TypeOK
<1>3. \A r : Cardinality(AnswersTo(r)) \in Nat /\ (Cardinality(AnswersTo(r)) = 0 <=> AnswersTo(r) = {})
  BY <1>2, AnswersFinite
<1>4. \A r : r \in DOMAIN U => U[r] \in Nat /\ U[r] > 0
  BY <1>2 DEF IsABag
<1>5. \A r : P(r) \in Nat /\ (P(r) > 0 <=> r \in DOMAIN U \/ AnswersTo(r) # {})
  BY <1>3, <1>4 DEF BagIn, BagToSet
<1>6. A \subseteq Request /\ \A r \in Request : r.m # "subscribe" <=> r \in A
  <2>1. A \subseteq Request
    BY RequestFacts
  <2>2. \A r \in A : r.m # "subscribe"
    BY RequestFacts
  <2>3. \A r \in Request : r.m # "subscribe" => r \in A
    BY RequestFacts
  <2>4. QED
    BY <2>1, <2>2, <2>3
<1>7. S \subseteq Request /\ \A r \in S : r.m = "subscribe"
  BY <1>2, RequestFacts
<1> HIDE DEF P, A, S
<1>8. DOMAIN B = D /\ \A r \in D : B[r] = P(r)
  OBVIOUS
<1>9. \A r \in D : P(r) \in Nat /\ P(r) > 0
  BY <1>5
<1>10. IsABag(B)
  BY <1>9 DEF IsABag
<1>11. /\ DOMAIN resend = D \cup S /\ IsABag(resend)
       /\ \A e \in D : e \notin S => resend[e] = B[e]
  BY <1>1, <1>8, <1>10, MoreRequests
<1>12. \A r \in Request : r.m # "subscribe" => r \notin S /\ (r \in DOMAIN resend <=> r \in D)
  BY <1>7, <1>11
<1>13. \A r \in Request : r.m # "subscribe" => (r \in D <=> r \in DOMAIN U \/ AnswersTo(r) # {})
  BY <1>5, <1>6
<1>14. \A a \in Addr : Subscribe(a) \in DOMAIN resend <=> a \in subscriptions
  <2>1. \A a \in Addr : Subscribe(a) \notin D
    BY <1>6, RequestFacts
  <2>2. \A a \in Addr : Subscribe(a) \in S <=> a \in subscriptions
    BY RequestFacts DEF S
  <2>3. QED
    BY <1>11, <2>1, <2>2
<1>15. \A r \in Request : r.m # "subscribe" /\ r \in DOMAIN resend => resend[r] = P(r)
  BY <1>8, <1>11, <1>12
<1>16. DOMAIN resend \subseteq Request
  BY <1>6, <1>7, <1>11
<1>17. QED
  BY <1>11, <1>12, <1>13, <1>14, <1>15, <1>16 DEF P, BagIn, BagToSet

\* Every variable keeps its type in the initial state.
LEMMA InitTyped == Init => TypeOK
<1> SUFFICES ASSUME Init PROVE TypeOK
  OBVIOUS
<1> DEFINE initial == Derived(1, InitDerived)
           now == {a \in initial : a \notin ChangeAddr \/ Limit = 0}
           lost == (UNION {SavedHistory[a] : a \in Addr}) \ SavedTxs
<1>1. initial \subseteq Addr
  <2>1. 0 + 1 = 1 /\ 0 \in Nat
    OBVIOUS
  <2>2. Derived(0 + 1, InitDerived) \subseteq Addr
    BY <2>1, SyncAssumption, DerivedFacts, Zenon
  <2>3. QED
    BY <2>1, <2>2
<1>2. now \subseteq Addr /\ initial \ now \subseteq ChangeAddr
  BY <1>1
<1>3. lost \subseteq Tx
  BY SyncAssumption
<1>4. PICK owner \in [lost -> Addr] :
         /\ requested_tx_by_sh = [a \in Addr |-> {t \in lost : Limit > 0 /\ owner[t] = a}]
         /\ unanswered_requests = SetToBag({GetTx(t, owner[t]) : t \in lost} \cup {Subscribe(a) : a \in now})
  BY Zenon DEF Init
<1>5. /\ requested_tx = lost /\ new_addresses_for_change = initial \ now /\ requested_hashes = now
      /\ subscriptions = now
  BY Zenon DEF Init
<1> HIDE DEF initial, now, lost
<1>6. requested_tx_by_sh \in [Addr -> SUBSET Tx]
  BY <1>3, <1>4
<1>7. IsABag(unanswered_requests) /\ DOMAIN unanswered_requests \subseteq Request
  <2> DEFINE Q == {GetTx(t, owner[t]) : t \in lost} \cup {Subscribe(a) : a \in now}
  <2>1. \A t \in lost : GetTx(t, owner[t]) \in Request
    BY <1>3, RequestFacts
  <2>2. \A a \in now : Subscribe(a) \in Request
    BY <1>2, RequestFacts
  <2>3. Q \subseteq Request
    BY <2>1, <2>2
  <2> HIDE DEF Q
  <2>4. IsABag(SetToBag(Q)) /\ DOMAIN SetToBag(Q) = Q
    BY DEF IsABag, SetToBag
  <2>5. QED
    BY <1>4, <2>3, <2>4 DEF Q
<1>8. /\ derived \in 0..Len(Derivation)
      /\ history \in [Addr -> SUBSET Tx]
      /\ transactions \subseteq Tx
      /\ up_to_date \in BOOLEAN
      /\ new_addresses \subseteq Addr
      /\ change_scripthashes = {}
      /\ requested_histories \in [Addr -> {NotRequested} \cup SUBSET Tx]
      /\ change_subs \cup candidates \cup retired \subseteq ChangeAddr
      /\ {need_release, cleaned_up, ticking} \subseteq BOOLEAN
  BY SyncAssumption DEF Init
<1>9. wire \in Seq(Reply) /\ chain \subseteq Tx /\ touched \subseteq server_subs /\ server_subs \subseteq Addr
  <2>1. wire = <<>> /\ chain = InitChain /\ server_subs = {} /\ touched = {}
    BY DEF Init
  <2>2. QED
    BY <2>1, SyncAssumption, EmptySeq
<1>10. QED
  BY <1>2, <1>3, <1>5, <1>6, <1>7, <1>8, <1>9, Zenon DEF TypeOK

\* One tick.
LEMMA RunTyped ==
    ASSUME TypeOK, NEW n \in derived..Len(Derivation), run(n)
    PROVE  TypeOK'
<1> DEFINE fresh == Derived(derived + 1, n)
           queue == new_addresses_for_change \cup (fresh \cap ChangeAddr)
           batch == popped(queue)
           change == {a \in batch : Limit = 0 \/ a \notin retired}
           hashes == new_addresses \cup (fresh \ ChangeAddr) \cup change
           subs == IF Limit > 0 THEN change_subs \cup change ELSE change_subs
           out == IF batch # {} THEN expired(subs, requested_hashes \cup hashes) ELSE {}
<1>1. n \in 0..Len(Derivation) /\ fresh \subseteq Addr
  BY DerivedFacts DEF TypeOK
<1>2. queue \subseteq ChangeAddr /\ batch \subseteq ChangeAddr /\ change \subseteq ChangeAddr
  <2>1. queue \subseteq ChangeAddr
    BY DEF TypeOK
  <2>2. QED
    BY <2>1, Selections
<1>3. hashes \subseteq Addr
  BY <1>1, <1>2, SyncAssumption DEF TypeOK
<1>4. subs \subseteq ChangeAddr
  BY <1>2 DEF TypeOK
<1>5. out \subseteq candidates
  BY Selections
<1>6. /\ UNCHANGED <<history, transactions, up_to_date, requested_tx, requested_tx_by_sh,
                     requested_histories, releaseVars, wire, serverVars, envVars>>
      /\ ticking' = TRUE
      /\ derived' = n
      /\ new_addresses' = {}
      /\ new_addresses_for_change' = queue \ batch
      /\ requested_hashes' = requested_hashes \cup hashes
      /\ change_scripthashes' = IF Limit > 0 THEN change_scripthashes \cup batch ELSE change_scripthashes
      /\ change_subs' = subs \ out
      /\ candidates' = candidates \ out
      /\ retired' = retired \cup out
      /\ subscriptions' = (subscriptions \cup hashes) \ out
      /\ unanswered_requests' = unanswered_requests (+) SetToBag({Subscribe(a) : a \in hashes})
  BY DEF run
<1> HIDE DEF fresh, queue, batch, change, hashes, subs, out
<1>8. IsABag(unanswered_requests)' /\ (DOMAIN unanswered_requests \subseteq Request)'
  <2> DEFINE S == {Subscribe(a) : a \in hashes}
  <2>1. S \subseteq Request
    BY <1>3, RequestFacts
  <2>2. IsABag(unanswered_requests) /\ DOMAIN unanswered_requests \subseteq Request
    BY DEF TypeOK
  <2> HIDE DEF S
  <2>3. /\ DOMAIN (unanswered_requests (+) SetToBag(S)) = DOMAIN unanswered_requests \cup S
        /\ IsABag(unanswered_requests (+) SetToBag(S))
    BY <2>2, MoreRequests
  <2>4. unanswered_requests' = unanswered_requests (+) SetToBag(S)
    BY <1>6 DEF S
  <2>5. QED
    BY <2>1, <2>2, <2>3, <2>4
<1>9. /\ (new_addresses_for_change \cup change_scripthashes \subseteq ChangeAddr)'
      /\ (change_subs \cup candidates \cup retired \subseteq ChangeAddr)'
      /\ (requested_hashes \subseteq Addr)' /\ (subscriptions \subseteq Addr)' /\ (new_addresses \subseteq Addr)'
      /\ (derived \in 0..Len(Derivation))'
  BY <1>1, <1>2, <1>3, <1>4, <1>5, <1>6 DEF TypeOK
<1>10. QED
  BY <1>6, <1>8, <1>9, Zenon DEF TypeOK, releaseVars, serverVars

\* Its end.
LEMMA SettleTyped ==
    ASSUME TypeOK, NEW tick \in BOOLEAN, run_settle(tick)
    PROVE  TypeOK'
<1> DEFINE out == IF tick /\ is_up_to_date THEN expired(change_subs, requested_hashes) ELSE {}
<1>1. out \subseteq candidates
  BY Selections
<1>2. /\ ticking' = FALSE /\ up_to_date' = is_up_to_date
      /\ change_subs' = change_subs \ out
      /\ candidates' = candidates \ out
      /\ retired' = retired \cup out
      /\ subscriptions' = subscriptions \ out
      /\ UNCHANGED <<derived, history, transactions, queueVars, requestVars, change_scripthashes,
                     releaseVars, unanswered_requests, wire, serverVars>>
  BY DEF run_settle
<1> HIDE DEF out
<1>3. /\ (change_subs \cup candidates \cup retired \subseteq ChangeAddr)' /\ (subscriptions \subseteq Addr)'
      /\ up_to_date' \in BOOLEAN
  BY <1>1, <1>2 DEF TypeOK, is_up_to_date
<1>4. QED
  BY <1>2, <1>3, Zenon DEF TypeOK, queueVars, requestVars, releaseVars, serverVars

\* Releasing, adding an address, and what the environment does.
LEMMA QuietTyped ==
    ASSUME TypeOK, \/ release \/ add \/ ignore \/ \E view \in SUBSET Tx : chain_moves(view)
    PROVE  TypeOK'
<1>1. CASE release
  BY <1>1 DEF TypeOK, candidates, retired, release, walletVars, queueVars, requestVars, changeVars, serverVars
<1>2. CASE add
  <2>1. derived + 1 \in 1..Len(Derivation) /\ derived + 1 \in 0..Len(Derivation)
    BY <1>2, DerivedFacts DEF TypeOK, add
  <2>2. Derivation[derived + 1] \in Addr
    BY <2>1, DerivedFacts
  <2>3. /\ (derived \in 0..Len(Derivation))' /\ (new_addresses \subseteq Addr)'
        /\ (new_addresses_for_change \cup change_scripthashes \subseteq ChangeAddr)'
    BY <1>2, <2>1, <2>2 DEF TypeOK, candidates, retired, add, changeVars
  <2>4. QED
    BY <1>2, <2>3, Zenon DEF TypeOK, candidates, retired, add, requestVars, changeVars, releaseVars, serverVars
<1>3. CASE ignore
  <2>1. wire' \in Seq(Reply)
    BY <1>3, WireTail DEF ignore, TypeOK
  <2>2. QED
    BY <1>3, <2>1, Zenon DEF TypeOK, candidates, retired, ignore, walletVars, queueVars, requestVars, changeVars, releaseVars,
                             serverVars
<1>4. CASE \E view \in SUBSET Tx : chain_moves(view)
  <2>1. PICK view \in SUBSET Tx : chain_moves(view)
    BY <1>4
  <2>2. (chain \subseteq Tx /\ touched \subseteq server_subs /\ server_subs \subseteq Addr)'
    BY <2>1 DEF chain_moves, TypeOK
  <2>3. QED
    BY <2>1, <2>2, Zenon DEF TypeOK, candidates, retired, chain_moves, walletVars, queueVars, requestVars, changeVars, releaseVars
<1>5. QED
  BY <1>1, <1>2, <1>3, <1>4

\* Only requests for transactions survive the release.
LEMMA ReleaseTyped ==
    ASSUME TypeOK, run_release
    PROVE  /\ TypeOK'
           /\ \A r : r \in DOMAIN unanswered_requests' <=> r \in DOMAIN unanswered_requests /\ r.m = "tx"
           /\ \A r \in DOMAIN unanswered_requests' : unanswered_requests'[r] = unanswered_requests[r]
<1>1. PICK D : D = {q \in DOMAIN unanswered_requests : q.m = "tx"}
  OBVIOUS
<1>2. unanswered_requests' = [r \in D |-> unanswered_requests[r]]
  BY <1>1 DEF run_release
<1>3. IsABag(unanswered_requests) /\ DOMAIN unanswered_requests \subseteq Request
  BY DEF TypeOK
<1>4. \A r \in DOMAIN unanswered_requests : unanswered_requests[r] \in {n \in Nat : n > 0}
  BY <1>3 DEF IsABag
<1>5. D \subseteq DOMAIN unanswered_requests
  BY <1>1
<1>6. IsABag(unanswered_requests)'
  BY <1>2, <1>4, <1>5 DEF IsABag
<1>7. DOMAIN unanswered_requests' = D /\ \A r \in D : unanswered_requests'[r] = unanswered_requests[r]
  BY <1>2
<1>8. TypeOK'
  <2>1. (subscriptions \subseteq Addr)' /\ ({need_release, cleaned_up, ticking} \subseteq BOOLEAN)'
    BY DEF run_release, TypeOK
  <2>2. (DOMAIN unanswered_requests \subseteq Request)'
    BY <1>3, <1>5, <1>7
  <2>3. QED
    BY <1>6, <2>1, <2>2, Zenon DEF TypeOK, candidates, retired, run_release, walletVars, queueVars, requestVars, changeVars, serverVars
<1>9. QED
  BY <1>1, <1>7, <1>8

\* The server answers, notifies, or is replaced.
LEMMA ServerTyped ==
    ASSUME TypeOK,
           \/ \E r \in DOMAIN unanswered_requests, error \in BOOLEAN : answer(r, error)
           \/ \E a \in Addr : notify(a)
           \/ switch_interface
    PROVE  TypeOK'
<1>0. /\ wire \in Seq(Reply) /\ chain \subseteq Tx /\ touched \subseteq server_subs /\ server_subs \subseteq Addr
      /\ IsABag(unanswered_requests) /\ DOMAIN unanswered_requests \subseteq Request
  BY DEF TypeOK
<1>1. ASSUME NEW r \in DOMAIN unanswered_requests, NEW error \in BOOLEAN, answer(r, error)
      PROVE  TypeOK'
  <2>1. wire' \in Seq(Reply)
    <3>1. [m |-> r.m, key |-> r.key, sh |-> r.sh, error |-> error,
            result |-> IF r.m = "tx" THEN {r.key} ELSE Listed(r.key)] \in Reply
      BY <1>0, AnswerTyped
    <3>2. QED
      BY <1>0, <1>1, <3>1, WireAppend DEF answer
  <2>2. IsABag(unanswered_requests)' /\ (DOMAIN unanswered_requests \subseteq Request)'
    <3>1. unanswered_requests' = unanswered_requests (-) SetToBag({r})
      BY <1>1 DEF answer
    <3>2. QED
      BY <1>0, <3>1, LessRequests
  <2>3. (touched \subseteq server_subs /\ server_subs \subseteq Addr)'
    <3>1. r.m = "subscribe" => r.key \in Addr
      BY <1>0, RequestFacts
    <3>2. /\ server_subs' = IF r.m = "subscribe" /\ ~ error THEN server_subs \cup {r.key} ELSE server_subs
          /\ touched' = IF r.m = "subscribe" THEN touched \ {r.key} ELSE touched
      BY <1>1 DEF answer
    <3>3. QED
      BY <1>0, <3>1, <3>2
  <2>4. QED
    BY <1>1, <2>1, <2>2, <2>3, Zenon
       DEF TypeOK, candidates, retired, answer, walletVars, queueVars, requestVars, changeVars, releaseVars
<1>2. ASSUME NEW a \in Addr, notify(a) PROVE TypeOK'
  <2>1. wire' \in Seq(Reply)
    BY <1>0, <1>2, NotifyTyped, WireAppend DEF notify
  <2>2. (touched \subseteq server_subs /\ server_subs \subseteq Addr)'
    BY <1>0, <1>2 DEF notify
  <2>3. QED
    BY <1>2, <2>1, <2>2, Zenon
       DEF TypeOK, candidates, retired, notify, walletVars, queueVars, requestVars, changeVars, releaseVars
<1>3. CASE switch_interface
  <2>1. IsABag(unanswered_requests)' /\ (DOMAIN unanswered_requests \subseteq Request)'
    BY <1>3, ResendFacts DEF switch_interface
  <2>2. (wire \in Seq(Reply) /\ touched \subseteq server_subs /\ server_subs \subseteq Addr)'
    <3>1. wire' = <<>> /\ touched' = {} /\ server_subs' = {}
      BY <1>3 DEF switch_interface
    <3>2. QED
      BY <3>1, EmptySeq
  <2>3. QED
    BY <1>3, <2>1, <2>2, Zenon
       DEF TypeOK, candidates, retired, switch_interface, walletVars, queueVars, requestVars, changeVars, releaseVars
<1>4. QED
  BY <1>1, <1>2, <1>3

\* The message a handler reads.
LEMMA HeadFacts ==
    ASSUME TypeOK, NEW m, Receive(m)
    PROVE  /\ ~ cleaned_up /\ wire # <<>> /\ wire' = Tail(wire) /\ Head(wire) \in Reply /\ Head(wire).m = m
           /\ wire' \in Seq(Reply)
<1>1. ~ cleaned_up /\ wire # <<>> /\ wire' = Tail(wire) /\ Head(wire).m = m /\ wire \in Seq(Reply)
  BY DEF Receive, TypeOK
<1>2. QED
  BY <1>1, WireTail

\* A status is announced.
LEMMA StatusTyped ==
    ASSUME TypeOK, _on_address_status
    PROVE  TypeOK'
<1> DEFINE msg == Head(wire)
           a == msg.key
           ask == history[a] # msg.result /\ requested_histories[a] \in {NotRequested, {}}
<1>1. Receive("subscribe") /\ _check_change_scripthash(a)
  BY DEF _on_address_status
<1>2. msg \in Reply /\ msg.m = "subscribe" /\ wire' \in Seq(Reply)
  BY <1>1, HeadFacts
<1>3. a \in Addr /\ msg.result \subseteq Tx
  BY <1>2, ReplyFacts
<1>4. requested_histories' = [requested_histories EXCEPT ![a] = IF ask THEN msg.result ELSE @]
  BY DEF _on_address_status
<1>5. unanswered_requests' = IF ask THEN unanswered_requests (+) SetToBag({GetHistory(a)})
                             ELSE unanswered_requests
  BY DEF _on_address_status
<1>6. /\ requested_hashes' = requested_hashes \ {a}
      /\ UNCHANGED <<walletVars, requested_tx, requested_tx_by_sh, queueVars, change_scripthashes, change_subs,
                     retired, releaseVars, ticking, subscriptions, serverVars>>
  BY DEF _on_address_status
<1> HIDE DEF msg, a, ask
<1>7. requested_histories' \in [Addr -> {NotRequested} \cup SUBSET Tx]
  <2>1. requested_histories \in [Addr -> {NotRequested} \cup SUBSET Tx]
    BY DEF TypeOK
  <2>2. QED
    BY <1>3, <1>4, <2>1
<1>8. IsABag(unanswered_requests)' /\ (DOMAIN unanswered_requests \subseteq Request)'
  <2>1. IsABag(unanswered_requests) /\ DOMAIN unanswered_requests \subseteq Request /\ GetHistory(a) \in Request
    BY <1>3, RequestFacts DEF TypeOK
  <2>2. /\ DOMAIN (unanswered_requests (+) SetToBag({GetHistory(a)})) = DOMAIN unanswered_requests \cup {GetHistory(a)}
        /\ IsABag(unanswered_requests (+) SetToBag({GetHistory(a)}))
    BY <2>1, MoreRequests
  <2>3. QED
    BY <1>5, <2>1, <2>2
<1>9. /\ (change_subs \cup candidates \cup retired \subseteq ChangeAddr)'
      /\ (requested_hashes \subseteq Addr)'
  <2>1. candidates' \subseteq ChangeAddr
    BY <1>1, CheckTyped
  <2>2. QED
    BY <1>6, <2>1 DEF TypeOK, retired
<1>10. QED
  BY <1>2, <1>6, <1>7, <1>8, <1>9, Zenon DEF TypeOK, walletVars, queueVars, releaseVars, serverVars

\* A history arrives.
LEMMA HistoryTyped ==
    ASSUME TypeOK, _on_address_history
    PROVE  TypeOK'
<1> DEFINE msg == Head(wire)
           a == msg.key
           match == msg.result = requested_histories[a]
           ask == IF match THEN missing(msg.result) ELSE {}
<1>1. Receive("history") /\ _check_change_scripthash(a)
  BY DEF _on_address_history
<1>2. msg \in Reply /\ msg.m = "history" /\ wire' \in Seq(Reply)
  BY <1>1, HeadFacts
<1>3. a \in Addr /\ msg.result \subseteq Tx
  BY <1>2, ReplyFacts
<1>4. ask \subseteq Tx
  BY <1>3 DEF missing
<1>5. /\ requested_histories' = [requested_histories EXCEPT ![a] = NotRequested]
      /\ history' = [history EXCEPT ![a] = IF match THEN msg.result ELSE @]
      /\ requested_tx' = requested_tx \cup ask
      /\ requested_tx_by_sh' = [requested_tx_by_sh EXCEPT ![a] = IF Limit > 0 THEN @ \cup ask ELSE @]
      /\ unanswered_requests' = unanswered_requests (+) SetToBag({GetTx(t, a) : t \in ask})
      /\ UNCHANGED <<derived, transactions, up_to_date, requested_hashes, queueVars, change_scripthashes,
                     change_subs, retired, releaseVars, ticking, subscriptions, serverVars>>
  BY DEF _on_address_history
<1> HIDE DEF msg, a, match, ask
<1>6. /\ requested_histories' \in [Addr -> {NotRequested} \cup SUBSET Tx]
      /\ history' \in [Addr -> SUBSET Tx]
      /\ requested_tx_by_sh' \in [Addr -> SUBSET Tx]
      /\ requested_tx' \subseteq Tx
  <2>1. /\ requested_histories \in [Addr -> {NotRequested} \cup SUBSET Tx]
        /\ history \in [Addr -> SUBSET Tx]
        /\ requested_tx_by_sh \in [Addr -> SUBSET Tx]
        /\ requested_tx \subseteq Tx
    BY DEF TypeOK
  <2>2. QED
    BY <1>3, <1>4, <1>5, <2>1
<1>7. IsABag(unanswered_requests)' /\ (DOMAIN unanswered_requests \subseteq Request)'
  <2> DEFINE S == {GetTx(t, a) : t \in ask}
  <2>1. IsABag(unanswered_requests) /\ DOMAIN unanswered_requests \subseteq Request
    BY DEF TypeOK
  <2>2. S \subseteq Request
    BY <1>3, <1>4, RequestFacts
  <2> HIDE DEF S
  <2>3. /\ DOMAIN (unanswered_requests (+) SetToBag(S)) = DOMAIN unanswered_requests \cup S
        /\ IsABag(unanswered_requests (+) SetToBag(S))
    BY <2>1, MoreRequests
  <2>4. unanswered_requests' = unanswered_requests (+) SetToBag(S)
    BY <1>5 DEF S
  <2>5. QED
    BY <2>1, <2>2, <2>3, <2>4
<1>8. (change_subs \cup candidates \cup retired \subseteq ChangeAddr)'
  <2>1. candidates' \subseteq ChangeAddr
    BY <1>1, CheckTyped
  <2>2. QED
    BY <1>5, <2>1 DEF TypeOK, retired
<1>9. QED
  BY <1>2, <1>5, <1>6, <1>7, <1>8, Zenon DEF TypeOK, queueVars, releaseVars, serverVars

\* A transaction arrives, or the word that there is none.
LEMMA TxTyped ==
    ASSUME TypeOK, _tx_response
    PROVE  TypeOK'
<1> DEFINE msg == Head(wire)
           t == msg.key
           a == msg.sh
<1>1. Receive("tx") /\ _check_change_scripthash(a)
  BY DEF _tx_response
<1>2. msg \in Reply /\ msg.m = "tx" /\ wire' \in Seq(Reply)
  BY <1>1, HeadFacts
<1>3. t \in Tx /\ a \in Addr
  BY <1>2, ReplyFacts
<1>4. /\ requested_tx' = requested_tx \ {t}
      /\ requested_tx_by_sh' = [requested_tx_by_sh EXCEPT ![a] = @ \ {t}]
      /\ transactions' = IF msg.error THEN transactions ELSE transactions \cup {t}
      /\ UNCHANGED <<derived, history, up_to_date, requested_histories, requested_hashes, queueVars,
                     change_scripthashes, change_subs, retired, releaseVars, ticking, subscriptions,
                     unanswered_requests, serverVars>>
  BY DEF _tx_response, answered
<1> HIDE DEF msg, t, a
<1>5. /\ requested_tx_by_sh' \in [Addr -> SUBSET Tx]
      /\ requested_tx' \subseteq Tx /\ transactions' \subseteq Tx
  <2>1. requested_tx_by_sh \in [Addr -> SUBSET Tx] /\ requested_tx \subseteq Tx /\ transactions \subseteq Tx
    BY DEF TypeOK
  <2>2. QED
    BY <1>3, <1>4, <2>1
<1>6. (change_subs \cup candidates \cup retired \subseteq ChangeAddr)'
  <2>1. candidates' \subseteq ChangeAddr
    BY <1>1, CheckTyped
  <2>2. QED
    BY <1>4, <2>1 DEF TypeOK, retired
<1>7. QED
  BY <1>2, <1>4, <1>5, <1>6, Zenon DEF TypeOK, queueVars, releaseVars, serverVars

\* Every step keeps every type.
LEMMA NextTyped ==
    ASSUME TypeOK, [Next]_vars
    PROVE  TypeOK'
<1>1. ASSUME NEW n \in derived..Len(Derivation), run(n) PROVE TypeOK'
  BY <1>1, RunTyped
<1>0. ASSUME NEW tick \in BOOLEAN, run_settle(tick) PROVE TypeOK'
  BY <1>0, SettleTyped
<1>2. CASE run_release
  BY <1>2, ReleaseTyped
<1>3. CASE Deliver
  BY <1>3, StatusTyped, HistoryTyped, TxTyped, QuietTyped DEF Deliver
<1>4. CASE UNCHANGED vars
  BY <1>4 DEF TypeOK, vars, walletVars, queueVars, requestVars, changeVars, releaseVars, serverVars, candidates, retired
<1>5. QED
  BY <1>0, <1>1, <1>2, <1>3, <1>4, QuietTyped, ServerTyped, Zenon DEF Next

\* Types are kept: whatever the wallet, the server's answers, errors and
\* notifications, and however often the connection is lost, no handler leaves a
\* value of another type behind; no request and no message is ever malformed.
THEOREM SyncTyped == Spec => []TypeOK
<1>1. Init => TypeOK
  BY InitTyped
<1>2. TypeOK /\ [Next]_vars => TypeOK'
  BY NextTyped
<1>3. QED
  BY <1>1, <1>2, PTL DEF Spec

-----------------------------------------------------------------------------
(* Every address is covered.                                                *)

\* Deriving more addresses.
LEMMA MoreDerived ==
    ASSUME NEW i \in Nat, NEW j \in Nat, i <= j
    PROVE  Derived(1, j) \subseteq Derived(1, i) \cup Derived(i + 1, j)
<1>1. \A k \in 1..j : k \in 1..i \/ k \in (i + 1)..j
  OBVIOUS
<1>2. QED
  BY <1>1, Zenon DEF Derived

\* What a tick takes from the queues it subscribes to, unless it is retired.
LEMMA RunCovers ==
    ASSUME TypeOK, Covered, NEW n \in derived..Len(Derivation), run(n)
    PROVE  Covered'
<1> DEFINE fresh == Derived(derived + 1, n)
           queue == new_addresses_for_change \cup (fresh \cap ChangeAddr)
           batch == popped(queue)
           change == {a \in batch : Limit = 0 \/ a \notin retired}
           hashes == new_addresses \cup (fresh \ ChangeAddr) \cup change
           subs == IF Limit > 0 THEN change_subs \cup change ELSE change_subs
           out == IF batch # {} THEN expired(subs, requested_hashes \cup hashes) ELSE {}
<1>1. /\ ~ cleaned_up /\ ~ cleaned_up' /\ derived' = n
      /\ new_addresses_for_change' = queue \ batch
      /\ subscriptions' = (subscriptions \cup hashes) \ out
      /\ retired' = retired \cup out
  BY DEF run, releaseVars
<1>2. Mine' \subseteq Mine \cup fresh
  <2>1. derived \in Nat /\ n \in Nat /\ derived <= n
    BY DerivedFacts DEF TypeOK
  <2>2. QED
    BY <1>1, <2>1, MoreDerived DEF Mine
<1>3. Mine \subseteq subscriptions \cup retired \cup new_addresses \cup new_addresses_for_change
  BY <1>1 DEF Covered, Queued
<1>4. batch \subseteq change \cup retired
  OBVIOUS
<1>5. new_addresses \cup new_addresses_for_change \cup fresh \subseteq hashes \cup (queue \ batch) \cup retired
  BY <1>4
<1> HIDE DEF fresh, queue, batch, change, hashes, subs, out
<1>6. Mine' \subseteq subscriptions' \cup retired' \cup new_addresses_for_change'
  BY <1>1, <1>2, <1>3, <1>5
<1>7. QED
  BY <1>1, <1>6 DEF Covered, Queued

\* The end of a tick gives up a subscription only to retire the address.
LEMMA SettleCovers ==
    ASSUME Covered, NEW tick \in BOOLEAN, run_settle(tick)
    PROVE  /\ Covered' /\ ~ cleaned_up'
           /\ up_to_date' => requested_hashes' = {}
<1>1. /\ ticking /\ ~ ticking' /\ UNCHANGED <<cleaned_up, derived, new_addresses, new_addresses_for_change, requested_hashes>>
      /\ up_to_date' = is_up_to_date
      /\ \E out : subscriptions' = subscriptions \ out /\ retired' = retired \cup out
  BY DEF run_settle, queueVars, requestVars, releaseVars
<1>2. Mine' = Mine /\ Queued' = Queued
  BY <1>1 DEF Mine, Queued
<1>3. ~ cleaned_up
  BY <1>1 DEF Covered
<1>4. QED
  BY <1>1, <1>2, <1>3 DEF Covered, is_up_to_date

\* Covered is kept.
LEMMA StaysCovered ==
    ASSUME TypeOK, Covered, [Next]_vars
    PROVE  Covered'
<1>1. ASSUME NEW n \in derived..Len(Derivation), run(n) PROVE Covered'
  BY <1>1, RunCovers
<1>0. ASSUME NEW tick \in BOOLEAN, run_settle(tick) PROVE Covered'
  BY <1>0, SettleCovers
<1>2. CASE run_release
  BY <1>2 DEF run_release, Covered
<1>3. CASE add
  <2>1. /\ derived' = derived + 1 /\ UNCHANGED <<subscriptions, retired, cleaned_up, ticking>>
        /\ new_addresses \subseteq new_addresses' /\ new_addresses_for_change \subseteq new_addresses_for_change'
        /\ Derivation[derived + 1] \in new_addresses' \cup new_addresses_for_change'
    BY <1>3 DEF add, releaseVars, changeVars, retired
  <2>2. derived \in Nat /\ derived + 1 \in Nat /\ derived <= derived + 1
        /\ \A k \in (derived + 1)..(derived + 1) : k = derived + 1
    BY DEF TypeOK
  <2>3. Mine' \subseteq Mine \cup Derived(derived + 1, derived + 1)
    BY <2>1, <2>2, MoreDerived DEF Mine
  <2>4. Derived(derived + 1, derived + 1) \subseteq {Derivation[derived + 1]}
    BY <2>2 DEF Derived
  <2>5. QED
    BY <2>1, <2>3, <2>4 DEF Covered, Queued
<1>4. ASSUME UNCHANGED <<derived, queueVars, cleaned_up, ticking, subscriptions, retired>> PROVE Covered'
  BY <1>4 DEF Covered, Mine, Queued, queueVars
<1>5. CASE release
  BY <1>5, <1>4 DEF release, walletVars, changeVars, retired
<1>6. CASE Deliver
  BY <1>6, <1>4 DEF Deliver, _on_address_status, _on_address_history, _tx_response, ignore, walletVars, changeVars,
                    releaseVars, retired
<1>7. CASE \E r \in DOMAIN unanswered_requests, error \in BOOLEAN : answer(r, error)
  BY <1>7, <1>4 DEF answer, walletVars, changeVars, releaseVars, retired
<1>8. CASE \E a \in Addr : notify(a)
  BY <1>8, <1>4 DEF notify, walletVars, changeVars, releaseVars, retired
<1>9. CASE \E view \in SUBSET Tx : chain_moves(view)
  BY <1>9, <1>4 DEF chain_moves, walletVars, changeVars, releaseVars, retired
<1>10. CASE switch_interface
  BY <1>10, <1>4 DEF switch_interface, walletVars, changeVars, releaseVars, retired
<1>11. CASE UNCHANGED vars
  BY <1>11, <1>4 DEF vars, walletVars, changeVars, releaseVars, retired
<1>12. QED
  BY <1>0, <1>1, <1>2, <1>3, <1>5, <1>6, <1>7, <1>8, <1>9, <1>10, <1>11, Zenon DEF Next

\* So every address is covered for good.
LEMMA AlwaysCovered == Spec => [][Next]_vars /\ []TypeOK /\ []Covered
<1>1. Init => Covered
  <2> SUFFICES ASSUME Init PROVE Covered
    OBVIOUS
  <2> DEFINE now == {a \in Derived(1, InitDerived) : a \notin ChangeAddr \/ Limit = 0}
  <2>1. /\ derived = InitDerived /\ subscriptions = now /\ ticking = FALSE
        /\ new_addresses_for_change = Derived(1, InitDerived) \ now
    BY Zenon DEF Init
  <2>2. QED
    BY <2>1 DEF Mine, Covered, Queued
<1>2. TypeOK /\ Covered /\ [Next]_vars => Covered'
  BY StaysCovered
<1>3. QED
  BY <1>1, <1>2, SyncTyped, PTL DEF Spec

\* A released synchronizer is inert: after _release no step of any thread, no
\* late answer and no renewed connection changes what the wallet knows.
THEOREM ReleasedStaysInert == Spec => ReleasedIsInert
<1>1. Covered /\ [Next]_vars => [cleaned_up => UNCHANGED <<history, transactions, up_to_date>>]_vars
  <2> SUFFICES ASSUME Covered, Next, cleaned_up PROVE UNCHANGED <<history, transactions, up_to_date>>
    BY Zenon
  <2>1. ~ \E n \in derived..Len(Derivation) : run(n)
    BY DEF run
  <2>2. ~ run_release /\ ~ release
    BY DEF run_release, release
  <2>0. ~ \E tick \in BOOLEAN : run_settle(tick)
    BY DEF run_settle, Covered
  <2>3. ~ _on_address_status /\ ~ _on_address_history /\ ~ _tx_response
    BY DEF _on_address_status, _on_address_history, _tx_response, Receive
  <2>4. CASE add
    BY <2>4 DEF add
  <2>5. CASE ignore
    BY <2>5 DEF ignore, walletVars
  <2>6. CASE \E r \in DOMAIN unanswered_requests, error \in BOOLEAN : answer(r, error)
    BY <2>6 DEF answer, walletVars
  <2>7. CASE \E a \in Addr : notify(a)
    BY <2>7 DEF notify, walletVars
  <2>8. CASE \E view \in SUBSET Tx : chain_moves(view)
    BY <2>8 DEF chain_moves, walletVars
  <2>9. CASE switch_interface
    BY <2>9 DEF switch_interface, walletVars
  <2>10. QED
    BY <2>0, <2>1, <2>2, <2>3, <2>4, <2>5, <2>6, <2>7, <2>8, <2>9, Zenon DEF Next, Deliver
<1>2. QED
  BY <1>1, AlwaysCovered, PTL DEF ReleasedIsInert

\* The wallet becomes up to date at the end of a tick only.
LEMMA SettledByRun ==
    ASSUME TypeOK, Next, up_to_date', ~ up_to_date
    PROVE  \E tick \in BOOLEAN : run_settle(tick)
<1>1. run_release \/ release \/ add \/ Deliver \/ switch_interface => UNCHANGED up_to_date
  BY DEF run_release, release, add, Deliver, _on_address_status, _on_address_history, _tx_response, ignore,
         switch_interface, walletVars
<1>2. /\ \A n \in derived..Len(Derivation) : run(n) => UNCHANGED up_to_date
      /\ \A r \in DOMAIN unanswered_requests, error \in BOOLEAN : answer(r, error) => UNCHANGED up_to_date
      /\ \A a \in Addr : notify(a) => UNCHANGED up_to_date
      /\ \A view \in SUBSET Tx : chain_moves(view) => UNCHANGED up_to_date
  BY DEF run, answer, notify, chain_moves, walletVars
<1>3. QED
  BY <1>1, <1>2, Zenon DEF Next

\* No address is lost on its way to the server: when the wallet is told that it is
\* up to date, every address derived until then, also one that another thread adds
\* in the middle of the tick, is subscribed to and its subscription answered, or
\* retired, or still in a queue that a later tick takes.
THEOREM SettledIsSubscribed == Spec => SettledMeansSubscribed
<1> DEFINE Step == up_to_date' /\ ~ up_to_date =>
                      \A a \in Mine' : a \in (Queued \cup ((subscriptions \cup retired) \ requested_hashes))'
<1>3. TypeOK /\ Covered /\ [Next]_vars => [Step]_vars
  <2> SUFFICES ASSUME TypeOK, Covered, Next, up_to_date', ~ up_to_date
               PROVE  \A a \in Mine' : a \in (Queued \cup ((subscriptions \cup retired) \ requested_hashes))'
    BY Zenon
  <2>1. PICK tick \in BOOLEAN : run_settle(tick)
    BY SettledByRun
  <2>2. Covered' /\ ~ cleaned_up' /\ requested_hashes' = {}
    BY <2>1, SettleCovers
  <2>3. QED
    BY <2>2 DEF Covered
<1>4. QED
  BY <1>3, AlwaysCovered, PTL DEF SettledMeansSubscribed

-----------------------------------------------------------------------------
(* A transaction is asked for once.                                         *)

\* Nothing new is asked or answered for t.
TxKept(t) ==
    /\ Questions(t)' \subseteq Questions(t)
    /\ \A r \in Questions(t)' : unanswered_requests'[r] = unanswered_requests[r]
    /\ \A i, j \in Replies(t)' : i = j
    /\ \A i \in Replies(t)' : \E k \in Replies(t) : wire'[i].sh = wire[k].sh
    /\ t \in requested_tx' <=> t \in requested_tx
    /\ \A a \in Addr : t \in requested_tx_by_sh'[a] => t \in requested_tx_by_sh[a]

LEMMA KeptOnce ==
    ASSUME NEW t, TxOnce(t), TxKept(t)
    PROVE  TxOnce(t)'
<1>1. \A r, q \in Questions(t)' : r = q
  BY Zenon DEF TxOnce, TxKept
<1>2. \A r \in Questions(t)' : unanswered_requests'[r] = 1
  BY DEF TxOnce, TxKept
<1>3. \A i, j \in Replies(t)' : i = j
  BY Zenon DEF TxKept
<1>4. /\ Questions(t)' # {} => Questions(t) # {}
      /\ Replies(t)' # {} => Replies(t) # {}
  BY DEF TxKept
<1>5. (Questions(t)' = {} \/ Replies(t)' = {}) /\ (Questions(t)' # {} \/ Replies(t)' # {} => t \in requested_tx')
  BY <1>4 DEF TxOnce, TxKept
<1>6. ASSUME NEW a \in Addr, t \in requested_tx_by_sh'[a]
      PROVE  /\ t \in requested_tx'
             /\ \A r \in Questions(t)' : r.sh = a
             /\ \A i \in Replies(t)' : wire'[i].sh = a
  <2>1. t \in requested_tx_by_sh[a]
    BY <1>6 DEF TxKept
  <2>2. /\ t \in requested_tx
        /\ \A r \in Questions(t) : r.sh = a
        /\ \A i \in Replies(t) : wire[i].sh = a
    BY <2>1 DEF TxOnce
  <2>3. QED
    BY <2>2 DEF TxKept
<1>7. QED
  BY <1>1, <1>2, <1>3, <1>5, <1>6, Zenon DEF TxOnce

\* Replies that stay: the wire is left alone, a message is read, or one is added
\* that is not about t.
LEMMA RepliesKept ==
    ASSUME wire \in Seq(Reply), NEW t, TxOnce(t),
           \/ wire' = wire
           \/ wire # <<>> /\ wire' = Tail(wire)
           \/ \E w \in Reply : wire' = Append(wire, w) /\ ~ (w.m = "tx" /\ w.key = t)
    PROVE  /\ \A i, j \in Replies(t)' : i = j
           /\ \A i \in Replies(t)' : \E k \in Replies(t) : wire'[i].sh = wire[k].sh
<1>0. \A i, j \in Replies(t) : i = j
  BY Zenon DEF TxOnce
<1>1. CASE wire' = wire
  BY <1>0, <1>1 DEF Replies
<1>2. CASE wire # <<>> /\ wire' = Tail(wire)
  <2>1. \A i \in DOMAIN wire' : i \in Nat /\ i + 1 \in DOMAIN wire /\ wire'[i] = wire[i + 1]
    BY <1>2, WireTail
  <2>2. \A i \in Replies(t)' : i \in Nat /\ i + 1 \in Replies(t) /\ wire'[i] = wire[i + 1]
    BY <2>1 DEF Replies
  <2>3. ASSUME NEW i \in Replies(t)', NEW j \in Replies(t)' PROVE i = j
    <3>1. i + 1 = j + 1 /\ i \in Nat /\ j \in Nat
      BY <1>0, <2>2
    <3>2. QED
      BY <3>1
  <2>4. QED
    BY <2>2, <2>3
<1>3. CASE \E w \in Reply : wire' = Append(wire, w) /\ ~ (w.m = "tx" /\ w.key = t)
  <2>1. PICK w \in Reply : wire' = Append(wire, w) /\ ~ (w.m = "tx" /\ w.key = t)
    BY <1>3
  <2>2. /\ \A i \in DOMAIN wire : i \in DOMAIN wire' /\ wire'[i] = wire[i]
        /\ \E k \in DOMAIN wire' : /\ k \notin DOMAIN wire /\ wire'[k] = w
                                   /\ \A i \in DOMAIN wire' : i \in DOMAIN wire \/ i = k
    BY <2>1, WireAppend
  <2>3. \A i \in Replies(t)' : i \in Replies(t) /\ wire'[i] = wire[i]
    BY <2>1, <2>2 DEF Replies
  <2>4. QED
    BY <1>0, <2>3
<1>4. QED
  BY <1>1, <1>2, <1>3

\* What a transaction's requests are made of.
LEMMA QuestionFacts ==
    ASSUME TypeOK, NEW t
    PROVE  /\ \A r \in Questions(t) : /\ r \in Request /\ r.sh \in Addr /\ r = GetTx(t, r.sh)
                                      /\ r \in DOMAIN unanswered_requests /\ r.m = "tx" /\ r.key = t
           /\ \A i \in Replies(t) : /\ wire[i] \in Reply /\ wire[i].sh \in Addr
                                    /\ Asked(wire[i]) = GetTx(t, wire[i].sh)
                                    /\ i \in DOMAIN wire /\ wire[i].m = "tx" /\ wire[i].key = t
<1>1. DOMAIN unanswered_requests \subseteq Request /\ wire \in Seq(Reply)
  BY DEF TypeOK
<1>2. \A i \in DOMAIN wire : wire[i] \in Reply
  BY <1>1, LenProperties, ElementOfSeq
<1>3. \A w \in Reply : w.m = "tx" => w.sh \in Addr /\ Asked(w) = GetTx(w.key, w.sh)
  BY ReplyFacts
<1>4. \A r \in Request : r.m = "tx" => r.sh \in Addr /\ r = GetTx(r.key, r.sh)
  BY RequestFacts
<1>5. \A r \in Questions(t) : r \in DOMAIN unanswered_requests /\ r.m = "tx" /\ r.key = t
  BY DEF Questions
<1>6. \A i \in Replies(t) : i \in DOMAIN wire /\ wire[i].m = "tx" /\ wire[i].key = t
  BY DEF Replies
<1>7. QED
  BY <1>1, <1>2, <1>3, <1>4, <1>5, <1>6

\* The steps that ask nothing about t.
LEMMA QuietOnce ==
    ASSUME TypeOK, NEW t, TxOnce(t),
           UNCHANGED <<requested_tx, requested_tx_by_sh>>,
           \A r \in DOMAIN unanswered_requests' : r.m = "tx" =>
              r \in DOMAIN unanswered_requests /\ unanswered_requests'[r] = unanswered_requests[r],
           \/ wire' = wire
           \/ wire # <<>> /\ wire' = Tail(wire)
           \/ \E w \in Reply : wire' = Append(wire, w) /\ ~ (w.m = "tx" /\ w.key = t)
    PROVE  TxOnce(t)'
<1>1. wire \in Seq(Reply)
  BY DEF TypeOK
<1>2. /\ \A i, j \in Replies(t)' : i = j
      /\ \A i \in Replies(t)' : \E k \in Replies(t) : wire'[i].sh = wire[k].sh
  BY <1>1, RepliesKept
<1>3. /\ Questions(t)' \subseteq Questions(t)
      /\ \A r \in Questions(t)' : unanswered_requests'[r] = unanswered_requests[r]
  BY DEF Questions
<1>4. TxKept(t)
  BY <1>2, <1>3 DEF TxKept
<1>5. QED
  BY <1>4, KeptOnce

\* Requests of another kind.
LEMMA OtherRequests ==
    ASSUME TypeOK, NEW S, \A r \in S : r.m # "tx",
           unanswered_requests' = unanswered_requests (+) SetToBag(S)
    PROVE  /\ \A r \in DOMAIN unanswered_requests' : r.m = "tx" =>
                 r \in DOMAIN unanswered_requests /\ unanswered_requests'[r] = unanswered_requests[r]
           /\ DOMAIN unanswered_requests' = DOMAIN unanswered_requests \cup S
<1>1. IsABag(unanswered_requests)
  BY DEF TypeOK
<1>2. /\ DOMAIN unanswered_requests' = DOMAIN unanswered_requests \cup S
      /\ \A e \in DOMAIN unanswered_requests : e \notin S => unanswered_requests'[e] = unanswered_requests[e]
  BY <1>1, MoreRequests
<1>3. QED
  BY <1>2

\* One tick: what is subscribed to is asked for, and no subscription that is
\* waited for expires.
LEMMA RunFacts ==
    ASSUME TypeOK, NEW n \in derived..Len(Derivation), run(n)
    PROVE  /\ \E hashes \in SUBSET Addr :
                 /\ requested_hashes' = requested_hashes \cup hashes
                 /\ unanswered_requests' = unanswered_requests (+) SetToBag({Subscribe(a) : a \in hashes})
           /\ requested_hashes \subseteq subscriptions => requested_hashes' \subseteq subscriptions'
           /\ ~ cleaned_up
           /\ UNCHANGED <<requested_tx, requested_tx_by_sh, requested_histories, cleaned_up, wire, history,
                          transactions, chain>>
<1> DEFINE fresh == Derived(derived + 1, n)
           queue == new_addresses_for_change \cup (fresh \cap ChangeAddr)
           batch == popped(queue)
           change == {a \in batch : Limit = 0 \/ a \notin retired}
           hashes == new_addresses \cup (fresh \ ChangeAddr) \cup change
           subs == IF Limit > 0 THEN change_subs \cup change ELSE change_subs
           out == IF batch # {} THEN expired(subs, requested_hashes \cup hashes) ELSE {}
<1>1. fresh \subseteq Addr
  BY DerivedFacts DEF TypeOK
<1>2. batch \subseteq ChangeAddr
  <2>1. queue \subseteq ChangeAddr
    BY DEF TypeOK
  <2>2. QED
    BY <2>1, Selections
<1>3. hashes \subseteq Addr
  BY <1>1, <1>2, SyncAssumption DEF TypeOK
<1>5. out \cap (requested_hashes \cup hashes) = {}
  BY Selections
<1>6. /\ requested_hashes' = requested_hashes \cup hashes
      /\ subscriptions' = (subscriptions \cup hashes) \ out
      /\ unanswered_requests' = unanswered_requests (+) SetToBag({Subscribe(a) : a \in hashes})
      /\ ~ cleaned_up
      /\ UNCHANGED <<history, transactions, requested_tx, requested_tx_by_sh, requested_histories,
                     releaseVars, wire, serverVars>>
  BY DEF run
<1> HIDE DEF fresh, queue, batch, change, hashes, subs, out
<1>7. requested_hashes \subseteq subscriptions => requested_hashes' \subseteq subscriptions'
  BY <1>5, <1>6
<1>8. QED
  BY <1>3, <1>6, <1>7 DEF releaseVars, serverVars

\* Its end.
LEMMA SettleFacts ==
    ASSUME NEW tick \in BOOLEAN, run_settle(tick)
    PROVE  /\ requested_hashes \subseteq subscriptions => requested_hashes' \subseteq subscriptions'
           /\ UNCHANGED <<requested_tx, requested_tx_by_sh, requested_histories, requested_hashes, cleaned_up,
                          wire, history, transactions, chain, unanswered_requests>>
<1> DEFINE out == IF tick /\ is_up_to_date THEN expired(change_subs, requested_hashes) ELSE {}
<1>1. out \cap requested_hashes = {}
  BY Selections
<1>2. /\ subscriptions' = subscriptions \ out
      /\ UNCHANGED <<history, transactions, requestVars, releaseVars, unanswered_requests, wire, serverVars>>
  BY DEF run_settle
<1> HIDE DEF out
<1>3. QED
  BY <1>1, <1>2 DEF requestVars, releaseVars, serverVars

\* A request for t is answered.
LEMMA AnswerOnce ==
    ASSUME TypeOK, NEW t, TxOnce(t), NEW r \in DOMAIN unanswered_requests, NEW error \in BOOLEAN, answer(r, error)
    PROVE  TxOnce(t)'
<1> DEFINE U == unanswered_requests
<1>0. wire \in Seq(Reply) /\ IsABag(U) /\ DOMAIN U \subseteq Request /\ chain \subseteq Tx
  BY DEF TypeOK
<1>1. PICK w \in Reply : wire' = Append(wire, w) /\ w.m = r.m /\ w.key = r.key /\ w.sh = r.sh
  <2> DEFINE v == [m |-> r.m, key |-> r.key, sh |-> r.sh, error |-> error,
                   result |-> IF r.m = "tx" THEN {r.key} ELSE Listed(r.key)]
  <2>1. v \in Reply
    BY <1>0, AnswerTyped
  <2>2. wire' = Append(wire, v)
    BY DEF answer
  <2>3. v.m = r.m /\ v.key = r.key /\ v.sh = r.sh
    OBVIOUS
  <2>4. QED
    BY <2>1, <2>2, <2>3, Zenon
<1>2. /\ unanswered_requests' = U (-) SetToBag({r})
      /\ UNCHANGED <<requested_tx, requested_tx_by_sh>>
  BY DEF answer, requestVars
<1>3. /\ DOMAIN unanswered_requests' = IF U[r] = 1 THEN DOMAIN U \ {r} ELSE DOMAIN U
      /\ \A e \in DOMAIN U : e # r => unanswered_requests'[e] = U[e]
  BY <1>0, <1>2, LessRequests
<1>4. CASE ~ (r.m = "tx" /\ r.key = t)
  <2>1. /\ Questions(t)' \subseteq Questions(t)
        /\ \A q \in Questions(t)' : unanswered_requests'[q] = unanswered_requests[q]
    <3>1. \A q \in DOMAIN unanswered_requests' : q \in DOMAIN U
      BY <1>3
    <3>2. QED
      BY <1>3, <1>4, <3>1 DEF Questions
  <2>2. /\ \A i, j \in Replies(t)' : i = j
        /\ \A i \in Replies(t)' : \E k \in Replies(t) : wire'[i].sh = wire[k].sh
    BY <1>0, <1>1, <1>4, RepliesKept
  <2>3. TxKept(t)
    BY <1>2, <2>1, <2>2 DEF TxKept
  <2>4. QED
    BY <2>3, KeptOnce
<1>5. CASE r.m = "tx" /\ r.key = t
  <2>1. r \in Questions(t)
    BY <1>5 DEF Questions
  <2>2. U[r] = 1 /\ (\A q \in Questions(t) : q = r) /\ Replies(t) = {} /\ t \in requested_tx
    BY <2>1 DEF TxOnce
  <2>3. Questions(t)' = {}
    BY <1>3, <2>2 DEF Questions
  <2>4. PICK k \in DOMAIN wire' : /\ k \notin DOMAIN wire /\ wire'[k] = w
                                  /\ \A i \in DOMAIN wire' : i \in DOMAIN wire \/ i = k
    BY <1>0, <1>1, WireAppend
  <2>5. \A i \in DOMAIN wire : wire'[i] = wire[i]
    BY <1>0, <1>1, WireAppend
  <2>6. \A i \in Replies(t)' : i = k /\ wire'[i].sh = r.sh
    <3>1. \A i \in Replies(t)' : i \in DOMAIN wire => i \in Replies(t)
      BY <2>5 DEF Replies
    <3>2. \A i \in Replies(t)' : i \in DOMAIN wire'
      BY DEF Replies
    <3>3. \A i \in Replies(t)' : i = k
      BY <2>2, <2>4, <3>1, <3>2
    <3>4. QED
      BY <1>1, <2>4, <3>3
  <2>7. ASSUME NEW a \in Addr, t \in requested_tx_by_sh[a] PROVE r.sh = a
    BY <2>1, <2>7, Zenon DEF TxOnce
  <2>8. QED
    BY <1>2, <2>2, <2>3, <2>6, <2>7 DEF TxOnce
<1>6. QED
  BY <1>4, <1>5

\* The connection is lost and what it had not delivered is asked again.
LEMMA SwitchOnce ==
    ASSUME TypeOK, NEW t \in Tx, TxOnce(t), switch_interface
    PROVE  TxOnce(t)'
<1> DEFINE U == unanswered_requests
<1>1. unanswered_requests' = resend /\ wire' = <<>> /\ UNCHANGED <<requested_tx, requested_tx_by_sh>>
  BY DEF switch_interface, requestVars
<1>2. Replies(t)' = {}
  <2>1. DOMAIN wire' = {}
    BY <1>1, EmptySeq, LenProperties
  <2>2. QED
    BY <2>1 DEF Replies
<1>3. \A r \in Request : r.m # "subscribe" =>
         /\ r \in DOMAIN resend <=> r \in DOMAIN U \/ AnswersTo(r) # {}
         /\ r \in DOMAIN resend => resend[r] = (IF r \in DOMAIN U THEN U[r] ELSE 0) + Cardinality(AnswersTo(r))
  BY ResendFacts
<1>4. DOMAIN resend \subseteq Request
  BY ResendFacts
<1>5. /\ \A r \in Questions(t) : r = GetTx(t, r.sh)
      /\ \A i \in Replies(t) : Asked(wire[i]) = GetTx(t, wire[i].sh)
  BY QuestionFacts
<1>6. ASSUME NEW r, r \in Questions(t)'
      PROVE  /\ r \in Request /\ r.m = "tx" /\ r.key = t /\ r.m # "subscribe" /\ r \in DOMAIN resend
             /\ r = GetTx(t, r.sh)
             /\ r \in Questions(t) \/ AnswersTo(r) # {}
             /\ \A i \in AnswersTo(r) : i \in Replies(t) /\ wire[i].sh = r.sh
  <2>1. r \in DOMAIN resend /\ r.m = "tx" /\ r.key = t
    BY <1>1, <1>6 DEF Questions
  <2>2. r \in Request /\ r.m # "subscribe" /\ r = GetTx(t, r.sh)
    BY <1>4, <2>1, RequestFacts
  <2>3. r \in DOMAIN U \/ AnswersTo(r) # {}
    BY <1>3, <2>1, <2>2
  <2>4. \A i \in AnswersTo(r) : i \in Replies(t) /\ wire[i].sh = r.sh
    BY <2>1 DEF AnswersTo, Replies
  <2>5. r \in DOMAIN U => r \in Questions(t)
    BY <2>1 DEF Questions
  <2>6. QED
    BY <2>1, <2>2, <2>3, <2>4, <2>5
<1>7. \A r, q \in Questions(t)' : r = q
  <2> SUFFICES ASSUME NEW r \in Questions(t)', NEW q \in Questions(t)' PROVE r.sh = q.sh
    BY <1>6
  <2>1. CASE Replies(t) = {}
    <3>1. AnswersTo(r) = {} /\ AnswersTo(q) = {}
      BY <1>6, <2>1
    <3>2. r \in Questions(t) /\ q \in Questions(t)
      BY <1>6, <3>1
    <3>3. r = q
      BY <3>2 DEF TxOnce
    <3>4. QED
      BY <3>3
  <2>2. CASE Questions(t) = {}
    <3>1. PICK i \in AnswersTo(r) : TRUE
      BY <1>6, <2>2
    <3>2. PICK j \in AnswersTo(q) : TRUE
      BY <1>6, <2>2
    <3>3. i = j
      BY <1>6, <3>1, <3>2, Zenon DEF TxOnce
    <3>4. QED
      BY <1>6, <3>1, <3>2, <3>3
  <2>3. QED
    BY <2>1, <2>2, Zenon DEF TxOnce
<1>8. ASSUME NEW r \in Questions(t)' PROVE unanswered_requests'[r] = 1
  <2>1. resend[r] = (IF r \in DOMAIN U THEN U[r] ELSE 0) + Cardinality(AnswersTo(r))
    BY <1>3, <1>6
  <2>2. CASE r \in Questions(t)
    <3>1. Replies(t) = {} /\ U[r] = 1 /\ r \in DOMAIN U
      BY <2>2 DEF TxOnce, Questions
    <3>2. AnswersTo(r) = {}
      BY <1>6, <3>1
    <3>3. Cardinality(AnswersTo(r)) = 0
      BY <3>2, FS_EmptySet
    <3>4. QED
      BY <1>1, <2>1, <3>1, <3>3
  <2>3. CASE r \notin Questions(t)
    <3>1. r \notin DOMAIN U
      BY <1>6, <2>3 DEF Questions
    <3>2. PICK i \in AnswersTo(r) : TRUE
      BY <1>6, <2>3
    <3>3. \A j \in AnswersTo(r) : j = i
      BY <1>6, <3>2, Zenon DEF TxOnce
    <3>4. AnswersTo(r) = {i}
      BY <3>2, <3>3
    <3>5. Cardinality(AnswersTo(r)) = 1
      BY <3>4, FS_Singleton
    <3>6. QED
      BY <1>1, <2>1, <3>1, <3>5
  <2>4. QED
    BY <2>2, <2>3
<1>9. Questions(t)' # {} => t \in requested_tx'
  <2>1. Questions(t)' # {} => Questions(t) # {} \/ Replies(t) # {}
    BY <1>6
  <2>2. QED
    BY <1>1, <2>1 DEF TxOnce
<1>10. ASSUME NEW a \in Addr, t \in requested_tx_by_sh'[a]
       PROVE  t \in requested_tx' /\ \A r \in Questions(t)' : r.sh = a
  <2>1. /\ t \in requested_tx
        /\ \A r \in Questions(t) : r.sh = a
        /\ \A i \in Replies(t) : wire[i].sh = a
    BY <1>1, <1>10 DEF TxOnce
  <2>2. QED
    BY <1>1, <1>6, <2>1
<1>11. QED
  BY <1>2, <1>7, <1>8, <1>9, <1>10 DEF TxOnce

\* A history arrives and its unknown transactions are asked for.
LEMMA HistoryFacts ==
    ASSUME TypeOK, _on_address_history
    PROVE  \E a \in Addr, ask \in SUBSET Tx :
              /\ a = Head(wire).key /\ Head(wire).m = "history" /\ ~ cleaned_up
              /\ wire # <<>> /\ wire' = Tail(wire)
              /\ ask \cap requested_tx = {}
              /\ requested_tx' = requested_tx \cup ask
              /\ \A b \in Addr : \A t \in requested_tx_by_sh'[b] : t \in requested_tx_by_sh[b] \/ (t \in ask /\ b = a)
              /\ DOMAIN unanswered_requests' = DOMAIN unanswered_requests \cup {GetTx(t, a) : t \in ask}
              /\ \A r \in DOMAIN unanswered_requests :
                    r \notin {GetTx(t, a) : t \in ask} => unanswered_requests'[r] = unanswered_requests[r]
              /\ \A r \in {GetTx(t, a) : t \in ask} :
                    r \notin DOMAIN unanswered_requests => unanswered_requests'[r] = 1
              /\ requested_histories' = [requested_histories EXCEPT ![a] = NotRequested]
              /\ \/ history' = history
                 \/ /\ history' = [history EXCEPT ![a] = Head(wire).result]
                    /\ Head(wire).result \subseteq ask \cup requested_tx \cup transactions
              /\ ask \subseteq Head(wire).result
              /\ UNCHANGED <<requested_hashes, subscriptions, cleaned_up, transactions, chain>>
<1> DEFINE msg == Head(wire)
           a == msg.key
           match == msg.result = requested_histories[a]
           ask == IF match THEN missing(msg.result) ELSE {}
           S == {GetTx(t, a) : t \in ask}
<1>1. Receive("history")
  BY DEF _on_address_history
<1>2. msg \in Reply /\ msg.m = "history" /\ wire # <<>> /\ wire' = Tail(wire) /\ ~ cleaned_up
  BY <1>1, HeadFacts
<1>3. a \in Addr /\ msg.result \subseteq Tx
  BY <1>2, ReplyFacts
<1>4. /\ ask \subseteq Tx /\ ask \cap requested_tx = {} /\ ask \subseteq msg.result
      /\ match => msg.result \subseteq ask \cup requested_tx \cup transactions
  BY <1>3 DEF missing
<1>5. /\ requested_histories' = [requested_histories EXCEPT ![a] = NotRequested]
      /\ history' = [history EXCEPT ![a] = IF match THEN msg.result ELSE @]
      /\ requested_tx' = requested_tx \cup ask
      /\ requested_tx_by_sh' = [requested_tx_by_sh EXCEPT ![a] = IF Limit > 0 THEN @ \cup ask ELSE @]
      /\ unanswered_requests' = unanswered_requests (+) SetToBag(S)
      /\ UNCHANGED <<requested_hashes, releaseVars, subscriptions, transactions, serverVars>>
  BY DEF _on_address_history
<1>6. /\ history \in [Addr -> SUBSET Tx] /\ requested_tx_by_sh \in [Addr -> SUBSET Tx]
      /\ IsABag(unanswered_requests)
  BY DEF TypeOK
<1> HIDE DEF msg, a, match, ask
<1>7. ASSUME NEW b \in Addr, NEW t \in requested_tx_by_sh'[b]
      PROVE  t \in requested_tx_by_sh[b] \/ (t \in ask /\ b = a)
  BY <1>3, <1>5, <1>6
<1>8. \/ history' = history
      \/ history' = [history EXCEPT ![a] = msg.result] /\ match
  <2>1. CASE match
    BY <1>5, <2>1
  <2>2. CASE ~ match
    <3>1. history' = [history EXCEPT ![a] = history[a]]
      BY <1>5, <2>2
    <3>2. QED
      BY <1>3, <1>6, <3>1
  <2>3. QED
    BY <2>1, <2>2
<1> HIDE DEF S
<1>9. /\ DOMAIN unanswered_requests' = DOMAIN unanswered_requests \cup S
      /\ \A r \in DOMAIN unanswered_requests : r \notin S => unanswered_requests'[r] = unanswered_requests[r]
      /\ \A r \in S : r \notin DOMAIN unanswered_requests => unanswered_requests'[r] = 1
  <2>1. unanswered_requests' = unanswered_requests (+) SetToBag(S)
    BY <1>5, Zenon DEF S
  <2>2. IsABag(unanswered_requests)
    BY <1>6
  <2> DEFINE D == unanswered_requests (+) SetToBag(S)
  <2>3. /\ DOMAIN D = DOMAIN unanswered_requests \cup S
        /\ \A r \in DOMAIN unanswered_requests : r \notin S => D[r] = unanswered_requests[r]
        /\ \A r \in S : r \notin DOMAIN unanswered_requests => D[r] = 1
    BY <2>2, MoreRequests, ZenonT(60)
  <2> HIDE DEF D
  <2>4. unanswered_requests' = D
    BY <2>1 DEF D
  <2>5. QED
    BY <2>3, <2>4, Zenon
<1>10. UNCHANGED <<cleaned_up, chain>>
  BY <1>5 DEF releaseVars, serverVars
<1>11. a = Head(wire).key /\ msg = Head(wire)
  BY DEF msg, a
<1>12. /\ \/ history' = history
          \/ /\ history' = [history EXCEPT ![a] = Head(wire).result]
             /\ Head(wire).result \subseteq ask \cup requested_tx \cup transactions
       /\ ask \subseteq Head(wire).result /\ Head(wire).m = "history"
  BY <1>2, <1>4, <1>8, Zenon DEF msg
<1> a \in Addr /\ ask \in SUBSET Tx
  BY <1>3, <1>4
<1> WITNESS a \in Addr, ask \in SUBSET Tx
<1>13. UNCHANGED <<requested_hashes, subscriptions, cleaned_up, transactions, chain>>
  BY <1>5, <1>10
<1>14. QED
  BY <1>2, <1>4, <1>5, <1>7, <1>9, <1>11, <1>12, <1>13, Zenon DEF S

\* None of them is asked for twice.
LEMMA HistoryOnce ==
    ASSUME TypeOK, NEW t \in Tx, TxOnce(t), _on_address_history
    PROVE  TxOnce(t)'
<1>1. PICK a \in Addr, ask \in SUBSET Tx :
         /\ wire # <<>> /\ wire' = Tail(wire)
         /\ ask \cap requested_tx = {}
         /\ requested_tx' = requested_tx \cup ask
         /\ \A b \in Addr : \A u \in requested_tx_by_sh'[b] : u \in requested_tx_by_sh[b] \/ (u \in ask /\ b = a)
         /\ DOMAIN unanswered_requests' = DOMAIN unanswered_requests \cup {GetTx(u, a) : u \in ask}
         /\ \A r \in DOMAIN unanswered_requests :
               r \notin {GetTx(u, a) : u \in ask} => unanswered_requests'[r] = unanswered_requests[r]
         /\ \A r \in {GetTx(u, a) : u \in ask} :
               r \notin DOMAIN unanswered_requests => unanswered_requests'[r] = 1
  BY HistoryFacts, Zenon
<1> DEFINE S == {GetTx(u, a) : u \in ask}
<1>2. \A r \in S : r.m = "tx" /\ r.key \in ask /\ r.sh = a /\ r = GetTx(r.key, a)
  BY RequestFacts
<1>3. t \in ask => GetTx(t, a) \in S
  OBVIOUS
<1>4. wire \in Seq(Reply)
  BY DEF TypeOK
<1>5. /\ \A i, j \in Replies(t)' : i = j
      /\ \A i \in Replies(t)' : \E k \in Replies(t) : wire'[i].sh = wire[k].sh
  BY <1>1, <1>4, RepliesKept
<1> HIDE DEF S
<1>6. CASE t \notin ask
  <2>1. /\ Questions(t)' \subseteq Questions(t)
        /\ \A r \in Questions(t)' : unanswered_requests'[r] = unanswered_requests[r]
    <3>1. \A r \in Questions(t)' : r \notin S
      BY <1>2, <1>6 DEF Questions
    <3>2. QED
      BY <1>1, <3>1 DEF Questions, S
  <2>2. TxKept(t)
    BY <1>1, <1>5, <1>6, <2>1 DEF TxKept
  <2>3. QED
    BY <2>2, KeptOnce
<1>7. CASE t \in ask
  <2>1. t \notin requested_tx /\ t \in requested_tx'
    BY <1>1, <1>7
  <2>2. Questions(t) = {} /\ Replies(t) = {} /\ \A b \in Addr : t \notin requested_tx_by_sh[b]
    BY <2>1, Zenon DEF TxOnce
  <2>3. Replies(t)' = {}
    BY <1>5, <2>2
  <2>4. \A r \in Questions(t)' : r \in S /\ r \notin DOMAIN unanswered_requests /\ r.key = t
    BY <1>1, <2>2 DEF Questions, S
  <2>5. \A r \in Questions(t)' : r = GetTx(t, a) /\ r.sh = a /\ unanswered_requests'[r] = 1
    BY <1>1, <1>2, <2>4 DEF S
  <2>6. \A b \in Addr : t \in requested_tx_by_sh'[b] => b = a
    BY <1>1, <2>2
  <2>7. QED
    BY <2>1, <2>3, <2>5, <2>6 DEF TxOnce
<1>8. QED
  BY <1>6, <1>7

\* A transaction arrives.
LEMMA ResponseFacts ==
    ASSUME TypeOK, _tx_response
    PROVE  \E t \in Tx, a \in Addr :
              /\ t = Head(wire).key /\ a = Head(wire).sh /\ Head(wire).m = "tx" /\ ~ cleaned_up
              /\ wire # <<>> /\ wire' = Tail(wire) /\ 1 \in Replies(t) /\ wire[1] = Head(wire)
              /\ requested_tx' = requested_tx \ {t}
              /\ \A b \in Addr : \A u \in requested_tx_by_sh'[b] : u \in requested_tx_by_sh[b] /\ ~ (u = t /\ b = a)
              /\ transactions' = IF Head(wire).error THEN transactions ELSE transactions \cup {t}
              /\ UNCHANGED <<unanswered_requests, requested_hashes, requested_histories, history, subscriptions,
                             cleaned_up, chain>>
<1> DEFINE msg == Head(wire)
           t == msg.key
           a == msg.sh
<1>1. Receive("tx")
  BY DEF _tx_response
<1>2. msg \in Reply /\ msg.m = "tx" /\ wire # <<>> /\ wire' = Tail(wire) /\ ~ cleaned_up
  BY <1>1, HeadFacts
<1>3. t \in Tx /\ a \in Addr
  BY <1>2, ReplyFacts
<1>4. /\ requested_tx' = requested_tx \ {t}
      /\ requested_tx_by_sh' = [requested_tx_by_sh EXCEPT ![a] = @ \ {t}]
      /\ transactions' = IF msg.error THEN transactions ELSE transactions \cup {t}
      /\ UNCHANGED <<history, requested_histories, requested_hashes, releaseVars, subscriptions,
                     unanswered_requests, serverVars>>
  BY DEF _tx_response, answered
<1>5. wire \in Seq(Reply) /\ requested_tx_by_sh \in [Addr -> SUBSET Tx]
  BY DEF TypeOK
<1>6. 1 \in DOMAIN wire /\ msg = wire[1]
  BY <1>2, <1>5, WireTail
<1>7. 1 \in Replies(t)
  BY <1>2, <1>6 DEF Replies
<1> HIDE DEF msg, t, a
<1>8. ASSUME NEW b \in Addr, NEW u \in requested_tx_by_sh'[b]
      PROVE  u \in requested_tx_by_sh[b] /\ ~ (u = t /\ b = a)
  BY <1>3, <1>4, <1>5
<1>9. t = Head(wire).key /\ a = Head(wire).sh /\ msg = Head(wire)
  BY DEF msg, t, a
<1>10. UNCHANGED <<unanswered_requests, requested_hashes, requested_histories, history, subscriptions,
                   cleaned_up, chain>>
  BY <1>4 DEF releaseVars, serverVars
<1>11. /\ Head(wire).m = "tx" /\ wire[1] = Head(wire)
       /\ transactions' = IF Head(wire).error THEN transactions ELSE transactions \cup {t}
  BY <1>2, <1>4, <1>6, <1>9
<1>12. QED
  BY <1>2, <1>3, <1>4, <1>7, <1>8, <1>9, <1>10, <1>11, Zenon

\* It is waited for no longer, by anyone.
LEMMA ResponseOnce ==
    ASSUME TypeOK, NEW t \in Tx, TxOnce(t), _tx_response
    PROVE  TxOnce(t)'
<1>1. PICK u \in Tx, a \in Addr :
         /\ a = Head(wire).sh
         /\ wire # <<>> /\ wire' = Tail(wire) /\ 1 \in Replies(u) /\ wire[1] = Head(wire)
         /\ requested_tx' = requested_tx \ {u}
         /\ \A b \in Addr : \A v \in requested_tx_by_sh'[b] : v \in requested_tx_by_sh[b] /\ ~ (v = u /\ b = a)
         /\ UNCHANGED unanswered_requests
  BY ResponseFacts
<1>2. wire \in Seq(Reply)
  BY DEF TypeOK
<1>3. /\ \A i, j \in Replies(t)' : i = j
      /\ \A i \in Replies(t)' : \E k \in Replies(t) : wire'[i].sh = wire[k].sh
  BY <1>1, <1>2, RepliesKept
<1>4. Questions(t)' = Questions(t)
  BY <1>1 DEF Questions
<1>5. CASE t # u
  <2>1. TxKept(t)
    BY <1>1, <1>3, <1>4, <1>5 DEF TxKept
  <2>2. QED
    BY <2>1, KeptOnce
<1>6. CASE t = u
  <2>1. Replies(t) = {1} /\ Questions(t) = {}
    <3>1. \A i \in Replies(t) : i = 1
      BY <1>1, <1>6, Zenon DEF TxOnce
    <3>2. Questions(t) = {} \/ Replies(t) = {}
      BY Zenon DEF TxOnce
    <3>3. QED
      BY <1>1, <1>6, <3>1, <3>2
  <2>2. Replies(t)' = {}
    <3> SUFFICES ASSUME NEW i \in Replies(t)' PROVE FALSE
      BY Zenon
    <3>1. \A j \in DOMAIN wire' : j \in Nat /\ j + 1 \in DOMAIN wire /\ wire'[j] = wire[j + 1]
      BY <1>1, <1>2, WireTail
    <3>2. i \in Nat /\ i + 1 \in Replies(t)
      BY <3>1 DEF Replies
    <3>3. i + 1 = 1 /\ i \in DOMAIN wire'
      BY <2>1, <3>2 DEF Replies
    <3>4. 0 \notin DOMAIN wire'
      BY <1>1, <1>2, HeadTailProperties, LenProperties
    <3>5. QED
      BY <3>2, <3>3, <3>4
  <2>3. \A b \in Addr : t \in requested_tx_by_sh[b] => b = a
    <3>1. \A b \in Addr : t \in requested_tx_by_sh[b] => wire[1].sh = b
      BY <1>1, <1>6, Zenon DEF TxOnce
    <3>2. QED
      BY <1>1, <3>1
  <2>4. \A b \in Addr : t \notin requested_tx_by_sh'[b]
    BY <1>1, <1>6, <2>3
  <2>5. QED
    BY <1>4, <2>1, <2>2, <2>4 DEF TxOnce
<1>7. QED
  BY <1>5, <1>6

\* A status is announced: the address is no longer waited for, and its history
\* may be asked for.
LEMMA StatusFacts ==
    ASSUME TypeOK, _on_address_status
    PROVE  \E a \in Addr :
              /\ a = Head(wire).key /\ Head(wire).m = "subscribe" /\ ~ cleaned_up
              /\ wire # <<>> /\ wire' = Tail(wire)
              /\ requested_hashes' = requested_hashes \ {a}
              /\ \A b \in Addr : b # a => requested_histories'[b] = requested_histories[b]
              /\ \/ unanswered_requests' = unanswered_requests /\ requested_histories' = requested_histories
                 \/ unanswered_requests' = unanswered_requests (+) SetToBag({GetHistory(a)})
              /\ UNCHANGED <<requested_tx, requested_tx_by_sh, history, transactions, subscriptions, cleaned_up, chain>>
<1> DEFINE msg == Head(wire)
           a == msg.key
           ask == history[a] # msg.result /\ requested_histories[a] \in {NotRequested, {}}
<1>1. Receive("subscribe")
  BY DEF _on_address_status
<1>2. msg \in Reply /\ msg.m = "subscribe" /\ wire # <<>> /\ wire' = Tail(wire) /\ ~ cleaned_up
  BY <1>1, HeadFacts
<1>3. a \in Addr
  BY <1>2, ReplyFacts
<1>4. requested_histories' = [requested_histories EXCEPT ![a] = IF ask THEN msg.result ELSE @]
  BY DEF _on_address_status
<1>5. unanswered_requests' = IF ask THEN unanswered_requests (+) SetToBag({GetHistory(a)})
                             ELSE unanswered_requests
  BY DEF _on_address_status
<1>6. /\ requested_hashes' = requested_hashes \ {a}
      /\ UNCHANGED <<requested_tx, requested_tx_by_sh, history, transactions, subscriptions, cleaned_up, chain>>
  BY DEF _on_address_status, walletVars, releaseVars, serverVars
<1>7. requested_histories \in [Addr -> {NotRequested} \cup SUBSET Tx]
  BY DEF TypeOK
<1> HIDE DEF ask
<1>8. \A b \in Addr : b # a => requested_histories'[b] = requested_histories[b]
  BY <1>4, <1>7
<1>9. ~ ask => requested_histories' = requested_histories
  <2>1. ~ ask => requested_histories' = [requested_histories EXCEPT ![a] = requested_histories[a]]
    BY <1>4
  <2>2. QED
    BY <1>3, <1>7, <2>1
<1> WITNESS a \in Addr
<1>10. QED
  BY <1>2, <1>5, <1>6, <1>8, <1>9

\* Each transaction is asked for once and each awaited subscription registered,
\* at the start and after every step.
LEMMA InitRegistered == Init => Registered
<1> SUFFICES ASSUME Init PROVE Registered
  OBVIOUS
<1> DEFINE now == {a \in Derived(1, InitDerived) : a \notin ChangeAddr \/ Limit = 0}
           lost == (UNION {SavedHistory[a] : a \in Addr}) \ SavedTxs
<1>1. PICK owner \in [lost -> Addr] :
         /\ requested_tx_by_sh = [a \in Addr |-> {t \in lost : Limit > 0 /\ owner[t] = a}]
         /\ unanswered_requests = SetToBag({GetTx(t, owner[t]) : t \in lost} \cup {Subscribe(a) : a \in now})
  BY Zenon DEF Init
<1>2. requested_tx = lost /\ requested_hashes = now /\ subscriptions = now /\ wire = <<>>
  BY Zenon DEF Init
<1> HIDE DEF now, lost
<1>3. ASSUME NEW t \in Tx PROVE TxOnce(t)
  <2> DEFINE Q == {GetTx(u, owner[u]) : u \in lost} \cup {Subscribe(a) : a \in now}
  <2>1. \A r \in Q : r.m = "tx" => r.key \in lost /\ r = GetTx(r.key, owner[r.key]) /\ r.sh = owner[r.key]
    BY RequestFacts
  <2> HIDE DEF Q
  <2>2. DOMAIN unanswered_requests = Q /\ \A r \in Q : unanswered_requests[r] = 1
    BY <1>1 DEF SetToBag, Q
  <2>3. \A r \in Questions(t) : t \in lost /\ r = GetTx(t, owner[t]) /\ r.sh = owner[t] /\ unanswered_requests[r] = 1
    BY <2>1, <2>2 DEF Questions
  <2>4. Replies(t) = {}
    <3>1. DOMAIN wire = {}
      BY <1>2, EmptySeq, LenProperties
    <3>2. QED
      BY <3>1 DEF Replies
  <2>5. \A a \in Addr : t \in requested_tx_by_sh[a] => t \in lost /\ owner[t] = a
    BY <1>1
  <2>6. QED
    BY <1>2, <2>3, <2>4, <2>5 DEF TxOnce
<1>4. QED
  BY <1>2, <1>3 DEF Registered

\* Subscriptions that are waited for stay registered.
LEMMA StaysRegistered ==
    ASSUME TypeOK, Registered, [Next]_vars
    PROVE  Registered'
<1>0. /\ \A t \in Tx : TxOnce(t)
      /\ ~ cleaned_up => requested_hashes \subseteq subscriptions
  BY DEF Registered
<1>1. ASSUME NEW n \in derived..Len(Derivation), run(n) PROVE Registered'
  <2>1. /\ \E hashes \in SUBSET Addr :
                 unanswered_requests' = unanswered_requests (+) SetToBag({Subscribe(a) : a \in hashes})
        /\ requested_hashes' \subseteq subscriptions'
        /\ UNCHANGED <<requested_tx, requested_tx_by_sh, wire>>
    BY <1>0, <1>1, RunFacts
  <2>2. PICK hashes \in SUBSET Addr :
           unanswered_requests' = unanswered_requests (+) SetToBag({Subscribe(a) : a \in hashes})
    BY <2>1
  <2>3. PICK S : S = {Subscribe(a) : a \in hashes}
    OBVIOUS
  <2>4. \A r \in S : r.m # "tx"
    BY <2>3, RequestFacts
  <2>5. \A r \in DOMAIN unanswered_requests' : r.m = "tx" =>
           r \in DOMAIN unanswered_requests /\ unanswered_requests'[r] = unanswered_requests[r]
    BY <2>2, <2>3, <2>4, OtherRequests
  <2>6. \A t \in Tx : TxOnce(t)'
    BY <1>0, <2>1, <2>5, QuietOnce
  <2>7. QED
    BY <2>1, <2>6 DEF Registered
<1>16. ASSUME NEW tick \in BOOLEAN, run_settle(tick) PROVE Registered'
  <2>1. /\ requested_hashes \subseteq subscriptions => requested_hashes' \subseteq subscriptions'
        /\ UNCHANGED <<requested_tx, requested_tx_by_sh, wire, unanswered_requests, cleaned_up>>
    BY <1>16, SettleFacts
  <2>2. \A t \in Tx : TxOnce(t)'
    BY <1>0, <2>1, QuietOnce
  <2>3. QED
    BY <1>0, <2>1, <2>2 DEF Registered
<1>2. CASE run_release
  <2>1. cleaned_up' /\ UNCHANGED <<requested_tx, requested_tx_by_sh, wire>>
    BY <1>2 DEF run_release, requestVars
  <2>2. \A t \in Tx : TxOnce(t)'
    BY <1>0, <1>2, <2>1, ReleaseTyped, QuietOnce
  <2>3. QED
    BY <2>1, <2>2 DEF Registered
<1>3. ASSUME UNCHANGED <<requested_tx, requested_tx_by_sh, wire, unanswered_requests, requested_hashes,
                         subscriptions, cleaned_up>>
      PROVE  Registered'
  <2>1. \A t \in Tx : TxOnce(t)'
    BY <1>0, <1>3, QuietOnce
  <2>2. QED
    BY <1>0, <1>3, <2>1 DEF Registered
<1>4. CASE release
  BY <1>3, <1>4 DEF release, requestVars
<1>5. CASE add
  BY <1>3, <1>5 DEF add, requestVars, releaseVars
<1>6. CASE \E view \in SUBSET Tx : chain_moves(view)
  BY <1>3, <1>6 DEF chain_moves, requestVars, releaseVars
<1>7. CASE UNCHANGED vars
  BY <1>3, <1>7 DEF vars, requestVars, releaseVars
<1>8. CASE ignore
  <2>1. /\ wire # <<>> /\ wire' = Tail(wire)
        /\ UNCHANGED <<requested_tx, requested_tx_by_sh, unanswered_requests, requested_hashes, subscriptions,
                       cleaned_up>>
    BY <1>8 DEF ignore, requestVars, releaseVars
  <2>2. \A t \in Tx : TxOnce(t)'
    BY <1>0, <2>1, QuietOnce
  <2>3. QED
    BY <1>0, <2>1, <2>2 DEF Registered
<1>9. CASE _on_address_status
  <2>1. PICK a \in Addr :
              /\ wire # <<>> /\ wire' = Tail(wire)
              /\ requested_hashes' = requested_hashes \ {a}
              /\ \/ unanswered_requests' = unanswered_requests
                 \/ unanswered_requests' = unanswered_requests (+) SetToBag({GetHistory(a)})
              /\ UNCHANGED <<requested_tx, requested_tx_by_sh, subscriptions, cleaned_up>>
    BY <1>9, StatusFacts
  <2>2. \A r \in {GetHistory(a)} : r.m # "tx"
    BY RequestFacts
  <2>3. \A r \in DOMAIN unanswered_requests' : r.m = "tx" =>
           r \in DOMAIN unanswered_requests /\ unanswered_requests'[r] = unanswered_requests[r]
    <3>1. CASE unanswered_requests' = unanswered_requests
      BY <3>1
    <3>2. CASE unanswered_requests' = unanswered_requests (+) SetToBag({GetHistory(a)})
      <4>1. PICK S : S = {GetHistory(a)}
        OBVIOUS
      <4>2. (\A r \in S : r.m # "tx") /\ unanswered_requests' = unanswered_requests (+) SetToBag(S)
        BY <2>2, <3>2, <4>1, Zenon
      <4>3. QED
        BY <4>2, OtherRequests
    <3>3. QED
      BY <2>1, <3>1, <3>2, Zenon
  <2>4. wire # <<>> /\ wire' = Tail(wire) /\ UNCHANGED <<requested_tx, requested_tx_by_sh>>
    BY <2>1
  <2>5. \A t \in Tx : TxOnce(t)'
    BY <1>0, <2>3, <2>4, QuietOnce
  <2>6. QED
    BY <1>0, <2>1, <2>5 DEF Registered
<1>10. CASE _on_address_history
  <2>1. UNCHANGED <<requested_hashes, subscriptions, cleaned_up>>
    BY <1>10 DEF _on_address_history, releaseVars
  <2>2. \A t \in Tx : TxOnce(t)'
    BY <1>0, <1>10, HistoryOnce
  <2>3. QED
    BY <1>0, <2>1, <2>2 DEF Registered
<1>11. CASE _tx_response
  <2>1. UNCHANGED <<requested_hashes, subscriptions, cleaned_up>>
    BY <1>11 DEF _tx_response, releaseVars
  <2>2. \A t \in Tx : TxOnce(t)'
    BY <1>0, <1>11, ResponseOnce
  <2>3. QED
    BY <1>0, <2>1, <2>2 DEF Registered
<1>12. ASSUME NEW r \in DOMAIN unanswered_requests, NEW error \in BOOLEAN, answer(r, error) PROVE Registered'
  <2>1. UNCHANGED <<requested_hashes, subscriptions, cleaned_up>>
    BY <1>12 DEF answer, requestVars, releaseVars
  <2>2. \A t \in Tx : TxOnce(t)'
    BY <1>0, <1>12, AnswerOnce
  <2>3. QED
    BY <1>0, <2>1, <2>2 DEF Registered
<1>13. ASSUME NEW a \in Addr, notify(a) PROVE Registered'
  <2>1. UNCHANGED <<requested_tx, requested_tx_by_sh, unanswered_requests, requested_hashes, subscriptions, cleaned_up>>
    BY <1>13 DEF notify, requestVars, releaseVars
  <2>2. PICK w \in Reply : wire' = Append(wire, w) /\ w.m = "subscribe"
    <3> DEFINE v == [m |-> "subscribe", key |-> a, sh |-> a, error |-> FALSE, result |-> Listed(a)]
    <3>1. v \in Reply /\ v.m = "subscribe"
      BY NotifyTyped DEF TypeOK
    <3>2. wire' = Append(wire, v)
      BY <1>13 DEF notify
    <3>3. QED
      BY <3>1, <3>2, Zenon
  <2>3. \A t \in Tx : TxOnce(t)'
    BY <1>0, <2>1, <2>2, QuietOnce
  <2>4. QED
    BY <1>0, <2>1, <2>3 DEF Registered
<1>14. CASE switch_interface
  <2>1. UNCHANGED <<requested_hashes, subscriptions, cleaned_up>>
    BY <1>14 DEF switch_interface, requestVars, releaseVars
  <2>2. \A t \in Tx : TxOnce(t)'
    BY <1>0, <1>14, SwitchOnce
  <2>3. QED
    BY <1>0, <2>1, <2>2 DEF Registered
<1>15. QED
  BY <1>1, <1>2, <1>4, <1>5, <1>6, <1>7, <1>8, <1>9, <1>10, <1>11, <1>12, <1>13, <1>14, <1>16, Zenon
     DEF Next, Deliver

\* The inductive invariant of the synchronizer: types, a single question or
\* answer under way for each transaction the synchronizer waits for and none for
\* any other, charged to the address that asked, and a callback for every
\* subscription it waits for.
THEOREM SyncAlways == Spec => []SyncInv
<1>1. Init => SyncInv
  BY InitTyped, InitRegistered DEF SyncInv
<1>2. SyncInv /\ [Next]_vars => SyncInv'
  BY NextTyped, StaysRegistered DEF SyncInv
<1>3. QED
  BY <1>1, <1>2, PTL DEF Spec

-----------------------------------------------------------------------------
(* Nothing that is waited for is forgotten.                                 *)

\* Only requests for transactions are answered with errors.
OnlyTxErrors == \A i \in DOMAIN wire : wire[i].error => wire[i].m = "tx"

\* A request stays in flight unless its answer is read.
LEMMA FlightKept ==
    ASSUME wire \in Seq(Reply), NEW m, NEW key, InFlight(m, key),
           \A r \in DOMAIN unanswered_requests : r.m = m => r \in DOMAIN unanswered_requests',
           \/ wire' = wire
           \/ wire # <<>> /\ wire' = Tail(wire) /\ ~ (Head(wire).m = m /\ Head(wire).key = key)
           \/ \E w \in Reply : wire' = Append(wire, w)
    PROVE  InFlight(m, key)'
<1>1. CASE \E r \in DOMAIN unanswered_requests : r.m = m /\ r.key = key
  BY <1>1 DEF InFlight
<1>2. CASE \E i \in DOMAIN wire : wire[i].m = m /\ wire[i].key = key
  <2>1. PICK i \in DOMAIN wire : wire[i].m = m /\ wire[i].key = key
    BY <1>2
  <2> SUFFICES \E j \in DOMAIN wire' : wire'[j] = wire[i]
    BY <2>1 DEF InFlight
  <2>2. CASE wire' = wire
    BY <2>2
  <2>3. CASE wire # <<>> /\ wire' = Tail(wire) /\ ~ (Head(wire).m = m /\ Head(wire).key = key)
    <3>1. /\ Head(wire) = wire[1]
          /\ \A k \in DOMAIN wire : k # 1 => k - 1 \in DOMAIN wire' /\ wire'[k - 1] = wire[k]
      BY <2>3, WireTail
    <3>2. i # 1
      BY <2>1, <2>3, <3>1, Zenon
    <3>3. QED
      BY <3>1, <3>2, Zenon
  <2>4. CASE \E w \in Reply : wire' = Append(wire, w)
    BY <2>4, WireAppend
  <2>5. QED
    BY <2>2, <2>3, <2>4
<1>3. QED
  BY <1>1, <1>2 DEF InFlight

\* An answered request is in flight until the answer is read.
LEMMA FlightAnswered ==
    ASSUME TypeOK, NEW m, NEW key, InFlight(m, key),
           NEW r \in DOMAIN unanswered_requests, NEW error \in BOOLEAN, answer(r, error)
    PROVE  InFlight(m, key)'
<1>0. wire \in Seq(Reply) /\ IsABag(unanswered_requests) /\ DOMAIN unanswered_requests \subseteq Request /\ chain \subseteq Tx
  BY DEF TypeOK
<1>1. PICK w \in Reply : wire' = Append(wire, w) /\ w.m = r.m /\ w.key = r.key
  <2> DEFINE v == [m |-> r.m, key |-> r.key, sh |-> r.sh, error |-> error,
                   result |-> IF r.m = "tx" THEN {r.key} ELSE Listed(r.key)]
  <2>1. v \in Reply
    BY <1>0, AnswerTyped
  <2>2. wire' = Append(wire, v)
    BY DEF answer
  <2>3. v.m = r.m /\ v.key = r.key
    OBVIOUS
  <2>4. QED
    BY <2>1, <2>2, <2>3, Zenon
<1>2. unanswered_requests' = unanswered_requests (-) SetToBag({r})
  BY DEF answer
<1>3. \A q \in DOMAIN unanswered_requests : q # r => q \in DOMAIN unanswered_requests'
  BY <1>0, <1>2, LessRequests
<1>4. /\ \A i \in DOMAIN wire : i \in DOMAIN wire' /\ wire'[i] = wire[i]
      /\ \E k \in DOMAIN wire' : wire'[k] = w
  BY <1>0, <1>1, WireAppend
<1>5. CASE r.m = m /\ r.key = key
  BY <1>1, <1>4, <1>5 DEF InFlight
<1>6. CASE ~ (r.m = m /\ r.key = key)
  BY <1>3, <1>4, <1>6 DEF InFlight
<1>7. QED
  BY <1>5, <1>6

\* What was in flight when the connection was lost is asked again.
LEMMA FlightResent ==
    ASSUME TypeOK, switch_interface
    PROVE  /\ \A m \in {"history", "tx"} : \A key : InFlight(m, key) => InFlight(m, key)'
           /\ \A a \in subscriptions : InFlight("subscribe", a)'
<1>0. /\ wire \in Seq(Reply) /\ DOMAIN unanswered_requests \subseteq Request /\ subscriptions \subseteq Addr
      /\ unanswered_requests' = resend
  BY DEF TypeOK, switch_interface
<1>1. /\ \A a \in Addr : Subscribe(a) \in DOMAIN resend <=> a \in subscriptions
      /\ \A r \in Request : r.m # "subscribe" =>
            (r \in DOMAIN resend <=> r \in DOMAIN unanswered_requests \/ AnswersTo(r) # {})
  BY ResendFacts
<1>2. ASSUME NEW m \in {"history", "tx"}, NEW key, InFlight(m, key) PROVE InFlight(m, key)'
  <2>1. m # "subscribe"
    OBVIOUS
  <2>2. CASE \E r \in DOMAIN unanswered_requests : r.m = m /\ r.key = key
    BY <1>0, <1>1, <2>1, <2>2 DEF InFlight
  <2>3. CASE \E i \in DOMAIN wire : wire[i].m = m /\ wire[i].key = key
    <3>1. PICK i \in DOMAIN wire : wire[i].m = m /\ wire[i].key = key
      BY <2>3
    <3>2. wire[i] \in Reply
      BY <1>0, LenProperties, ElementOfSeq
    <3>3. PICK r : r = Asked(wire[i])
      OBVIOUS
    <3>4. r \in Request /\ r.m = m /\ r.key = key /\ r.m = wire[i].m /\ r.key = wire[i].key /\ r.sh = wire[i].sh
      BY <3>1, <3>2, <3>3, ReplyFacts, RequestFacts
    <3>5. i \in AnswersTo(r)
      BY <3>4 DEF AnswersTo
    <3>6. r \in DOMAIN resend
      BY <1>1, <2>1, <3>4, <3>5
    <3>7. QED
      BY <1>0, <3>4, <3>6 DEF InFlight
  <2>4. QED
    BY <1>2, <2>2, <2>3 DEF InFlight
<1>3. ASSUME NEW a \in subscriptions PROVE InFlight("subscribe", a)'
  <2>1. Subscribe(a) \in DOMAIN resend /\ Subscribe(a).m = "subscribe" /\ Subscribe(a).key = a
    BY <1>0, <1>1, RequestFacts
  <2>2. QED
    BY <1>0, <2>1, Zenon DEF InFlight
<1>4. QED
  BY <1>2, <1>3

\* Whose address a transaction was asked for, it is waited for.
LEMMA ByScripthash ==
    ASSUME TypeOK, Registered
    PROVE  \A a \in Addr : requested_tx_by_sh[a] \subseteq requested_tx
<1>1. requested_tx_by_sh \in [Addr -> SUBSET Tx]
  BY DEF TypeOK
<1>2. \A t \in Tx, a \in Addr : t \in requested_tx_by_sh[a] => t \in requested_tx
  BY DEF Registered, TxOnce
<1>3. QED
  BY <1>1, <1>2

\* What is waited for: entries of the kind m with the key.
Awaited(m, key) ==
    \/ m = "subscribe" /\ key \in requested_hashes
    \/ m = "history" /\ key \in Addr /\ requested_histories[key] # NotRequested
    \/ m = "tx" /\ key \in requested_tx

LEMMA ForgottenAwaited ==
    ASSUME TypeOK, Registered
    PROVE  NothingForgotten <=> (~ cleaned_up => \A m, key : Awaited(m, key) => InFlight(m, key))
<1>1. \A a \in Addr : requested_tx_by_sh[a] \subseteq requested_tx
  BY ByScripthash
<1>2. QED
  BY <1>1, Zenon DEF NothingForgotten, Awaited

\* Servers that answer subscriptions and histories without errors.
LEMMA StaysOnlyTxErrors ==
    ASSUME TypeOK, OnlyTxErrors, Errors \subseteq {"tx"}, [Next]_vars
    PROVE  OnlyTxErrors'
<1>0. wire \in Seq(Reply) /\ DOMAIN unanswered_requests \subseteq Request /\ chain \subseteq Tx
  BY DEF TypeOK
<1>1. CASE wire' = wire
  BY <1>1 DEF OnlyTxErrors
<1>2. CASE wire # <<>> /\ wire' = Tail(wire)
  <2>1. \A i \in DOMAIN wire' : i + 1 \in DOMAIN wire /\ wire'[i] = wire[i + 1]
    BY <1>0, <1>2, WireTail
  <2>2. QED
    BY <2>1, Zenon DEF OnlyTxErrors
<1>3. ASSUME NEW w \in Reply, wire' = Append(wire, w), w.error => w.m = "tx" PROVE OnlyTxErrors'
  <2>1. /\ \A i \in DOMAIN wire : i \in DOMAIN wire' /\ wire'[i] = wire[i]
        /\ \E k \in DOMAIN wire' : /\ k \notin DOMAIN wire /\ wire'[k] = w
                                   /\ \A i \in DOMAIN wire' : i \in DOMAIN wire \/ i = k
    BY <1>0, <1>3, WireAppend
  <2>2. \A i \in DOMAIN wire' : wire'[i] = w \/ (i \in DOMAIN wire /\ wire'[i] = wire[i])
    BY <2>1
  <2>3. QED
    BY <1>3, <2>2 DEF OnlyTxErrors
<1>4. ASSUME NEW r \in DOMAIN unanswered_requests, NEW error \in BOOLEAN, answer(r, error) PROVE OnlyTxErrors'
  <2> DEFINE v == [m |-> r.m, key |-> r.key, sh |-> r.sh, error |-> error,
                   result |-> IF r.m = "tx" THEN {r.key} ELSE Listed(r.key)]
  <2>1. v \in Reply
    BY <1>0, AnswerTyped
  <2>2. wire' = Append(wire, v)
    BY <1>4 DEF answer
  <2>3. v.error = error /\ v.m = r.m
    OBVIOUS
  <2>4. error => r.m = "tx"
    BY <1>4 DEF answer
  <2> HIDE DEF v
  <2>5. QED
    BY <1>3, <2>1, <2>2, <2>3, <2>4
<1>5. ASSUME NEW a \in Addr, notify(a) PROVE OnlyTxErrors'
  <2> DEFINE v == [m |-> "subscribe", key |-> a, sh |-> a, error |-> FALSE, result |-> Listed(a)]
  <2>1. v \in Reply /\ ~ v.error
    BY <1>0, NotifyTyped
  <2>2. wire' = Append(wire, v)
    BY <1>5 DEF notify
  <2> HIDE DEF v
  <2>3. QED
    BY <1>3, <2>1, <2>2
<1>6. CASE switch_interface
  <2>1. wire' = <<>>
    BY <1>6 DEF switch_interface
  <2>2. DOMAIN wire' = {}
    BY <2>1, EmptySeq, LenProperties
  <2>3. QED
    BY <2>2 DEF OnlyTxErrors
<1>7. CASE Deliver
  <2>1. wire # <<>> /\ wire' = Tail(wire)
    BY <1>7 DEF Deliver, _on_address_status, _on_address_history, _tx_response, ignore, Receive
  <2>2. QED
    BY <1>2, <2>1
<1>8. run_release \/ release \/ add \/ UNCHANGED vars => wire' = wire
  BY DEF run_release, release, add, vars
<1>9. /\ \A n \in derived..Len(Derivation) : run(n) => wire' = wire
      /\ \A tick \in BOOLEAN : run_settle(tick) => wire' = wire
      /\ \A view \in SUBSET Tx : chain_moves(view) => wire' = wire
  BY RunFacts, SettleFacts DEF chain_moves
<1>10. QED
  BY <1>1, <1>4, <1>5, <1>6, <1>7, <1>8, <1>9, Zenon DEF Next

\* What the synchronizer waits for after a step, it waited for before or asks now.
LEMMA StaysAwaited ==
    ASSUME SyncInv, OnlyTxErrors, ~ cleaned_up', Next,
           NEW m, NEW key, Awaited(m, key)', Awaited(m, key) => InFlight(m, key)
    PROVE  InFlight(m, key)'
<1>0. /\ TypeOK /\ Registered /\ wire \in Seq(Reply) /\ IsABag(unanswered_requests)
      /\ DOMAIN unanswered_requests \subseteq Request /\ chain \subseteq Tx
      /\ requested_histories \in [Addr -> {NotRequested} \cup SUBSET Tx]
  BY DEF SyncInv, TypeOK
<1>1. ASSUME NEW n \in derived..Len(Derivation), run(n) PROVE InFlight(m, key)'
  <2>1. /\ \E H \in SUBSET Addr : /\ requested_hashes' = requested_hashes \cup H
                                  /\ unanswered_requests' = unanswered_requests (+) SetToBag({Subscribe(a) : a \in H})
        /\ UNCHANGED <<requested_tx, requested_histories, wire>>
    BY <1>0, <1>1, RunFacts
  <2>2. PICK H \in SUBSET Addr : /\ requested_hashes' = requested_hashes \cup H
                                 /\ unanswered_requests' = unanswered_requests (+) SetToBag({Subscribe(a) : a \in H})
    BY <2>1
  <2>3. PICK S : S = {Subscribe(a) : a \in H}
    OBVIOUS
  <2>4. DOMAIN unanswered_requests' = DOMAIN unanswered_requests \cup S
    BY <1>0, <2>2, <2>3, MoreRequests
  <2>5. CASE Awaited(m, key)
    BY <1>0, <2>1, <2>4, <2>5, FlightKept
  <2>6. CASE ~ Awaited(m, key)
    <3>1. m = "subscribe" /\ key \in H
      BY <2>1, <2>2, <2>6 DEF Awaited
    <3>2. Subscribe(key) \in DOMAIN unanswered_requests' /\ Subscribe(key).m = m /\ Subscribe(key).key = key
      BY <2>3, <2>4, <3>1, RequestFacts
    <3>3. QED
      BY <3>2, Zenon DEF InFlight
  <2>7. QED
    BY <2>5, <2>6
<1>12. ASSUME NEW tick \in BOOLEAN, run_settle(tick) PROVE InFlight(m, key)'
  <2>1. UNCHANGED <<requested_tx, requested_histories, requested_hashes, wire, unanswered_requests>>
    BY <1>12, SettleFacts
  <2>2. QED
    BY <2>1 DEF Awaited, InFlight
<1>2. ~ run_release
  BY DEF run_release
<1>3. CASE release \/ add \/ \E view \in SUBSET Tx : chain_moves(view)
  <2>1. UNCHANGED <<requested_hashes, requested_histories, requested_tx, unanswered_requests, wire>>
    BY <1>3 DEF release, add, chain_moves, requestVars
  <2>2. QED
    BY <2>1 DEF Awaited, InFlight
<1>4. CASE ignore
  <2>1. /\ wire # <<>> /\ wire' = Tail(wire)
        /\ UNCHANGED <<requested_hashes, requested_histories, requested_tx, unanswered_requests, cleaned_up>>
    BY <1>4 DEF ignore, requestVars, releaseVars
  <2>2. Awaited(m, key)
    BY <2>1 DEF Awaited
  <2>3. Head(wire) \in Reply /\ Head(wire) = wire[1] /\ 1 \in DOMAIN wire
    BY <1>0, <2>1, WireTail
  <2>4. Head(wire).error => Head(wire).m = "tx"
    BY <2>3, Zenon DEF OnlyTxErrors
  <2>5. \/ Head(wire).m = "subscribe" /\ Head(wire).key \notin subscriptions
        \/ Head(wire).m = "history" /\ requested_histories[Head(wire).key] = NotRequested
    BY <1>4, <2>1, <2>4 DEF ignore
  <2>6. requested_hashes \subseteq subscriptions
    BY <1>0, <2>1 DEF Registered
  <2>7. ~ (Head(wire).m = m /\ Head(wire).key = key)
    BY <2>2, <2>5, <2>6 DEF Awaited
  <2>8. QED
    BY <1>0, <2>1, <2>2, <2>7, FlightKept
<1>5. CASE _on_address_status
  <2>1. PICK a \in Addr :
              /\ a = Head(wire).key /\ Head(wire).m = "subscribe"
              /\ wire # <<>> /\ wire' = Tail(wire)
              /\ requested_hashes' = requested_hashes \ {a}
              /\ \A b \in Addr : b # a => requested_histories'[b] = requested_histories[b]
              /\ \/ unanswered_requests' = unanswered_requests /\ requested_histories' = requested_histories
                 \/ unanswered_requests' = unanswered_requests (+) SetToBag({GetHistory(a)})
              /\ UNCHANGED requested_tx
    BY <1>0, <1>5, StatusFacts
  <2>2. DOMAIN (unanswered_requests (+) SetToBag({GetHistory(a)})) = DOMAIN unanswered_requests \cup {GetHistory(a)}
    BY <1>0, MoreRequests
  <2>3. \A r \in DOMAIN unanswered_requests : r \in DOMAIN unanswered_requests'
    BY <2>1, <2>2
  <2>4. CASE Awaited(m, key) /\ ~ (m = "subscribe" /\ key = a)
    <3>1. ~ (Head(wire).m = m /\ Head(wire).key = key)
      BY <2>1, <2>4
    <3>2. QED
      BY <1>0, <2>1, <2>3, <2>4, <3>1, FlightKept
  <2>5. CASE ~ Awaited(m, key)
    <3>1. m = "history" /\ key = a /\ requested_histories' # requested_histories
      BY <2>1, <2>5 DEF Awaited
    <3>2. GetHistory(a) \in DOMAIN unanswered_requests' /\ GetHistory(a).m = m /\ GetHistory(a).key = key
      BY <2>1, <2>2, <3>1, RequestFacts
    <3>3. QED
      BY <3>2, Zenon DEF InFlight
  <2>6. ~ (m = "subscribe" /\ key = a)
    BY <2>1 DEF Awaited
  <2>7. QED
    BY <2>4, <2>5, <2>6
<1>6. CASE _on_address_history
  <2>1. PICK a \in Addr, ask \in SUBSET Tx :
              /\ a = Head(wire).key /\ Head(wire).m = "history"
              /\ wire # <<>> /\ wire' = Tail(wire)
              /\ requested_tx' = requested_tx \cup ask
              /\ DOMAIN unanswered_requests' = DOMAIN unanswered_requests \cup {GetTx(t, a) : t \in ask}
              /\ requested_histories' = [requested_histories EXCEPT ![a] = NotRequested]
              /\ UNCHANGED requested_hashes
    BY <1>0, <1>6, HistoryFacts, Zenon
  <2>2. ~ (m = "history" /\ key = a)
    BY <1>0, <2>1 DEF Awaited
  <2>3. CASE Awaited(m, key)
    <3>1. ~ (Head(wire).m = m /\ Head(wire).key = key)
      BY <2>1, <2>2
    <3>2. QED
      BY <1>0, <2>1, <2>3, <3>1, FlightKept
  <2>4. CASE ~ Awaited(m, key)
    <3>1. m = "tx" /\ key \in ask
      BY <1>0, <2>1, <2>2, <2>4 DEF Awaited
    <3>2. GetTx(key, a) \in DOMAIN unanswered_requests' /\ GetTx(key, a).m = m /\ GetTx(key, a).key = key
      BY <2>1, <3>1, RequestFacts
    <3>3. QED
      BY <3>2, Zenon DEF InFlight
  <2>5. QED
    BY <2>3, <2>4
<1>7. CASE _tx_response
  <2>1. PICK t \in Tx, a \in Addr :
              /\ t = Head(wire).key /\ Head(wire).m = "tx"
              /\ wire # <<>> /\ wire' = Tail(wire)
              /\ requested_tx' = requested_tx \ {t}
              /\ UNCHANGED <<unanswered_requests, requested_hashes, requested_histories>>
    BY <1>0, <1>7, ResponseFacts
  <2>2. Awaited(m, key) /\ ~ (m = "tx" /\ key = t)
    BY <2>1 DEF Awaited
  <2>3. QED
    BY <1>0, <2>1, <2>2, FlightKept
<1>8. ASSUME NEW r \in DOMAIN unanswered_requests, NEW error \in BOOLEAN, answer(r, error) PROVE InFlight(m, key)'
  <2>1. Awaited(m, key)
    BY <1>8 DEF answer, requestVars, Awaited
  <2>2. QED
    BY <1>0, <1>8, <2>1, FlightAnswered
<1>9. ASSUME NEW a \in Addr, notify(a) PROVE InFlight(m, key)'
  <2>1. Awaited(m, key) /\ unanswered_requests' = unanswered_requests
    BY <1>9 DEF notify, requestVars, Awaited
  <2>2. \E w \in Reply : wire' = Append(wire, w)
    BY <1>0, <1>9, NotifyTyped DEF notify
  <2>3. QED
    BY <1>0, <2>1, <2>2, FlightKept
<1>10. CASE switch_interface
  <2>1. Awaited(m, key) /\ ~ cleaned_up
    BY <1>10 DEF switch_interface, requestVars, releaseVars, Awaited
  <2>2. InFlight(m, key)
    BY <2>1
  <2>3. m = "subscribe" => key \in subscriptions
    BY <1>0, <2>1 DEF Awaited, Registered
  <2>4. m \in {"subscribe", "history", "tx"}
    BY <2>1 DEF Awaited
  <2>5. QED
    BY <1>0, <1>10, <2>2, <2>3, <2>4, FlightResent
<1>11. QED
  BY <1>1, <1>2, <1>3, <1>4, <1>5, <1>6, <1>7, <1>8, <1>9, <1>10, <1>12, Zenon DEF Next, Deliver

\* Everything is waited for at the start because it was asked for.
LEMMA InitAwaited == Init => \A m, key : Awaited(m, key) => InFlight(m, key)
<1> SUFFICES ASSUME Init, NEW m, NEW key, Awaited(m, key) PROVE InFlight(m, key)
  OBVIOUS
<1> DEFINE now == {a \in Derived(1, InitDerived) : a \notin ChangeAddr \/ Limit = 0}
           lost == (UNION {SavedHistory[a] : a \in Addr}) \ SavedTxs
<1>1. PICK owner \in [lost -> Addr] :
         unanswered_requests = SetToBag({GetTx(t, owner[t]) : t \in lost} \cup {Subscribe(a) : a \in now})
  BY Zenon DEF Init
<1>2. requested_tx = lost /\ requested_hashes = now /\ requested_histories = [a \in Addr |-> NotRequested]
  BY Zenon DEF Init
<1> HIDE DEF now, lost
<1> DEFINE Q == {GetTx(t, owner[t]) : t \in lost} \cup {Subscribe(a) : a \in now}
<1>3. (\A t \in lost : GetTx(t, owner[t]) \in Q) /\ (\A a \in now : Subscribe(a) \in Q)
  OBVIOUS
<1> HIDE DEF Q
<1>4. DOMAIN unanswered_requests = Q
  BY <1>1 DEF SetToBag, Q
<1>5. \/ m = "subscribe" /\ key \in now
      \/ m = "tx" /\ key \in lost
  BY <1>2 DEF Awaited
<1>6. \E r \in Q : r.m = m /\ r.key = key
  BY <1>3, <1>5, RequestFacts
<1>7. QED
  BY <1>4, <1>6, Zenon DEF InFlight

\* Nothing is forgotten, if servers answer subscriptions and histories without
\* errors: however connections are lost and requests for transactions fail, each
\* entry of requested_hashes, requested_histories and requested_tx has a request
\* or an answer under way, so none is left behind to keep the wallet from
\* becoming up to date.
THEOREM NothingIsForgotten ==
    ASSUME Errors \subseteq {"tx"}
    PROVE  Spec => []NothingForgotten
<1> DEFINE Pending == ~ cleaned_up => \A m, key : Awaited(m, key) => InFlight(m, key)
           Inv == SyncInv /\ OnlyTxErrors /\ Pending
<1>1. Init => Inv
  <2>1. Init => OnlyTxErrors
    <3> SUFFICES ASSUME Init PROVE OnlyTxErrors
      OBVIOUS
    <3>1. wire = <<>>
      BY DEF Init
    <3>2. DOMAIN wire = {}
      BY <3>1, EmptySeq, LenProperties
    <3>3. QED
      BY <3>2 DEF OnlyTxErrors
  <2>2. QED
    BY <2>1, InitTyped, InitRegistered, InitAwaited DEF SyncInv
<1>2. Inv /\ [Next]_vars => Inv'
  <2> SUFFICES ASSUME Inv, [Next]_vars PROVE Inv'
    OBVIOUS
  <2>1. SyncInv' /\ OnlyTxErrors'
    BY NextTyped, StaysRegistered, StaysOnlyTxErrors DEF SyncInv
  <2>2. Pending'
    <3> SUFFICES ASSUME ~ cleaned_up', NEW m, NEW key, Awaited(m, key)' PROVE InFlight(m, key)'
      OBVIOUS
    <3>1. CASE UNCHANGED vars
      <4>1. UNCHANGED <<cleaned_up, requested_hashes, requested_histories, requested_tx, unanswered_requests, wire>>
        BY <3>1 DEF vars, releaseVars, requestVars
      <4>2. QED
        BY <4>1 DEF Awaited, InFlight
    <3>2. CASE Next
      <4>1. ~ cleaned_up
        BY <3>2 DEF Next, run, run_settle, run_release, release, add, Deliver, _on_address_status, _on_address_history,
                    _tx_response, ignore, answer, notify, chain_moves, switch_interface, releaseVars
      <4>2. QED
        BY <3>2, <4>1, StaysAwaited
    <3>3. QED
      BY <3>1, <3>2
  <2>3. QED
    BY <2>1, <2>2
<1>3. Inv => NothingForgotten
  BY ForgottenAwaited DEF SyncInv
<1>4. QED
  BY <1>1, <1>2, <1>3, PTL DEF Spec

-----------------------------------------------------------------------------
(* Every transaction of a history is held or asked for.                     *)

\* A message that only speaks of what the server knows.
Truthful(w) == IF w.m = "tx" THEN ~ w.error ELSE w.result \subseteq chain

\* The wire carries truthful messages only.
LEMMA StaysTruthful ==
    ASSUME TypeOK, \A i \in DOMAIN wire : Truthful(wire[i]), chain \subseteq chain',
           \/ wire' = wire
           \/ wire # <<>> /\ wire' = Tail(wire)
           \/ \E w \in Reply : wire' = Append(wire, w) /\ Truthful(w)
           \/ wire' = <<>>
    PROVE  \A i \in DOMAIN wire' : Truthful(wire[i])'
<1>0. wire \in Seq(Reply)
  BY DEF TypeOK
<1>1. SUFFICES ASSUME NEW i \in DOMAIN wire' PROVE Truthful(wire'[i])
  BY Zenon DEF Truthful
<1>2. CASE wire' = wire
  BY <1>2, Zenon
<1>3. CASE wire # <<>> /\ wire' = Tail(wire)
  <2>1. i + 1 \in DOMAIN wire /\ wire'[i] = wire[i + 1]
    BY <1>0, <1>3, WireTail
  <2>2. QED
    BY <2>1, Zenon
<1>4. CASE \E w \in Reply : wire' = Append(wire, w) /\ Truthful(w)
  <2>1. PICK w \in Reply : wire' = Append(wire, w) /\ Truthful(w)
    BY <1>4
  <2>2. wire'[i] = w \/ (i \in DOMAIN wire /\ wire'[i] = wire[i])
    BY <1>0, <2>1, WireAppend
  <2>3. QED
    BY <2>1, <2>2, Zenon
<1>5. CASE wire' = <<>>
  BY <1>5, EmptySeq, LenProperties
<1>6. QED
  BY <1>2, <1>3, <1>4, <1>5

LEMMA CompleteTruthful == Complete => \A i \in DOMAIN wire : Truthful(wire[i])
BY Zenon DEF Complete, Truthful

\* Complete is kept while nothing vanishes from the server.
LEMMA StaysComplete ==
    ASSUME SyncInv, Complete, ~ Reorgs, "tx" \notin Errors, [Next]_vars
    PROVE  Complete'
<1>0. /\ TypeOK /\ Registered /\ wire \in Seq(Reply) /\ chain \subseteq Tx /\ DOMAIN unanswered_requests \subseteq Request
      /\ history \in [Addr -> SUBSET Tx]
  BY DEF SyncInv, TypeOK
<1>1. /\ \A a \in Addr : history[a] \subseteq chain /\ history[a] \subseteq transactions \cup requested_tx
      /\ requested_tx \subseteq chain
      /\ \A i \in DOMAIN wire : Truthful(wire[i])
  BY CompleteTruthful DEF Complete
<1>2. ASSUME \A i \in DOMAIN wire' : Truthful(wire[i])',
             \A a \in Addr : history'[a] \subseteq chain' /\ history'[a] \subseteq transactions' \cup requested_tx',
             requested_tx' \subseteq chain'
      PROVE  Complete'
  BY <1>2, Zenon DEF Complete, Truthful
<1>3. ASSUME UNCHANGED <<history, transactions, requested_tx>>, chain \subseteq chain',
             \/ wire' = wire
             \/ wire # <<>> /\ wire' = Tail(wire)
             \/ \E w \in Reply : wire' = Append(wire, w) /\ Truthful(w)
             \/ wire' = <<>>
      PROVE  Complete'
  <2>1. \A i \in DOMAIN wire' : Truthful(wire[i])'
    BY <1>0, <1>1, <1>3, StaysTruthful
  <2>2. /\ \A a \in Addr : history'[a] \subseteq chain' /\ history'[a] \subseteq transactions' \cup requested_tx'
        /\ requested_tx' \subseteq chain'
    BY <1>1, <1>3
  <2>3. QED
    BY <1>2, <2>1, <2>2
<1>15. ASSUME NEW tick \in BOOLEAN, run_settle(tick) PROVE Complete'
  <2>1. UNCHANGED <<history, transactions, requested_tx, wire, chain>>
    BY <1>15, SettleFacts
  <2>2. QED
    BY <1>3, <2>1
<1>4. ASSUME NEW n \in derived..Len(Derivation), run(n) PROVE Complete'
  <2>1. UNCHANGED <<history, transactions, requested_tx, wire, chain>>
    BY <1>0, <1>4, RunFacts
  <2>2. QED
    BY <1>3, <2>1
<1>5. CASE run_release \/ release \/ add \/ UNCHANGED vars
  <2>1. UNCHANGED <<history, transactions, requested_tx, wire, chain>>
    BY <1>5 DEF run_release, release, add, vars, walletVars, requestVars, serverVars
  <2>2. QED
    BY <1>3, <2>1
<1>6. CASE ignore
  <2>1. UNCHANGED <<history, transactions, requested_tx, chain>> /\ wire # <<>> /\ wire' = Tail(wire)
    BY <1>6 DEF ignore, walletVars, requestVars, serverVars
  <2>2. QED
    BY <1>3, <2>1
<1>7. CASE _on_address_status
  <2>1. UNCHANGED <<history, transactions, requested_tx, chain>> /\ wire # <<>> /\ wire' = Tail(wire)
    BY <1>0, <1>7, StatusFacts
  <2>2. QED
    BY <1>3, <2>1
<1>8. CASE _on_address_history
  <2>1. PICK a \in Addr, ask \in SUBSET Tx :
              /\ Head(wire).m = "history"
              /\ wire # <<>> /\ wire' = Tail(wire)
              /\ requested_tx' = requested_tx \cup ask
              /\ \/ history' = history
                 \/ /\ history' = [history EXCEPT ![a] = Head(wire).result]
                    /\ Head(wire).result \subseteq ask \cup requested_tx \cup transactions
              /\ ask \subseteq Head(wire).result
              /\ UNCHANGED <<transactions, chain>>
    BY <1>0, <1>8, HistoryFacts, Zenon
  <2>2. Head(wire) = wire[1] /\ 1 \in DOMAIN wire
    BY <1>0, <2>1, WireTail
  <2>3. Truthful(Head(wire))
    BY <1>1, <2>2, Zenon
  <2>4. PICK res : res = Head(wire).result
    OBVIOUS
  <2>5. res \subseteq chain
    BY <2>1, <2>3, <2>4 DEF Truthful
  <2>6. ask \subseteq chain
    BY <2>1, <2>4, <2>5, Zenon
  <2>7. \A i \in DOMAIN wire' : Truthful(wire[i])'
    BY <1>0, <1>1, <2>1, StaysTruthful
  <2>8. ASSUME NEW b \in Addr
        PROVE  history'[b] \subseteq chain /\ history'[b] \subseteq transactions \cup (requested_tx \cup ask)
    <3>1. \/ history'[b] = history[b]
          \/ history'[b] = res /\ res \subseteq ask \cup requested_tx \cup transactions
      BY <1>0, <2>1, <2>4
    <3>2. QED
      BY <1>1, <2>5, <3>1
  <2>9. QED
    BY <1>1, <1>2, <2>1, <2>6, <2>7, <2>8
<1>9. CASE _tx_response
  <2>1. PICK t \in Tx :
              /\ Head(wire).m = "tx"
              /\ wire # <<>> /\ wire' = Tail(wire)
              /\ requested_tx' = requested_tx \ {t}
              /\ transactions' = IF Head(wire).error THEN transactions ELSE transactions \cup {t}
              /\ UNCHANGED <<history, chain>>
    BY <1>0, <1>9, ResponseFacts
  <2>2. Head(wire) = wire[1] /\ 1 \in DOMAIN wire
    BY <1>0, <2>1, WireTail
  <2>3. Truthful(Head(wire))
    BY <1>1, <2>2, Zenon
  <2>4. transactions' = transactions \cup {t}
    BY <2>1, <2>3 DEF Truthful
  <2>5. \A i \in DOMAIN wire' : Truthful(wire[i])'
    BY <1>0, <1>1, <2>1, StaysTruthful
  <2>6. QED
    BY <1>1, <1>2, <2>1, <2>4, <2>5
<1>10. ASSUME NEW r \in DOMAIN unanswered_requests, NEW error \in BOOLEAN, answer(r, error) PROVE Complete'
  <2>1. UNCHANGED <<history, transactions, requested_tx, chain>>
    BY <1>10 DEF answer, walletVars, requestVars
  <2> DEFINE v == [m |-> r.m, key |-> r.key, sh |-> r.sh, error |-> error,
                   result |-> IF r.m = "tx" THEN {r.key} ELSE Listed(r.key)]
  <2>2. v \in Reply /\ wire' = Append(wire, v)
    BY <1>0, <1>10, AnswerTyped DEF answer
  <2>3. v.m = r.m /\ v.error = error /\ (r.m # "tx" => v.result = Listed(r.key))
    OBVIOUS
  <2>4. r.m = "tx" => ~ error
    <3> SUFFICES ASSUME r.m = "tx" PROVE ~ error
      OBVIOUS
    <3>1. r.key \in Tx /\ r \in Questions(r.key)
      BY <1>0, RequestFacts DEF Questions
    <3>2. r.key \in requested_tx
      BY <1>0, <3>1 DEF Registered, TxOnce
    <3>3. r.key \in chain
      BY <1>1, <3>2
    <3>4. QED
      BY <1>10, <3>3 DEF answer
  <2>5. Listed(r.key) \subseteq chain
    BY DEF Listed
  <2> HIDE DEF v
  <2>6. Truthful(v)
    BY <2>3, <2>4, <2>5 DEF Truthful
  <2>7. QED
    BY <1>3, <2>1, <2>2, <2>6
<1>11. ASSUME NEW a \in Addr, notify(a) PROVE Complete'
  <2>1. UNCHANGED <<history, transactions, requested_tx, chain>>
    BY <1>11 DEF notify, walletVars, requestVars
  <2> DEFINE v == [m |-> "subscribe", key |-> a, sh |-> a, error |-> FALSE, result |-> Listed(a)]
  <2>2. v \in Reply /\ wire' = Append(wire, v)
    BY <1>0, <1>11, NotifyTyped DEF notify
  <2>3. v.m = "subscribe" /\ v.result = Listed(a)
    OBVIOUS
  <2>4. Listed(a) \subseteq chain
    BY DEF Listed
  <2> HIDE DEF v
  <2>5. Truthful(v)
    BY <2>3, <2>4 DEF Truthful
  <2>6. QED
    BY <1>3, <2>1, <2>2, <2>5
<1>12. ASSUME NEW view \in SUBSET Tx, chain_moves(view) PROVE Complete'
  <2>1. UNCHANGED <<history, transactions, requested_tx, wire>> /\ chain \subseteq chain'
    BY <1>12 DEF chain_moves, walletVars, requestVars
  <2>2. QED
    BY <1>3, <2>1
<1>13. CASE switch_interface
  <2>1. UNCHANGED <<history, transactions, requested_tx, chain>> /\ wire' = <<>>
    BY <1>13 DEF switch_interface, walletVars, requestVars
  <2>2. QED
    BY <1>3, <2>1
<1>14. QED
  BY <1>4, <1>5, <1>6, <1>7, <1>8, <1>9, <1>10, <1>11, <1>12, <1>13, <1>15, Zenon DEF Next, Deliver

\* Complete at the start.
LEMMA InitComplete ==
    ASSUME \A a \in Addr : SavedHistory[a] \subseteq InitChain
    PROVE  Init => Complete
<1> SUFFICES ASSUME Init PROVE Complete
  OBVIOUS
<1> DEFINE lost == (UNION {SavedHistory[a] : a \in Addr}) \ SavedTxs
<1>1. requested_tx = lost /\ history = SavedHistory /\ transactions = SavedTxs /\ chain = InitChain /\ wire = <<>>
  BY Zenon DEF Init
<1>2. \A a \in Addr : SavedHistory[a] \subseteq SavedTxs \cup lost
  <2> SUFFICES ASSUME NEW a \in Addr, NEW t \in SavedHistory[a], t \notin SavedTxs PROVE t \in lost
    OBVIOUS
  <2>1. t \in UNION {SavedHistory[b] : b \in Addr}
    BY Zenon
  <2>2. QED
    BY <2>1
<1>3. lost \subseteq InitChain
  <2> SUFFICES ASSUME NEW t \in lost PROVE t \in InitChain
    OBVIOUS
  <2>1. PICK a \in Addr : t \in SavedHistory[a]
    OBVIOUS
  <2>2. QED
    BY <2>1
<1>4. DOMAIN wire = {}
  BY <1>1, EmptySeq, LenProperties
<1> HIDE DEF lost
<1>5. QED
  BY <1>1, <1>2, <1>3, <1>4 DEF Complete

\* So histories stay complete for good.
LEMMA AlwaysComplete ==
    ASSUME ~ Reorgs, "tx" \notin Errors, \A a \in Addr : SavedHistory[a] \subseteq InitChain
    PROVE  Spec => []Complete
<1>1. Init => Complete
  BY InitComplete
<1>2. SyncInv /\ Complete /\ [Next]_vars => Complete'
  BY StaysComplete
<1>3. QED
  BY <1>1, <1>2, SyncAlways, PTL DEF Spec

\* Up to date means complete, if the server reorganises nothing away and answers
\* requests for the transactions it knows: when the synchronizer waits for nothing
\* any more, the wallet holds every transaction of every history, whatever order
\* histories, transactions and lost connections came in.
THEOREM UpToDateIsComplete ==
    ASSUME ~ Reorgs, "tx" \notin Errors, \A a \in Addr : SavedHistory[a] \subseteq InitChain
    PROVE  Spec => []UpToDateHasTxs
<1>1. Complete => UpToDateHasTxs
  BY DEF Complete, UpToDateHasTxs, is_up_to_date
<1>2. QED
  BY <1>1, AlwaysComplete, PTL

=============================================================================
