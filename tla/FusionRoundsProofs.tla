------------------------- MODULE FusionRoundsProofs -------------------------
(***************************************************************************)
(* Proofs about FusionRounds, for any number of players, rounds and faults. *)
(***************************************************************************)
EXTENDS FusionRounds, FiniteSetTheorems, SequenceTheorems, TLAPS

\* Short sequences, message by message.
LEMMA Shorten ==
    ASSUME NEW q, NEW a, NEW b, NEW c
    PROVE  /\ q = <<a>> => q # <<>> /\ Head(q) = a /\ Tail(q) = <<>>
           /\ q = <<a, b>> => q # <<>> /\ Head(q) = a /\ Tail(q) = <<b>>
           /\ q = <<a, b, c>> => q # <<>> /\ Head(q) = a /\ Tail(q) = <<b, c>>
<1>1. <<a>> # <<>> /\ <<a, b>> # <<>> /\ <<a, b, c>> # <<>>
  OBVIOUS
<1>2. Head(<<a>>) = a /\ Tail(<<a>>) = <<>>
  OBVIOUS
<1>3. Head(<<a, b>>) = a
  OBVIOUS
<1>4. Tail(<<a, b>>) = <<b>>
  OBVIOUS
<1>5. Head(<<a, b, c>>) = a
  OBVIOUS
<1>6. Tail(<<a, b, c>>) = <<b, c>>
  OBVIOUS
<1>7. QED
  BY <1>1, <1>2, <1>3, <1>4, <1>5, <1>6, Zenon

\* Appending to them.
LEMMA Lengthen ==
    ASSUME NEW q, NEW a, NEW b, NEW c
    PROVE  /\ q = <<>> => Append(q, a) = <<a>>
           /\ q = <<a>> => Append(q, b) = <<a, b>>
           /\ q = <<a, b>> => Append(q, c) = <<a, b, c>>
<1> DEFINE S == {a, b, c}
<1>1. <<a>> \in Seq(S) /\ <<a, b>> \in Seq(S) /\ <<a, b, c>> \in Seq(S)
  OBVIOUS
<1>2. Append(<<a>>, b) = <<a, b>>
  <2>1. /\ Append(<<a>>, b) \in Seq(S) /\ Len(Append(<<a>>, b)) = 2
        /\ Append(<<a>>, b)[1] = a /\ Append(<<a>>, b)[2] = b
    BY <1>1
  <2>2. Len(<<a, b>>) = 2 /\ <<a, b>>[1] = a /\ <<a, b>>[2] = b
    OBVIOUS
  <2>3. \A i \in 1..2 : Append(<<a>>, b)[i] = <<a, b>>[i]
    BY <2>1, <2>2
  <2>4. QED
    BY <1>1, <2>1, <2>2, <2>3, SeqEqual
<1>3. Append(<<a, b>>, c) = <<a, b, c>>
  <2>1. /\ Append(<<a, b>>, c) \in Seq(S) /\ Len(Append(<<a, b>>, c)) = 3
        /\ Append(<<a, b>>, c)[1] = a /\ Append(<<a, b>>, c)[2] = b /\ Append(<<a, b>>, c)[3] = c
    BY <1>1
  <2>2. Len(<<a, b, c>>) = 3 /\ <<a, b, c>>[1] = a /\ <<a, b, c>>[2] = b /\ <<a, b, c>>[3] = c
    OBVIOUS
  <2>3. \A i \in 1..3 : Append(<<a, b>>, c)[i] = <<a, b, c>>[i]
    BY <2>1, <2>2
  <2>4. QED
    BY <1>1, <2>1, <2>2, <2>3, SeqEqual
<1>4. Append(<<>>, a) = <<a>>
  OBVIOUS
<1>5. QED
  BY <1>2, <1>3, <1>4, Zenon

\* The messages of the server are of these kinds.
LEMMA MessageKinds ==
    /\ Message("restartround").kind = "restartround"
    /\ Message("blindsigresponses").kind = "blindsigresponses"
    /\ Message("theirproofslist").kind = "theirproofslist"
    /\ Startround.kind = "startround"
    /\ Refusal.kind = "fusionresult" /\ Refusal.ok = FALSE
    /\ \A b \in BOOLEAN : /\ Shared(b).kind = "sharecovertcomponents" /\ Shared(b).skip = b
                          /\ Shared(b).hash = last_hash
  BY DEF Message, Startround, Refusal, Shared

\* They are messages a player expects.
LEMMA MessagesTyped ==
    ASSUME TypeOK
    PROVE  /\ \A k \in {"restartround", "blindsigresponses", "theirproofslist"} : Message(k) \in ServerMessage
           /\ round > 0 => Startround \in ServerMessage
           /\ \A b \in BOOLEAN : last_hash > 0 => Shared(b) \in ServerMessage
           /\ \A b \in BOOLEAN : [kind |-> "fusionresult", ok |-> b, bad |-> Unsigned] \in ServerMessage
           /\ [kind |-> "fusionresult", ok |-> TRUE, bad |-> {}] \in ServerMessage
<1>0. /\ round \in 0..MaxRound /\ last_hash \in 0..MaxRound /\ MaxRound \in Nat
      /\ components \in SUBSET Component
  BY RoundsAssumption, Zenon DEF TypeOK
<1>1. \A k \in {"restartround", "blindsigresponses", "theirproofslist"} : Message(k) \in ServerMessage
  BY DEF Message, ServerMessage
<1>2. ASSUME round > 0 PROVE Startround \in ServerMessage
  <2>1. round \in 1..MaxRound
    BY <1>0, <1>2
  <2>2. Startround \in [kind : {"startround"}, round_pubkey : 1..MaxRound]
    BY <2>1 DEF Startround
  <2>3. QED
    BY <2>2, Zenon DEF ServerMessage
<1>3. ASSUME NEW b \in BOOLEAN, last_hash > 0 PROVE Shared(b) \in ServerMessage
  <2>1. last_hash \in 1..MaxRound /\ components \in SUBSET Component
    BY <1>0, <1>3
  <2>2. Shared(b) \in [kind : {"sharecovertcomponents"}, list : SUBSET Component, skip : BOOLEAN,
                       hash : 1..MaxRound]
    BY <2>1 DEF Shared
  <2>3. QED
    BY <2>2, Zenon DEF ServerMessage
<1>4. Unsigned \in SUBSET Component
  BY <1>0 DEF Unsigned
<1>5. QED
  BY <1>1, <1>2, <1>3, <1>4 DEF ServerMessage

\* The first message and the rest of what a player has to read.
LEMMA ReadFacts ==
    ASSUME TypeOK, NEW p \in Player, inbox[p] # <<>>
    PROVE  /\ inbox[p] \in Seq(ServerMessage) /\ Head(inbox[p]) = inbox[p][1]
           /\ Len(inbox[p]) \in 1..3 /\ Msg(p) \in ServerMessage
           /\ Tail(inbox[p]) \in Seq(ServerMessage) /\ Len(Tail(inbox[p])) = Len(inbox[p]) - 1
           /\ \A i \in 1..(Len(inbox[p]) - 1) : Tail(inbox[p])[i] = inbox[p][i + 1]
<1>1. inbox[p] \in Seq(ServerMessage) /\ Len(inbox[p]) <= 3
  BY DEF TypeOK
<1>2. /\ Head(inbox[p]) = inbox[p][1] /\ Len(inbox[p]) \in 1..3 /\ Head(inbox[p]) \in ServerMessage
      /\ Tail(inbox[p]) \in Seq(ServerMessage)
  <2> DEFINE q == inbox[p]
  <2> HIDE DEF q
  <2>1. q \in Seq(ServerMessage) /\ q # <<>> /\ Len(q) <= 3
    BY <1>1 DEF q
  <2>2. Len(q) \in 1..3
    <3>1. Len(q) \in Nat /\ Len(q) # 0
      BY <2>1, EmptySeq, LenProperties, Zenon
    <3> DEFINE n == Len(q)
    <3>2. n \in Nat /\ n # 0 /\ n <= 3
      BY <2>1, <3>1, Zenon
    <3> HIDE DEF n
    <3>3. n \in 1..3
      BY <3>2
    <3>4. QED
      BY <3>3 DEF n
  <2>3. Head(q) = q[1]
    BY <2>1
  <2>4. Head(q) \in ServerMessage /\ Tail(q) \in Seq(ServerMessage)
    BY <2>1, HeadTailProperties, Zenon
  <2>5. QED
    BY <2>2, <2>3, <2>4 DEF q
<1>3. /\ Len(Tail(inbox[p])) = Len(inbox[p]) - 1
      /\ \A i \in 1..(Len(inbox[p]) - 1) : Tail(inbox[p])[i] = inbox[p][i + 1]
  BY <1>1, HeadTailProperties
<1>4. QED
  BY <1>1, <1>2, <1>3 DEF Msg

\* What a client whose thread runs reads tells it where the server is.
LEMMA HeadFacts ==
    ASSUME TypeOK, NEW p \in Player, Turns(p), inbox[p] # <<>>
    PROVE  /\ Msg(p).kind = "startround" => stage = "commitments" /\ Tail(inbox[p]) = <<>>
           /\ Msg(p).kind = "sharecovertcomponents" =>
                 /\ Msg(p).hash = last_hash
                 /\ Msg(p).skip => stage = "proofs" /\ Tail(inbox[p]) = <<>>
                 /\ Tail(inbox[p]) \in {<<>>, <<Refusal>>}
           /\ Msg(p).kind = "fusionresult" => stage = "proofs" /\ Tail(inbox[p]) = <<>> /\ ~Msg(p).ok
           /\ Msg(p).kind = "theirproofslist" => stage = "blames" /\ Tail(inbox[p]) = <<>>
<1> DEFINE restart == Message("restartround")
           blindsig == Message("blindsigresponses")
           theirs == Message("theirproofslist")
           list == Shared(FALSE)
           skipped == Shared(TRUE)
<1>1. /\ restart.kind = "restartround" /\ blindsig.kind = "blindsigresponses"
      /\ theirs.kind = "theirproofslist" /\ Startround.kind = "startround"
      /\ Refusal.kind = "fusionresult" /\ Refusal.ok = FALSE
      /\ list.kind = "sharecovertcomponents" /\ list.skip = FALSE /\ list.hash = last_hash
      /\ skipped.kind = "sharecovertcomponents" /\ skipped.skip = TRUE /\ skipped.hash = last_hash
  BY MessageKinds
<1>2. /\ stage = "begin" => inbox[p] \in {<<>>, <<restart>>}
      /\ stage = "commitments" => inbox[p] \in {<<>>, <<Startround>>, <<restart, Startround>>}
      /\ stage = "components" => inbox[p] \in {<<>>, <<blindsig>>}
      /\ stage = "signatures" => inbox[p] \in {<<>>, <<list>>, <<blindsig, list>>}
      /\ stage = "proofs" =>
            inbox[p] \in {<<>>, <<skipped>>, <<blindsig, skipped>>, <<Refusal>>,
                          <<list, Refusal>>, <<blindsig, list, Refusal>>}
      /\ stage = "blames" => inbox[p] \in {<<>>, <<theirs>>}
  BY DEF Turns, Unread
<1>3. stage \in {"begin", "commitments", "components", "signatures", "proofs", "blames"}
  BY DEF Turns, TypeOK
<1> HIDE DEF restart, blindsig, theirs, list, skipped
<1>4. CASE stage = "begin"
  <2>1. CASE inbox[p] = <<restart>>
    BY <1>1, <1>4, <2>1, Shorten DEF Msg
  <2>2. QED
    BY <1>2, <1>4, <2>1
<1>5. CASE stage = "commitments"
  <2>1. CASE inbox[p] = <<Startround>>
    BY <1>1, <1>5, <2>1, Shorten DEF Msg
  <2>2. CASE inbox[p] = <<restart, Startround>>
    BY <1>1, <1>5, <2>2, Shorten DEF Msg
  <2>3. QED
    BY <1>2, <1>5, <2>1, <2>2
<1>6. CASE stage = "components"
  <2>1. CASE inbox[p] = <<blindsig>>
    BY <1>1, <1>6, <2>1, Shorten DEF Msg
  <2>2. QED
    BY <1>2, <1>6, <2>1
<1>7. CASE stage = "signatures"
  <2>1. CASE inbox[p] = <<list>>
    BY <1>1, <1>7, <2>1, Shorten DEF Msg
  <2>2. CASE inbox[p] = <<blindsig, list>>
    BY <1>1, <1>7, <2>2, Shorten DEF Msg
  <2>3. QED
    BY <1>2, <1>7, <2>1, <2>2
<1>8. CASE stage = "proofs"
  <2>1. CASE inbox[p] = <<skipped>>
    BY <1>1, <1>8, <2>1, Shorten DEF Msg
  <2>2. CASE inbox[p] = <<blindsig, skipped>>
    BY <1>1, <1>8, <2>2, Shorten DEF Msg
  <2>3. CASE inbox[p] = <<Refusal>>
    BY <1>1, <1>8, <2>3, Shorten DEF Msg
  <2>4. CASE inbox[p] = <<list, Refusal>>
    BY <1>1, <1>8, <2>4, Shorten DEF Msg
  <2>5. CASE inbox[p] = <<blindsig, list, Refusal>>
    BY <1>1, <1>8, <2>5, Shorten DEF Msg
  <2>6. QED
    BY <1>2, <1>8, <2>1, <2>2, <2>3, <2>4, <2>5
<1>9. CASE stage = "blames"
  <2>1. CASE inbox[p] = <<theirs>>
    BY <1>1, <1>9, <2>1, Shorten DEF Msg
  <2>2. QED
    BY <1>2, <1>9, <2>1
<1>10. QED
  BY <1>3, <1>4, <1>5, <1>6, <1>7, <1>8, <1>9

\* Reading a message leaves one of the shorter lines.
LEMMA TailUnread ==
    ASSUME TypeOK, NEW p \in Player, Turns(p), inbox[p] # <<>>, inbox'[p] = Tail(inbox[p]),
           UNCHANGED <<stage, round, components, signatures, last_hash>>
    PROVE  Unread(p)'
<1> DEFINE restart == Message("restartround")
           blindsig == Message("blindsigresponses")
           theirs == Message("theirproofslist")
           list == Shared(FALSE)
           skipped == Shared(TRUE)
           Lines(q) ==
              /\ stage = "begin" => q \in {<<>>, <<restart>>}
              /\ stage = "commitments" => q \in {<<>>, <<Startround>>, <<restart, Startround>>}
              /\ stage = "components" => q \in {<<>>, <<blindsig>>}
              /\ stage = "signatures" => q \in {<<>>, <<list>>, <<blindsig, list>>}
              /\ stage = "proofs" => q \in {<<>>, <<skipped>>, <<blindsig, skipped>>, <<Refusal>>,
                                            <<list, Refusal>>, <<blindsig, list, Refusal>>}
              /\ stage = "blames" => q \in {<<>>, <<theirs>>}
<1>1. Lines(inbox[p])
  BY DEF Turns, Unread
<1>2. Startround' = Startround /\ Refusal' = Refusal /\ \A b \in BOOLEAN : Shared(b)' = Shared(b)
  BY DEF Startround, Refusal, Shared, Unsigned
<1>3. Unread(p)' <=> Lines(inbox'[p])
  BY <1>2 DEF Unread, Message
<1>4. Lines(Tail(inbox[p]))
  <2> HIDE DEF restart, blindsig, theirs, list, skipped
  <2>1. CASE stage = "begin"
    <3>1. CASE inbox[p] = <<restart>>
      BY <2>1, <3>1, Shorten
    <3>2. QED
      BY <1>1, <2>1, <3>1
  <2>2. CASE stage = "commitments"
    <3>1. CASE inbox[p] = <<Startround>>
      BY <2>2, <3>1, Shorten
    <3>2. CASE inbox[p] = <<restart, Startround>>
      BY <2>2, <3>2, Shorten
    <3>3. QED
      BY <1>1, <2>2, <3>1, <3>2
  <2>3. CASE stage = "components"
    <3>1. CASE inbox[p] = <<blindsig>>
      BY <2>3, <3>1, Shorten
    <3>2. QED
      BY <1>1, <2>3, <3>1
  <2>4. CASE stage = "signatures"
    <3>1. CASE inbox[p] = <<list>>
      BY <2>4, <3>1, Shorten
    <3>2. CASE inbox[p] = <<blindsig, list>>
      BY <2>4, <3>2, Shorten
    <3>3. QED
      BY <1>1, <2>4, <3>1, <3>2
  <2>5. CASE stage = "proofs"
    <3>1. CASE inbox[p] = <<skipped>>
      BY <2>5, <3>1, Shorten
    <3>2. CASE inbox[p] = <<blindsig, skipped>>
      BY <2>5, <3>2, Shorten
    <3>3. CASE inbox[p] = <<Refusal>>
      BY <2>5, <3>3, Shorten
    <3>4. CASE inbox[p] = <<list, Refusal>>
      BY <2>5, <3>4, Shorten
    <3>5. CASE inbox[p] = <<blindsig, list, Refusal>>
      BY <2>5, <3>5, Shorten
    <3>6. QED
      BY <1>1, <2>5, <3>1, <3>2, <3>3, <3>4, <3>5
  <2>6. CASE stage = "blames"
    <3>1. CASE inbox[p] = <<theirs>>
      BY <2>6, <3>1, Shorten
    <3>2. QED
      BY <1>1, <2>6, <3>1
  <2>7. QED
    BY <2>1, <2>2, <2>3, <2>4, <2>5, <2>6 DEF Turns, TypeOK
<1>5. QED
  BY <1>3, <1>4

\* Reading another message than a list leaves the player where it is in the
\* session ...
LEMMA ReadOther ==
    ASSUME TypeOK, NEW p \in Player, InSession(p), inbox[p] # <<>>,
           Msg(p).kind # "sharecovertcomponents", inbox'[p] = Tail(inbox[p]),
           my_hash'[p] = my_hash[p], UNCHANGED <<last_hash, dead>>
    PROVE  InSession(p)'
<1> DEFINE n == Len(inbox[p])
<1>1. /\ inbox[p] \in Seq(ServerMessage) /\ n \in 1..3 /\ 1 \notin Lists(p)
      /\ Lists(p) \subseteq 1..n
  BY ReadFacts DEF Lists, Msg
<1>2. \A i : i \in Lists(p)' <=> i \in 1..(n - 1) /\ inbox[p][i + 1].kind = "sharecovertcomponents"
  BY ReadFacts DEF Lists
<1>3. \A i : i \in Lists(p) <=> i \in 1..n /\ inbox[p][i].kind = "sharecovertcomponents"
  BY <1>1 DEF Lists
<1>4. \A i \in Lists(p)' : i + 1 \in Lists(p) /\ inbox'[p][i] = inbox[p][i + 1] /\ i \in Int
  BY <1>1, <1>2, <1>3, ReadFacts
<1>5. \A i \in Lists(p) : i - 1 \in Lists(p)'
  <2> SUFFICES ASSUME NEW i \in Lists(p) PROVE i - 1 \in Lists(p)'
    OBVIOUS
  <2>1. i \in 2..n
    BY <1>1
  <2>2. i - 1 \in 1..(n - 1) /\ (i - 1) + 1 = i
    BY <1>1, <2>1
  <2>3. QED
    BY <1>2, <1>3, <2>2
<1>6. \A i, j \in Lists(p)' : i = j
  BY <1>4 DEF InSession
<1>7. \A i \in Lists(p)' : inbox'[p][i].hash = my_hash'[p] + 1 /\ inbox'[p][i].hash <= last_hash'
  BY <1>4 DEF InSession
<1>8. Lists(p)' = {} => Lists(p) = {}
  BY <1>5
<1>9. QED
  BY <1>6, <1>7, <1>8 DEF InSession

\* ... and reading its list brings it up to the server.
LEMMA ReadList ==
    ASSUME TypeOK, NEW p \in Player, InSession(p), p \notin dead => Turns(p), inbox[p] # <<>>,
           Msg(p).kind = "sharecovertcomponents", inbox'[p] = Tail(inbox[p]),
           my_hash'[p] = my_hash[p] + 1, UNCHANGED <<last_hash, dead>>
    PROVE  InSession(p)' /\ Msg(p).hash = my_hash[p] + 1 /\ Msg(p).hash <= last_hash
<1> DEFINE n == Len(inbox[p])
<1>1. inbox[p] \in Seq(ServerMessage) /\ n \in 1..3 /\ 1 \in Lists(p) /\ inbox[p][1] = Msg(p)
  BY ReadFacts DEF Lists, Msg
<1>2. \A i \in Lists(p) : i = 1
  BY <1>1 DEF InSession
<1>3. \A i : i \in Lists(p)' <=> i \in 1..(n - 1) /\ inbox[p][i + 1].kind = "sharecovertcomponents"
  BY ReadFacts DEF Lists
<1>4. \A i \in 1..(n - 1) : i + 1 \in 1..n /\ i + 1 # 1
  BY <1>1
<1>5. Lists(p)' = {}
  <2>1. \A i \in Lists(p)' : i + 1 \in Lists(p) /\ i + 1 # 1
    BY <1>1, <1>3, <1>4 DEF Lists
  <2>2. QED
    BY <1>2, <2>1
<1>6. Msg(p).hash = my_hash[p] + 1 /\ Msg(p).hash <= last_hash
  BY <1>1 DEF InSession
<1>7. p \notin dead => my_hash'[p] = last_hash
  BY <1>6, HeadFacts
<1>8. QED
  BY <1>5, <1>6, <1>7 DEF InSession

-----------------------------------------------------------------------------
\* What steps of a player alone do to the types: the server's variables stay.
LEMMA PlayerTypes ==
    ASSUME TypeOK, UNCHANGED serverVars,
           inbox' \in [Player -> Seq(ServerMessage)], \A p \in Player : Len(inbox'[p]) <= 3,
           outbox' \in [Player -> PlayerMessage], status' \in [Player -> Status],
           round_pubkey' \in [Player -> 0..MaxRound], my_hash' \in [Player -> 0..MaxRound],
           sent' \in [Player -> SUBSET Kind], agreed' \in [Player -> Transaction \cup {<<>>}],
           spent' \subseteq Player, faults' \in 0..MaxFaults
    PROVE  TypeOK'
  BY Zenon DEF TypeOK, serverVars, collectorVars

\* The player reads a message.
LEMMA ReadTyped ==
    ASSUME TypeOK, NEW p \in Player, inbox[p] # <<>>, Read(p)
    PROVE  /\ inbox' \in [Player -> Seq(ServerMessage)] /\ \A q \in Player : Len(inbox'[q]) <= 3
           /\ inbox'[p] = Tail(inbox[p]) /\ \A q \in Player : q # p => inbox'[q] = inbox[q]
<1>1. inbox \in [Player -> Seq(ServerMessage)] /\ \A q \in Player : Len(inbox[q]) <= 3
  BY Zenon DEF TypeOK
<1>2. /\ Tail(inbox[p]) \in Seq(ServerMessage) /\ Len(inbox[p]) \in 1..3
      /\ Len(Tail(inbox[p])) = Len(inbox[p]) - 1
  BY ReadFacts
<1>3. /\ inbox' \in [Player -> Seq(ServerMessage)]
      /\ inbox'[p] = Tail(inbox[p]) /\ \A q \in Player : q # p => inbox'[q] = inbox[q]
  BY <1>1, <1>2 DEF Read
<1>4. Len(Tail(inbox[p])) <= 3
  <2>1. \A n \in 1..3 : n - 1 <= 3
    OBVIOUS
  <2>2. QED
    BY <1>2, <2>1, Zenon
<1>5. QED
  BY <1>1, <1>3, <1>4

\* Hashes and rounds are numbers.
LEMMA HashTyped ==
    ASSUME TypeOK
    PROVE  /\ round \in Nat /\ last_hash \in Nat /\ MaxRound \in Nat /\ round <= MaxRound
           /\ \A p \in Player : my_hash[p] \in Nat
<1>1. /\ round \in 0..MaxRound /\ last_hash \in 0..MaxRound /\ my_hash \in [Player -> 0..MaxRound]
      /\ MaxRound \in Nat
  BY RoundsAssumption, Zenon DEF TypeOK
<1>2. QED
  BY <1>1

\* A step of player p alone.
Alone(p) ==
    /\ UNCHANGED <<serverVars, spent>>
    /\ \A q \in Player \ {p} : /\ inbox'[q] = inbox[q] /\ outbox'[q] = outbox[q] /\ status'[q] = status[q]
                               /\ my_hash'[q] = my_hash[q] /\ agreed'[q] = agreed[q]

\* It leaves the invariant of the others alone; what remains is p's own, and
\* that it signs nothing new once its hash has reached the server's.
LEMMA AloneKeeps ==
    ASSUME RoundsInv, NEW p \in Player, Alone(p), p \notin dead => Turns(p)',
           status'[p] \notin Over => InSession(p)', Consents(p)', my_hash'[p] <= last_hash,
           agreed'[p] = agreed[p] \/ my_hash[p] < last_hash
    PROVE  Session' /\ Signing'
<1>1. /\ TypeOK /\ Session /\ Signing
      /\ UNCHANGED <<stage, round, clients, dead, results, fails, components, signatures, last_hash, broadcast>>
  BY Zenon DEF RoundsInv, Alone, serverVars, collectorVars
<1>2. \A q \in Player \ {p} : /\ inbox'[q] = inbox[q] /\ outbox'[q] = outbox[q] /\ status'[q] = status[q]
                              /\ my_hash'[q] = my_hash[q] /\ agreed'[q] = agreed[q]
  BY Zenon DEF Alone
<1>3. /\ Startround' = Startround /\ Refusal' = Refusal /\ \A b \in BOOLEAN : Shared(b)' = Shared(b)
  BY <1>1 DEF Startround, Refusal, Shared, Unsigned
<1>4. ASSUME NEW q \in Player \ {p}, q \notin dead PROVE Turns(q)'
  <2>1. Turns(q)
    BY <1>1, <1>4, Zenon DEF Session
  <2>2. Unread(q)' <=> Unread(q)
    BY <1>1, <1>2, <1>3, <1>4 DEF Unread, Message
  <2>3. QED
    BY <1>1, <1>2, <1>4, <2>1, <2>2, Zenon DEF Turns
<1>5. ASSUME NEW q \in Player \ {p}
      PROVE  (status'[q] \notin Over => InSession(q)') /\ Consents(q)' /\ my_hash'[q] <= last_hash'
  <2>1. (status[q] \notin Over => InSession(q)) /\ Consents(q) /\ my_hash[q] <= last_hash
    BY <1>1, <1>5, Zenon DEF Session
  <2>2. Lists(q)' = Lists(q)
    BY <1>2, <1>5 DEF Lists
  <2>3. InSession(q)' <=> InSession(q)
    BY <1>1, <1>2, <1>5, <2>2 DEF InSession
  <2>4. Consents(q)' <=> Consents(q)
    BY <1>2, <1>5 DEF Consents
  <2>5. QED
    BY <1>1, <1>2, <1>5, <2>1, <2>3, <2>4, Zenon
<1>6. Session'
  <2>1. \A q \in Player \ dead' : Turns(q)'
    BY <1>1, <1>4, Zenon
  <2>2. \A q \in Player : (status'[q] \notin Over => InSession(q)') /\ Consents(q)' /\ my_hash'[q] <= last_hash'
    BY <1>1, <1>5, Zenon
  <2>3. /\ last_hash' <= round' /\ (stage' \in {"commitments", "components"} => last_hash' < round')
        /\ fails' \subseteq dead'
    BY <1>1, Zenon DEF Session
  <2>4. QED
    BY <2>1, <2>2, <2>3, Zenon DEF Session
<1>7. ASSUME NEW tx, tx[1] = last_hash, agreed[p] = tx, tx # <<>> PROVE agreed'[p] = agreed[p]
  <2>1. my_hash[p] \in Nat /\ last_hash \in Nat
    BY <1>1, HashTyped
  <2>2. agreed[p][1] <= my_hash[p]
    BY <1>1, <1>7, Zenon DEF Session, Consents
  <2>3. ~(my_hash[p] < last_hash)
    BY <1>7, <2>1, <2>2
  <2>4. QED
    BY <2>3
<1>8. Signing'
  <2>1. ASSUME stage' = "signatures", NEW q \in signatures' PROVE agreed'[q] = Tx'
    <3>1. Tx' = Tx /\ Tx[1] = last_hash /\ Tx # <<>>
      BY <1>1 DEF Tx
    <3>2. agreed[q] = Tx /\ q \in Player
      BY <1>1, <2>1 DEF Signing, TypeOK
    <3>3. CASE q = p
      BY <1>7, <3>1, <3>2, <3>3, Zenon
    <3>4. CASE q # p
      BY <1>2, <3>1, <3>2, <3>4, Zenon
    <3>5. QED
      BY <3>3, <3>4
  <2>2. ASSUME NEW tx \in broadcast', NEW q \in Player, <<q, "in">> \in tx[2]
        PROVE  agreed'[q] = tx /\ Mine(q) \subseteq tx[2]
    <3>1. agreed[q] = tx /\ Mine(q) \subseteq tx[2] /\ tx[1] = last_hash
      BY <1>1, <2>2, Zenon DEF Signing, SignedByAll
    <3>2. tx # <<>>
      <4>1. tx \in Transaction
        BY <1>1, <2>2, Zenon DEF TypeOK
      <4>2. PICK h \in 0..MaxRound, c \in SUBSET Component : tx = <<h, c>>
        BY <4>1 DEF Transaction
      <4>3. QED
        BY <4>2
    <3>3. CASE q = p
      BY <1>7, <3>1, <3>2, <3>3, Zenon
    <3>4. CASE q # p
      BY <1>2, <3>1, <3>4, Zenon
    <3>5. QED
      BY <3>3, <3>4
  <2>3. (broadcast' # {} => stage' = "ended") /\ \A tx \in broadcast' : tx[1] = last_hash'
    BY <1>1, Zenon DEF Signing
  <2>4. QED
    BY <2>1, <2>2, <2>3, Zenon DEF Signing, SignedByAll
<1>9. QED
  BY <1>6, <1>8

\* The answers to a last message, in the phase that waits for them.
Answers(p, m) ==
    /\ Tail(inbox[p]) = <<>>
    /\ \/ m = "playercommit" /\ stage = "commitments"
       \/ m = "myproofslist" /\ stage = "proofs"
       \/ m = "blames" /\ stage = "blames"

\* A client that reads a message, and answers the last one of its phase, keeps
\* to its turn.
LEMMA ReadTurns ==
    ASSUME TypeOK, NEW p \in Player, Turns(p), inbox[p] # <<>>, inbox'[p] = Tail(inbox[p]),
           UNCHANGED serverVars, outbox'[p] = outbox[p] \/ Answers(p, outbox'[p])
    PROVE  Turns(p)'
<1>1. UNCHANGED <<stage, round, clients, results, components, signatures, last_hash>>
  BY DEF serverVars, collectorVars
<1>2. Unread(p)'
  BY <1>1, TailUnread
<1>3. ~(p \in results /\ stage \in {"commitments", "proofs", "blames"})
  BY Zenon DEF Turns
<1>4. CASE outbox'[p] = outbox[p]
  <2>1. /\ outbox[p] # "playercommit" /\ outbox[p] # "myproofslist"
        /\ outbox[p] = "blames" => stage \in {"begin", "commitments"}
    BY DEF Turns
  <2>2. QED
    BY <1>1, <1>2, <1>3, <1>4, <2>1 DEF Turns
<1>5. CASE Answers(p, outbox'[p])
  <2>1. inbox'[p] = <<>>
    BY <1>5 DEF Answers
  <2>2. QED
    BY <1>1, <1>2, <1>3, <1>5, <2>1 DEF Turns, Answers
<1>6. QED
  BY <1>4, <1>5

\* A step of a player that reads a message.
Reads(p) ==
    /\ inbox[p] # <<>> /\ status[p] \notin Over /\ Read(p)
    /\ Alone(p)
    /\ p \notin dead => outbox'[p] = outbox[p] \/ Answers(p, outbox'[p])

\* If it is not a list, and nothing is signed, the invariant holds on.
LEMMA ReadKeeps ==
    ASSUME RoundsInv, NEW p \in Player, Reads(p), Msg(p).kind # "sharecovertcomponents",
           my_hash'[p] = my_hash[p], agreed'[p] = agreed[p]
    PROVE  Session' /\ Signing'
<1>1. TypeOK /\ Session /\ inbox[p] # <<>> /\ Alone(p) /\ Read(p) /\ status[p] \notin Over
  BY DEF RoundsInv, Reads
<1>2. inbox'[p] = Tail(inbox[p]) /\ UNCHANGED serverVars /\ UNCHANGED <<last_hash, dead>>
  BY <1>1, ReadTyped DEF Alone, serverVars
<1>3. (p \notin dead => Turns(p)) /\ InSession(p) /\ Consents(p) /\ my_hash[p] <= last_hash
  BY <1>1, Zenon DEF Session
<1>4. p \notin dead => Turns(p)'
  BY <1>1, <1>2, <1>3, ReadTurns, Zenon DEF Reads
<1>5. InSession(p)'
  BY <1>1, <1>2, <1>3, ReadOther
<1>6. Consents(p)'
  BY <1>3 DEF Consents
<1>7. QED
  BY <1>1, <1>3, <1>4, <1>5, <1>6, AloneKeeps, Zenon

\* Reading the list, the player signs or not.
LEMMA ListKeeps ==
    ASSUME RoundsInv, NEW p \in Player, Reads(p), Msg(p).kind = "sharecovertcomponents",
           my_hash'[p] = my_hash[p] + 1,
           \/ agreed'[p] = agreed[p]
           \/ agreed'[p] = <<my_hash[p] + 1, Msg(p).list>> /\ Mine(p) \subseteq Msg(p).list
    PROVE  Session' /\ Signing' /\ my_hash'[p] \in 1..MaxRound
<1>1. TypeOK /\ Session /\ inbox[p] # <<>> /\ Alone(p) /\ Read(p) /\ status[p] \notin Over
  BY DEF RoundsInv, Reads
<1>2. inbox'[p] = Tail(inbox[p]) /\ UNCHANGED serverVars /\ UNCHANGED <<last_hash, dead>>
  BY <1>1, ReadTyped DEF Alone, serverVars
<1>3. (p \notin dead => Turns(p)) /\ InSession(p) /\ Consents(p)
  BY <1>1, Zenon DEF Session
<1>4. p \notin dead => Turns(p)'
  BY <1>1, <1>2, <1>3, ReadTurns, Zenon DEF Reads
<1>5. InSession(p)' /\ Msg(p).hash = my_hash[p] + 1 /\ Msg(p).hash <= last_hash
  BY <1>1, <1>2, <1>3, ReadList
<1>6. my_hash[p] \in Nat /\ last_hash \in Nat /\ MaxRound \in Nat /\ last_hash <= MaxRound
  <2>1. last_hash <= round
    BY <1>1, Zenon DEF Session
  <2>2. QED
    BY <1>1, <2>1, HashTyped
<1>7. my_hash[p] < last_hash /\ my_hash'[p] <= last_hash /\ my_hash'[p] \in 1..MaxRound
  BY <1>5, <1>6
<1>8. Consents(p)'
  <2>1. CASE agreed'[p] = agreed[p]
    <3>1. ASSUME agreed[p] # <<>> PROVE agreed[p][1] <= my_hash'[p]
      <4>1. agreed[p][1] \in Nat
        <5>1. agreed[p] \in Transaction
          BY <1>1, <3>1 DEF TypeOK
        <5>2. QED
          BY <1>6, <5>1 DEF Transaction
      <4>2. agreed[p][1] <= my_hash[p]
        BY <1>3, <3>1 DEF Consents
      <4>3. QED
        BY <1>6, <4>1, <4>2
    <3>2. QED
      BY <1>3, <2>1, <3>1 DEF Consents
  <2>2. CASE agreed'[p] = <<my_hash[p] + 1, Msg(p).list>> /\ Mine(p) \subseteq Msg(p).list
    <3>1. agreed'[p][1] = my_hash'[p] /\ agreed'[p][2] = Msg(p).list
      BY <2>2
    <3>2. my_hash'[p] <= my_hash'[p]
      BY <1>7
    <3>3. QED
      BY <2>2, <3>1, <3>2, Zenon DEF Consents
  <2>3. QED
    BY <2>1, <2>2
<1>9. QED
  BY <1>1, <1>4, <1>5, <1>7, <1>8, AloneKeeps, Zenon

\* The player's own variables, one by one.
LEMMA PlayerTyped ==
    ASSUME TypeOK
    PROVE  /\ outbox \in [Player -> PlayerMessage] /\ status \in [Player -> Status]
           /\ inbox \in [Player -> Seq(ServerMessage)] /\ \A q \in Player : Len(inbox[q]) <= 3
           /\ round_pubkey \in [Player -> 0..MaxRound] /\ my_hash \in [Player -> 0..MaxRound]
           /\ sent \in [Player -> SUBSET Kind] /\ agreed \in [Player -> Transaction \cup {<<>>}]
           /\ spent \subseteq Player /\ faults \in 0..MaxFaults
  BY Zenon DEF TypeOK

\* startround.
LEMMA CommitKeeps ==
    ASSUME RoundsInv, NEW p \in Player, Commit(p)
    PROVE  RoundsInv'
<1>1. /\ TypeOK /\ Session /\ inbox[p] # <<>> /\ Msg(p).kind = "startround" /\ status[p] \notin Over
      /\ Read(p) /\ UNCHANGED <<serverVars, my_hash, agreed, spent, faults>>
      /\ outbox' = [outbox EXCEPT ![p] = "playercommit"] /\ status' = [status EXCEPT ![p] = "blindsig"]
      /\ round_pubkey' = [round_pubkey EXCEPT ![p] = Msg(p).round_pubkey] /\ sent' = [sent EXCEPT ![p] = {}]
  BY Zenon DEF RoundsInv, Commit, Gets, Msg, Says, Becomes
<1>2. /\ outbox' \in [Player -> PlayerMessage] /\ status' \in [Player -> Status]
      /\ sent' \in [Player -> SUBSET Kind]
      /\ outbox'[p] = "playercommit"
      /\ \A q \in Player \ {p} : outbox'[q] = outbox[q] /\ status'[q] = status[q]
  BY <1>1, PlayerTyped DEF PlayerMessage, Status
<1>3. round_pubkey' \in [Player -> 0..MaxRound]
  <2>1. Msg(p) \in ServerMessage
    BY <1>1, ReadFacts
  <2>2. Msg(p).round_pubkey \in 1..MaxRound
    BY <1>1, <2>1 DEF ServerMessage
  <2>3. QED
    BY <1>1, <2>2, PlayerTyped
<1>4. TypeOK'
  BY <1>1, <1>2, <1>3, ReadTyped, PlayerTyped, PlayerTypes, Zenon
<1>5. Reads(p)
  <2>1. Alone(p)
    BY <1>1, <1>2, ReadTyped, ZenonT(60) DEF Alone
  <2>2. p \notin dead => Answers(p, outbox'[p])
    <3>1. p \notin dead => Turns(p)
      BY <1>1, Zenon DEF Session
    <3>2. QED
      BY <1>1, <1>2, <3>1, HeadFacts, Zenon DEF Answers
  <2>3. QED
    BY <1>1, <2>1, <2>2, Zenon DEF Reads
<1>6. Session' /\ Signing'
  BY <1>1, <1>5, ReadKeeps
<1>7. QED
  BY <1>4, <1>6 DEF RoundsInv

\* blindsigresponses and restartround: no answer.
LEMMA SilentKeeps ==
    ASSUME RoundsInv, NEW p \in Player, StartComponents(p) \/ Restart(p)
    PROVE  RoundsInv'
<1>1. /\ TypeOK /\ Session /\ inbox[p] # <<>> /\ status[p] \notin Over
      /\ Msg(p).kind \in {"blindsigresponses", "restartround"}
      /\ Read(p) /\ UNCHANGED <<serverVars, outbox, round_pubkey, my_hash, sent, agreed, spent, faults>>
  BY Zenon DEF RoundsInv, StartComponents, Restart, Gets, Msg
<1>2. PICK s \in Status : status' = [status EXCEPT ![p] = s]
  BY DEF StartComponents, Restart, Becomes, Status
<1>3. status' \in [Player -> Status] /\ \A q \in Player \ {p} : status'[q] = status[q]
  BY <1>1, <1>2, PlayerTyped
<1>4. TypeOK'
  BY <1>1, <1>3, ReadTyped, PlayerTyped, PlayerTypes, Zenon
<1>5. Reads(p)
  BY <1>1, <1>3, ReadTyped, Zenon DEF Alone, Reads
<1>6. Msg(p).kind # "sharecovertcomponents"
  BY <1>1
<1>7. Session' /\ Signing'
  BY <1>1, <1>5, <1>6, ReadKeeps
<1>8. QED
  BY <1>4, <1>7 DEF RoundsInv

\* fusionresult and theirproofslist.
LEMMA AnswerKeeps ==
    ASSUME RoundsInv, NEW p \in Player, Result(p) \/ Blame(p)
    PROVE  RoundsInv'
<1>1. /\ TypeOK /\ Session /\ inbox[p] # <<>> /\ status[p] \notin Over
      /\ Msg(p).kind \in {"fusionresult", "theirproofslist"}
      /\ Read(p) /\ UNCHANGED <<serverVars, round_pubkey, my_hash, sent, agreed, spent, faults>>
  BY Zenon DEF RoundsInv, Result, Blame, Gets, Msg
<1>2. PICK s \in Status : status' = [status EXCEPT ![p] = s]
  BY DEF Result, Blame, Becomes, Status
<1>3. \/ UNCHANGED outbox
      \/ Msg(p).kind = "fusionresult" /\ outbox' = [outbox EXCEPT ![p] = "myproofslist"]
      \/ Msg(p).kind = "theirproofslist" /\ outbox' = [outbox EXCEPT ![p] = "blames"]
  BY Zenon DEF Result, Blame, Gets, Says, Msg
<1>4. status' \in [Player -> Status] /\ \A q \in Player \ {p} : status'[q] = status[q]
  BY <1>1, <1>2, PlayerTyped
<1>5. /\ outbox' \in [Player -> PlayerMessage] /\ \A q \in Player \ {p} : outbox'[q] = outbox[q]
      /\ \/ outbox'[p] = outbox[p]
         \/ Msg(p).kind = "fusionresult" /\ outbox'[p] = "myproofslist"
         \/ Msg(p).kind = "theirproofslist" /\ outbox'[p] = "blames"
  BY <1>1, <1>3, PlayerTyped DEF PlayerMessage
<1>6. TypeOK'
  BY <1>1, <1>4, <1>5, ReadTyped, PlayerTyped, PlayerTypes, Zenon
<1>7. Reads(p)
  <2>1. Alone(p)
    BY <1>1, <1>4, <1>5, ReadTyped, Zenon DEF Alone
  <2>2. ASSUME p \notin dead PROVE outbox'[p] = outbox[p] \/ Answers(p, outbox'[p])
    <3>1. Turns(p)
      BY <1>1, <2>2, Zenon DEF Session
    <3>2. QED
      BY <1>1, <1>5, <3>1, HeadFacts, Zenon DEF Answers
  <2>3. QED
    BY <1>1, <2>1, <2>2, Zenon DEF Reads
<1>8. Msg(p).kind # "sharecovertcomponents"
  BY <1>1
<1>9. Session' /\ Signing'
  BY <1>1, <1>7, <1>8, ReadKeeps
<1>10. QED
  BY <1>6, <1>9 DEF RoundsInv

\* A client nobody writes to and that answers nothing keeps its turn.
LEMMA StayTurns ==
    ASSUME NEW p \in Player, Turns(p), UNCHANGED <<serverVars, inbox, outbox>>
    PROVE  Turns(p)'
<1>1. UNCHANGED <<stage, round, clients, results, components, signatures, last_hash, inbox, outbox>>
  BY DEF serverVars, collectorVars
<1>2. Startround' = Startround /\ Refusal' = Refusal /\ \A b \in BOOLEAN : Shared(b)' = Shared(b)
  BY <1>1 DEF Startround, Refusal, Shared, Unsigned
<1>3. Unread(p)'
  BY <1>1, <1>2 DEF Turns, Unread, Message
<1>4. QED
  BY <1>1, <1>3, Zenon DEF Turns

\* Coins spent elsewhere are no part of the invariant.
LEMMA SpendKeeps ==
    ASSUME Session, Signing,
           UNCHANGED <<serverVars, inbox, outbox, status, my_hash, agreed>>
    PROVE  Session' /\ Signing'
<1>1. UNCHANGED <<stage, round, clients, dead, results, fails, components, signatures, last_hash, broadcast,
                  inbox, outbox, status, my_hash, agreed>>
  BY DEF serverVars, collectorVars
<1>2. \A p \in Player \ dead' : Turns(p)'
  BY <1>1, StayTurns DEF Session
<1>3. \A p \in Player : (status'[p] \notin Over => InSession(p)') /\ Consents(p)' /\ my_hash'[p] <= last_hash'
  BY <1>1 DEF Session, InSession, Consents, Lists
<1>4. Session'
  BY <1>1, <1>2, <1>3, Zenon DEF Session
<1>5. Signing'
  BY <1>1 DEF Signing, SignedByAll, Tx
<1>6. QED
  BY <1>4, <1>5

\* sharecovertcomponents: the player skips, signs or leaves.
LEMMA ShareKeeps ==
    ASSUME RoundsInv, NEW p \in Player, Share(p)
    PROVE  RoundsInv'
<1>1. /\ TypeOK /\ Session /\ inbox[p] # <<>> /\ status[p] \notin Over
      /\ Msg(p).kind = "sharecovertcomponents" /\ Read(p) /\ sent' = [sent EXCEPT ![p] = {}]
      /\ UNCHANGED <<serverVars, round_pubkey, spent, faults>>
  BY Zenon DEF RoundsInv, Share, Gets, Msg
<1>2. sent' \in [Player -> SUBSET Kind] /\ my_hash \in [Player -> 0..MaxRound]
      /\ agreed \in [Player -> Transaction \cup {<<>>}] /\ outbox \in [Player -> PlayerMessage]
      /\ status \in [Player -> Status] /\ round_pubkey \in [Player -> 0..MaxRound]
      /\ spent \subseteq Player /\ faults \in 0..MaxFaults
  BY <1>1, PlayerTyped
<1>3. PICK s \in Status : status' = [status EXCEPT ![p] = s]
  BY DEF Share, Becomes, Status
<1>4. status' \in [Player -> Status] /\ \A q \in Player \ {p} : status'[q] = status[q]
  BY <1>2, <1>3
<1>5. inbox' \in [Player -> Seq(ServerMessage)] /\ (\A q \in Player : Len(inbox'[q]) <= 3)
      /\ inbox'[p] = Tail(inbox[p]) /\ \A q \in Player : q # p => inbox'[q] = inbox[q]
  BY <1>1, ReadTyped
<1>6. CASE content(p, Msg(p).list) /\ (Msg(p).skip \/ hashed(p, Msg(p)) = Msg(p).hash)
  <2>1. /\ my_hash' = [my_hash EXCEPT ![p] = my_hash[p] + 1]
        /\ \/ Msg(p).skip /\ outbox' = [outbox EXCEPT ![p] = "myproofslist"] /\ UNCHANGED agreed
           \/ UNCHANGED outbox /\ agreed' = [agreed EXCEPT ![p] = <<my_hash[p] + 1, Msg(p).list>>]
    BY <1>6, Zenon DEF Share, hashed, Says
  <2>2. /\ my_hash'[p] = my_hash[p] + 1 /\ \A q \in Player \ {p} : my_hash'[q] = my_hash[q]
        /\ \A q \in Player \ {p} : outbox'[q] = outbox[q] /\ agreed'[q] = agreed[q]
        /\ agreed'[p] = agreed[p] \/ agreed'[p] = <<my_hash[p] + 1, Msg(p).list>>
        /\ outbox'[p] = outbox[p] \/ (Msg(p).skip /\ outbox'[p] = "myproofslist")
        /\ outbox' \in [Player -> PlayerMessage]
    BY <1>2, <2>1 DEF PlayerMessage
  <2>3. Mine(p) \subseteq Msg(p).list
    BY <1>6, Zenon DEF content
  <2>4. Reads(p)
    <3>1. Alone(p)
      BY <1>1, <1>4, <1>5, <2>2, Zenon DEF Alone
    <3>2. ASSUME p \notin dead PROVE outbox'[p] = outbox[p] \/ Answers(p, outbox'[p])
      <4>1. Turns(p)
        BY <1>1, <3>2, Zenon DEF Session
      <4>2. QED
        BY <1>1, <2>2, <4>1, HeadFacts, Zenon DEF Answers
    <3>3. QED
      BY <1>1, <3>1, <3>2, Zenon DEF Reads
  <2>5. Session' /\ Signing' /\ my_hash'[p] \in 1..MaxRound
    BY <1>1, <2>2, <2>3, <2>4, ListKeeps
  <2>6. my_hash[p] + 1 \in 0..MaxRound /\ my_hash' \in [Player -> 0..MaxRound]
    BY <1>2, <2>1, <2>2, <2>5
  <2>7. agreed' \in [Player -> Transaction \cup {<<>>}]
    <3>1. Msg(p) \in ServerMessage
      BY <1>1, ReadFacts
    <3>2. Msg(p).list \in SUBSET Component
      BY <1>1, <3>1 DEF ServerMessage
    <3>3. <<my_hash[p] + 1, Msg(p).list>> \in Transaction
      BY <2>6, <3>2 DEF Transaction
    <3>4. QED
      BY <1>2, <2>1, <3>3
  <2>8. TypeOK'
    BY <1>1, <1>2, <1>4, <1>5, <2>2, <2>6, <2>7, PlayerTypes, Zenon
  <2>9. QED
    BY <2>5, <2>8 DEF RoundsInv
<1>7. CASE ~(content(p, Msg(p).list) /\ (Msg(p).skip \/ hashed(p, Msg(p)) = Msg(p).hash))
  <2>1. status' = [status EXCEPT ![p] = "failed"] /\ UNCHANGED <<outbox, my_hash, agreed>>
    BY <1>7, Zenon DEF Share, Becomes
  <2>2. status'[p] \in Over
    BY <1>2, <2>1 DEF Over
  <2>3. TypeOK'
    BY <1>1, <1>2, <1>4, <1>5, <2>1, PlayerTypes, Zenon
  <2>4. Alone(p)
    BY <1>1, <1>4, <1>5, <2>1, Zenon DEF Alone
  <2>5. (p \notin dead => Turns(p)) /\ Consents(p) /\ my_hash[p] <= last_hash
    BY <1>1, Zenon DEF Session
  <2>6. p \notin dead => Turns(p)'
    BY <1>1, <1>5, <2>1, <2>5, ReadTurns, Zenon
  <2>7. Consents(p)'
    BY <2>1, <2>5 DEF Consents
  <2>8. Session' /\ Signing'
    BY <2>1, <2>2, <2>4, <2>5, <2>6, <2>7, AloneKeeps, Zenon
  <2>9. QED
    BY <2>3, <2>8 DEF RoundsInv
<1>8. QED
  BY <1>6, <1>7

\* A fault stays within the bound.
LEMMA FaultTyped ==
    ASSUME TypeOK, Fault \/ UNCHANGED faults
    PROVE  faults' \in 0..MaxFaults
<1>1. faults \in 0..MaxFaults /\ MaxFaults \in Nat
  BY PlayerTyped, RoundsAssumption
<1>2. QED
  BY <1>1 DEF Fault

\* The player leaves, or a coin of its is spent elsewhere.
LEMMA LeaveKeeps ==
    ASSUME RoundsInv, NEW p \in Player, Finish(p) \/ Quit(p) \/ Dismissed(p) \/ SpendElsewhere(p)
    PROVE  RoundsInv'
<1>1. /\ TypeOK /\ Session
      /\ UNCHANGED <<serverVars, inbox, outbox, round_pubkey, my_hash, sent, agreed>>
      /\ Fault \/ UNCHANGED faults
  BY Zenon DEF RoundsInv, Finish, Quit, Dismissed, SpendElsewhere, playerVars
<1>2. faults' \in 0..MaxFaults
  BY <1>1, FaultTyped
<1>3. CASE SpendElsewhere(p)
  <2>1. UNCHANGED status /\ spent' \subseteq Player
    BY <1>1, <1>3, PlayerTyped DEF SpendElsewhere, playerVars
  <2>2. TypeOK'
    BY <1>1, <1>2, <2>1, PlayerTyped, PlayerTypes, Zenon
  <2>3. Session' /\ Signing'
    BY <1>1, <2>1, SpendKeeps DEF RoundsInv
  <2>4. QED
    BY <2>2, <2>3 DEF RoundsInv
<1>4. CASE ~SpendElsewhere(p)
  <2>1. PICK s \in Over : status' = [status EXCEPT ![p] = s] /\ UNCHANGED spent
    BY <1>4 DEF Finish, Quit, Dismissed, Becomes, Over
  <2>2. /\ status' \in [Player -> Status] /\ status'[p] \in Over
        /\ \A q \in Player \ {p} : status'[q] = status[q]
    BY <1>1, <2>1, PlayerTyped DEF Over, Status
  <2>3. TypeOK'
    BY <1>1, <1>2, <2>1, <2>2, PlayerTyped, PlayerTypes, Zenon
  <2>4. Alone(p)
    BY <1>1, <2>1, <2>2, Zenon DEF Alone
  <2>5. (p \notin dead => Turns(p)) /\ Consents(p) /\ my_hash[p] <= last_hash
    BY <1>1, Zenon DEF Session
  <2>6. p \notin dead => Turns(p)'
    BY <1>1, <2>5, StayTurns
  <2>7. Consents(p)'
    BY <1>1, <2>5 DEF Consents
  <2>8. Session' /\ Signing'
    BY <1>1, <2>2, <2>4, <2>5, <2>6, <2>7, AloneKeeps, Zenon
  <2>9. QED
    BY <2>3, <2>8 DEF RoundsInv
<1>5. QED
  BY <1>3, <1>4

\* Covert submissions: components while no list is out, signatures of what the
\* player agreed to while no refusal is.
LEMMA SubmitKeeps ==
    ASSUME Session, Signing,
           UNCHANGED <<stage, round, clients, dead, results, fails, last_hash, broadcast, inbox, outbox, status,
                       my_hash, agreed>>,
           \/ stage = "components"
           \/ /\ stage = "signatures" /\ UNCHANGED components
              /\ \A q \in signatures' : q \in signatures \/ agreed[q] = Tx
    PROVE  Session' /\ Signing'
<1>1. ASSUME NEW p \in Player \ dead' PROVE Turns(p)'
  <2>1. Turns(p)
    BY <1>1, Zenon DEF Session
  <2>2. Unread(p)'
    <3>1. CASE stage = "components"
      BY <2>1, <3>1 DEF Turns, Unread, Message
    <3>2. CASE stage = "signatures" /\ UNCHANGED components
      <4>1. Shared(FALSE)' = Shared(FALSE)
        BY <3>2 DEF Shared
      <4>2. QED
        BY <2>1, <3>2, <4>1 DEF Turns, Unread, Message
    <3>3. QED
      BY <3>1, <3>2
  <2>3. QED
    BY <2>1, <2>2, Zenon DEF Turns
<1>2. \A p \in Player : (status'[p] \notin Over => InSession(p)') /\ Consents(p)' /\ my_hash'[p] <= last_hash'
  BY DEF Session, InSession, Consents, Lists
<1>3. Session'
  BY <1>1, <1>2, Zenon DEF Session
<1>4. ASSUME stage' = "signatures", NEW q \in signatures' PROVE agreed'[q] = Tx'
  BY <1>4 DEF Signing, Tx
<1>5. Signing'
  BY <1>4, Zenon DEF Signing, SignedByAll
<1>6. QED
  BY <1>3, <1>5

\* A component arrives.
LEMMA ComponentKeeps ==
    ASSUME RoundsInv, NEW p \in Player, NEW k \in Kind, SubmitComponent(p, k) \/ SubmitUnacknowledged(p, k)
    PROVE  RoundsInv'
<1>1. /\ TypeOK /\ Session /\ Signing /\ stage = "components" /\ components' = components \cup {<<p, k>>}
      /\ Fault \/ UNCHANGED faults
      /\ UNCHANGED <<stage, round, clients, dead, collectorVars, signatures, last_hash, relayed, broadcast, inbox,
                     outbox, status, round_pubkey, my_hash, agreed, spent>>
  BY Zenon DEF RoundsInv, SubmitComponent, SubmitUnacknowledged, Submits, playerVars
<1>2. UNCHANGED <<results, fails, expected, open, recorded>>
  BY <1>1 DEF collectorVars
<1>3. sent' \in [Player -> SUBSET Kind]
  <2>1. UNCHANGED sent \/ sent' = [sent EXCEPT ![p] = @ \cup {k}]
    BY Zenon DEF SubmitComponent, SubmitUnacknowledged, playerVars
  <2>2. sent \in [Player -> SUBSET Kind]
    BY <1>1, PlayerTyped
  <2>3. QED
    BY <2>1, <2>2
<1>4. components' \subseteq Component
  <2>1. components \subseteq Component
    BY <1>1, Zenon DEF TypeOK
  <2>2. QED
    BY <1>1, <2>1 DEF Component
<1>5. faults' \in 0..MaxFaults
  BY <1>1, FaultTyped
<1>6. TypeOK'
  BY <1>1, <1>2, <1>3, <1>4, <1>5, Zenon DEF TypeOK
<1>7. Session' /\ Signing'
  BY <1>1, <1>2, SubmitKeeps
<1>8. QED
  BY <1>6, <1>7 DEF RoundsInv

\* A signature arrives, and is one of this transaction.
LEMMA SignatureKeeps ==
    ASSUME RoundsInv, NEW p \in Player, SubmitSignature(p)
    PROVE  RoundsInv'
<1>1. /\ TypeOK /\ Session /\ Signing /\ stage = "signatures" /\ signatures' = signatures \cup {p}
      /\ agreed[p] = Tx /\ sent' = [sent EXCEPT ![p] = {"in"}]
      /\ UNCHANGED <<stage, round, clients, dead, collectorVars, components, last_hash, relayed, broadcast, inbox,
                     outbox, status, round_pubkey, my_hash, agreed, spent, faults>>
  BY Zenon DEF RoundsInv, SubmitSignature
<1>2. UNCHANGED <<results, fails, expected, open, recorded>>
  BY <1>1 DEF collectorVars
<1>3. sent' \in [Player -> SUBSET Kind]
  BY <1>1, PlayerTyped DEF Kind
<1>4. signatures' \subseteq Player
  <2>1. signatures \subseteq Player
    BY <1>1, Zenon DEF TypeOK
  <2>2. QED
    BY <1>1, <2>1
<1>5. TypeOK'
  BY <1>1, <1>2, <1>3, <1>4, Zenon DEF TypeOK
<1>6. Session' /\ Signing'
  BY <1>1, <1>2, SubmitKeeps
<1>7. QED
  BY <1>5, <1>6 DEF RoundsInv

-----------------------------------------------------------------------------
\* A step of the server's threads: clients may die, and those that deliver have
\* had their message read.
ThreadActs ==
    /\ UNCHANGED <<stage, round, clients, expected, open, components, signatures, last_hash, relayed, broadcast,
                   inbox, playerVars, spent>>
    /\ Fault \/ UNCHANGED faults
    /\ dead \subseteq dead' /\ dead' \subseteq Player /\ fails' \subseteq dead'
    /\ results' \subseteq Player /\ fails' \cap results' = {} /\ recorded' \subseteq Player
    /\ outbox' \in [Player -> PlayerMessage]
    /\ \A q \in Player : outbox'[q] = outbox[q] \/ outbox'[q] = ""
    /\ \A q \in Player \ dead : q \in results' \ results =>
          outbox'[q] = "" /\ outbox[q] \in {"playercommit", "myproofslist", "blames"} /\ stage # "begin"
          /\ (stage = "commitments" => outbox[q] # "blames")

\* The invariant does not mind.
LEMMA ThreadKeeps ==
    ASSUME RoundsInv, ThreadActs
    PROVE  RoundsInv'
<1>1. /\ TypeOK /\ Session /\ Signing
      /\ UNCHANGED <<stage, round, clients, expected, open, components, signatures, last_hash, relayed, broadcast,
                     inbox, status, round_pubkey, my_hash, sent, agreed, spent>>
  BY Zenon DEF RoundsInv, ThreadActs, playerVars
<1>2. /\ dead \subseteq dead' /\ dead' \subseteq Player /\ fails' \subseteq dead'
      /\ results' \subseteq Player /\ fails' \cap results' = {} /\ recorded' \subseteq Player
      /\ outbox' \in [Player -> PlayerMessage]
  BY Zenon DEF ThreadActs
<1>3. faults' \in 0..MaxFaults
  BY <1>1, FaultTyped DEF ThreadActs
<1>4. fails' \subseteq Player \ results'
  BY <1>2
<1>5. TypeOK'
  BY <1>1, <1>2, <1>3, <1>4, Zenon DEF TypeOK
<1>6. Startround' = Startround /\ Refusal' = Refusal /\ \A b \in BOOLEAN : Shared(b)' = Shared(b)
  BY <1>1 DEF Startround, Refusal, Shared, Unsigned
<1>7. ASSUME NEW q \in Player \ dead' PROVE Turns(q)'
  <2>1. Turns(q) /\ q \notin dead
    BY <1>1, <1>2, <1>7 DEF Session
  <2>2. Unread(q)'
    BY <1>1, <1>6, <2>1 DEF Turns, Unread, Message
  <2>3. /\ outbox'[q] = outbox[q] \/ outbox'[q] = ""
        /\ q \in results' \ results =>
             outbox'[q] = "" /\ outbox[q] \in {"playercommit", "myproofslist", "blames"} /\ stage # "begin"
             /\ (stage = "commitments" => outbox[q] # "blames")
    BY <1>7, <2>1, Zenon DEF ThreadActs
  <2>4. q \in results' \ results => inbox[q] = <<>>
    BY <2>1, <2>3 DEF Turns
  <2>5. q \in results' /\ stage \in {"commitments", "proofs", "blames"} => inbox'[q] = <<>> /\ outbox'[q] = ""
    <3>1. CASE q \in results
      BY <1>1, <2>1, <2>3, <3>1 DEF Turns
    <3>2. QED
      BY <1>1, <2>3, <2>4, <3>1
  <2>6. QED
    BY <1>1, <2>1, <2>2, <2>3, <2>5 DEF Turns
<1>8. ASSUME NEW q \in Player
      PROVE  (status'[q] \notin Over => InSession(q)') /\ Consents(q)' /\ my_hash'[q] <= last_hash'
  <2>1. (status[q] \notin Over => InSession(q)) /\ Consents(q) /\ my_hash[q] <= last_hash
    BY <1>1, Zenon DEF Session
  <2>2. InSession(q) => InSession(q)'
    BY <1>1, <1>2 DEF InSession, Lists
  <2>3. QED
    BY <1>1, <2>1, <2>2 DEF Consents
<1>9. Session'
  BY <1>1, <1>2, <1>7, <1>8, Zenon DEF Session
<1>10. Signing'
  BY <1>1 DEF Signing, SignedByAll, Tx
<1>11. QED
  BY <1>5, <1>9, <1>10 DEF RoundsInv

\* The sets of the collector, one by one.
LEMMA CollectorTyped ==
    ASSUME RoundsInv
    PROVE  /\ dead \subseteq Player /\ results \subseteq Player /\ recorded \subseteq Player /\ clients \subseteq Player
           /\ fails \subseteq dead /\ fails \cap results = {} /\ spent \subseteq Player
           /\ outbox \in [Player -> PlayerMessage] /\ \A q \in Player \ dead : q \in clients
<1>1. /\ dead \subseteq Player /\ results \subseteq Player /\ recorded \subseteq Player /\ clients \subseteq Player
      /\ fails \subseteq Player \ results /\ fails \subseteq dead /\ spent \subseteq Player
      /\ outbox \in [Player -> PlayerMessage] /\ \A q \in Player \ dead : q \in clients
  BY Zenon DEF RoundsInv, TypeOK, Session, Turns
<1>2. QED
  BY <1>1

\* collector.add.
LEMMA Delivers ==
    ASSUME RoundsInv, NEW p \in Player, NEW m \in {"playercommit", "myproofslist", "blames"}, outbox[p] = m,
           p \notin dead, outbox' = [outbox EXCEPT ![p] = ""],
           results' = results \cup {p} \/ results' = results
    PROVE  /\ outbox' \in [Player -> PlayerMessage] /\ \A q \in Player : outbox'[q] = outbox[q] \/ outbox'[q] = ""
           /\ results' \subseteq Player /\ fails \cap results' = {}
           /\ \A q \in Player : q \in results' \ results => outbox'[q] = "" /\ outbox[q] = m
<1>1. outbox' \in [Player -> PlayerMessage] /\ outbox'[p] = "" /\ \A q \in Player \ {p} : outbox'[q] = outbox[q]
  BY CollectorTyped DEF PlayerMessage
<1>2. results' \subseteq Player /\ fails \cap results' = {}
  BY CollectorTyped
<1>3. QED
  BY <1>1, <1>2

\* The threads receive.
LEMMA ReceiveKeeps ==
    ASSUME RoundsInv, NEW p \in Player, GetCommit(p) \/ GetProofs(p) \/ GetBlames(p)
    PROVE  RoundsInv'
<1>1. /\ UNCHANGED <<stage, round, clients, fails, expected, open, recorded, components, signatures, last_hash, relayed,
                     broadcast, inbox, playerVars, spent>>
      /\ Fault \/ UNCHANGED faults
      /\ p \notin dead /\ outbox' = [outbox EXCEPT ![p] = ""]
      /\ results' = results \cup {p} \/ results' = results
      /\ dead' = dead \/ dead' = dead \cup {q \in spent : relayed[q] = p /\ q # p}
  BY Zenon DEF GetCommit, GetProofs, GetBlames, Deliver
<1>2. PICK m \in {"playercommit", "myproofslist", "blames"} :
        /\ outbox[p] = m
        /\ results' # results => \/ m = "playercommit" /\ stage = "commitments"
                                 \/ m = "myproofslist" /\ stage = "proofs"
                                 \/ m = "blames" /\ stage = "blames"
  BY DEF GetCommit, GetProofs, GetBlames, Deliver
<1>3. dead \subseteq dead' /\ dead' \subseteq Player /\ fails' \subseteq dead' /\ recorded' \subseteq Player
  BY <1>1, CollectorTyped
<1>4. /\ outbox' \in [Player -> PlayerMessage] /\ \A q \in Player : outbox'[q] = outbox[q] \/ outbox'[q] = ""
      /\ results' \subseteq Player /\ fails \cap results' = {}
      /\ \A q \in Player : q \in results' \ results => outbox'[q] = "" /\ outbox[q] = m
  BY <1>1, <1>2, Delivers, Zenon
<1>5. \A q \in Player \ dead : q \in results' \ results =>
          outbox'[q] = "" /\ outbox[q] \in {"playercommit", "myproofslist", "blames"} /\ stage # "begin"
          /\ (stage = "commitments" => outbox[q] # "blames")
  BY <1>2, <1>4
<1>6. ThreadActs
  BY <1>1, <1>3, <1>4, <1>5, Zenon DEF ThreadActs
<1>7. QED
  BY <1>6, ThreadKeeps

\* The threads record and die.
LEMMA DropKeeps ==
    ASSUME RoundsInv, NEW p \in Player, Record(p) \/ ThreadTimeout(p) \/ ThreadFails(p)
    PROVE  RoundsInv'
<1>1. /\ UNCHANGED <<stage, round, clients, results, expected, open, components, signatures, last_hash, relayed,
                     broadcast, inbox, outbox, playerVars, spent>>
      /\ Fault \/ UNCHANGED faults
      /\ recorded' = recorded \/ recorded' = recorded \cup {p}
      /\ \/ dead' = dead /\ fails' = fails
         \/ dead' = dead \cup {p} /\ fails' = failing(p)
  BY Zenon DEF Record, ThreadTimeout, ThreadFails, Drop
<1>2. /\ dead \subseteq dead' /\ dead' \subseteq Player /\ fails' \subseteq dead' /\ results' \subseteq Player
      /\ fails' \cap results' = {} /\ recorded' \subseteq Player
  BY <1>1, CollectorTyped DEF failing
<1>3. outbox' \in [Player -> PlayerMessage]
  BY <1>1, CollectorTyped
<1>4. outbox' = outbox /\ \A q : q \notin results' \ results
  <2>1. outbox' = outbox /\ results' = results
    BY <1>1, Zenon
  <2>2. QED
    BY <2>1, Zenon
<1>5. ThreadActs
  BY <1>1, <1>2, <1>3, <1>4, Zenon DEF ThreadActs
<1>6. QED
  BY <1>5, ThreadKeeps

-----------------------------------------------------------------------------
\* A message put behind the others, and the lists among them.
LEMMA AppendFacts ==
    ASSUME NEW q \in Seq(ServerMessage), Len(q) <= 2, NEW m \in ServerMessage
    PROVE  /\ Append(q, m) \in Seq(ServerMessage) /\ Len(Append(q, m)) <= 3
           /\ DOMAIN q = 1..Len(q) /\ DOMAIN Append(q, m) = 1..(Len(q) + 1) /\ Len(q) \in Nat
           /\ \A i \in 1..Len(q) : Append(q, m)[i] = q[i]
           /\ Append(q, m)[Len(q) + 1] = m
<1>1. /\ Append(q, m) \in Seq(ServerMessage) /\ Len(Append(q, m)) = Len(q) + 1 /\ Len(q) \in Nat
      /\ DOMAIN q = 1..Len(q)
      /\ \A i \in 1..Len(q) : Append(q, m)[i] = q[i]
      /\ Append(q, m)[Len(q) + 1] = m
  BY AppendProperties, LenProperties
<1>2. DOMAIN Append(q, m) = 1..(Len(q) + 1)
  BY <1>1, LenProperties
<1>3. \A n \in Nat : n <= 2 => n + 1 <= 3
  OBVIOUS
<1>4. QED
  BY <1>1, <1>2, <1>3, Zenon

\* sendall reaches the clients that have a thread, and nobody else.
LEMMA PostFacts ==
    ASSUME TypeOK, NEW to, NEW m \in ServerMessage, sendall(to, m), \A p \in to \ dead : Len(inbox[p]) <= 2
    PROVE  /\ inbox' \in [Player -> Seq(ServerMessage)] /\ \A p \in Player : Len(inbox'[p]) <= 3
           /\ \A p \in Player : p \in to \ dead => inbox'[p] = Append(inbox[p], m)
           /\ \A p \in Player : p \notin to \ dead => inbox'[p] = inbox[p]
<1>1. inbox \in [Player -> Seq(ServerMessage)] /\ \A p \in Player : Len(inbox[p]) <= 3
  BY PlayerTyped
<1>2. inbox' = [p \in Player |-> IF p \in to \ dead THEN Append(inbox[p], m) ELSE inbox[p]]
  BY DEF sendall
<1>3. /\ \A p \in Player : p \in to \ dead => inbox'[p] = Append(inbox[p], m)
      /\ \A p \in Player : p \notin to \ dead => inbox'[p] = inbox[p]
  BY <1>2, Zenon
<1>4. \A p \in Player : inbox'[p] \in Seq(ServerMessage) /\ Len(inbox'[p]) <= 3
  <2> SUFFICES ASSUME NEW p \in Player PROVE inbox'[p] \in Seq(ServerMessage) /\ Len(inbox'[p]) <= 3
    OBVIOUS
  <2>1. CASE p \in to \ dead
    BY <1>1, <1>3, <2>1, AppendFacts, SMTT(60)
  <2>2. CASE p \notin to \ dead
    BY <1>1, <1>3, <2>2
  <2>3. QED
    BY <2>1, <2>2
<1>5. inbox' \in [Player -> Seq(ServerMessage)]
  <2>1. inbox' = [p \in Player |-> inbox'[p]]
    BY <1>2
  <2>2. QED
    BY <1>4, <2>1
<1>6. QED
  BY <1>3, <1>4, <1>5

\* Another message than a list leaves the lists alone ...
LEMMA PostOther ==
    ASSUME TypeOK, NEW p \in Player, NEW m \in ServerMessage, m.kind # "sharecovertcomponents",
           \/ inbox'[p] = inbox[p]
           \/ inbox'[p] = Append(inbox[p], m) /\ Len(inbox[p]) <= 2
    PROVE  Lists(p)' = Lists(p) /\ \A i \in Lists(p) : inbox'[p][i] = inbox[p][i]
<1>1. inbox[p] \in Seq(ServerMessage)
  BY PlayerTyped
<1>2. CASE inbox'[p] = inbox[p]
  BY <1>2 DEF Lists
<1>3. CASE inbox'[p] = Append(inbox[p], m) /\ Len(inbox[p]) <= 2
  <2> DEFINE n == Len(inbox[p])
  <2>1. /\ DOMAIN inbox[p] = 1..n /\ DOMAIN inbox'[p] = 1..(n + 1) /\ n \in Nat
        /\ \A i \in 1..n : inbox'[p][i] = inbox[p][i]
        /\ inbox'[p][n + 1] = m
    BY <1>1, <1>3, AppendFacts
  <2>2. \A i : i \in Lists(p)' <=> i \in 1..(n + 1) /\ inbox'[p][i].kind = "sharecovertcomponents"
    BY <2>1 DEF Lists
  <2>3. \A i : i \in Lists(p) <=> i \in 1..n /\ inbox[p][i].kind = "sharecovertcomponents"
    BY <2>1 DEF Lists
  <2> HIDE DEF n
  <2>4. \A i : i \in 1..(n + 1) <=> i \in 1..n \/ i = n + 1
    BY <2>1
  <2>5. \A i : i \in Lists(p)' <=> i \in Lists(p)
    BY <2>1, <2>2, <2>3, <2>4, Zenon
  <2>6. QED
    BY <2>1, <2>3, <2>5
<1>4. QED
  BY <1>2, <1>3

\* ... so that every player stays where it is in the session.
LEMMA PostSession ==
    ASSUME NEW p \in Player, InSession(p), Lists(p)' = Lists(p), \A i \in Lists(p) : inbox'[p][i] = inbox[p][i],
           UNCHANGED <<my_hash, last_hash>>, dead \subseteq dead'
    PROVE  InSession(p)'
  BY DEF InSession

\* The line of a client that has a thread is short.
LEMMA UnreadShort ==
    ASSUME TypeOK, NEW p \in Player, Turns(p), stage # "proofs"
    PROVE  Len(inbox[p]) <= 2
<1> DEFINE restart == Message("restartround")
           blindsig == Message("blindsigresponses")
           theirs == Message("theirproofslist")
           list == Shared(FALSE)
<1>1. inbox[p] \in {<<>>, <<restart>>, <<Startround>>, <<restart, Startround>>, <<blindsig>>, <<list>>,
                    <<blindsig, list>>, <<theirs>>}
  BY DEF Turns, Unread, TypeOK
<1> HIDE DEF restart, blindsig, theirs, list
<1>2. /\ Len(<<>>) <= 2 /\ Len(<<restart>>) <= 2 /\ Len(<<Startround>>) <= 2 /\ Len(<<restart, Startround>>) <= 2
      /\ Len(<<blindsig>>) <= 2 /\ Len(<<list>>) <= 2 /\ Len(<<blindsig, list>>) <= 2 /\ Len(<<theirs>>) <= 2
  OBVIOUS
<1>3. QED
  BY <1>1, <1>2, Zenon

\* A step of the controller to the next phase: what it leaves to show.
LEMMA MoveKeeps ==
    ASSUME RoundsInv, TypeOK', stage # "ended", UNCHANGED <<broadcast, playerVars>>,
           fails' \subseteq dead', last_hash <= last_hash', last_hash' <= round',
           stage' \in {"commitments", "components"} => last_hash' < round',
           \A p \in Player \ dead' : Turns(p)', \A p \in Player : status[p] \notin Over => InSession(p)',
           stage' = "signatures" => signatures' = {}
    PROVE  RoundsInv'
<1>1. TypeOK /\ Session /\ Signing /\ UNCHANGED <<broadcast, status, my_hash, agreed>>
  BY Zenon DEF RoundsInv, playerVars
<1>2. broadcast = {}
  BY <1>1, Zenon DEF Signing
<1>3. ASSUME NEW p \in Player PROVE Consents(p)' /\ my_hash'[p] <= last_hash'
  <2>1. Consents(p) /\ my_hash[p] <= last_hash
    BY <1>1, Zenon DEF Session
  <2>2. last_hash' \in Nat
    <3>1. last_hash' \in 0..MaxRound /\ MaxRound \in Nat
      BY RoundsAssumption, Zenon DEF TypeOK
    <3>2. QED
      BY <3>1
  <2>3. my_hash[p] \in Nat /\ last_hash \in Nat
    BY <1>1, HashTyped
  <2>4. my_hash'[p] <= last_hash'
    BY <1>1, <2>1, <2>2, <2>3
  <2>5. QED
    BY <1>1, <2>1, <2>4 DEF Consents
<1>4. Session'
  BY <1>1, <1>3, Zenon DEF Session
<1>5. Signing'
  BY <1>1, <1>2 DEF Signing, SignedByAll
<1>6. QED
  BY <1>4, <1>5 DEF RoundsInv

\* A collector waits for no more clients than there are players.
LEMMA FewClients ==
    ASSUME NEW cs, cs \subseteq Player
    PROVE  Cardinality(cs) \in 0..Cardinality(Player)
<1>1. /\ Cardinality(Player) \in Nat /\ Cardinality(cs) \in Nat
      /\ Cardinality(cs) <= Cardinality(Player)
  BY RoundsAssumption, FS_Subset, FS_CardinalityType
<1>2. QED
  BY <1>1

\* What a step of the controller does to the types.
LEMMA ControllerTypes ==
    ASSUME TypeOK, UNCHANGED <<outbox, playerVars, spent>>, Fault \/ UNCHANGED faults,
           stage' \in {"begin", "commitments", "components", "signatures", "proofs", "blames", "ended"},
           round' \in 0..MaxRound, last_hash' \in 0..MaxRound, clients' \subseteq Player, dead' \subseteq Player,
           results' \subseteq Player, fails' \subseteq Player \ results', recorded' \subseteq Player,
           expected' \in 0..Cardinality(Player), open' \in BOOLEAN, components' \subseteq Component,
           signatures' \subseteq Player, relayed' \in [Player -> Player], broadcast' \subseteq Transaction,
           inbox' \in [Player -> Seq(ServerMessage)], \A p \in Player : Len(inbox'[p]) <= 3
    PROVE  TypeOK'
<1>1. UNCHANGED <<outbox, status, round_pubkey, my_hash, sent, agreed, spent>> /\ faults' \in 0..MaxFaults
  BY FaultTyped DEF playerVars
<1>2. QED
  BY <1>1, Zenon DEF TypeOK

\* The server's variables, one by one.
LEMMA ServerTyped ==
    ASSUME TypeOK
    PROVE  /\ round \in 0..MaxRound /\ last_hash \in 0..MaxRound /\ clients \subseteq Player /\ dead \subseteq Player
           /\ results \subseteq Player /\ fails \subseteq Player \ results /\ recorded \subseteq Player
           /\ expected \in 0..Cardinality(Player) /\ open \in BOOLEAN /\ components \subseteq Component
           /\ signatures \subseteq Player /\ relayed \in [Player -> Player] /\ broadcast \subseteq Transaction
  BY Zenon DEF TypeOK

\* The end of a run: goodbye to all.  A transaction that goes out is signed by
\* everyone in it.
Goodbye ==
    /\ stage # "ended" /\ End(clients) /\ clients' \subseteq Player /\ open' \in BOOLEAN
    /\ UNCHANGED <<round, results, fails, expected, recorded, components, signatures, last_hash, relayed, outbox,
                   playerVars, spent>>
    /\ Fault \/ UNCHANGED faults
    /\ broadcast' = broadcast \/ (stage = "signatures" /\ Unsigned = {} /\ broadcast' = broadcast \cup {Tx})
    /\ \/ UNCHANGED inbox
       \/ stage = "signatures" /\ sendall(clients, [kind |-> "fusionresult", ok |-> TRUE, bad |-> {}])

\* It keeps the invariant: no thread is left, and what is broadcast was signed.
LEMMA GoodbyeKeeps ==
    ASSUME RoundsInv, Goodbye
    PROVE  RoundsInv'
<1>1. /\ TypeOK /\ Session /\ Signing /\ stage # "ended" /\ stage' = "ended" /\ dead' = dead \cup clients
      /\ clients' \subseteq Player /\ open' \in BOOLEAN
      /\ UNCHANGED <<round, results, fails, expected, recorded, components, signatures, last_hash, relayed, outbox,
                     playerVars, spent>>
      /\ Fault \/ UNCHANGED faults
  BY Zenon DEF RoundsInv, Goodbye, End
<1>2. UNCHANGED <<status, my_hash, agreed>>
  BY <1>1 DEF playerVars
<1>3. PICK m \in ServerMessage : m = [kind |-> "fusionresult", ok |-> TRUE, bad |-> {}]
  BY <1>1, MessagesTyped
<1>4. m.kind # "sharecovertcomponents"
  BY <1>3
<1>5. /\ inbox' \in [Player -> Seq(ServerMessage)] /\ \A p \in Player : Len(inbox'[p]) <= 3
      /\ \A p \in Player : inbox'[p] = inbox[p] \/ (inbox'[p] = Append(inbox[p], m) /\ Len(inbox[p]) <= 2)
  <2>1. CASE UNCHANGED inbox
    BY <1>1, <2>1, PlayerTyped, Zenon
  <2>2. CASE stage = "signatures" /\ sendall(clients, m)
    <3>1. clients \subseteq Player
      BY <1>1, ServerTyped
    <3>2. \A p \in clients \ dead : Len(inbox[p]) <= 2
      <4> SUFFICES ASSUME NEW p \in clients \ dead PROVE Len(inbox[p]) <= 2
        OBVIOUS
      <4>1. Turns(p) /\ p \in Player
        BY <1>1, <3>1 DEF Session
      <4>2. stage # "proofs"
        BY <2>2
      <4>3. QED
        BY <1>1, <4>1, <4>2, UnreadShort
    <3>3. QED
      BY <1>1, <2>2, <3>2, PostFacts, Zenon
  <2>3. QED
    BY <1>3, <2>1, <2>2 DEF Goodbye
<1>6. dead' = Player
  BY <1>1, CollectorTyped
<1>7. Tx \in Transaction
  BY <1>1, ServerTyped DEF Tx, Transaction
<1>8. broadcast' \subseteq Transaction
  BY <1>1, <1>7, ServerTyped DEF Goodbye
<1>9. TypeOK'
  BY <1>1, <1>5, <1>6, <1>8, ServerTyped, ControllerTypes, Zenon
<1>10. ASSUME NEW p \in Player
       PROVE  (status'[p] \notin Over => InSession(p)') /\ Consents(p)' /\ my_hash'[p] <= last_hash'
  <2>1. (status[p] \notin Over => InSession(p)) /\ Consents(p) /\ my_hash[p] <= last_hash
    BY <1>1, Zenon DEF Session
  <2>2. Lists(p)' = Lists(p) /\ \A i \in Lists(p) : inbox'[p][i] = inbox[p][i]
    BY <1>1, <1>4, <1>5, PostOther
  <2>3. dead \subseteq dead' /\ UNCHANGED <<my_hash, last_hash>>
    BY <1>1, <1>2
  <2>4. InSession(p) => InSession(p)'
    BY <2>2, <2>3, PostSession
  <2>5. Consents(p)'
    BY <1>2, <2>1 DEF Consents
  <2>6. QED
    BY <1>2, <2>1, <2>3, <2>4, <2>5, Zenon
<1>11. Session'
  <2>1. \A p \in Player \ dead' : Turns(p)'
    BY <1>6
  <2>2. /\ last_hash' <= round' /\ fails' \subseteq dead'
    BY <1>1 DEF Session
  <2>3. stage' \notin {"commitments", "components"}
    BY <1>1
  <2>4. QED
    BY <1>10, <2>1, <2>2, <2>3, Zenon DEF Session
<1>12. Signing'
  <2>1. broadcast = {}
    BY <1>1, Zenon DEF Signing
  <2>2. stage' # "signatures"
    BY <1>1
  <2>3. ASSUME NEW tx \in broadcast' PROVE tx = Tx /\ stage = "signatures" /\ Unsigned = {}
    BY <2>1, <2>3 DEF Goodbye
  <2>4. \A tx \in broadcast' : tx[1] = last_hash'
    BY <1>1, <2>3 DEF Tx
  <2>5. ASSUME NEW tx \in broadcast', NEW p \in Player, <<p, "in">> \in tx[2]
        PROVE  agreed'[p] = tx /\ Mine(p) \subseteq tx[2]
    <3>1. tx = Tx /\ Tx[2] = components /\ stage = "signatures" /\ Tx # <<>>
      BY <2>3, <2>5 DEF Tx
    <3>2. p \in signatures
      BY <2>3, <2>5, <3>1 DEF Unsigned
    <3>3. agreed[p] = Tx
      BY <1>1, <3>1, <3>2, Zenon DEF Signing
    <3>4. Mine(p) \subseteq agreed[p][2]
      BY <1>1, <3>1, <3>3, Zenon DEF Session, Consents
    <3>5. QED
      BY <1>2, <3>1, <3>3, <3>4, Zenon
  <2>6. QED
    BY <1>1, <2>2, <2>4, <2>5, Zenon DEF Signing, SignedByAll
<1>13. QED
  BY <1>9, <1>11, <1>12 DEF RoundsInv

\* startround.
LEMMA StartKeeps ==
    ASSUME RoundsInv, StartRound
    PROVE  RoundsInv'
<1>1. /\ TypeOK /\ Session /\ stage = "begin" /\ round < MaxRound /\ clients' = clients \ dead
      /\ UNCHANGED <<signatures, last_hash, relayed, broadcast, outbox, playerVars, spent, faults>>
      /\ clients \subseteq Player /\ dead \subseteq Player
  BY ServerTyped DEF RoundsInv, StartRound
<1>2. CASE TooFew(clients)
  <2>1. End(clients) /\ UNCHANGED <<round, collectorVars, components, inbox>>
    BY <1>2, Zenon DEF StartRound
  <2>2. UNCHANGED <<results, fails, expected, open, recorded>> /\ clients' \subseteq Player /\ open' \in BOOLEAN
    BY <1>1, <2>1, ServerTyped DEF collectorVars
  <2>3. stage # "ended"
    BY <1>1
  <2>4. Goodbye
    BY <1>1, <2>1, <2>2, <2>3, Zenon DEF Goodbye
  <2>5. QED
    BY <2>4, GoodbyeKeeps
<1>3. CASE ~TooFew(clients)
  <2>1. PICK m : m = [kind |-> "startround", round_pubkey |-> round']
    OBVIOUS
  <2>2. /\ stage' = "commitments" /\ round' = round + 1 /\ results' = {} /\ fails' = {} /\ recorded' = {}
        /\ expected' = Cardinality(clients') /\ open' = TRUE /\ components' = {} /\ dead' = dead
        /\ sendall(clients, m)
    BY <1>3, <2>1, Zenon DEF StartRound, collect
  <2>3. round' \in 1..MaxRound
    BY <1>1, <2>2, HashTyped
  <2>4. m \in ServerMessage /\ m.kind # "sharecovertcomponents" /\ m = Startround'
    <3>1. m \in [kind : {"startround"}, round_pubkey : 1..MaxRound]
      BY <2>1, <2>3
    <3>2. QED
      BY <2>1, <3>1 DEF ServerMessage, Startround
  <2>5. ASSUME NEW p \in Player \ dead
        PROVE  /\ Turns(p) /\ p \in clients /\ Len(inbox[p]) <= 2
               /\ inbox[p] = <<>> \/ inbox[p] = <<Message("restartround")>>
               /\ outbox[p] # "playercommit" /\ outbox[p] # "myproofslist"
    <3>1. Turns(p)
      BY <1>1, <2>5, Zenon DEF Session
    <3>2. Len(inbox[p]) <= 2
      BY <1>1, <2>5, <3>1, UnreadShort
    <3>3. QED
      BY <1>1, <3>1, <3>2 DEF Turns, Unread
  <2>6. /\ inbox' \in [Player -> Seq(ServerMessage)] /\ \A p \in Player : Len(inbox'[p]) <= 3
        /\ \A p \in Player : p \in clients \ dead => inbox'[p] = Append(inbox[p], m)
        /\ \A p \in Player : p \notin clients \ dead => inbox'[p] = inbox[p]
    <3>1. \A p \in clients \ dead : Len(inbox[p]) <= 2
      BY <1>1, <2>5
    <3>2. QED
      BY <1>1, <2>2, <2>4, <3>1, PostFacts, Zenon
  <2>7. expected' \in 0..Cardinality(Player)
    <3>1. PICK cs : cs = clients'
      OBVIOUS
    <3>2. cs \subseteq Player
      BY <1>1, <3>1
    <3>3. QED
      BY <2>2, <3>1, <3>2, FewClients, Zenon
  <2>8. TypeOK'
    <3>1. /\ round' \in 0..MaxRound /\ clients' \subseteq Player /\ results' \subseteq Player
          /\ fails' \subseteq Player \ results' /\ recorded' \subseteq Player /\ open' \in BOOLEAN
          /\ components' \subseteq Component
          /\ stage' \in {"begin", "commitments", "components", "signatures", "proofs", "blames", "ended"}
      BY <1>1, <2>2, <2>3
    <3>2. QED
      BY <1>1, <2>2, <2>6, <2>7, <3>1, ServerTyped, ControllerTypes, Zenon
  <2>9. ASSUME NEW p \in Player \ dead' PROVE Turns(p)'
    <3>1. p \in Player \ dead
      BY <2>2, <2>9
    <3>2. /\ Turns(p) /\ p \in clients /\ inbox'[p] = Append(inbox[p], m) /\ p \in clients'
          /\ inbox[p] = <<>> \/ inbox[p] = <<Message("restartround")>>
          /\ outbox[p] # "playercommit" /\ outbox[p] # "myproofslist"
      BY <1>1, <2>5, <2>6, <3>1
    <3>3. inbox'[p] = <<m>> \/ inbox'[p] = <<Message("restartround"), m>>
      BY <3>2, Lengthen
    <3>4. Unread(p)'
      BY <2>2, <2>4, <3>3 DEF Unread, Message
    <3>5. QED
      BY <1>1, <2>2, <3>2, <3>4 DEF Turns
  <2>10. ASSUME NEW p \in Player, status[p] \notin Over PROVE InSession(p)'
    <3>1. InSession(p)
      BY <1>1, <2>10, Zenon DEF Session
    <3>2. inbox'[p] = inbox[p] \/ (inbox'[p] = Append(inbox[p], m) /\ Len(inbox[p]) <= 2)
      BY <2>5, <2>6, Zenon
    <3>3. Lists(p)' = Lists(p) /\ \A i \in Lists(p) : inbox'[p][i] = inbox[p][i]
      BY <1>1, <2>4, <3>2, PostOther
    <3>4. dead \subseteq dead' /\ UNCHANGED <<my_hash, last_hash>>
      BY <1>1, <2>2 DEF playerVars
    <3>5. QED
      BY <3>1, <3>3, <3>4, PostSession
  <2>11. last_hash' <= round' /\ last_hash <= last_hash' /\ last_hash' < round'
    <3>1. last_hash <= round
      BY <1>1, Zenon DEF Session
    <3>2. QED
      BY <1>1, <2>2, <3>1, HashTyped
  <2>12. fails' \subseteq dead' /\ stage # "ended" /\ stage' # "signatures"
    BY <1>1, <2>2
  <2>13. QED
    BY <1>1, <2>8, <2>9, <2>10, <2>11, <2>12, MoveKeeps, Zenon
<1>4. QED
  BY <1>2, <1>3

\* gather counts its faults.
LEMMA GatherFaults == gather => Fault \/ UNCHANGED faults
  BY DEF gather

\* blindsigresponses.
LEMMA CommitmentsKeep ==
    ASSUME RoundsInv, GatherCommitments
    PROVE  RoundsInv'
<1>1. /\ TypeOK /\ Session /\ stage = "commitments" /\ open' = FALSE /\ clients' = results
      /\ Fault \/ UNCHANGED faults
      /\ UNCHANGED <<round, results, fails, expected, recorded, components, signatures, last_hash, relayed, broadcast,
                     outbox, playerVars, spent>>
      /\ clients \subseteq Player /\ dead \subseteq Player /\ results \subseteq Player
  BY ServerTyped, GatherFaults DEF RoundsInv, GatherCommitments
<1>2. CASE TooFew(results) \/ ~(results \subseteq recorded)
  <2>1. End(clients) /\ UNCHANGED inbox
    BY <1>2, Zenon DEF GatherCommitments
  <2>2. clients' \subseteq Player /\ open' \in BOOLEAN /\ stage # "ended"
    BY <1>1
  <2>3. Goodbye
    BY <1>1, <2>1, <2>2, Zenon DEF Goodbye
  <2>4. QED
    BY <2>3, GoodbyeKeeps
<1>3. CASE ~(TooFew(results) \/ ~(results \subseteq recorded))
  <2> DEFINE m == Message("blindsigresponses")
  <2>1. stage' = "components" /\ sendall(results, m) /\ dead' = dead \cup (clients \ results)
    BY <1>3, Zenon DEF GatherCommitments, Late
  <2>2. m \in ServerMessage /\ m.kind # "sharecovertcomponents"
    BY <1>1, MessagesTyped, MessageKinds
  <2> HIDE DEF m
  <2>3. ASSUME NEW p \in Player \ dead, p \in results
        PROVE  Turns(p) /\ inbox[p] = <<>> /\ outbox[p] = "" /\ Len(inbox[p]) <= 2
    <3>1. Turns(p)
      BY <1>1, <2>3, Zenon DEF Session
    <3>2. Len(inbox[p]) <= 2
      BY <1>1, <2>3, <3>1, UnreadShort
    <3>3. QED
      BY <1>1, <2>3, <3>1, <3>2 DEF Turns
  <2>4. /\ inbox' \in [Player -> Seq(ServerMessage)] /\ \A p \in Player : Len(inbox'[p]) <= 3
        /\ \A p \in Player : p \in results \ dead => inbox'[p] = Append(inbox[p], m)
        /\ \A p \in Player : p \notin results \ dead => inbox'[p] = inbox[p]
    <3>1. \A p \in results \ dead : Len(inbox[p]) <= 2
      BY <1>1, <2>3
    <3>2. QED
      BY <1>1, <2>1, <2>2, <3>1, PostFacts, Zenon
  <2>5. TypeOK'
    <3>1. /\ clients' \subseteq Player /\ dead' \subseteq Player /\ open' \in BOOLEAN
          /\ stage' \in {"begin", "commitments", "components", "signatures", "proofs", "blames", "ended"}
      BY <1>1, <2>1
    <3>2. QED
      BY <1>1, <2>4, <3>1, ServerTyped, ControllerTypes, Zenon
  <2>6. ASSUME NEW p \in Player \ dead' PROVE Turns(p)'
    <3>1. p \in Player \ dead /\ p \in results
      BY <1>1, <2>1, <2>6, CollectorTyped
    <3>2. inbox[p] = <<>> /\ outbox[p] = "" /\ inbox'[p] = Append(inbox[p], m) /\ p \in clients'
      BY <1>1, <2>3, <2>4, <3>1
    <3>3. inbox'[p] = <<m>>
      BY <3>2, Lengthen
    <3>4. Unread(p)'
      BY <2>1, <3>3 DEF Unread, Message, m
    <3>5. QED
      BY <1>1, <2>1, <3>2, <3>4 DEF Turns
  <2>7. ASSUME NEW p \in Player, status[p] \notin Over PROVE InSession(p)'
    <3>1. InSession(p)
      BY <1>1, <2>7, Zenon DEF Session
    <3>2. inbox'[p] = inbox[p] \/ (inbox'[p] = Append(inbox[p], m) /\ Len(inbox[p]) <= 2)
      BY <2>3, <2>4, Zenon
    <3>3. Lists(p)' = Lists(p) /\ \A i \in Lists(p) : inbox'[p][i] = inbox[p][i]
      BY <1>1, <2>2, <3>2, PostOther
    <3>4. dead \subseteq dead' /\ UNCHANGED <<my_hash, last_hash>>
      BY <1>1, <2>1 DEF playerVars
    <3>5. QED
      BY <3>1, <3>3, <3>4, PostSession
  <2>8. last_hash' <= round' /\ last_hash <= last_hash' /\ last_hash' < round'
    <3>1. last_hash < round
      BY <1>1 DEF Session
    <3>2. QED
      BY <1>1, <3>1, HashTyped
  <2>9. fails' \subseteq dead' /\ stage # "ended" /\ stage' # "signatures"
    BY <1>1, <2>1, CollectorTyped
  <2>10. QED
    BY <1>1, <2>5, <2>6, <2>7, <2>8, <2>9, MoveKeeps, Zenon
<1>4. QED
  BY <1>2, <1>3

\* sharecovertcomponents: the hash moves on with the list.
LEMMA ComponentsKeep ==
    ASSUME RoundsInv, EndComponents
    PROVE  RoundsInv'
<1>1. /\ TypeOK /\ Session /\ stage = "components" /\ last_hash' = last_hash + 1
      /\ Fault \/ UNCHANGED faults
      /\ UNCHANGED <<round, clients, dead, recorded, components, relayed, broadcast, outbox, playerVars, spent>>
      /\ clients \subseteq Player /\ dead \subseteq Player
  BY ServerTyped DEF RoundsInv, EndComponents, InTime
<1>2. last_hash < round /\ last_hash \in Nat /\ round \in Nat /\ last_hash' \in 1..MaxRound /\ last_hash' <= round
  <2>1. last_hash < round
    BY <1>1 DEF Session
  <2>2. QED
    BY <1>1, <2>1, HashTyped
<1>3. PICK b \in BOOLEAN : b = skip_signatures
  BY DEF skip_signatures
<1>4. PICK m : m = [kind |-> "sharecovertcomponents", list |-> components, skip |-> b, hash |-> last_hash']
  OBVIOUS
<1>5. /\ sendall(clients, m)
      /\ \/ /\ b /\ stage' = "proofs" /\ results' = {} /\ fails' = {} /\ expected' = Cardinality(clients) /\ open' = TRUE
            /\ UNCHANGED signatures
         \/ ~b /\ stage' = "signatures" /\ signatures' = {} /\ UNCHANGED <<results, fails, expected, open>>
  BY <1>3, <1>4 DEF EndComponents, collect, no_signatures
<1>6. /\ m.kind = "sharecovertcomponents" /\ m.hash = last_hash' /\ m = Shared(b)' /\ m \in ServerMessage
  <2>1. components \in SUBSET Component
    BY <1>1, ServerTyped
  <2>2. m \in [kind : {"sharecovertcomponents"}, list : SUBSET Component, skip : BOOLEAN, hash : 1..MaxRound]
    BY <1>2, <1>4, <2>1
  <2>3. m \in ServerMessage
    BY <2>2, Zenon DEF ServerMessage
  <2>4. QED
    BY <1>1, <1>4, <2>3 DEF Shared
<1>7. ASSUME NEW p \in Player \ dead
      PROVE  /\ p \in clients /\ Len(inbox[p]) <= 2 /\ outbox[p] = ""
             /\ inbox[p] = <<>> \/ inbox[p] = <<Message("blindsigresponses")>>
  <2>1. Turns(p)
    BY <1>1, <1>7, Zenon DEF Session
  <2>2. Len(inbox[p]) <= 2
    BY <1>1, <1>7, <2>1, UnreadShort
  <2>3. outbox[p] \in PlayerMessage
    BY <1>1, PlayerTyped
  <2>4. QED
    BY <1>1, <2>1, <2>2, <2>3 DEF Turns, Unread, PlayerMessage
<1>8. /\ inbox' \in [Player -> Seq(ServerMessage)] /\ \A p \in Player : Len(inbox'[p]) <= 3
      /\ \A p \in Player : p \in clients \ dead => inbox'[p] = Append(inbox[p], m)
      /\ \A p \in Player : p \notin clients \ dead => inbox'[p] = inbox[p]
  <2>1. \A p \in clients \ dead : Len(inbox[p]) <= 2
    BY <1>1, <1>7
  <2>2. QED
    BY <1>1, <1>5, <1>6, <2>1, PostFacts, Zenon
<1>9. TypeOK'
  <2>1. Cardinality(clients) \in 0..Cardinality(Player)
    BY <1>1, FewClients
  <2>2. /\ stage' \in {"begin", "commitments", "components", "signatures", "proofs", "blames", "ended"}
        /\ results' \subseteq Player /\ fails' \subseteq Player \ results' /\ signatures' \subseteq Player
        /\ expected' \in 0..Cardinality(Player) /\ open' \in BOOLEAN
    BY <1>1, <1>5, <2>1, ServerTyped
  <2>3. last_hash' \in 0..MaxRound
    BY <1>2
  <2>4. QED
    BY <1>1, <1>8, <2>2, <2>3, ServerTyped, ControllerTypes, Zenon
<1>10. ASSUME NEW p \in Player \ dead' PROVE Turns(p)'
  <2>1. p \in Player \ dead
    BY <1>1, <1>10
  <2>2. /\ p \in clients' /\ outbox'[p] = "" /\ inbox'[p] = Append(inbox[p], m)
        /\ inbox[p] = <<>> \/ inbox[p] = <<Message("blindsigresponses")>>
    BY <1>1, <1>7, <1>8, <2>1
  <2>3. inbox'[p] = <<m>> \/ inbox'[p] = <<Message("blindsigresponses"), m>>
    BY <2>2, Lengthen
  <2>4. Unread(p)'
    <3>1. CASE b
      BY <1>5, <1>6, <2>3, <3>1 DEF Unread, Message
    <3>2. CASE ~b
      BY <1>5, <1>6, <2>3, <3>2 DEF Unread, Message
    <3>3. QED
      BY <3>1, <3>2
  <2>5. stage' \in {"proofs", "signatures"} /\ (stage' = "proofs" => results' = {})
    BY <1>5
  <2>6. QED
    BY <2>2, <2>4, <2>5 DEF Turns
<1>11. ASSUME NEW p \in Player, status[p] \notin Over PROVE InSession(p)'
  <2>1. InSession(p) /\ my_hash' = my_hash
    BY <1>1, <1>11, Zenon DEF Session, playerVars
  <2>2. CASE p \in dead
    <3>1. inbox'[p] = inbox[p] /\ p \in dead'
      BY <1>1, <1>8, <2>2
    <3>2. Lists(p)' = Lists(p)
      BY <3>1 DEF Lists
    <3>3. \A i \in Lists(p) : /\ inbox'[p][i].hash = my_hash'[p] + 1
                              /\ my_hash'[p] + 1 <= last_hash
      BY <2>1, <3>1 DEF InSession
    <3>4. my_hash[p] \in Nat
      BY <1>1, HashTyped
    <3>5. \A i \in Lists(p) : inbox'[p][i].hash <= last_hash'
      BY <1>1, <1>2, <2>1, <3>3, <3>4
    <3>6. QED
      BY <2>1, <3>1, <3>2, <3>3, <3>5 DEF InSession
  <2>3. CASE p \notin dead
    <3> DEFINE n == Len(inbox[p])
    <3>1. /\ p \in clients /\ n <= 2 /\ inbox'[p] = Append(inbox[p], m) /\ inbox[p] \in Seq(ServerMessage)
          /\ inbox[p] = <<>> \/ inbox[p] = <<Message("blindsigresponses")>>
      BY <1>1, <1>7, <1>8, <2>3, PlayerTyped
    <3>2. /\ DOMAIN inbox[p] = 1..n /\ DOMAIN inbox'[p] = 1..(n + 1) /\ n \in Nat
          /\ \A i \in 1..n : inbox'[p][i] = inbox[p][i]
          /\ inbox'[p][n + 1] = m
      BY <1>6, <3>1, AppendFacts
    <3>3. Lists(p) = {}
      <4>1. CASE inbox[p] = <<>>
        BY <4>1 DEF Lists
      <4>2. CASE inbox[p] = <<Message("blindsigresponses")>>
        BY <4>2, MessageKinds DEF Lists
      <4>3. QED
        BY <3>1, <4>1, <4>2
    <3>4. my_hash[p] = last_hash
      BY <2>1, <2>3, <3>3 DEF InSession
    <3>5. \A i \in 1..n : inbox[p][i].kind # "sharecovertcomponents"
      BY <3>2, <3>3 DEF Lists
    <3> HIDE DEF n
    <3>6. \A i : i \in 1..(n + 1) <=> i \in 1..n \/ i = n + 1
      BY <3>2
    <3>7. \A i : i \in Lists(p)' <=> i = n + 1
      <4>1. \A i : i \in Lists(p)' <=> i \in 1..(n + 1) /\ inbox'[p][i].kind = "sharecovertcomponents"
        BY <3>2 DEF Lists
      <4>2. QED
        BY <1>6, <3>2, <3>5, <3>6, <4>1, Zenon
    <3>8. m.hash = my_hash'[p] + 1 /\ m.hash <= last_hash'
      BY <1>1, <1>2, <1>6, <2>1, <3>4
    <3>9. /\ \A i, j \in Lists(p)' : i = j
          /\ \A i \in Lists(p)' : inbox'[p][i].hash = my_hash'[p] + 1 /\ inbox'[p][i].hash <= last_hash'
          /\ n + 1 \in Lists(p)'
      <4>1. PICK k : k = n + 1
        OBVIOUS
      <4>2. (\A i : i \in Lists(p)' <=> i = k) /\ inbox'[p][k] = m
        BY <3>2, <3>7, <4>1, Zenon
      <4>3. \A i \in Lists(p)' : i = k /\ inbox'[p][i] = m
        BY <4>2, Zenon
      <4>4. QED
        BY <3>8, <4>1, <4>2, <4>3, Zenon
    <3>10. Lists(p)' # {}
      BY <3>9
    <3>11. QED
      BY <3>9, <3>10, Zenon DEF InSession
  <2>4. QED
    BY <2>2, <2>3
<1>12. last_hash' <= round' /\ last_hash <= last_hash' /\ stage' \notin {"commitments", "components"}
  BY <1>1, <1>2, <1>5
<1>13. fails' \subseteq dead' /\ stage # "ended" /\ (stage' = "signatures" => signatures' = {})
  BY <1>1, <1>5, CollectorTyped
<1>14. QED
  BY <1>1, <1>9, <1>10, <1>11, <1>12, <1>13, MoveKeeps, Zenon

\* fusionresult: the signed transaction goes out, or the round has failed.
LEMMA SignaturesKeep ==
    ASSUME RoundsInv, EndSignatures
    PROVE  RoundsInv'
<1>1. /\ TypeOK /\ Session /\ stage = "signatures"
      /\ UNCHANGED <<round, clients, recorded, components, signatures, last_hash, relayed, outbox, playerVars, spent>>
      /\ clients \subseteq Player /\ dead \subseteq Player
  BY ServerTyped DEF RoundsInv, EndSignatures
<1>2. CASE Unsigned = {} /\ (Succeed \/ BroadcastTimeout)
  <2>1. /\ End(clients) /\ UNCHANGED <<results, fails, expected, open>>
        /\ Fault \/ UNCHANGED faults
        /\ broadcast' = broadcast \/ broadcast' = broadcast \cup {Tx}
        /\ UNCHANGED inbox \/ sendall(clients, [kind |-> "fusionresult", ok |-> TRUE, bad |-> {}])
    BY <1>2, Zenon DEF Succeed, BroadcastTimeout
  <2>2. clients' \subseteq Player /\ open' \in BOOLEAN /\ stage # "ended"
    BY <1>1, <2>1, ServerTyped
  <2>3. Goodbye
    BY <1>1, <1>2, <2>1, <2>2, Zenon DEF Goodbye
  <2>4. QED
    BY <2>3, GoodbyeKeeps
<1>3. CASE RoundFails
  <2>1. /\ sendall(clients, Refusal) /\ stage' = "proofs" /\ UNCHANGED <<broadcast, dead>>
        /\ results' = {} /\ fails' = {} /\ expected' = Cardinality(clients) /\ open' = TRUE
        /\ Fault \/ UNCHANGED faults
    BY <1>3 DEF RoundFails, Refusal, collect, InTime
  <2>2. Refusal \in ServerMessage /\ Refusal.kind # "sharecovertcomponents"
    BY <1>1, MessagesTyped, MessageKinds DEF Refusal
  <2>3. Refusal' = Refusal /\ Shared(FALSE)' = Shared(FALSE)
    BY <1>1 DEF Refusal, Shared, Unsigned
  <2>4. ASSUME NEW p \in Player \ dead
        PROVE  /\ p \in clients /\ Len(inbox[p]) <= 2 /\ outbox[p] = ""
               /\ inbox[p] \in {<<>>, <<Shared(FALSE)>>, <<Message("blindsigresponses"), Shared(FALSE)>>}
    <3>1. Turns(p)
      BY <1>1, <2>4, Zenon DEF Session
    <3>2. Len(inbox[p]) <= 2
      BY <1>1, <2>4, <3>1, UnreadShort
    <3>3. outbox[p] \in PlayerMessage
      BY <1>1, PlayerTyped
    <3>4. QED
      BY <1>1, <3>1, <3>2, <3>3 DEF Turns, Unread, PlayerMessage
  <2>5. /\ inbox' \in [Player -> Seq(ServerMessage)] /\ \A p \in Player : Len(inbox'[p]) <= 3
        /\ \A p \in Player : p \in clients \ dead => inbox'[p] = Append(inbox[p], Refusal)
        /\ \A p \in Player : p \notin clients \ dead => inbox'[p] = inbox[p]
    <3>1. \A p \in clients \ dead : Len(inbox[p]) <= 2
      BY <1>1, <2>4
    <3>2. PICK m \in ServerMessage : m = Refusal
      BY <2>2
    <3>3. QED
      BY <1>1, <2>1, <3>1, <3>2, PostFacts, Zenon
  <2>6. TypeOK'
    <3>1. Cardinality(clients) \in 0..Cardinality(Player)
      BY <1>1, FewClients
    <3>2. /\ stage' \in {"begin", "commitments", "components", "signatures", "proofs", "blames", "ended"}
          /\ results' \subseteq Player /\ fails' \subseteq Player \ results'
          /\ expected' \in 0..Cardinality(Player) /\ open' \in BOOLEAN
      BY <2>1, <3>1
    <3>3. QED
      BY <1>1, <2>1, <2>5, <3>2, ServerTyped, ControllerTypes, Zenon
  <2>7. ASSUME NEW p \in Player \ dead' PROVE Turns(p)'
    <3>1. p \in Player \ dead
      BY <2>1, <2>7
    <3>2. /\ p \in clients' /\ outbox'[p] = "" /\ inbox'[p] = Append(inbox[p], Refusal)
          /\ inbox[p] \in {<<>>, <<Shared(FALSE)>>, <<Message("blindsigresponses"), Shared(FALSE)>>}
      BY <1>1, <2>4, <2>5, <3>1
    <3>3. inbox'[p] \in {<<Refusal>>, <<Shared(FALSE), Refusal>>,
                         <<Message("blindsigresponses"), Shared(FALSE), Refusal>>}
      <4>1. PICK a, b, c : a = Message("blindsigresponses") /\ b = Shared(FALSE) /\ c = Refusal
        OBVIOUS
      <4>2. CASE inbox[p] = <<>>
        BY <3>2, <4>1, <4>2, Lengthen
      <4>3. CASE inbox[p] = <<b>>
        <5>1. Append(inbox[p], c) = <<b, c>>
          <6>1. Append(<<b>>, c) = <<b, c>>
            BY Lengthen
          <6>2. QED
            BY <4>3, <6>1, Zenon
        <5>2. inbox'[p] = <<b, c>>
          BY <3>2, <4>1, <5>1, Zenon
        <5>3. QED
          BY <4>1, <5>2
      <4>4. CASE inbox[p] = <<a, b>>
        <5>1. Append(inbox[p], c) = <<a, b, c>>
          <6>1. Append(<<a, b>>, c) = <<a, b, c>>
            BY Lengthen
          <6>2. QED
            BY <4>4, <6>1, Zenon
        <5>2. inbox'[p] = <<a, b, c>>
          BY <3>2, <4>1, <5>1, Zenon
        <5>3. QED
          BY <4>1, <5>2
      <4>5. QED
        BY <3>2, <4>1, <4>2, <4>3, <4>4
    <3>4. Unread(p)'
      BY <2>1, <2>3, <3>3 DEF Unread, Message
    <3>5. QED
      BY <2>1, <3>2, <3>4 DEF Turns
  <2>8. ASSUME NEW p \in Player, status[p] \notin Over PROVE InSession(p)'
    <3>1. InSession(p)
      BY <1>1, <2>8, Zenon DEF Session
    <3>2. inbox'[p] = inbox[p] \/ (inbox'[p] = Append(inbox[p], Refusal) /\ Len(inbox[p]) <= 2)
      BY <2>4, <2>5, Zenon
    <3>3. PICK m \in ServerMessage : m = Refusal /\ m.kind # "sharecovertcomponents"
      BY <2>2
    <3>4. Lists(p)' = Lists(p) /\ \A i \in Lists(p) : inbox'[p][i] = inbox[p][i]
      BY <1>1, <3>2, <3>3, PostOther
    <3>5. dead \subseteq dead' /\ UNCHANGED <<my_hash, last_hash>>
      BY <1>1, <2>1 DEF playerVars
    <3>6. QED
      BY <3>1, <3>4, <3>5, PostSession
  <2>9. last_hash' <= round' /\ last_hash <= last_hash' /\ stage' \notin {"commitments", "components"}
    <3>1. last_hash <= round /\ last_hash \in Nat
      BY <1>1, HashTyped, Zenon DEF Session
    <3>2. QED
      BY <1>1, <2>1, <3>1
  <2>10. fails' \subseteq dead' /\ stage # "ended" /\ stage' # "signatures"
    BY <1>1, <2>1
  <2>11. QED
    BY <1>1, <2>1, <2>6, <2>7, <2>8, <2>9, <2>10, MoveKeeps, Zenon
<1>4. QED
  BY <1>2, <1>3 DEF EndSignatures

\* The steps that gather, drop the late ones and write to those who have nothing
\* left to read.
Gathers ==
    /\ UNCHANGED <<round, clients, recorded, components, signatures, last_hash, broadcast, outbox, playerVars, spent>>
    /\ Fault \/ UNCHANGED faults
    /\ relayed' \in [Player -> Player] /\ open' \in BOOLEAN
    /\ \/ results' = {} /\ fails' = {} /\ expected' = Cardinality(results)
       \/ UNCHANGED <<results, fails, expected>>

\* They keep the invariant if each client they write to keeps to its turn.
LEMMA GatherKeeps ==
    ASSUME RoundsInv, NEW to, NEW k \in {"theirproofslist", "restartround"},
           Gathers, sendall(to, Message(k)), dead' = dead \cup (clients \ to),
           stage \in {"proofs", "blames"}, stage' = IF stage = "proofs" THEN "blames" ELSE "begin",
           \A p \in to \ dead : inbox[p] = <<>>,
           \A p \in to \ dead : inbox'[p] = <<Message(k)>> => Turns(p)'
    PROVE  RoundsInv'
<1> DEFINE m == Message(k)
<1>1. /\ TypeOK /\ Session
      /\ UNCHANGED <<round, clients, recorded, components, signatures, last_hash, broadcast, outbox, playerVars, spent>>
      /\ Fault \/ UNCHANGED faults
      /\ relayed' \in [Player -> Player] /\ open' \in BOOLEAN
      /\ \/ results' = {} /\ fails' = {} /\ expected' = Cardinality(results)
         \/ UNCHANGED <<results, fails, expected>>
      /\ clients \subseteq Player /\ dead \subseteq Player /\ results \subseteq Player
  BY ServerTyped, Zenon DEF RoundsInv, Gathers
<1>2. m \in ServerMessage /\ m.kind # "sharecovertcomponents"
  BY <1>1, MessagesTyped, MessageKinds
<1> HIDE DEF m
<1>3. \A p \in to \ dead : Len(inbox[p]) <= 2
  <2>1. Len(<<>>) <= 2
    OBVIOUS
  <2>2. QED
    BY <2>1, Zenon
<1>4. /\ inbox' \in [Player -> Seq(ServerMessage)] /\ \A p \in Player : Len(inbox'[p]) <= 3
      /\ \A p \in Player : p \in to \ dead => inbox'[p] = Append(inbox[p], m)
      /\ \A p \in Player : p \notin to \ dead => inbox'[p] = inbox[p]
  <2>1. sendall(to, m)
    BY DEF m
  <2>2. QED
    BY <1>1, <1>2, <1>3, <2>1, PostFacts, Zenon
<1>5. TypeOK'
  <2>1. Cardinality(results) \in 0..Cardinality(Player)
    BY <1>1, FewClients
  <2>2. /\ stage' \in {"begin", "commitments", "components", "signatures", "proofs", "blames", "ended"}
        /\ results' \subseteq Player /\ fails' \subseteq Player \ results' /\ dead' \subseteq Player
        /\ expected' \in 0..Cardinality(Player)
    BY <1>1, <2>1, ServerTyped
  <2>3. QED
    BY <1>1, <1>4, <2>2, ServerTyped, ControllerTypes, Zenon
<1>6. ASSUME NEW p \in Player \ dead' PROVE Turns(p)'
  <2>1. p \in to \ dead
    BY <1>1, <1>6, CollectorTyped
  <2>2. inbox'[p] = <<m>>
    BY <1>4, <2>1, Lengthen
  <2>3. QED
    BY <2>1, <2>2 DEF m
<1>7. ASSUME NEW p \in Player, status[p] \notin Over PROVE InSession(p)'
  <2>1. InSession(p)
    BY <1>1, <1>7, Zenon DEF Session
  <2>2. inbox'[p] = inbox[p] \/ (inbox'[p] = Append(inbox[p], m) /\ Len(inbox[p]) <= 2)
    BY <1>3, <1>4, Zenon
  <2>3. Lists(p)' = Lists(p) /\ \A i \in Lists(p) : inbox'[p][i] = inbox[p][i]
    BY <1>1, <1>2, <2>2, PostOther
  <2>4. dead \subseteq dead' /\ UNCHANGED <<my_hash, last_hash>>
    BY <1>1 DEF playerVars
  <2>5. QED
    BY <2>1, <2>3, <2>4, PostSession
<1>8. last_hash' <= round' /\ last_hash <= last_hash' /\ stage' \notin {"commitments", "components"}
  <2>1. last_hash <= round /\ last_hash \in Nat
    BY <1>1, HashTyped, Zenon DEF Session
  <2>2. QED
    BY <1>1, <2>1
<1>9. fails' \subseteq dead' /\ stage # "ended" /\ stage' # "signatures"
  BY <1>1, CollectorTyped
<1>10. QED
  BY <1>1, <1>5, <1>6, <1>7, <1>8, <1>9, MoveKeeps, Zenon

\* theirproofslist.
LEMMA ProofsKeep ==
    ASSUME RoundsInv, GatherProofs
    PROVE  RoundsInv'
<1>1. /\ TypeOK /\ Session /\ stage = "proofs" /\ stage' = "blames" /\ dead' = dead \cup (clients \ results)
      /\ sendall(results, Message("theirproofslist"))
      /\ results' = {} /\ fails' = {} /\ expected' = Cardinality(results) /\ open' = TRUE
      /\ UNCHANGED <<round, clients, recorded, components, signatures, last_hash, broadcast, outbox, playerVars, spent>>
  BY Zenon DEF RoundsInv, GatherProofs, Late, collect
<1>2. Fault \/ UNCHANGED faults
  BY GatherFaults DEF GatherProofs
<1>3. relayed' \in [Player -> Player]
  <2>1. PICK f \in [spent -> clients] : relayed' = [q \in Player |-> IF q \in spent \cap results THEN f[q] ELSE q]
    BY Zenon DEF GatherProofs
  <2>2. clients \subseteq Player
    BY <1>1, ServerTyped
  <2>3. QED
    BY <2>1, <2>2
<1>4. Gathers
  BY <1>1, <1>2, <1>3 DEF Gathers
<1>5. ASSUME NEW p \in results \ dead
      PROVE  Turns(p) /\ p \in Player /\ p \in clients /\ inbox[p] = <<>> /\ outbox[p] = ""
  <2>1. p \in Player
    BY <1>1, <1>5, ServerTyped
  <2>2. Turns(p)
    BY <1>1, <1>5, <2>1 DEF Session
  <2>3. QED
    BY <1>1, <1>5, <2>1, <2>2 DEF Turns
<1>6. ASSUME NEW p \in results \ dead, inbox'[p] = <<Message("theirproofslist")>> PROVE Turns(p)'
  <2>1. Unread(p)'
    BY <1>1, <1>6 DEF Unread, Message
  <2>2. QED
    BY <1>1, <1>5, <1>6, <2>1 DEF Turns
<1>7. stage' = IF stage = "proofs" THEN "blames" ELSE "begin"
  BY <1>1
<1>8. PICK k \in {"theirproofslist", "restartround"} : k = "theirproofslist"
  OBVIOUS
<1>9. \A p \in results \ dead : inbox'[p] = <<Message(k)>> => Turns(p)'
  BY <1>6, <1>8
<1>10. QED
  BY <1>1, <1>4, <1>5, <1>7, <1>8, <1>9, GatherKeeps

\* restartround.
LEMMA BlamesKeep ==
    ASSUME RoundsInv, GatherBlames
    PROVE  RoundsInv'
<1> DEFINE late == {p \in clients \ results : outbox[p] # "blames"}
<1>1. /\ TypeOK /\ Session /\ stage = "blames" /\ stage' = "begin" /\ dead' = dead \cup late
      /\ sendall(clients \ late, Message("restartround")) /\ open' = FALSE
      /\ UNCHANGED <<round, clients, results, fails, expected, recorded, components, signatures, last_hash, relayed,
                     broadcast, outbox, playerVars, spent>>
  BY Zenon DEF RoundsInv, GatherBlames, Late
<1>2. Fault \/ UNCHANGED faults
  BY GatherFaults DEF GatherBlames
<1>3. Gathers
  BY <1>1, <1>2, ServerTyped DEF Gathers
<1>4. ASSUME NEW p \in (clients \ late) \ dead
      PROVE  /\ Turns(p) /\ p \in Player /\ p \in clients /\ inbox[p] = <<>>
             /\ outbox[p] \in {"", "blames"}
  <2>1. p \in Player
    BY <1>1, <1>4, ServerTyped
  <2>2. Turns(p)
    BY <1>1, <1>4, <2>1 DEF Session
  <2>3. p \in results \/ outbox[p] = "blames"
    BY <1>4
  <2>4. QED
    BY <1>1, <1>4, <2>1, <2>2, <2>3 DEF Turns
<1>5. clients \ (clients \ late) = late
  OBVIOUS
<1> HIDE DEF late
<1>6. ASSUME NEW p \in (clients \ late) \ dead, inbox'[p] = <<Message("restartround")>> PROVE Turns(p)'
  <2>1. Unread(p)'
    BY <1>1, <1>6 DEF Unread, Message
  <2>2. p \in clients' /\ outbox'[p] \in {"", "blames"}
    BY <1>1, <1>4
  <2>3. QED
    BY <1>1, <2>1, <2>2 DEF Turns
<1>7. stage' = IF stage = "proofs" THEN "blames" ELSE "begin"
  BY <1>1
<1>8. PICK k, to : k \in {"theirproofslist", "restartround"} /\ k = "restartround" /\ to = clients \ late
  OBVIOUS
<1>9. \A p \in to \ dead : inbox'[p] = <<Message(k)>> => Turns(p)'
  BY <1>6, <1>8
<1>10. QED
  BY <1>1, <1>3, <1>4, <1>5, <1>7, <1>8, <1>9, GatherKeeps

-----------------------------------------------------------------------------
\* The invariant holds at the start of a fusion.
LEMMA RoundsStart ==
    ASSUME Init
    PROVE  RoundsInv
<1>1. /\ stage = "begin" /\ round = 0 /\ clients = Player /\ dead = {} /\ results = {} /\ fails = {}
      /\ expected = 0 /\ open = FALSE /\ recorded = {} /\ components = {} /\ signatures = {} /\ last_hash = 0
      /\ broadcast = {} /\ relayed = [p \in Player |-> p] /\ inbox = [p \in Player |-> <<>>]
      /\ outbox = [p \in Player |-> ""] /\ status = [p \in Player |-> "startround"]
      /\ my_hash = [p \in Player |-> 0] /\ round_pubkey = [p \in Player |-> 0]
      /\ sent = [p \in Player |-> {}] /\ agreed = [p \in Player |-> <<>>] /\ spent = {} /\ faults = 0
  BY DEF Init
<1>2. /\ 0 \in 0..MaxRound /\ 0 \in 0..MaxFaults /\ 0 \in 0..Cardinality(Player) /\ Len(<<>>) <= 3
      /\ <<>> \in Seq(ServerMessage) /\ 0 <= 0
  BY RoundsAssumption, FS_CardinalityType
<1>3. TypeOK
  <2>1. /\ inbox \in [Player -> Seq(ServerMessage)] /\ \A p \in Player : Len(inbox[p]) <= 3
    BY <1>1, <1>2
  <2>2. /\ outbox \in [Player -> PlayerMessage] /\ status \in [Player -> Status]
        /\ round_pubkey \in [Player -> 0..MaxRound] /\ my_hash \in [Player -> 0..MaxRound]
    BY <1>1, <1>2 DEF PlayerMessage, Status
  <2>3. sent \in [Player -> SUBSET Kind] /\ agreed \in [Player -> Transaction \cup {<<>>}] /\ relayed \in [Player -> Player]
    BY <1>1
  <2>4. /\ stage \in {"begin", "commitments", "components", "signatures", "proofs", "blames", "ended"}
        /\ round \in 0..MaxRound /\ last_hash \in 0..MaxRound
        /\ clients \subseteq Player /\ dead \subseteq Player
        /\ results \subseteq Player /\ fails \subseteq Player \ results /\ recorded \subseteq Player
        /\ expected \in 0..Cardinality(Player) /\ open \in BOOLEAN
        /\ components \subseteq Component /\ signatures \subseteq Player /\ broadcast \subseteq Transaction
        /\ spent \subseteq Player /\ faults \in 0..MaxFaults
    BY <1>1, <1>2
  <2>5. QED
    BY <2>1, <2>2, <2>3, <2>4, Zenon DEF TypeOK
<1>4. ASSUME NEW p \in Player PROVE Turns(p) /\ InSession(p) /\ Consents(p) /\ my_hash[p] <= last_hash
  <2>1. inbox[p] = <<>> /\ outbox[p] = "" /\ my_hash[p] = 0 /\ agreed[p] = <<>>
    BY <1>1
  <2>2. Lists(p) = {}
    <3>1. DOMAIN <<>> = {}
      <4>1. <<>> \in Seq({}) /\ Len(<<>>) = 0
        BY EmptySeq
      <4>2. DOMAIN <<>> = 1..Len(<<>>)
        BY <4>1, LenProperties, Zenon
      <4>3. 1..0 = {}
        OBVIOUS
      <4>4. QED
        BY <4>1, <4>2, <4>3, Zenon
    <3>2. DOMAIN inbox[p] = {}
      BY <2>1, <3>1, Zenon
    <3>3. QED
      BY <3>2, Zenon DEF Lists
  <2>3. Turns(p)
    BY <1>1, <2>1 DEF Turns, Unread
  <2>4. QED
    BY <1>1, <1>2, <2>1, <2>2, <2>3 DEF InSession, Consents
<1>5. Session
  BY <1>1, <1>2, <1>4 DEF Session
<1>6. Signing
  BY <1>1 DEF Signing, SignedByAll
<1>7. QED
  BY <1>3, <1>5, <1>6 DEF RoundsInv

\* Every step keeps it.
LEMMA RoundsStep ==
    ASSUME RoundsInv, [Next]_vars
    PROVE  RoundsInv'
<1>1. CASE Controller
  BY <1>1, StartKeeps, CommitmentsKeep, ComponentsKeep, SignaturesKeep, ProofsKeep, BlamesKeep, Zenon DEF Controller
<1>2. ASSUME NEW p \in Player, PlayerStep(p) PROVE RoundsInv'
  BY <1>2, CommitKeeps, SilentKeeps, ComponentKeeps, ShareKeeps, SignatureKeeps, AnswerKeeps, LeaveKeeps, Zenon
     DEF PlayerStep
<1>3. ASSUME NEW p \in Player, PlayerFault(p) PROVE RoundsInv'
  BY <1>3, ComponentKeeps, LeaveKeeps, DropKeeps, Zenon DEF PlayerFault
<1>4. ASSUME NEW p \in Player, ThreadStep(p) PROVE RoundsInv'
  BY <1>4, ReceiveKeeps, DropKeeps, Zenon DEF ThreadStep
<1>5. CASE UNCHANGED vars
  <2>1. UNCHANGED serverVars /\ UNCHANGED <<inbox, outbox, status, round_pubkey, my_hash, sent, agreed, spent, faults>>
    BY <1>5 DEF vars, playerVars
  <2>2. TypeOK /\ Session /\ Signing
    BY DEF RoundsInv
  <2>3. TypeOK'
    BY <2>1, <2>2, PlayerTyped, PlayerTypes, Zenon
  <2>4. Session' /\ Signing'
    BY <2>1, <2>2, SpendKeeps, Zenon
  <2>5. QED
    BY <2>3, <2>4 DEF RoundsInv
<1>6. QED
  BY <1>1, <1>2, <1>3, <1>4, <1>5, Zenon DEF Next

\* The inductive invariant of the rounds holds in every state: server and
\* clients take turns, their session hashes differ by the list under way, and
\* what is signed is what its signer agreed to.
THEOREM RoundsAlways == Spec => []RoundsInv
<1>1. Init => RoundsInv
  BY RoundsStart
<1>2. RoundsInv /\ [Next]_vars => RoundsInv'
  BY RoundsStep
<1>3. QED
  BY <1>1, <1>2, PTL DEF Spec

\* Every variable keeps to its values, whatever fails: in particular no client
\* is counted by a ResultsCollector both as a result and as a failure, and at
\* most three messages wait for a player.
THEOREM RoundsTyped == Spec => []TypeOK
<1>1. RoundsInv => TypeOK
  BY DEF RoundsInv
<1>2. QED
  BY <1>1, RoundsAlways, PTL

\* A transaction the server broadcasts was signed as it is by the owner of every
\* input in it and pays every one of them, in whatever order players, threads
\* and failed rounds interleave.
THEOREM BroadcastIsSigned == Spec => []SignedByAll
<1>1. RoundsInv => SignedByAll
  BY Zenon DEF RoundsInv, Signing
<1>2. QED
  BY <1>1, RoundsAlways, PTL

\* A player that stays through failed rounds never meets a "Session hash
\* mismatch": the list it reads is the one after the last in its hash.
THEOREM HashesAgree == Spec => []HashAgrees
<1>1. ASSUME RoundsInv PROVE HashAgrees
  <2> SUFFICES ASSUME NEW p \in Player, Gets(p, "sharecovertcomponents")
               PROVE  hashed(p, Msg(p)) = Msg(p).hash
    BY DEF HashAgrees
  <2>1. /\ TypeOK /\ Session /\ inbox[p] # <<>> /\ Msg(p).kind = "sharecovertcomponents" /\ status[p] \notin Over
    BY <1>1, Zenon DEF RoundsInv, Gets, Msg
  <2>2. InSession(p)
    BY <2>1, Zenon DEF Session
  <2>3. 1 \in Lists(p) /\ inbox[p][1] = Msg(p)
    BY <2>1, ReadFacts DEF Lists, Msg
  <2>4. QED
    BY <2>2, <2>3 DEF InSession, hashed
<1>2. QED
  BY <1>1, RoundsAlways, PTL
=============================================================================
