---------------------------- MODULE CovertProofs ----------------------------
(***************************************************************************)
(* Proofs about Covert, for any number of slots, spares, phases and broken  *)
(* connections.                                                            *)
(***************************************************************************)
EXTENDS Covert, SequenceTheorems, TLAPS

\* Slots, phases and connections are positive numbers, None is none of them.
LEMMA Domains ==
    /\ None \notin Slot /\ None \notin Phase
    /\ 1 \in Slot /\ 1 \in Phase /\ 1 \in Conn
  BY CovertAssumption DEF Slot, Phase, Conn, None

\* The answers and an idle connection differ from each other and from every
\* message, and only messages have length two.
LEMMA WireKinds ==
    /\ Quiet # Ok /\ Quiet # Error /\ Ok # Error
    /\ Quiet \notin Message /\ Ok \notin Message /\ Error \notin Message
    /\ Len(Quiet) = 0 /\ Len(Ok) = 1 /\ Len(Error) = 1
    /\ \A m \in Message : Len(m) = 2 /\ m[1] \in Slot /\ m[2] \in Phase /\ m = <<m[1], m[2]>>
<1>1. Len(Quiet) = 0 /\ Len(Ok) = 1 /\ Len(Error) = 1
  BY DEF Quiet, Ok, Error
<1>2. \A m \in Message : Len(m) = 2 /\ m[1] \in Slot /\ m[2] \in Phase /\ m = <<m[1], m[2]>>
  BY DEF Message
<1>3. Ok # Error
  BY DEF Ok, Error
<1>4. QED
  BY <1>1, <1>2, <1>3

\* A connection has something for the server to read iff it carries a message.
LEMMA PendingMessage ==
    ASSUME NEW c \in Conn, wire[c] \in Wire
    PROVE  Pending(c) <=> wire[c] \in Message
<1>1. CASE wire[c] \in Message
  BY <1>1, WireKinds DEF Pending
<1>2. CASE wire[c] \in {Quiet, Ok, Error}
  <2>1. Len(wire[c]) # 2 /\ wire[c] \notin Message
    BY <1>2, WireKinds
  <2>2. QED
    BY <2>1 DEF Pending
<1>3. QED
  BY <1>1, <1>2 DEF Wire

\* The initial state.
LEMMA InitInv == Init => CovertInv
<1> SUFFICES ASSUME Init PROVE CovertInv
  OBVIOUS
<1>1. TypeOK
  <2>1. covconn \in [Slot -> Conn] /\ slotnum \in [Conn -> Slot \cup {None}]
    BY CovertAssumption DEF Init, Slot, Conn
  <2>2. spare_connections \in Seq(Conn)
    BY CovertAssumption DEF Init, Conn
  <2>3. phase \in Phase /\ at \in Slot /\ picked \in Conn /\ failures \in 0..MaxFailures
    BY Domains, CovertAssumption DEF Init
  <2>4. Quiet \in Wire
    BY DEF Wire
  <2>5. QED
    BY <2>1, <2>2, <2>3, <2>4 DEF Init, TypeOK
<1>2. Paired
  BY CovertAssumption DEF Init, Paired, InList, Slot, Conn, None
<1>3. OneSlot
  <2>1. \A c \in Conn : ~Pending(c)
    BY WireKinds DEF Init, Pending
  <2>2. stored = {} /\ \A c \in Conn : slotnum[c] \in Slot \cup {None}
    BY DEF Init
  <2>3. QED
    BY <2>1, <2>2, Domains DEF OneSlot, Carries
<1>4. Wires
  BY Domains DEF Init, Wires, InStep
<1>5. Work
  BY Domains DEF Init, Work
<1>6. QED
  BY <1>1, <1>2, <1>3, <1>4, <1>5 DEF CovertInv

-----------------------------------------------------------------------------
(* Type correctness.                                                       *)

\* What a failed connection leaves behind.
LEMMA FailTyped ==
    ASSUME TypeOK, NEW c \in Conn, NEW u \in BOOLEAN, fail(c, u)
    PROVE  /\ covconn' \in [Slot -> Conn] /\ slotnum' \in [Conn -> Slot \cup {None}]
           /\ pc' = [pc EXCEPT ![c] = "ended"]
           /\ wakeup' \in [Conn -> BOOLEAN]
           /\ spare_connections' \in Seq(Conn)
           /\ stopping' \in BOOLEAN /\ failure_exception' \in BOOLEAN
<1>1. spare_connections # <<>> =>
         /\ Len(spare_connections) \in 1..Len(spare_connections)
         /\ spare_connections[Len(spare_connections)] \in Conn
         /\ popped \in Seq(Conn)
  BY DEF TypeOK, popped
<1>2. QED
  BY <1>1 DEF TypeOK, fail, stop, wake_all

\* A step in which a connection fails keeps every variable to its values.
LEMMA FailStepTyped ==
    ASSUME TypeOK, NEW c \in Conn, NEW u \in BOOLEAN, fail(c, u),
           wire' \in {wire, [wire EXCEPT ![c] = Quiet]},
           UNCHANGED <<mainVars, serverVars>>, failures' \in 0..MaxFailures
    PROVE  TypeOK'
<1>1. UNCHANGED <<submsg, done, t_submit, t_ping, connection, action, main, phase, at, picked,
                  window, last, got_submit, srv, stored>>
  BY DEF fail, mainVars, serverVars
<1>2. pc' \in [Conn -> {"pending", "waiting", "sent", "acked", "stopping", "ended"}]
  BY DEF TypeOK, fail
<1>3. Quiet \in Wire
  BY DEF Wire
<1>4. /\ covconn' \in [Slot -> Conn] /\ slotnum' \in [Conn -> Slot \cup {None}]
      /\ wakeup' \in [Conn -> BOOLEAN] /\ spare_connections' \in Seq(Conn)
      /\ stopping' \in BOOLEAN /\ failure_exception' \in BOOLEAN
  BY FailTyped, Zenon
<1>5. wire' \in [Conn -> Wire]
  BY <1>3 DEF TypeOK
<1>6. QED
  BY <1>1, <1>2, <1>4, <1>5 DEF TypeOK

\* The bound on failures.
LEMMA Counted ==
    ASSUME TypeOK, CanFail
    PROVE  failures' \in 0..MaxFailures
  BY CovertAssumption DEF TypeOK, CanFail

\* So does every step of run_connection ...
LEMMA ConnTyped ==
    ASSUME TypeOK, Wires, NEW c \in Conn, Connection(c)
    PROVE  TypeOK'
<1> USE DEF TypeOK, slotVars, connVars, poolVars, mainVars, serverVars, loop
<1>1. CASE PendingWoken(c)
  BY <1>1 DEF PendingWoken
<1>2. CASE Connect(c) \/ Woken(c) \/ Ping(c)
  BY <1>2 DEF Connect, Woken, Ping
<1>3. CASE Close(c)
  BY <1>3 DEF Close
<1>10. CASE Send(c)
  <2>1. <<slotnum[c], submsg[slotnum[c]]>> \in Wire
    BY <1>10 DEF Send, Wires, InStep, Wire, Message
  <2>2. QED
    BY <1>10, <2>1 DEF Send
<1>4. CASE Acked(c)
  BY <1>4 DEF Acked, Wire
<1>5. CASE Cleared(c)
  BY <1>5 DEF Cleared
<1>6. CASE ConnectFails(c) \/ PingFails(c) \/ SubmitFails(c)
  BY <1>6, FailStepTyped, Counted DEF ConnectFails, PingFails, SubmitFails
<1>7. CASE Inactive(c)
  BY <1>7, FailStepTyped, Counted DEF Inactive
<1>8. CASE Refused(c)
  BY <1>8, FailStepTyped DEF Refused
<1>9. QED
  BY <1>1, <1>2, <1>3, <1>4, <1>5, <1>6, <1>7, <1>8, <1>10 DEF Connection

\* ... of the fusion thread ...
LEMMA ThreadTyped ==
    ASSUME TypeOK, FusionThread
    PROVE  TypeOK'
<1> USE DEF TypeOK, slotVars, connVars, poolVars, mainVars, serverVars
<1>1. CASE Leave
  BY <1>1 DEF Leave, leave, stop, wake_all
<1>2. CASE StartComponents
  BY <1>2 DEF StartComponents, leave, stop, wake_all
<1>3. CASE TellSpares
  <2>1. t_ping' \in [Conn -> BOOLEAN] /\ wakeup' \in [Conn -> BOOLEAN]
    BY <1>3 DEF TellSpares
  <2>2. at' \in Slot
    BY <1>3, Domains DEF TellSpares
  <2>3. QED
    BY <1>3, <2>1, <2>2 DEF TellSpares
<1>4. CASE PickConn
  BY <1>4 DEF PickConn
<1>5. CASE PutWork
  <2>1. at' \in Slot
    BY <1>5, CovertAssumption DEF PutWork, more_slots, Slot
  <2>2. /\ submsg' \in [Slot -> Phase \cup {None}] /\ done' \in [Slot -> BOOLEAN]
        /\ t_submit' \in [Slot -> BOOLEAN] /\ t_ping' \in [Conn -> BOOLEAN]
        /\ wakeup' \in [Conn -> BOOLEAN]
    BY <1>5 DEF PutWork
  <2>3. QED
    BY <1>5, <2>1, <2>2 DEF PutWork
<1>6. CASE CheckDone
  <2>1. phase' \in Phase
    <3>1. phase' = phase \/ (phase' = last /\ last > phase)
      BY <1>6 DEF CheckDone, leave
    <3>2. QED
      BY <3>1, CovertAssumption DEF Phase, None
  <2>2. QED
    BY <1>6, <2>1 DEF CheckDone, leave, stop, wake_all
<1>7. QED
  BY <1>1, <1>2, <1>3, <1>4, <1>5, <1>6 DEF FusionThread

\* ... and of the server.
LEMMA ServerTyped ==
    ASSUME TypeOK, Wires, Server
    PROVE  TypeOK'
<1> USE DEF TypeOK, slotVars, connVars, poolVars, mainVars, serverVars
<1>1. CASE OpenWindow
  BY <1>1 DEF OpenWindow
<1>2. CASE CloseWindow
  BY <1>2 DEF CloseWindow
<1>5. ASSUME NEW c \in Conn, Receive(c) \/ SendOk(c) \/ Mark(c) PROVE TypeOK'
  <2>1. CASE Receive(c)
    BY <2>1 DEF Receive, refuse, Wire
  <2>2. CASE SendOk(c)
    BY <2>2 DEF SendOk, Wire
  <2>3. CASE Mark(c)
    BY <2>3 DEF Mark
  <2>4. QED
    BY <1>5, <2>1, <2>2, <2>3
<1>3. ASSUME NEW c \in Conn, Store(c) PROVE TypeOK'
  <2>1. wire[c] \in Message
    BY <1>3, PendingMessage DEF Store
  <2>2. wire[c][1] \in Slot /\ wire[c][2] \in Phase
    BY <2>1 DEF Message
  <2>3. stored' \subseteq Slot \X Phase \X Conn
    BY <1>3, <2>2 DEF Store
  <2>4. wire' \in [Conn -> Wire] /\ srv' \in [Conn -> {"recv", "checked", "ack", "mark", "gone"}]
    BY <1>3 DEF Store, refuse, Wire
  <2>5. QED
    BY <1>3, <2>3, <2>4 DEF Store
<1>4. QED
  BY <1>1, <1>2, <1>3, <1>5 DEF Server

-----------------------------------------------------------------------------
(* Slots, connections and work.                                            *)

\* The inductive invariant without the types.
SlotInv == Paired /\ OneSlot /\ Wires /\ Work

\* A connection neither sends nor fails: it starts, wakes up, pings or ends,
\* and goes on to submit only if its slot has work.
Idles(c, v, a) ==
    /\ pc[c] \in {"pending", "waiting", "stopping"}
    /\ v \in {"pending", "waiting", "stopping", "ended"}
    /\ pc' = [pc EXCEPT ![c] = v] /\ action' = [action EXCEPT ![c] = a]
    /\ v = "waiting" /\ a = "submit" => HasWork(c)
    /\ UNCHANGED <<covconn, submsg, done, t_submit, slotnum, spare_connections,
                   main, at, srv, wire, stored>>

\* Such a step keeps the invariant.
LEMMA IdleStep ==
    ASSUME TypeOK, SlotInv, NEW c \in Conn, NEW v, NEW a, Idles(c, v, a)
    PROVE  SlotInv'
<1> USE DEF Idles
<1>1. Paired'
  BY DEF SlotInv, TypeOK, Paired
<1>2. OneSlot'
  BY DEF SlotInv, OneSlot, Carries, Pending
<1>3. v = "waiting" /\ a = "submit" => slotnum[c] # None /\ ~done[slotnum[c]] /\ submsg[slotnum[c]] # None
  BY DEF SlotInv, TypeOK, HasWork, Paired, Work
<1>4. Wires'
  BY <1>3 DEF SlotInv, TypeOK, Wires, InStep, Submitting
<1>5. Work'
  BY DEF SlotInv, TypeOK, Work
<1>6. QED
  BY <1>1, <1>2, <1>4, <1>5 DEF SlotInv

\* slot.submit sends the slot's message on its own connection.
LEMMA SendStep ==
    ASSUME TypeOK, SlotInv, NEW c \in Conn, Send(c)
    PROVE  SlotInv'
<1> DEFINE s == slotnum[c]
           m == <<s, submsg[s]>>
<1>1. /\ pc[c] = "waiting" /\ pc' = [pc EXCEPT ![c] = "sent"]
      /\ wire' = [wire EXCEPT ![c] = m]
      /\ UNCHANGED <<covconn, submsg, done, t_submit, slotnum, action, spare_connections,
                     main, at, srv, stored>>
      /\ s \in Slot /\ ~done[s] /\ submsg[s] \in Phase
  BY DEF Send, SlotInv, TypeOK, Wires, InStep, slotVars, poolVars, mainVars, serverVars
<1>2. m[1] = s /\ wire[c] = Quiet /\ srv[c] \in {"recv", "mark"}
  BY <1>1 DEF SlotInv, Wires, InStep
<1>3. \A d \in Conn : wire'[d] = IF d = c THEN m ELSE wire[d]
  BY <1>1 DEF TypeOK
<1>4. \A d \in Conn : pc'[d] = IF d = c THEN "sent" ELSE pc[d]
  BY <1>1 DEF TypeOK
<1> HIDE DEF m
<1>5. Paired'
  <2>1. c \notin InList(spare_connections)
    BY <1>1, Domains DEF SlotInv, Paired
  <2>2. \A d \in InList(spare_connections) : d \in Conn
    BY DEF TypeOK, InList
  <2>3. QED
    BY <1>1, <1>3, <1>4, <2>1, <2>2 DEF SlotInv, Paired
<1>6. OneSlot'
  <2> SUFFICES ASSUME NEW d \in Conn
               PROVE  \E r \in Slot : Carries(d, r)' /\ slotnum'[d] \in {r, None}
    BY DEF OneSlot
  <2>1. PICK r \in Slot : Carries(d, r) /\ slotnum[d] \in {r, None}
    BY DEF SlotInv, OneSlot
  <2>2. CASE d # c
    BY <1>1, <1>3, <2>1, <2>2 DEF Carries, Pending
  <2>3. CASE d = c
    BY <1>1, <1>2, <1>3, <2>1, <2>3, Domains DEF Carries
  <2>4. QED
    BY <2>2, <2>3
<1>7. Wires'
  <2> SUFFICES ASSUME NEW d \in Conn
               PROVE  InStep(d)'
    BY DEF Wires
  <2>1. CASE d # c
    BY <1>1, <1>3, <1>4, <2>1 DEF SlotInv, Wires, InStep, Submitting
  <2>2. CASE d = c
    <3>1. Submitting(c)'
      BY <1>1, <1>2, <1>3, Domains DEF Submitting, m
    <3>2. QED
      BY <1>4, <2>2, <3>1 DEF InStep
  <2>3. QED
    BY <2>1, <2>2
<1>8. Work'
  BY <1>1, <1>4 DEF SlotInv, TypeOK, Work
<1>9. QED
  BY <1>5, <1>6, <1>7, <1>8 DEF SlotInv

\* The spares are connections.
LEMMA SparesKnown == TypeOK => InList(spare_connections) \subseteq Conn
  BY DEF TypeOK, InList

\* The acknowledgement came: what the slot was waiting for is stored, so it
\* may be done.
LEMMA AckedStep ==
    ASSUME TypeOK, SlotInv, NEW c \in Conn, Acked(c)
    PROVE  SlotInv'
<1> DEFINE s == slotnum[c]
<1>1. /\ pc[c] = "sent" /\ wire[c] = Ok /\ pc' = [pc EXCEPT ![c] = "acked"]
      /\ wire' = [wire EXCEPT ![c] = Quiet] /\ done' = [done EXCEPT ![s] = TRUE]
      /\ UNCHANGED <<covconn, submsg, t_submit, slotnum, action, spare_connections,
                     main, at, srv, stored>>
  BY DEF Acked, acknowledged, poolVars, mainVars, serverVars
<1>2. /\ s \in Slot /\ submsg[s] # None /\ srv[c] \in {"recv", "mark"}
      /\ <<s, submsg[s], c>> \in stored
  <2>1. Submitting(c)
    BY <1>1 DEF SlotInv, Wires, InStep
  <2>2. s \in Slot /\ submsg[s] \in Phase
    BY <2>1 DEF Submitting, TypeOK
  <2>3. <<s, submsg[s]>> # Ok
    BY <2>2, WireKinds DEF Message
  <2>4. QED
    BY <1>1, <2>1, <2>2, <2>3, WireKinds DEF Submitting
<1>3. \A d \in Conn : wire'[d] = IF d = c THEN Quiet ELSE wire[d]
  BY <1>1 DEF TypeOK
<1>4. \A d \in Conn : pc'[d] = IF d = c THEN "acked" ELSE pc[d]
  BY <1>1 DEF TypeOK
<1>5. \A r \in Slot : done'[r] = IF r = s THEN TRUE ELSE done[r]
  BY <1>1 DEF TypeOK
<1>6. \A d \in Conn : d # c => slotnum[d] # s
  BY <1>2, Domains DEF SlotInv, Paired
<1> HIDE DEF s
<1>7. Paired'
  BY <1>1, <1>3, <1>4, SparesKnown DEF SlotInv, Paired
<1>8. OneSlot'
  <2> SUFFICES ASSUME NEW d \in Conn
               PROVE  \E r \in Slot : Carries(d, r)' /\ slotnum'[d] \in {r, None}
    BY DEF OneSlot
  <2>1. PICK r \in Slot : Carries(d, r) /\ slotnum[d] \in {r, None}
    BY DEF SlotInv, OneSlot
  <2>2. Pending(d)' => Pending(d) /\ wire'[d] = wire[d]
    BY <1>3, WireKinds DEF Pending
  <2>3. QED
    BY <1>1, <2>1, <2>2 DEF Carries
<1>9. Wires'
  <2> SUFFICES ASSUME NEW d \in Conn
               PROVE  InStep(d)'
    BY DEF Wires
  <2>1. CASE d # c
    <3>1. slotnum[d] # None => slotnum[d] \in Slot /\ done'[slotnum[d]] = done[slotnum[d]]
      BY <1>5, <1>6, <2>1 DEF TypeOK
    <3>2. InStep(d)
      BY DEF SlotInv, Wires
    <3>3. /\ pc'[d] = pc[d] /\ wire'[d] = wire[d] /\ srv'[d] = srv[d]
          /\ slotnum'[d] = slotnum[d] /\ action'[d] = action[d] /\ submsg' = submsg
      BY <1>1, <1>3, <1>4, <2>1
    <3>4. Submitting(d) => Submitting(d)'
      BY <1>1, <3>1, <3>3 DEF Submitting
    <3>5. QED
      BY <3>1, <3>2, <3>3, <3>4 DEF InStep
  <2>2. CASE d = c
    BY <1>1, <1>2, <1>3, <1>4, <2>2, Domains DEF InStep, s
  <2>3. QED
    BY <2>1, <2>2
<1>10. Work'
  <2>1. covconn[s] = c
    BY <1>2, Domains DEF SlotInv, Paired, s
  <2>2. \A r \in Slot : t_submit[r] /\ done'[r] => pc'[covconn[r]] = "acked"
    BY <1>2, <1>4, <1>5, <2>1 DEF SlotInv, Work, TypeOK
  <2>3. \A r \in Slot : done'[r] /\ submsg[r] # None => \E d \in Conn : <<r, submsg[r], d>> \in stored
    BY <1>2, <1>5 DEF SlotInv, Work
  <2>4. \A r \in Slot : done[r] => done'[r]
    BY <1>5
  <2>5. at..NumSlots \subseteq Slot
    BY CovertAssumption DEF TypeOK, Slot
  <2>6. QED
    BY <1>1, <2>2, <2>3, <2>4, <2>5 DEF SlotInv, Work
<1>11. QED
  BY <1>7, <1>8, <1>9, <1>10 DEF SlotInv

\* submit clears its times after it marked the slot as done.
LEMMA ClearedStep ==
    ASSUME TypeOK, SlotInv, NEW c \in Conn, Cleared(c)
    PROVE  SlotInv'
<1> DEFINE s == slotnum[c]
           v == IF stopping THEN "stopping" ELSE "waiting"
<1>1. /\ pc[c] = "acked" /\ pc' = [pc EXCEPT ![c] = v]
      /\ t_submit' = [t_submit EXCEPT ![s] = FALSE]
      /\ action' = [action EXCEPT ![c] = "inactive"]
      /\ UNCHANGED <<covconn, submsg, done, slotnum, spare_connections,
                     main, at, srv, stored, wire>>
  BY DEF Cleared, loop, poolVars, mainVars, serverVars
<1>2. s \in Slot /\ wire[c] = Quiet /\ srv[c] \in {"recv", "mark"} /\ covconn[s] = c
  BY <1>1, Domains DEF SlotInv, Wires, InStep, TypeOK, Paired
<1>3. \A d \in Conn : pc'[d] = IF d = c THEN v ELSE pc[d]
  BY <1>1 DEF TypeOK
<1>4. \A r \in Slot : t_submit'[r] = IF r = s THEN FALSE ELSE t_submit[r]
  BY <1>1 DEF TypeOK
<1>5. \A d \in Conn : action'[d] = IF d = c THEN "inactive" ELSE action[d]
  BY <1>1 DEF TypeOK
<1>6. v \in {"stopping", "waiting"}
  OBVIOUS
<1> HIDE DEF s, v
<1>7. Paired'
  BY <1>1, <1>3, <1>6 DEF SlotInv, Paired
<1>8. OneSlot'
  BY <1>1 DEF SlotInv, OneSlot, Carries, Pending
<1>9. Wires'
  <2> SUFFICES ASSUME NEW d \in Conn
               PROVE  InStep(d)'
    BY DEF Wires
  <2>1. CASE d # c
    BY <1>1, <1>3, <1>5, <2>1 DEF SlotInv, Wires, InStep, Submitting
  <2>2. CASE d = c
    BY <1>1, <1>2, <1>3, <1>5, <1>6, <2>2 DEF InStep
  <2>3. QED
    BY <2>1, <2>2
<1>10. Work'
  <2>1. \A r \in Slot : r # s => covconn[r] # c
    BY <1>2 DEF SlotInv, Paired, s
  <2>2. \A r \in Slot : t_submit'[r] => t_submit[r] /\ r # s
    BY <1>4
  <2>3. \A r \in Slot : t_submit'[r] /\ done[r] => pc'[covconn[r]] = "acked"
    BY <1>3, <2>1, <2>2 DEF SlotInv, Work, TypeOK
  <2>4. QED
    BY <1>1, <2>2, <2>3 DEF SlotInv, Work
<1>11. QED
  BY <1>7, <1>8, <1>9, <1>10 DEF SlotInv

\* The list of spares after pop.
LEMMA PoppedSpares ==
    ASSUME TypeOK, Paired, spare_connections # <<>>
    PROVE  LET spare == spare_connections[Len(spare_connections)]
           IN  /\ spare \in Conn /\ spare \in InList(spare_connections)
               /\ InList(popped) = InList(spare_connections) \ {spare}
               /\ \A i, j \in DOMAIN popped : popped[i] = popped[j] => i = j
<1> DEFINE k == Len(spare_connections)
<1>1. /\ k \in Nat \ {0} /\ DOMAIN spare_connections = 1..k
      /\ \A i \in 1..k : spare_connections[i] \in Conn
  BY DEF TypeOK
<1>2. DOMAIN popped = 1..(k-1) /\ \A i \in 1..(k-1) : popped[i] = spare_connections[i]
  BY <1>1 DEF popped, TypeOK
<1>3. \A i, j \in 1..k : spare_connections[i] = spare_connections[j] => i = j
  BY <1>1 DEF Paired
<1> HIDE DEF k
<1>4. InList(popped) = InList(spare_connections) \ {spare_connections[k]}
  <2>1. \A x : x \in InList(popped) <=> \E i \in 1..(k-1) : x = spare_connections[i]
    BY <1>2 DEF InList
  <2>2. \A x : x \in InList(spare_connections) <=> \E i \in 1..k : x = spare_connections[i]
    BY <1>1 DEF InList
  <2>3. \A i \in 1..k : i \in 1..(k-1) <=> spare_connections[i] # spare_connections[k]
    BY <1>1, <1>3
  <2>4. \A i \in 1..(k-1) : i \in 1..k
    BY <1>1
  <2>5. QED
    BY <2>1, <2>2, <2>3, <2>4
<1>5. QED
  BY <1>1, <1>2, <1>3, <1>4 DEF InList, k

\* A failed connection, when there is no slot or no spare to give it to.
LEMMA DropStep ==
    ASSUME TypeOK, SlotInv, NEW c \in Conn,
           pc[c] \in {"pending", "waiting", "sent"}, pc' = [pc EXCEPT ![c] = "ended"],
           wire' \in {wire, [wire EXCEPT ![c] = Quiet]},
           UNCHANGED <<covconn, submsg, done, t_submit, slotnum, action, spare_connections,
                       main, at, srv, stored>>
    PROVE  SlotInv'
<1>1. \A d \in Conn : pc'[d] = IF d = c THEN "ended" ELSE pc[d]
  BY DEF TypeOK
<1>2. \A d \in Conn : wire'[d] \in {wire[d], Quiet} /\ (d # c => wire'[d] = wire[d])
  BY DEF TypeOK
<1>3. Paired'
  BY <1>1, <1>2, SparesKnown DEF SlotInv, Paired
<1>4. OneSlot'
  <2> SUFFICES ASSUME NEW d \in Conn
               PROVE  \E r \in Slot : Carries(d, r)' /\ slotnum'[d] \in {r, None}
    BY DEF OneSlot
  <2>1. PICK r \in Slot : Carries(d, r) /\ slotnum[d] \in {r, None}
    BY DEF SlotInv, OneSlot
  <2>2. Pending(d)' => Pending(d) /\ wire'[d] = wire[d]
    BY <1>2, WireKinds DEF Pending
  <2>3. QED
    BY <2>1, <2>2 DEF Carries
<1>5. Wires'
  <2> SUFFICES ASSUME NEW d \in Conn
               PROVE  InStep(d)'
    BY DEF Wires
  <2>1. CASE d # c
    BY <1>1, <1>2, <2>1 DEF SlotInv, Wires, InStep, Submitting
  <2>2. CASE d = c
    BY <1>1, <2>2 DEF InStep
  <2>3. QED
    BY <2>1, <2>2
<1>6. Work'
  <2>1. \A r \in Slot : t_submit[r] /\ done[r] => pc'[covconn[r]] = "acked"
    BY <1>1 DEF SlotInv, Work, TypeOK
  <2>2. QED
    BY <2>1 DEF SlotInv, Work
<1>7. QED
  BY <1>3, <1>4, <1>5, <1>6 DEF SlotInv

\* The connection c of slot s fails and the slot goes to spare.
Reassigned(c, s, spare) ==
    /\ slotnum[c] = s /\ pc[c] \in {"pending", "waiting", "sent"}
    /\ spare \in InList(spare_connections)
    /\ InList(spare_connections') = InList(spare_connections) \ {spare}
    /\ \A i, j \in DOMAIN spare_connections' :
           spare_connections'[i] = spare_connections'[j] => i = j
    /\ \A d \in Conn : pc'[d] = IF d = c THEN "ended" ELSE pc[d]
    /\ \A d \in Conn : wire'[d] \in {wire[d], Quiet} /\ (d # c => wire'[d] = wire[d])
    /\ \A d \in Conn : slotnum'[d] = IF d = c THEN None ELSE IF d = spare THEN s ELSE slotnum[d]
    /\ \A r \in Slot : covconn'[r] = IF r = s THEN spare ELSE covconn[r]
    /\ UNCHANGED <<submsg, done, t_submit, action, main, at, srv, stored>>

\* A failed connection whose slot goes to the last spare, which has carried
\* nothing yet.
LEMMA ReassignStep ==
    ASSUME TypeOK, SlotInv, NEW c \in Conn, NEW s \in Slot, NEW spare \in Conn,
           Reassigned(c, s, spare)
    PROVE  SlotInv'
<1> USE DEF Reassigned
<1>2. covconn[s] = c
  BY Domains DEF SlotInv, Paired
<1>3. /\ slotnum[spare] = None /\ wire[spare] = Quiet /\ \A x \in stored : x[3] # spare
      /\ spare # c
  BY Domains DEF SlotInv, Paired
<1>8. /\ \A r \in Slot : covconn[r] \in Conn /\ slotnum[covconn[r]] = r
      /\ \A d \in Conn : slotnum[d] # None => slotnum[d] \in Slot /\ covconn[slotnum[d]] = d
  BY DEF SlotInv, Paired, TypeOK
<1>9. InList(spare_connections) \subseteq Conn
  BY SparesKnown
<1>10. Paired'
  <2>1. \A r \in Slot : slotnum'[covconn'[r]] = r
    BY <1>2, <1>3, <1>8, Domains
  <2>2. \A d \in Conn : slotnum'[d] # None => covconn'[slotnum'[d]] = d
    BY <1>2, <1>3, <1>8, Domains
  <2>3. \A d \in Conn : slotnum'[d] = None => d \in InList(spare_connections') \/ pc'[d] = "ended"
    BY <1>2, Domains DEF SlotInv, Paired
  <2>4. \A d \in InList(spare_connections') :
           slotnum'[d] = None /\ wire'[d] = Quiet /\ srv[d] = "recv" /\ \A x \in stored : x[3] # d
    BY <1>9 DEF SlotInv, Paired
  <2>5. QED
    BY <2>1, <2>2, <2>3, <2>4 DEF Paired
<1>11. OneSlot'
  <2> SUFFICES ASSUME NEW d \in Conn
               PROVE  \E r \in Slot : Carries(d, r)' /\ slotnum'[d] \in {r, None}
    BY DEF OneSlot
  <2>1. PICK r \in Slot : Carries(d, r) /\ slotnum[d] \in {r, None}
    BY DEF SlotInv, OneSlot
  <2>2. Pending(d)' => Pending(d) /\ wire'[d] = wire[d]
    BY WireKinds DEF Pending
  <2>3. CASE d = spare
    <3>1. ~Pending(d)'
      BY <1>3, <2>3, WireKinds DEF Pending
    <3>2. Carries(d, s)'
      BY <1>3, <2>3, <3>1 DEF Carries
    <3>3. QED
      BY <1>2, <1>3, <2>3, <3>2
  <2>4. CASE d # spare
    BY <2>1, <2>2, <2>4 DEF Carries
  <2>5. QED
    BY <2>3, <2>4
<1>12. Wires'
  <2> SUFFICES ASSUME NEW d \in Conn
               PROVE  InStep(d)'
    BY DEF Wires
  <2>1. InStep(d)
    BY DEF SlotInv, Wires
  <2>2. CASE d = c
    BY <2>2 DEF InStep
  <2>3. CASE d = spare
    <3>1. ~Submitting(spare)
      BY <1>3 DEF Submitting
    <3>2. QED
      BY <1>3, <2>1, <2>3, <3>1 DEF InStep
  <2>4. CASE d # c /\ d # spare
    BY <2>1, <2>4 DEF InStep, Submitting
  <2>5. QED
    BY <2>2, <2>3, <2>4
<1>13. Work'
  <2>1. \A r \in Slot : t_submit[r] /\ done[r] => r # s /\ pc[covconn[r]] = "acked" /\ covconn[r] # c
    BY <1>2 DEF SlotInv, Work
  <2>2. \A r \in Slot : t_submit[r] /\ done[r] => pc'[covconn'[r]] = "acked"
    BY <1>8, <2>1
  <2>3. QED
    BY <2>2 DEF SlotInv, Work
<1>14. QED
  BY <1>10, <1>11, <1>12, <1>13 DEF SlotInv

\* The except clause of run_connection.
LEMMA FailStep ==
    ASSUME TypeOK, SlotInv, NEW c \in Conn, NEW u \in BOOLEAN, fail(c, u),
           pc[c] \in {"pending", "waiting", "sent"},
           wire' \in {wire, [wire EXCEPT ![c] = Quiet]},
           UNCHANGED <<mainVars, serverVars>>
    PROVE  SlotInv'
<1>1. CASE slotnum[c] # None /\ spare_connections # <<>>
  <2>1. PICK spare \in Conn :
           /\ spare = spare_connections[Len(spare_connections)]
           /\ spare \in InList(spare_connections)
           /\ InList(popped) = InList(spare_connections) \ {spare}
           /\ \A i, j \in DOMAIN popped : popped[i] = popped[j] => i = j
    BY <1>1, PoppedSpares DEF SlotInv
  <2>2. PICK s \in Slot : s = slotnum[c]
    BY <1>1 DEF TypeOK
  <2>3. spare # c
    BY <1>1, <2>1 DEF SlotInv, Paired
  <2>4. /\ pc' = [pc EXCEPT ![c] = "ended"] /\ covconn' = [covconn EXCEPT ![s] = spare]
        /\ slotnum' = [slotnum EXCEPT ![spare] = s, ![c] = None] /\ spare_connections' = popped
        /\ UNCHANGED <<submsg, done, t_submit, action, main, at, srv, stored>>
    BY <1>1, <2>1, <2>2 DEF fail, mainVars, serverVars
  <2>5. /\ \A d \in Conn : pc'[d] = IF d = c THEN "ended" ELSE pc[d]
        /\ \A d \in Conn : wire'[d] \in {wire[d], Quiet} /\ (d # c => wire'[d] = wire[d])
        /\ \A d \in Conn : slotnum'[d] = IF d = c THEN None ELSE IF d = spare THEN s ELSE slotnum[d]
        /\ \A r \in Slot : covconn'[r] = IF r = s THEN spare ELSE covconn[r]
    BY <2>3, <2>4 DEF TypeOK
  <2>6. /\ InList(spare_connections') = InList(spare_connections) \ {spare}
        /\ \A i, j \in DOMAIN spare_connections' :
               spare_connections'[i] = spare_connections'[j] => i = j
    BY <2>1, <2>4
  <2>7. Reassigned(c, s, spare)
    BY <2>1, <2>2, <2>4, <2>5, <2>6 DEF Reassigned
  <2>8. QED
    BY <2>7, ReassignStep
<1>2. CASE slotnum[c] = None \/ spare_connections = <<>>
  BY <1>2, DropStep DEF fail, mainVars, serverVars
<1>3. QED
  BY <1>1, <1>2

\* Steps of the fusion thread and of the server's clock that touch neither
\* slots nor connections.
LEMMA FrameStep ==
    ASSUME TypeOK, SlotInv,
           UNCHANGED <<covconn, submsg, done, t_submit, slotnum, pc, action, spare_connections,
                       srv, wire, stored>>,
           main' \in {"warmup", "spares", "complete"} => \A s \in Slot : done[s],
           main' \in {"pick", "put"} => \A s \in at'..NumSlots : done[s]
    PROVE  SlotInv'
<1>1. Paired'
  BY DEF SlotInv, Paired
<1>2. OneSlot'
  BY DEF SlotInv, OneSlot, Carries, Pending
<1>3. Wires'
  BY DEF SlotInv, Wires, InStep, Submitting
<1>4. Work'
  BY DEF SlotInv, Work
<1>5. QED
  BY <1>1, <1>2, <1>3, <1>4 DEF SlotInv

\* The fusion thread goes on to another phase only when check_done found every
\* slot done, and starts its loop then.
LEMMA LoopStep ==
    ASSUME TypeOK, SlotInv,
           Leave \/ StartComponents \/ TellSpares \/ PickConn \/ CheckDone
    PROVE  SlotInv'
<1> USE DEF slotVars, connVars, poolVars, mainVars, serverVars
<1>1. CASE Leave
  BY <1>1, FrameStep DEF Leave, leave
<1>2. CASE StartComponents
  <2>1. main = "warmup" /\ main' \in {"failed", "spares"}
    BY <1>2 DEF StartComponents, leave
  <2>2. \A s \in Slot : done[s]
    BY <2>1 DEF SlotInv, Work
  <2>3. QED
    BY <1>2, <2>1, <2>2, FrameStep DEF StartComponents
<1>3. CASE TellSpares
  <2>1. main = "spares" /\ main' = "pick" /\ at' = 1
    BY <1>3 DEF TellSpares
  <2>2. \A s \in at'..NumSlots : done[s]
    BY <2>1 DEF SlotInv, Work, Slot
  <2>3. QED
    BY <1>3, <2>1, <2>2, FrameStep DEF TellSpares
<1>4. CASE PickConn
  <2>1. main = "pick" /\ main' = "put" /\ at' = at
    BY <1>4 DEF PickConn
  <2>2. \A s \in at'..NumSlots : done[s]
    BY <2>1 DEF SlotInv, Work
  <2>3. QED
    BY <1>4, <2>1, <2>2, FrameStep DEF PickConn
<1>5. CASE CheckDone
  <2>1. main' = "failed" \/ (main' \in {"complete", "warmup", "spares"} /\ \A s \in Slot : done[s])
    BY <1>5 DEF CheckDone, leave, NotDone
  <2>2. QED
    BY <1>5, <2>1, FrameStep DEF CheckDone
<1>6. QED
  BY <1>1, <1>2, <1>3, <1>4, <1>5

\* schedule_submissions gives a slot its next message only after the one
\* before was acknowledged: no connection still waits for its answer.
LEMMA PutStep ==
    ASSUME TypeOK, SlotInv, PutWork
    PROVE  SlotInv'
<1>1. /\ main = "put" /\ main' \in {"pick", "wait"} /\ at \in Slot /\ phase \in Phase
      /\ UNCHANGED <<covconn, slotnum, pc, action, spare_connections, srv, wire, stored>>
  BY DEF PutWork, TypeOK, poolVars, serverVars
<1>2. main' = "pick" => at' = at + 1
  BY DEF PutWork
<1>3. \A s \in at..NumSlots : done[s]
  BY <1>1 DEF SlotInv, Work
<1>4. at \in Nat /\ at <= NumSlots /\ at \in at..NumSlots /\ \A s \in (at + 1)..NumSlots : s \in at..NumSlots /\ s # at /\ s \in Slot
  BY <1>1, CovertAssumption DEF Slot
<1>5. CASE ~HasMessage(at, phase)
  <2>1. UNCHANGED <<submsg, done, t_submit>>
    BY <1>5 DEF PutWork
  <2>2. main' = "pick" => \A s \in at'..NumSlots : done[s]
    BY <1>2, <1>3, <1>4
  <2>3. QED
    BY <1>1, <2>1, <2>2, FrameStep
<1>6. CASE HasMessage(at, phase)
  <2>1. \A s \in Slot : /\ submsg'[s] = IF s = at THEN phase ELSE submsg[s]
                        /\ done'[s] = IF s = at THEN FALSE ELSE done[s]
                        /\ t_submit'[s] = IF s = at THEN TRUE ELSE t_submit[s]
    BY <1>6 DEF PutWork, TypeOK
  <2>2. done[at]
    BY <1>3, <1>4
  <2>3. Paired'
    BY <1>1 DEF SlotInv, Paired
  <2>4. OneSlot'
    BY <1>1 DEF SlotInv, OneSlot, Carries, Pending
  <2>5. Wires'
    <3> SUFFICES ASSUME NEW d \in Conn
                 PROVE  InStep(d)'
      BY DEF Wires
    <3>1. InStep(d) /\ slotnum[d] \in Slot \cup {None}
      BY DEF SlotInv, Wires, TypeOK
    <3>2. CASE slotnum[d] = at
      <4>1. ~Submitting(d)
        BY <2>2, <3>2 DEF Submitting
      <4>2. QED
        BY <1>1, <2>2, <3>1, <3>2, <4>1 DEF InStep
    <3>3. CASE slotnum[d] # at
      <4>1. Submitting(d) => Submitting(d)'
        BY <1>1, <2>1, <3>1, <3>3 DEF Submitting
      <4>2. QED
        BY <1>1, <2>1, <3>1, <3>3, <4>1 DEF InStep
    <3>4. QED
      BY <3>2, <3>3
  <2>6. Work'
    <3>1. \A s \in Slot : t_submit'[s] => submsg'[s] # None
      <4>1. \A s \in Slot : s # at /\ t_submit'[s] => t_submit[s]
        BY <2>1
      <4>2. phase # None
        BY <1>1, Domains
      <4>3. \A s \in Slot : s # at /\ t_submit[s] => submsg'[s] # None
        BY <2>1 DEF SlotInv, Work
      <4>4. submsg'[at] # None
        BY <1>1, <2>1, <4>2
      <4>5. QED
        BY <4>1, <4>3, <4>4
    <3>2. \A s \in Slot : t_submit'[s] /\ done'[s] => pc'[covconn'[s]] = "acked"
      <4>1. \A s \in Slot : t_submit'[s] /\ done'[s] => t_submit[s] /\ done[s]
        BY <2>1
      <4>2. QED
        BY <1>1, <4>1 DEF SlotInv, Work
    <3>3. \A s \in Slot : done'[s] /\ submsg'[s] # None =>
             \E c \in Conn : <<s, submsg'[s], c>> \in stored'
      BY <1>1, <2>1 DEF SlotInv, Work
    <3>4. main' = "pick" => \A s \in at'..NumSlots : done'[s]
      <4>1. \A s \in Slot : s # at /\ done[s] => done'[s]
        BY <2>1
      <4>2. QED
        BY <1>2, <1>3, <1>4, <4>1
    <3>5. QED
      BY <1>1, <3>1, <3>2, <3>3, <3>4 DEF Work
  <2>7. QED
    BY <2>3, <2>4, <2>5, <2>6 DEF SlotInv
<1>7. QED
  BY <1>5, <1>6

\* A step of the server's thread for connection c: it may answer, and store
\* the message it read.
Served(c) ==
    /\ wire[c] # Quiet \/ srv[c] # "recv"
    /\ \A d \in Conn : d # c => wire'[d] = wire[d] /\ srv'[d] = srv[d]
    /\ wire'[c] \in {wire[c], Ok, Error}
    /\ stored \subseteq stored'
    /\ \A x \in stored' \ stored : x[3] = c /\ Pending(c) /\ x[1] = wire[c][1]
    /\ UNCHANGED <<covconn, submsg, done, t_submit, slotnum, pc, action, spare_connections,
                   main, at>>

\* Such a step leaves the other connections, and every slot's work, as they
\* are.
LEMMA ServeStep ==
    ASSUME TypeOK, SlotInv, NEW c \in Conn, Served(c), InStep(c)'
    PROVE  SlotInv'
<1> USE DEF Served
<1>1. Paired'
  <2>1. c \notin InList(spare_connections)
    BY DEF SlotInv, Paired
  <2>2. QED
    BY <2>1, SparesKnown DEF SlotInv, Paired
<1>2. OneSlot'
  <2> SUFFICES ASSUME NEW d \in Conn
               PROVE  \E r \in Slot : Carries(d, r)' /\ slotnum'[d] \in {r, None}
    BY DEF OneSlot
  <2>1. PICK r \in Slot : Carries(d, r) /\ slotnum[d] \in {r, None}
    BY DEF SlotInv, OneSlot
  <2>2. Pending(d)' => Pending(d) /\ wire'[d] = wire[d]
    BY WireKinds DEF Pending
  <2>3. \A x \in stored' : x[3] = d => x[1] = r
    BY <2>1 DEF Carries
  <2>4. QED
    BY <2>1, <2>2, <2>3 DEF Carries
<1>3. Wires'
  <2> SUFFICES ASSUME NEW d \in Conn, d # c
               PROVE  InStep(d)'
    BY DEF Wires
  <2>1. InStep(d)
    BY DEF SlotInv, Wires
  <2>2. Submitting(d) => Submitting(d)'
    BY DEF Submitting
  <2>3. QED
    BY <2>1, <2>2 DEF InStep
<1>4. Work'
  BY DEF SlotInv, Work
<1>5. QED
  BY <1>1, <1>2, <1>3, <1>4 DEF SlotInv

\* The steps of new_client_job.
LEMMA JobStep ==
    ASSUME TypeOK, SlotInv, NEW c \in Conn,
           Receive(c) \/ Store(c) \/ SendOk(c) \/ Mark(c)
    PROVE  SlotInv'
<1> USE DEF slotVars, connVars, poolVars, mainVars, serverVars
<1>1. InStep(c)
  BY DEF SlotInv, Wires
<1>2. ASSUME Pending(c)
      PROVE  /\ wire[c] \in Message /\ wire[c] # Quiet /\ wire[c] # Ok /\ wire[c] # Error
             /\ wire[c] = <<wire[c][1], wire[c][2]>>
  BY <1>2, PendingMessage, WireKinds DEF TypeOK
<1>3. CASE Receive(c)
  <2>1. Served(c)
    BY <1>2, <1>3 DEF Served, Receive, refuse, TypeOK
  <2>2. \/ wire'[c] = Error /\ srv'[c] = "gone"
        \/ wire'[c] = wire[c] /\ srv'[c] = "checked"
    BY <1>3 DEF Receive, refuse, TypeOK
  <2>3. Submitting(c) => Submitting(c)'
    BY <1>2, <1>3, <2>1, <2>2 DEF Submitting, Receive, Served
  <2>4. InStep(c)'
    BY <1>1, <1>2, <1>3, <2>1, <2>3 DEF InStep, Receive, Served
  <2>5. QED
    BY <2>1, <2>4, ServeStep
<1>4. CASE Store(c)
  <2>1. Served(c)
    BY <1>2, <1>4 DEF Served, Store, refuse, TypeOK
  <2>2. \/ wire'[c] = Error /\ srv'[c] = "gone"
        \/ /\ wire'[c] = wire[c] /\ srv'[c] = "ack"
           /\ <<wire[c][1], wire[c][2], c>> \in stored'
    BY <1>4 DEF Store, refuse, TypeOK
  <2>3. Submitting(c) => Submitting(c)'
    BY <1>2, <1>4, <2>1, <2>2 DEF Submitting, Store, Served
  <2>4. InStep(c)'
    BY <1>1, <1>2, <1>4, <2>1, <2>3 DEF InStep, Store, Served
  <2>5. QED
    BY <2>1, <2>4, ServeStep
<1>5. CASE SendOk(c)
  <2>1. Served(c)
    BY <1>5 DEF Served, SendOk, TypeOK
  <2>2. wire'[c] = Ok /\ srv'[c] = "mark" /\ srv[c] = "ack" /\ stored' = stored
    BY <1>5 DEF SendOk, TypeOK
  <2>3. Submitting(c) => Submitting(c)'
    BY <2>1, <2>2 DEF Submitting, Served
  <2>4. InStep(c)'
    BY <1>1, <2>1, <2>2, <2>3 DEF InStep, Served
  <2>5. QED
    BY <2>1, <2>4, ServeStep
<1>6. CASE Mark(c)
  <2>1. Served(c)
    BY <1>6 DEF Served, Mark, TypeOK
  <2>2. wire'[c] = wire[c] /\ srv'[c] = "recv" /\ srv[c] = "mark" /\ stored' = stored
    BY <1>6 DEF Mark, TypeOK
  <2>3. Submitting(c) => Submitting(c)'
    BY <2>1, <2>2 DEF Submitting, Served
  <2>4. InStep(c)'
    BY <1>1, <2>1, <2>2, <2>3 DEF InStep, Served
  <2>5. QED
    BY <2>1, <2>4, ServeStep
<1>7. QED
  BY <1>3, <1>4, <1>5, <1>6

\* run_connection.
LEMMA ConnectionStep ==
    ASSUME TypeOK, SlotInv, NEW c \in Conn, Connection(c)
    PROVE  SlotInv'
<1> USE DEF slotVars, connVars, poolVars, mainVars, serverVars
<1>1. CASE PendingWoken(c) \/ Close(c)
  <2>1. PICK v \in {"pending", "ended"} :
           pc[c] \in {"pending", "stopping"} /\ pc' = [pc EXCEPT ![c] = v]
    BY <1>1 DEF PendingWoken, Close, TypeOK
  <2>2. action' = [action EXCEPT ![c] = action[c]]
    BY <1>1 DEF PendingWoken, Close, TypeOK
  <2>3. Idles(c, v, action[c])
    BY <1>1, <2>1, <2>2 DEF Idles, PendingWoken, Close
  <2>4. QED
    BY <2>3, IdleStep
<1>2. CASE Connect(c) \/ Woken(c) \/ Ping(c)
  <2>1. PICK v \in {"waiting", "stopping"}, a \in {"submit", "ping", "inactive"} :
           /\ pc[c] \in {"pending", "waiting"} /\ pc' = [pc EXCEPT ![c] = v]
           /\ action' = [action EXCEPT ![c] = a]
           /\ a = "submit" => HasWork(c)
    BY <1>2 DEF Connect, Woken, Ping, loop
  <2>2. QED
    <3>1. Idles(c, v, a)
      BY <1>2, <2>1 DEF Idles, Connect, Woken, Ping
    <3>2. QED
      BY <3>1, IdleStep
<1>3. CASE ConnectFails(c) \/ PingFails(c) \/ SubmitFails(c)
  BY <1>3, FailStep DEF ConnectFails, PingFails, SubmitFails
<1>4. CASE Inactive(c) \/ Refused(c)
  BY <1>4, FailStep DEF Inactive, Refused
<1>5. QED
  BY <1>1, <1>2, <1>3, <1>4, SendStep, AckedStep, ClearedStep DEF Connection

-----------------------------------------------------------------------------
(* The theorems.                                                           *)

\* Every step keeps the inductive invariant.
LEMMA NextInv ==
    ASSUME CovertInv, [Next]_vars
    PROVE  CovertInv'
<1> USE DEF CovertInv, SlotInv
<1>1. CASE FusionThread
  BY <1>1, ThreadTyped, LoopStep, PutStep DEF FusionThread
<1>2. CASE Server
  <2>1. CASE OpenWindow \/ CloseWindow
    <3>1. SlotInv'
      BY <2>1, FrameStep DEF OpenWindow, CloseWindow, slotVars, connVars, poolVars, mainVars, Work
    <3>2. QED
      BY <1>2, <3>1, ServerTyped
  <2>2. CASE \E c \in Conn : Receive(c) \/ Store(c) \/ SendOk(c) \/ Mark(c)
    BY <1>2, <2>2, ServerTyped, JobStep
  <2>3. QED
    BY <1>2, <2>1, <2>2 DEF Server
<1>3. CASE \E c \in Conn : Connection(c)
  BY <1>3, ConnTyped, ConnectionStep
<1>4. CASE UNCHANGED vars
  <2>1. TypeOK'
    BY <1>4 DEF vars, slotVars, connVars, poolVars, mainVars, serverVars, TypeOK
  <2>2. SlotInv'
    BY <1>4, FrameStep DEF vars, slotVars, connVars, poolVars, mainVars, serverVars, Work
  <2>3. QED
    BY <2>1, <2>2
<1>5. QED
  BY <1>1, <1>2, <1>3, <1>4 DEF Next

\* The inductive invariant holds for any number of slots and spares, whatever
\* connections break, however often.
THEOREM CovertAlways == Spec => []CovertInv
<1>1. Init => CovertInv
  BY InitInv
<1>2. CovertInv /\ [Next]_vars => CovertInv'
  BY NextInv
<1>3. QED
  BY <1>1, <1>2, PTL DEF Spec

\* Every variable of the submitter and of the server keeps to its values.
THEOREM CovertTyped == Spec => []TypeOK
<1>1. CovertInv => TypeOK
  BY DEF CovertInv
<1>2. QED
  BY <1>1, CovertAlways, PTL

\* When check_done lets the fusion thread go on, the server has accepted every
\* message of the phase.
THEOREM PhasesComplete == Spec => []PhaseComplete
<1>1. CovertInv => PhaseComplete
  BY DEF CovertInv, Work, PhaseComplete
<1>2. QED
  BY <1>1, CovertAlways, PTL

\* No connection, the spares included, ever carries messages of two slots.
THEOREM SlotsUnlinked == Spec => []UnlinkedSlots
<1>1. CovertInv => UnlinkedSlots
  <2> SUFFICES ASSUME CovertInv, NEW x \in stored, NEW y \in stored, x[3] = y[3]
               PROVE  x[1] = y[1]
    BY DEF UnlinkedSlots
  <2>1. x[3] \in Conn
    BY DEF CovertInv, TypeOK
  <2>2. PICK s \in Slot : Carries(x[3], s)
    BY <2>1 DEF CovertInv, OneSlot
  <2>3. QED
    BY <2>2 DEF Carries
<1>2. QED
  BY <1>1, CovertAlways, PTL
=============================================================================
