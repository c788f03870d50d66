------------------------------- MODULE Covert -------------------------------
(***************************************************************************)
(* The covert submissions of one CashFusion player: CovertSubmitter         *)
(* (fusion/covert.py), a thread for each connection and the fusion thread   *)
(* that gives them work, and the threads of CovertServer (fusion/server.py) *)
(* on the other end of each connection.                                    *)
(*                                                                         *)
(* Phases are numbered: odd ones are for components, even ones for          *)
(* signatures.  A slot's message is named by its phase.  All waiting times  *)
(* are nondeterministic.                                                   *)
(***************************************************************************)
EXTENDS Naturals, Sequences, FiniteSets

CONSTANTS
    NumSlots,       \* slots, one for each component of the player
    NumSpares,      \* COVERT_CONNECT_SPARES
    InputSlots,     \* slots whose component is an input: they also sign
    MaxPhase,       \* bound on the phases
    MaxFailures     \* bound on broken or timed-out connections

ASSUME CovertAssumption ==
    /\ NumSlots \in Nat \ {0} /\ NumSpares \in Nat
    /\ InputSlots \subseteq 1..NumSlots
    /\ MaxPhase \in Nat \ {0} /\ MaxFailures \in Nat

Slot == 1..NumSlots
Conn == 1..(NumSlots + NumSpares)
Phase == 1..MaxPhase
None == 0

VARIABLES
    covconn,            \* slot.covconn
    submsg,             \* slot.submsg, None before the first
    done,               \* slot.done
    t_submit,           \* slot.t_submit is set
    slotnum,            \* covconn.slotnum, or None
    t_ping,             \* covconn.t_ping is set
    wakeup,             \* covconn.wakeup
    connection,         \* covconn.connection is not None
    pc,                 \* how far run_connection is
    action,             \* what it waits to do
    spare_connections,  \* list; pop takes the last one
    stopping,           \* CovertSubmitter.stopping
    failure_exception,  \* an exception caused the stop
    main,               \* what the fusion thread does
    phase,              \* the phase it works on
    at,                 \* slot its loop in schedule_submissions is at
    picked,             \* slot.covconn as that loop read it
    window,             \* the phase the server accepts messages of, or None
    last,               \* the last phase it opened
    got_submit,         \* client.got_submit
    srv,                \* how far the server's thread for a connection is
    wire,               \* what is under way on a connection
    stored,             \* <<slot, phase, connection>> of the accepted messages
    failures            \* failures so far

slotVars == <<covconn, submsg, done, t_submit>>
connVars == <<slotnum, t_ping, wakeup, connection, pc, action>>
poolVars == <<spare_connections, stopping, failure_exception>>
mainVars == <<main, phase, at, picked>>
serverVars == <<window, last, got_submit, srv, stored>>
vars == <<slotVars, connVars, poolVars, mainVars, serverVars, wire, failures>>

\* Answers of the server, and an idle connection.
Quiet == <<>>
Ok == <<"ok">>
Error == <<"error">>
Message == Slot \X Phase
Wire == {Quiet, Ok, Error} \cup Message
Running == main \notin {"left", "failed", "complete"}

\* Every variable keeps to its values: the index of the next slot and the
\* connection taken for it exist, and failures keep within their bound.
TypeOK ==
    /\ covconn \in [Slot -> Conn] /\ submsg \in [Slot -> Phase \cup {None}]
    /\ done \in [Slot -> BOOLEAN] /\ t_submit \in [Slot -> BOOLEAN]
    /\ slotnum \in [Conn -> Slot \cup {None}]
    /\ t_ping \in [Conn -> BOOLEAN] /\ wakeup \in [Conn -> BOOLEAN] /\ connection \in [Conn -> BOOLEAN]
    /\ pc \in [Conn -> {"pending", "waiting", "sent", "acked", "stopping", "ended"}]
    /\ action \in [Conn -> {"submit", "ping", "inactive"}]
    /\ spare_connections \in Seq(Conn)
    /\ stopping \in BOOLEAN /\ failure_exception \in BOOLEAN
    /\ main \in {"warmup", "spares", "pick", "put", "wait", "left", "failed", "complete"}
    /\ phase \in Phase /\ at \in Slot /\ picked \in Conn
    /\ window \in Phase \cup {None} /\ last \in Phase \cup {None}
    /\ got_submit \in [Conn -> BOOLEAN]
    /\ srv \in [Conn -> {"recv", "checked", "ack", "mark", "gone"}]
    /\ wire \in [Conn -> Wire]
    /\ stored \subseteq Slot \X Phase \X Conn
    /\ failures \in 0..MaxFailures

\* schedule_connections: a connection for every slot, and the spares.
Init ==
    /\ covconn = [s \in Slot |-> s] /\ submsg = [s \in Slot |-> None]
    /\ done = [s \in Slot |-> TRUE] /\ t_submit = [s \in Slot |-> FALSE]
    /\ slotnum = [c \in Conn |-> IF c \in Slot THEN c ELSE None]
    /\ t_ping = [c \in Conn |-> FALSE] /\ wakeup = [c \in Conn |-> FALSE]
    /\ connection = [c \in Conn |-> FALSE]
    /\ pc = [c \in Conn |-> "pending"] /\ action = [c \in Conn |-> "inactive"]
    /\ spare_connections = [i \in 1..NumSpares |-> NumSlots + i]
    /\ stopping = FALSE /\ failure_exception = FALSE
    /\ main = "warmup" /\ phase = 1 /\ at = 1 /\ picked = 1
    /\ window = None /\ last = None /\ got_submit = [c \in Conn |-> FALSE]
    /\ srv = [c \in Conn |-> "recv"] /\ wire = [c \in Conn |-> Quiet]
    /\ stored = {} /\ failures = 0

-----------------------------------------------------------------------------
(* stop, wake_all and the handler for a failed connection.                  *)

\* The elements of a list or the connections of the slots.
InList(q) == {q[i] : i \in DOMAIN q}

\* wake_all, with the assignment of slots it finds.
wake_all(assigned, spares) ==
    wakeup' = [c \in Conn |-> wakeup[c] \/ c \in InList(assigned) \/ c \in InList(spares)]

\* stop(_exception): what it does the first time.
stop(broken) ==
    /\ stopping' = TRUE
    /\ failure_exception' = IF stopping THEN failure_exception ELSE broken

\* Mutant: the spare stays in the list.
popped_Kept == spare_connections

\* pop of the last spare connection.
popped == SubSeq(spare_connections, 1, Len(spare_connections) - 1)

\* The except clause of run_connection: the slot goes to the last spare, or
\* everything stops.  unrecoverable: stop was already called for the error.
fail(c, unrecoverable) ==
    LET s == slotnum[c]
        spare == spare_connections[Len(spare_connections)]
        reassign == s # None /\ spare_connections # <<>>
        halt == unrecoverable \/ (s # None /\ spare_connections = <<>>)
    IN  /\ pc' = [pc EXCEPT ![c] = "ended"]
        /\ covconn' = IF reassign THEN [covconn EXCEPT ![s] = spare] ELSE covconn
        /\ slotnum' = IF reassign THEN [slotnum EXCEPT ![spare] = s, ![c] = None] ELSE slotnum
        /\ spare_connections' = IF reassign THEN popped ELSE spare_connections
        /\ IF halt THEN stop(TRUE) ELSE UNCHANGED <<stopping, failure_exception>>
        /\ IF halt /\ ~stopping
              THEN wake_all(covconn, spare_connections)
              ELSE wakeup' = IF reassign THEN [wakeup EXCEPT ![spare] = TRUE] ELSE wakeup
        /\ UNCHANGED <<submsg, done, t_submit, t_ping, connection, action>>

CanFail == failures < MaxFailures /\ failures' = failures + 1

-----------------------------------------------------------------------------
(* run_connection.                                                         *)

\* The head of the working loop: stop, else submit, else ping, else wait for
\* the inactivity timeout.  due, ping: work and ping as the loop finds them.
loop(c, due, ping) ==
    /\ pc' = [pc EXCEPT ![c] = IF stopping THEN "stopping" ELSE "waiting"]
    /\ action' = [action EXCEPT ![c] = IF due THEN "submit" ELSE IF ping THEN "ping" ELSE "inactive"]

\* The slot of this connection has work.
HasWork(c) == slotnum[c] # None /\ t_submit[slotnum[c]]

\* Woken before it connects: a stop means not to connect at all.
PendingWoken(c) ==
    /\ pc[c] = "pending" /\ wakeup[c]
    /\ wakeup' = [wakeup EXCEPT ![c] = FALSE]
    /\ pc' = IF stopping THEN [pc EXCEPT ![c] = "ended"] ELSE pc
    /\ UNCHANGED <<slotVars, slotnum, t_ping, connection, action, poolVars, mainVars, serverVars, wire, failures>>

\* The time to connect has come and open_connection succeeds.
Connect(c) ==
    /\ pc[c] = "pending" /\ ~wakeup[c]
    /\ connection' = [connection EXCEPT ![c] = TRUE]
    /\ loop(c, HasWork(c), t_ping[c])
    /\ UNCHANGED <<slotVars, slotnum, t_ping, wakeup, poolVars, mainVars, serverVars, wire, failures>>

\* open_connection fails.
ConnectFails(c) ==
    /\ pc[c] = "pending" /\ ~wakeup[c]
    /\ CanFail
    /\ fail(c, FALSE)
    /\ UNCHANGED <<mainVars, serverVars, wire>>

\* Woken while waiting: look again what to do.
Woken(c) ==
    /\ pc[c] = "waiting" /\ wakeup[c]
    /\ wakeup' = [wakeup EXCEPT ![c] = FALSE]
    /\ loop(c, HasWork(c), t_ping[c])
    /\ UNCHANGED <<slotVars, slotnum, t_ping, connection, poolVars, mainVars, serverVars, wire, failures>>

\* slot.submit sends the message.
Send(c) ==
    /\ pc[c] = "waiting" /\ ~wakeup[c] /\ action[c] = "submit"
    /\ pc' = [pc EXCEPT ![c] = "sent"]
    /\ wire' = [wire EXCEPT ![c] = <<slotnum[c], submsg[slotnum[c]]>>]
    /\ UNCHANGED <<slotVars, slotnum, t_ping, wakeup, connection, action, poolVars, mainVars, serverVars, failures>>

\* Mutant: submit takes the message as delivered once it is sent.
acknowledged_Sent(c) == wire[c] # Error

\* recv_pb gives the server's 'ok'.
acknowledged(c) == wire[c] = Ok

\* The acknowledgement came: submit marks the slot as done ...
Acked(c) ==
    /\ pc[c] = "sent" /\ acknowledged(c)
    /\ wire' = [wire EXCEPT ![c] = Quiet]
    /\ done' = [done EXCEPT ![slotnum[c]] = TRUE]
    /\ pc' = [pc EXCEPT ![c] = "acked"]
    /\ UNCHANGED <<covconn, submsg, t_submit, slotnum, t_ping, wakeup, connection, action, poolVars, mainVars, serverVars, failures>>

\* ... and then clears its times.
Cleared(c) ==
    /\ pc[c] = "acked"
    /\ t_submit' = [t_submit EXCEPT ![slotnum[c]] = FALSE]
    /\ t_ping' = [t_ping EXCEPT ![covconn[slotnum[c]]] = FALSE]
    /\ loop(c, FALSE, FALSE)
    /\ UNCHANGED <<covconn, submsg, done, slotnum, wakeup, connection, poolVars, mainVars, serverVars, wire, failures>>

\* The server answered with an error: Unrecoverable.
Refused(c) ==
    /\ pc[c] = "sent" /\ wire[c] = Error
    /\ fail(c, TRUE)
    /\ wire' = [wire EXCEPT ![c] = Quiet]
    /\ UNCHANGED <<mainVars, serverVars, failures>>

\* The submission times out or the connection breaks; the message may still
\* arrive.
SubmitFails(c) ==
    /\ pc[c] = "sent"
    /\ CanFail
    /\ fail(c, FALSE)
    /\ \/ UNCHANGED wire
       \/ wire' = [wire EXCEPT ![c] = Quiet]
    /\ UNCHANGED <<mainVars, serverVars>>

\* ping.
Ping(c) ==
    /\ pc[c] = "waiting" /\ ~wakeup[c] /\ action[c] = "ping"
    /\ t_ping' = [t_ping EXCEPT ![c] = FALSE]
    /\ loop(c, HasWork(c), FALSE)
    /\ UNCHANGED <<slotVars, slotnum, wakeup, connection, poolVars, mainVars, serverVars, wire, failures>>

\* The ping cannot be sent.
PingFails(c) ==
    /\ pc[c] = "waiting" /\ ~wakeup[c] /\ action[c] = "ping"
    /\ CanFail
    /\ fail(c, FALSE)
    /\ UNCHANGED <<mainVars, serverVars, wire>>

\* inactive: nothing to do for too long.  Counted with the failures: the
\* timeout is far longer than a round.
Inactive(c) ==
    /\ pc[c] = "waiting" /\ ~wakeup[c] /\ action[c] = "inactive"
    /\ CanFail
    /\ fail(c, TRUE)
    /\ UNCHANGED <<mainVars, serverVars, wire>>

\* The stop time of this connection has come.
Close(c) ==
    /\ pc[c] = "stopping"
    /\ pc' = [pc EXCEPT ![c] = "ended"]
    /\ UNCHANGED <<slotVars, slotnum, t_ping, wakeup, connection, action, poolVars, mainVars, serverVars, wire, failures>>

-----------------------------------------------------------------------------
(* The fusion thread: start_covert and the covert parts of run_round.       *)

\* The messages of a phase: every slot has a component, only inputs sign.
HasMessage(s, p) == p % 2 = 1 \/ s \in InputSlots

\* check_ok raises.
Broken == failure_exception

\* check_connected raises.
NotConnected == Broken \/ \E s \in Slot : ~connection[covconn[s]]

\* check_done raises.
NotDone == Broken \/ \E s \in Slot : ~done[s]

\* A check raises FusionError: the finally of run stops the submitter.
leave(as) ==
    /\ main' = as
    /\ IF stopping
          THEN UNCHANGED <<stopping, failure_exception, wakeup>>
          ELSE stop(FALSE) /\ wake_all(covconn, spare_connections)
    /\ UNCHANGED <<phase, at, picked>>

\* stop by the user, an error of the main connection, input spent.
Leave ==
    /\ Running
    /\ leave("left")
    /\ UNCHANGED <<slotVars, slotnum, t_ping, connection, pc, action, spare_connections, serverVars, wire, failures>>

\* The component phase starts: check_connected, then schedule_submissions.
StartComponents ==
    /\ main = "warmup" /\ window = phase
    /\ IF NotConnected THEN leave("failed")
                       ELSE main' = "spares" /\ UNCHANGED <<phase, at, picked, stopping, failure_exception, wakeup>>
    /\ UNCHANGED <<slotVars, slotnum, t_ping, connection, pc, action, spare_connections, serverVars, wire, failures>>

\* schedule_submissions first touches the spares ...
TellSpares ==
    /\ main = "spares"
    /\ t_ping' = [c \in Conn |-> t_ping[c] \/ c \in InList(spare_connections)]
    /\ wakeup' = [c \in Conn |-> wakeup[c] \/ c \in InList(spare_connections)]
    /\ main' = "pick" /\ at' = 1
    /\ UNCHANGED <<slotVars, slotnum, connection, pc, action, poolVars, phase, picked, serverVars, wire, failures>>

\* ... then reads the connection of each slot in turn ...
PickConn ==
    /\ main = "pick"
    /\ picked' = covconn[at]
    /\ main' = "put"
    /\ UNCHANGED <<slotVars, connVars, poolVars, phase, at, serverVars, wire, failures>>

\* Mutant: the loop runs past the last slot.
more_slots_PastEnd == at <= NumSlots

\* schedule_submissions has slots left.
more_slots == at < NumSlots

\* ... and gives the slot its message, or that connection a ping.
PutWork ==
    /\ main = "put"
    /\ IF HasMessage(at, phase)
          THEN /\ submsg' = [submsg EXCEPT ![at] = phase]
               /\ done' = [done EXCEPT ![at] = FALSE]
               /\ t_submit' = [t_submit EXCEPT ![at] = TRUE]
               /\ UNCHANGED t_ping
          ELSE /\ t_ping' = [t_ping EXCEPT ![picked] = TRUE]
               /\ UNCHANGED <<submsg, done, t_submit>>
    /\ wakeup' = [wakeup EXCEPT ![picked] = TRUE]
    /\ main' = IF more_slots THEN "pick" ELSE "wait"
    /\ at' = IF more_slots THEN at + 1 ELSE at
    /\ UNCHANGED <<covconn, slotnum, connection, pc, action, poolVars, phase, picked, serverVars, wire, failures>>

\* ShareCovertComponents or FusionResult arrived: check_done, and on to the
\* next phase the server opened, if any.
CheckDone ==
    /\ main = "wait" /\ window # phase
    /\ IF NotDone THEN leave("failed")
       ELSE /\ IF phase = MaxPhase \/ (last = phase /\ phase % 2 = 1)
                  THEN main' = "complete" /\ UNCHANGED phase
                  ELSE last > phase /\ main' = (IF last % 2 = 1 THEN "warmup" ELSE "spares") /\ phase' = last
            /\ UNCHANGED <<at, picked, stopping, failure_exception, wakeup>>
    /\ UNCHANGED <<slotVars, slotnum, t_ping, connection, pc, action, spare_connections, serverVars, wire, failures>>

-----------------------------------------------------------------------------
(* CovertServer.                                                           *)

\* start_components or start_signatures; the signatures may be skipped.
OpenWindow ==
    /\ window = None
    /\ \E p \in Phase :
          /\ p = last + 1 \/ (last % 2 = 1 /\ p = last + 2)
          /\ window' = p /\ last' = p
    /\ main \in {"left", "failed", "complete"} \/ last = None \/ phase = last
    /\ got_submit' = [c \in Conn |-> FALSE]
    /\ UNCHANGED <<slotVars, connVars, poolVars, mainVars, srv, stored, wire, failures>>

\* end_components or end_signatures.
CloseWindow ==
    /\ window # None
    /\ window' = None
    /\ UNCHANGED <<slotVars, connVars, poolVars, mainVars, last, got_submit, srv, stored, wire, failures>>

\* error or a ValidationError: answer and end the thread.
refuse(c) ==
    /\ srv' = [srv EXCEPT ![c] = "gone"]
    /\ wire' = [wire EXCEPT ![c] = Error]

\* A message is there to be read.
Pending(c) == Len(wire[c]) = 2

\* new_client_job reads a message and checks it against the open phase.
Receive(c) ==
    /\ srv[c] = "recv" /\ Pending(c)
    /\ IF got_submit[c] \/ wire[c][2] # window
          THEN refuse(c)
          ELSE srv' = [srv EXCEPT ![c] = "checked"] /\ UNCHANGED wire
    /\ UNCHANGED <<slotVars, connVars, poolVars, mainVars, window, last, got_submit, stored, failures>>

\* It stores the message under the lock, if a phase of that kind is open.
Store(c) ==
    /\ srv[c] = "checked" /\ Pending(c)
    /\ IF window # None /\ window % 2 = wire[c][2] % 2
          THEN /\ stored' = stored \cup {<<wire[c][1], wire[c][2], c>>}
               /\ srv' = [srv EXCEPT ![c] = "ack"]
               /\ UNCHANGED wire
          ELSE refuse(c) /\ UNCHANGED stored
    /\ UNCHANGED <<slotVars, connVars, poolVars, mainVars, window, last, got_submit, failures>>

\* send_ok.
SendOk(c) ==
    /\ srv[c] = "ack"
    /\ srv' = [srv EXCEPT ![c] = "mark"]
    /\ wire' = [wire EXCEPT ![c] = Ok]
    /\ UNCHANGED <<slotVars, connVars, poolVars, mainVars, window, last, got_submit, stored, failures>>

\* client.got_submit = True.
Mark(c) ==
    /\ srv[c] = "mark"
    /\ srv' = [srv EXCEPT ![c] = "recv"]
    /\ got_submit' = [got_submit EXCEPT ![c] = TRUE]
    /\ UNCHANGED <<slotVars, connVars, poolVars, mainVars, window, last, stored, wire, failures>>

-----------------------------------------------------------------------------
Connection(c) ==
    \/ PendingWoken(c) \/ Connect(c) \/ ConnectFails(c) \/ Woken(c)
    \/ Send(c) \/ Acked(c) \/ Cleared(c) \/ Refused(c) \/ SubmitFails(c)
    \/ Ping(c) \/ PingFails(c) \/ Inactive(c) \/ Close(c)

FusionThread ==
    Leave \/ StartComponents \/ TellSpares \/ PickConn \/ PutWork \/ CheckDone

Server ==
    \/ OpenWindow \/ CloseWindow
    \/ \E c \in Conn : Receive(c) \/ Store(c) \/ SendOk(c) \/ Mark(c)

Next == FusionThread \/ Server \/ \E c \in Conn : Connection(c)

Spec == Init /\ [][Next]_vars

-----------------------------------------------------------------------------
(* Properties.                                                             *)

\* When check_done lets the fusion thread go on, the server has accepted
\* every message of the phase: whatever connections broke, were replaced or
\* resent a message whose acknowledgement was lost.
PhaseComplete ==
    main \in {"warmup", "spares", "complete"} =>
        \A s \in Slot : submsg[s] # None => \E c \in Conn : <<s, submsg[s], c>> \in stored

\* No connection carries messages of two slots: the server cannot tell from
\* the connections that two components belong to one player, whatever spares
\* took over.
UnlinkedSlots ==
    \A x, y \in stored : x[3] = y[3] => x[1] = y[1]

\* "When a connection dies / times out and it was assigned to a slot, it
\* immediately reassigns the slot to another connection.  If reassignment is
\* not possible, then the entire covert submission mechanism stops itself":
\* a slot with work belongs to a connection that runs, or all stops.
SlotIsServed ==
    \A s \in Slot : done[s] \/ stopping \/ pc[covconn[s]] # "ended"
-----------------------------------------------------------------------------
(* The inductive invariant behind PhaseComplete and UnlinkedSlots.          *)

\* Slots and their connections name each other; a connection without a slot
\* is a spare or has ended; no spare has been used, nor is it listed twice.
Paired ==
    /\ \A s \in Slot : slotnum[covconn[s]] = s
    /\ \A c \in Conn : slotnum[c] # None => covconn[slotnum[c]] = c
    /\ \A c \in Conn : slotnum[c] = None => c \in InList(spare_connections) \/ pc[c] = "ended"
    /\ \A i, j \in DOMAIN spare_connections : spare_connections[i] = spare_connections[j] => i = j
    /\ \A c \in InList(spare_connections) :
          slotnum[c] = None /\ wire[c] = Quiet /\ srv[c] = "recv" /\ \A x \in stored : x[3] # c

\* All that a connection has carried is of one slot, which is its slot as long
\* as it has one.
Carries(c, s) ==
    /\ Pending(c) => wire[c][1] = s
    /\ \A x \in stored : x[3] = c => x[1] = s

OneSlot ==
    \A c \in Conn : \E s \in Slot : Carries(c, s) /\ slotnum[c] \in {s, None}

\* What is under way between a connection that waits for an answer and the
\* server is the slot's present message, and 'ok' means that it is stored.
Submitting(c) ==
    LET s == slotnum[c]
        kept == <<s, submsg[s], c>> \in stored
    IN  /\ s # None /\ ~done[s] /\ submsg[s] # None
        /\ \/ wire[c] = <<s, submsg[s]>> /\ srv[c] # "gone" /\ (srv[c] = "ack" => kept)
           \/ wire[c] = Ok /\ srv[c] \in {"recv", "mark"} /\ kept
           \/ wire[c] = Error /\ srv[c] = "gone"

InStep(c) ==
    /\ pc[c] \in {"pending", "waiting", "acked", "stopping"} =>
          wire[c] = Quiet /\ srv[c] \in {"recv", "mark"}
    /\ pc[c] = "sent" => Submitting(c)
    /\ pc[c] = "acked" => slotnum[c] # None
    /\ pc[c] = "waiting" /\ action[c] = "submit" =>
          slotnum[c] # None /\ ~done[slotnum[c]] /\ submsg[slotnum[c]] # None

Wires == \A c \in Conn : InStep(c)

\* A slot that is done has its message stored; it still has its time only
\* between the two steps of submit; the fusion thread gives work only to
\* slots that are done.
Work ==
    /\ \A s \in Slot : t_submit[s] => submsg[s] # None
    /\ \A s \in Slot : t_submit[s] /\ done[s] => pc[covconn[s]] = "acked"
    /\ \A s \in Slot : done[s] /\ submsg[s] # None => \E c \in Conn : <<s, submsg[s], c>> \in stored
    /\ main \in {"warmup", "spares", "complete"} => \A s \in Slot : done[s]
    /\ main \in {"pick", "put"} => \A s \in at..NumSlots : done[s]

CovertInv == TypeOK /\ Paired /\ OneSlot /\ Wires /\ Work
=============================================================================
