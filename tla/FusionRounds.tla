---------------------------- MODULE FusionRounds ----------------------------
(***************************************************************************)
(* The rounds of one CashFusion: FusionController of fusion/server.py with  *)
(* its thread for every client, and Fusion.run_round of the players         *)
(* (fusion/fusion.py).  Every player brings one input and wants one output. *)
(*                                                                         *)
(* The server is the one of the repository; players, connections and covert *)
(* submissions may fail at any point, and every wait may time out.          *)
(***************************************************************************)
EXTENDS Naturals, Sequences, FiniteSets

CONSTANTS
    Player,         \* the clients chosen by start_fuse
    MinSafe,        \* Params.min_safe_clients
    MaxFaults,      \* bound on failures, timeouts and refusals
    MaxRound        \* bound on the rounds

ASSUME RoundsAssumption ==
    /\ IsFiniteSet(Player) /\ MinSafe \in Nat \ {0, 1} /\ MaxFaults \in Nat /\ MaxRound \in Nat

Kind == {"in", "out"}
Component == Player \X Kind
Mine(p) == {p} \X Kind

VARIABLES
    stage,          \* where FusionController.run_round is
    round,          \* rounds started so far
    clients,        \* self.clients
    dead,           \* clients whose server thread is dead
    results,        \* clients in the current ResultsCollector
    fails,          \* clients that failed in it
    expected,       \* its num_results
    open,           \* it was not gathered yet
    recorded,       \* clients whose blind_sig_requests are recorded
    components,     \* covert_server.components
    signatures,     \* owners of the inputs in covert_server.signatures
    last_hash,      \* server: rounds in the session hash
    relayed,        \* relayed[p]: who gets the proof of p's input to check
    broadcast,      \* the transactions the network has: their hash and components
    inbox,          \* messages on their way to a player
    outbox,         \* message on its way from a player, or ""
    status,         \* where a player is in Fusion.run
    round_pubkey,   \* the round a player has the server's key of
    my_hash,        \* self.last_hash of a player
    sent,           \* covert submissions of a player the server acknowledged
    agreed,         \* the transaction a player last signed: hash and components, or <<>>
    spent,          \* players whose coin was spent elsewhere meanwhile
    faults          \* faults so far

collectorVars == <<results, fails, expected, open, recorded>>
serverVars == <<stage, round, clients, dead, collectorVars, components, signatures, last_hash, relayed, broadcast>>
playerVars == <<status, round_pubkey, my_hash, sent, agreed>>
vars == <<serverVars, inbox, outbox, playerVars, spent, faults>>

Over == {"complete", "failed"}

Init ==
    /\ stage = "begin" /\ round = 0 /\ clients = Player /\ dead = {}
    /\ results = {} /\ fails = {} /\ expected = 0 /\ open = FALSE /\ recorded = {}
    /\ components = {} /\ signatures = {} /\ last_hash = 0 /\ broadcast = {}
    /\ relayed = [p \in Player |-> p]
    /\ inbox = [p \in Player |-> <<>>] /\ outbox = [p \in Player |-> ""]
    /\ status = [p \in Player |-> "startround"] /\ my_hash = [p \in Player |-> 0]
    /\ round_pubkey = [p \in Player |-> 0]
    /\ sent = [p \in Player |-> {}] /\ agreed = [p \in Player |-> <<>>]
    /\ spent = {} /\ faults = 0

Fault == faults < MaxFaults /\ faults' = faults + 1

-----------------------------------------------------------------------------
(* The player: run_round.                                                  *)

Gets(p, kind) == inbox[p] # <<>> /\ Head(inbox[p]).kind = kind /\ status[p] \notin Over
Msg(p) == Head(inbox[p])
Read(p) == inbox' = [inbox EXCEPT ![p] = Tail(@)]
Becomes(p, s) == status' = [status EXCEPT ![p] = s]
Says(p, m) == outbox[p] = "" /\ outbox' = [outbox EXCEPT ![p] = m]

\* startround: the player commits to its components.
Commit(p) ==
    /\ status[p] = "startround" /\ Gets(p, "startround")
    /\ Read(p) /\ Says(p, "playercommit") /\ Becomes(p, "blindsig")
    /\ round_pubkey' = [round_pubkey EXCEPT ![p] = Msg(p).round_pubkey]
    /\ sent' = [sent EXCEPT ![p] = {}]
    /\ UNCHANGED <<serverVars, my_hash, agreed, spent, faults>>

\* blindsigresponses: the covert submission of the components starts.
StartComponents(p) ==
    /\ status[p] = "blindsig" /\ Gets(p, "blindsigresponses")
    /\ Read(p) /\ Becomes(p, "components")
    /\ UNCHANGED <<serverVars, outbox, round_pubkey, my_hash, sent, agreed, spent, faults>>

\* check_covert_component: the component is signed with the key of this round.
Submits(p, k) ==
    /\ status[p] = "components" /\ k \notin sent[p]
    /\ stage = "components" /\ round_pubkey[p] = round

\* A covert submission reaches the server in time.
SubmitComponent(p, k) ==
    /\ Submits(p, k)
    /\ components' = components \cup {<<p, k>>}
    /\ sent' = [sent EXCEPT ![p] = @ \cup {k}]
    /\ UNCHANGED <<stage, round, clients, dead, collectorVars, signatures, last_hash, relayed, broadcast, inbox, outbox,
                   status, round_pubkey, my_hash, agreed, spent, faults>>

\* One whose acknowledgement is lost: the server has it, the player does not
\* know.
SubmitUnacknowledged(p, k) ==
    /\ Submits(p, k) /\ <<p, k>> \notin components
    /\ Fault
    /\ components' = components \cup {<<p, k>>}
    /\ UNCHANGED <<stage, round, clients, dead, collectorVars, signatures, last_hash, relayed, broadcast, inbox, outbox,
                   playerVars, spent>>

\* check_done, and all my components are in the list.
content(p, list) == sent[p] = Kind /\ Mine(p) \subseteq list

\* Mutant: the hash is only updated in rounds that are signed.
hashed_IfSigned(p, m) == IF m.skip THEN my_hash[p] ELSE my_hash[p] + 1

\* calc_round_hash: one more round in the hash.
hashed(p, m) == my_hash[p] + 1

\* sharecovertcomponents: the player signs, sends its proofs, or leaves.
Share(p) ==
    /\ status[p] = "components" /\ Gets(p, "sharecovertcomponents")
    /\ Read(p)
    /\ IF content(p, Msg(p).list) /\ (Msg(p).skip \/ hashed(p, Msg(p)) = Msg(p).hash)
          THEN /\ my_hash' = [my_hash EXCEPT ![p] = hashed(p, Msg(p))]
               /\ IF Msg(p).skip
                     THEN Becomes(p, "proofs") /\ Says(p, "myproofslist") /\ UNCHANGED agreed
                     ELSE /\ Becomes(p, "signatures") /\ UNCHANGED outbox
                          /\ agreed' = [agreed EXCEPT ![p] = <<hashed(p, Msg(p)), Msg(p).list>>]
          ELSE Becomes(p, "failed") /\ UNCHANGED <<outbox, my_hash, agreed>>
    /\ sent' = [sent EXCEPT ![p] = {}]
    /\ UNCHANGED <<serverVars, round_pubkey, spent, faults>>

\* The transaction of the round; its session hash is part of it.
Tx == <<last_hash, components>>

\* The covert submission of the signature, which the server verifies for its
\* transaction.
SubmitSignature(p) ==
    /\ status[p] = "signatures" /\ stage = "signatures" /\ sent[p] = {}
    /\ agreed[p] = Tx
    /\ signatures' = signatures \cup {p}
    /\ sent' = [sent EXCEPT ![p] = {"in"}]
    /\ UNCHANGED <<stage, round, clients, dead, collectorVars, components, last_hash, relayed, broadcast, inbox, outbox,
                   status, round_pubkey, my_hash, agreed, spent, faults>>

\* fusionresult: the transaction is complete and broadcast once more, or the
\* player sends its proofs unless one of its components is blamed.
Result(p) ==
    /\ status[p] = "signatures" /\ Gets(p, "fusionresult")
    /\ Read(p)
    /\ IF sent[p] = {} \/ (~Msg(p).ok /\ <<p, "in">> \in Msg(p).bad)
          THEN Becomes(p, "failed") /\ UNCHANGED outbox
          ELSE IF Msg(p).ok THEN Becomes(p, "time_wait") /\ UNCHANGED outbox
               ELSE Becomes(p, "proofs") /\ Says(p, "myproofslist")
    /\ UNCHANGED <<serverVars, round_pubkey, my_hash, sent, agreed, spent, faults>>

\* theirproofslist: the player checks the proofs and sends its blames.
Blame(p) ==
    /\ status[p] = "proofs" /\ Gets(p, "theirproofslist")
    /\ Read(p) /\ Says(p, "blames") /\ Becomes(p, "restart")
    /\ UNCHANGED <<serverVars, round_pubkey, my_hash, sent, agreed, spent, faults>>

\* restartround.
Restart(p) ==
    /\ status[p] = "restart" /\ Gets(p, "restartround")
    /\ Read(p) /\ Becomes(p, "startround")
    /\ UNCHANGED <<serverVars, outbox, round_pubkey, my_hash, sent, agreed, spent, faults>>

\* The wallets have the transaction, or a minute has passed.
Finish(p) ==
    /\ status[p] = "time_wait"
    /\ Becomes(p, "complete")
    /\ UNCHANGED <<serverVars, inbox, outbox, round_pubkey, my_hash, sent, agreed, spent, faults>>

\* A timeout, a stop by the user, a covert connection that failed, a coin
\* spent elsewhere, or a broadcast that did not work out: FusionError.
Quit(p) ==
    /\ status[p] \notin Over \cup {"time_wait"}
    /\ Fault
    /\ Becomes(p, "failed")
    /\ UNCHANGED <<serverVars, inbox, outbox, round_pubkey, my_hash, sent, agreed, spent>>

\* The server has closed the connection: nothing more to read, or a send fails.
Dismissed(p) ==
    /\ status[p] \notin Over \cup {"time_wait"}
    /\ p \in dead /\ (inbox[p] = <<>> \/ outbox[p] # "")
    /\ Becomes(p, "failed")
    /\ UNCHANGED <<serverVars, inbox, outbox, round_pubkey, my_hash, sent, agreed, spent, faults>>

\* The player's coin is spent by another transaction.
SpendElsewhere(p) ==
    /\ p \notin spent /\ broadcast = {}
    /\ Fault
    /\ spent' = spent \cup {p}
    /\ UNCHANGED <<serverVars, inbox, outbox, playerVars>>

-----------------------------------------------------------------------------
(* The server's thread for a client.                                       *)

\* Mutant: a client that has delivered is counted once more when it dies.
failing_Again(p) == fails \cup {p}

\* ResultsCollector.__exit__: a job that fails before it has delivered.
failing(p) == IF p \in results THEN fails ELSE fails \cup {p}

\* A job that failed: the collector counts it and the thread dies.
Drop(p) ==
    /\ p \notin dead
    /\ dead' = dead \cup {p}
    /\ fails' = failing(p)

\* collector.add for the message a job of this phase waits for.
Deliver(p, msg, at) ==
    /\ stage = at /\ open /\ p \notin dead /\ outbox[p] = msg
    /\ outbox' = [outbox EXCEPT ![p] = ""]
    /\ results' = results \cup {p}

\* client_start: the commitment goes to the collector.
GetCommit(p) ==
    /\ Deliver(p, "playercommit", "commitments")
    /\ UNCHANGED <<stage, round, clients, dead, fails, expected, open, recorded, components, signatures, last_hash,
                   relayed, broadcast, inbox, playerVars, spent, faults>>

\* client_start after the with statement: "record for later".
Record(p) ==
    /\ p \in results \ recorded /\ stage = "commitments"
    /\ recorded' = recorded \cup {p}
    /\ UNCHANGED <<stage, round, clients, dead, results, fails, expected, open, components, signatures, last_hash, relayed, broadcast,
                   inbox, outbox, playerVars, spent, faults>>

\* client_get_proofs.
GetProofs(p) ==
    /\ Deliver(p, "myproofslist", "proofs")
    /\ UNCHANGED <<stage, round, clients, dead, fails, expected, open, recorded, components, signatures, last_hash,
                   relayed, broadcast, inbox, playerVars, spent, faults>>

\* client_get_blames: clients whose input this one was to check and found
\* spent are killed, unless the look-up fails.  This may go on after the
\* round has exited.
GetBlames(p) ==
    /\ \/ Deliver(p, "blames", "blames")
       \/ /\ stage # "blames" /\ p \notin dead /\ outbox[p] = "blames"
          /\ outbox' = [outbox EXCEPT ![p] = ""]
          /\ UNCHANGED results
    /\ \/ dead' = dead \cup {q \in spent : relayed[q] = p /\ q # p} /\ UNCHANGED faults
       \/ Fault /\ UNCHANGED dead
    /\ UNCHANGED <<stage, round, clients, fails, expected, open, recorded, components, signatures, last_hash, relayed,
                   broadcast, inbox, playerVars, spent>>

\* A recv of the server's thread times out.
ThreadTimeout(p) ==
    /\ Fault
    /\ open /\ p \in clients \ results
    /\ Drop(p)
    /\ UNCHANGED <<stage, round, clients, results, expected, open, recorded, components, signatures, last_hash, relayed, broadcast,
                   inbox, outbox, playerVars, spent>>

\* The player has left: the thread's next recv or send fails.
ThreadFails(p) ==
    /\ status[p] \in Over
    /\ Drop(p)
    /\ UNCHANGED <<stage, round, clients, results, expected, open, recorded, components, signatures, last_hash, relayed, broadcast,
                   inbox, outbox, playerVars, spent, faults>>

-----------------------------------------------------------------------------
(* FusionController.                                                       *)

\* sendall, to the clients that still have a thread.
sendall(to, msg) ==
    inbox' = [p \in Player |-> IF p \in to \ dead THEN Append(inbox[p], msg) ELSE inbox[p]]

\* The deadline has passed for these clients: their recv times out, or what
\* they send now is late and refused; either way the thread dies.
Late(ps) == dead' = dead \cup ps

Message(kind) == [kind |-> kind]

\* run ends: goodbye closes the connections.
End(cs) ==
    /\ stage' = "ended" /\ dead' = dead \cup cs

\* check_client_count raises.
TooFew(cs) == Cardinality(cs \ dead) < MinSafe

\* A new ResultsCollector for n clients.
collect(n) == results' = {} /\ fails' = {} /\ expected' = n /\ open' = TRUE

\* Every client of the collector has delivered or failed.
Settled == Cardinality(results) + Cardinality(fails) >= expected

\* Those that have not are dead or gone: only the deadline ends the wait.
Hopeless == \A p \in clients \ (results \cup fails) : p \in dead \/ status[p] \in Over

\* Mutant: gather has no deadline.
gather_NoDeadline == Settled /\ UNCHANGED faults

\* gather: all is settled, or the deadline has passed.
gather ==
    \/ (Settled \/ Hopeless) /\ UNCHANGED faults
    \/ Fault

\* Mutant: the signatures of the last round are kept.
no_signatures_Kept == signatures

\* start_signatures: no input is signed.
no_signatures == {}

\* A new round: drop the dead, check their number, send startround.
StartRound ==
    /\ stage = "begin" /\ round < MaxRound
    /\ clients' = clients \ dead
    /\ IF TooFew(clients)
          THEN End(clients) /\ UNCHANGED <<round, collectorVars, components, inbox>>
          ELSE /\ stage' = "commitments" /\ round' = round + 1
               /\ collect(Cardinality(clients')) /\ recorded' = {}
               /\ components' = {}
               /\ sendall(clients, [kind |-> "startround", round_pubkey |-> round'])
               /\ UNCHANGED dead
    /\ UNCHANGED <<signatures, last_hash, relayed, broadcast, outbox, playerVars, spent, faults>>

\* The commitments are gathered: blind signatures for those who committed.
\* A client that is not recorded yet is an AttributeError: "internal server
\* error".
GatherCommitments ==
    /\ stage = "commitments" /\ gather
    /\ open' = FALSE
    /\ clients' = results
    /\ IF TooFew(results) \/ ~(results \subseteq recorded)
          THEN End(clients) /\ UNCHANGED inbox
          ELSE stage' = "components" /\ sendall(results, Message("blindsigresponses")) /\ Late(clients \ results)
    /\ UNCHANGED <<round, results, fails, expected, recorded, components, signatures, last_hash, relayed, broadcast,
                   outbox, playerVars, spent>>

\* The phase has done its work, or some player is too slow.
InTime(quick) == IF quick THEN UNCHANGED faults ELSE Fault

\* Too few components, or fees that do not add up.
skip_signatures == Cardinality(components) # Cardinality(clients) * Cardinality(Kind)

\* The component phase ends: share the list, and open the signature phase
\* unless something is wrong already.
EndComponents ==
    /\ stage = "components"
    /\ InTime(\A p \in clients : sent[p] = Kind \/ status[p] \in Over)
    /\ last_hash' = last_hash + 1
    /\ sendall(clients, [kind |-> "sharecovertcomponents", list |-> components,
                         skip |-> skip_signatures, hash |-> last_hash'])
    /\ IF skip_signatures
          THEN stage' = "proofs" /\ collect(Cardinality(clients)) /\ UNCHANGED signatures
          ELSE stage' = "signatures" /\ signatures' = no_signatures /\ UNCHANGED <<results, fails, expected, open>>
    /\ UNCHANGED <<round, clients, dead, recorded, components, relayed, broadcast, outbox, playerVars, spent>>

\* Inputs without a signature.
Unsigned == {c \in components : c[2] = "in" /\ c[1] \notin signatures}

\* An input was spent by another transaction: the network refuses this one.
DoubleSpent == \E p \in spent : <<p, "in">> \in components

\* All signed: the transaction is broadcast and the players get the signatures.
Succeed ==
    /\ ~DoubleSpent
    /\ broadcast' = broadcast \cup {Tx}
    /\ sendall(clients, [kind |-> "fusionresult", ok |-> TRUE, bad |-> {}])
    /\ End(clients)
    /\ UNCHANGED <<results, fails, expected, open, faults>>

\* No answer to the broadcast: TimeoutException, an internal server error.
BroadcastTimeout ==
    /\ Fault
    /\ \/ ~DoubleSpent /\ broadcast' = broadcast \cup {Tx}
       \/ UNCHANGED broadcast
    /\ End(clients)
    /\ UNCHANGED <<results, fails, expected, open, inbox>>

\* Signatures are missing, or the network refuses the transaction.
RoundFails ==
    /\ InTime((\A p \in clients : p \in signatures \/ status[p] \in Over) /\ (Unsigned # {} \/ DoubleSpent))
    /\ sendall(clients, [kind |-> "fusionresult", ok |-> FALSE, bad |-> Unsigned])
    /\ stage' = "proofs" /\ collect(Cardinality(clients))
    /\ UNCHANGED <<broadcast, dead>>

\* The signature phase ends.
EndSignatures ==
    /\ stage = "signatures"
    /\ \/ Unsigned = {} /\ (Succeed \/ BroadcastTimeout)
       \/ RoundFails
    /\ UNCHANGED <<round, clients, recorded, components, signatures, last_hash, relayed, outbox, playerVars, spent>>

\* The proofs are gathered; each goes to another client.
GatherProofs ==
    /\ stage = "proofs" /\ gather
    /\ stage' = "blames"
    /\ \E f \in [spent -> clients] :
          /\ \A q \in spent \cap results : f[q] # q
          /\ relayed' = [q \in Player |-> IF q \in spent \cap results THEN f[q] ELSE q]
    /\ sendall(results, Message("theirproofslist"))
    /\ Late(clients \ results)
    /\ collect(Cardinality(results))
    /\ UNCHANGED <<round, clients, recorded, components, signatures, last_hash, broadcast, outbox,
                   playerVars, spent>>

\* The blames are gathered: restart.  A thread that has its client's blames and
\* still checks them goes on.
GatherBlames ==
    /\ stage = "blames" /\ gather
    /\ stage' = "begin" /\ open' = FALSE
    /\ LET late == {p \in clients \ results : outbox[p] # "blames"}
       IN  sendall(clients \ late, Message("restartround")) /\ Late(late)
    /\ UNCHANGED <<round, clients, results, fails, expected, recorded, components, signatures, last_hash,
                   relayed, broadcast, outbox, playerVars, spent>>

-----------------------------------------------------------------------------
PlayerStep(p) ==
    \/ Commit(p) \/ StartComponents(p) \/ (\E k \in Kind : SubmitComponent(p, k)) \/ Share(p)
    \/ SubmitSignature(p) \/ Result(p) \/ Blame(p) \/ Restart(p) \/ Finish(p) \/ Dismissed(p)

PlayerFault(p) ==
    (\E k \in Kind : SubmitUnacknowledged(p, k)) \/ Quit(p) \/ SpendElsewhere(p) \/ ThreadTimeout(p)

ThreadStep(p) ==
    GetCommit(p) \/ Record(p) \/ GetProofs(p) \/ GetBlames(p) \/ ThreadFails(p)

Controller ==
    StartRound \/ GatherCommitments \/ EndComponents \/ EndSignatures \/ GatherProofs \/ GatherBlames

Next ==
    \/ Controller
    \/ \E p \in Player : PlayerStep(p) \/ PlayerFault(p) \/ ThreadStep(p)

Spec == Init /\ [][Next]_vars

\* Threads run, and every wait of the code has a timeout.
FairSpec ==
    /\ Spec
    /\ WF_vars(Controller)
    /\ \A p \in Player : WF_vars(PlayerStep(p)) /\ WF_vars(ThreadStep(p))

-----------------------------------------------------------------------------
(* Properties.                                                             *)

Transaction == (0..MaxRound) \X SUBSET Component

ServerMessage ==
    [kind : {"blindsigresponses", "theirproofslist", "restartround"}]
    \cup [kind : {"startround"}, round_pubkey : 1..MaxRound]
    \cup [kind : {"sharecovertcomponents"}, list : SUBSET Component, skip : BOOLEAN, hash : 1..MaxRound]
    \cup [kind : {"fusionresult"}, ok : BOOLEAN, bad : SUBSET Component]

PlayerMessage == {"", "playercommit", "myproofslist", "blames"}

Status == {"startround", "blindsig", "components", "signatures", "proofs", "restart",
           "time_wait", "complete", "failed"}

\* Every variable keeps to its values; a client has a result or has failed,
\* never both, and no more than three messages wait for a player.
TypeOK ==
    /\ stage \in {"begin", "commitments", "components", "signatures", "proofs", "blames", "ended"}
    /\ round \in 0..MaxRound /\ last_hash \in 0..MaxRound
    /\ clients \subseteq Player /\ dead \subseteq Player
    /\ results \subseteq Player /\ fails \subseteq Player \ results /\ recorded \subseteq Player
    /\ expected \in 0..Cardinality(Player) /\ open \in BOOLEAN
    /\ components \subseteq Component /\ signatures \subseteq Player
    /\ relayed \in [Player -> Player] /\ broadcast \subseteq Transaction
    /\ inbox \in [Player -> Seq(ServerMessage)] /\ \A p \in Player : Len(inbox[p]) <= 3
    /\ outbox \in [Player -> PlayerMessage] /\ status \in [Player -> Status]
    /\ round_pubkey \in [Player -> 0..MaxRound] /\ my_hash \in [Player -> 0..MaxRound]
    /\ sent \in [Player -> SUBSET Kind]
    /\ agreed \in [Player -> Transaction \cup {<<>>}]
    /\ spent \subseteq Player /\ faults \in 0..MaxFaults

\* A transaction the server broadcasts was signed, as it is, by the owner of
\* every input in it, and pays every one of them: no signature of an earlier
\* round and no list one player has not agreed to gets into it.
SignedByAll ==
    \A tx \in broadcast : \A p \in Player :
        <<p, "in">> \in tx[2] => agreed[p] = tx /\ Mine(p) \subseteq tx[2]

\* Players that took part in failed rounds, skipped or signed, and stayed
\* have the server's session hash: none leaves with "Session hash mismatch".
HashAgrees ==
    \A p \in Player :
        status[p] = "components" /\ Gets(p, "sharecovertcomponents") /\ content(p, Msg(p).list) =>
            hashed(p, Msg(p)) = Msg(p).hash

\* Every fusion comes to an end, for the server and for each player, in
\* whatever phase players leave, threads die or rounds fail.
Ends ==
    <>(stage = "ended" /\ \A p \in Player : status[p] \in Over)

\* "we can't unfreeze coins or unreserve addresses yet, else they might be
\* used in another fusion": a player that has failed, and so unfroze its coins
\* and gave its addresses back, is not in a transaction the network has.
KeptUntilSeen ==
    \A tx \in broadcast : \A p \in Player : <<p, "in">> \in tx[2] => status[p] # "failed"
-----------------------------------------------------------------------------
(* The inductive invariant behind SignedByAll and HashAgrees.               *)

\* What a client whose thread runs may not have read yet, by phase.
Startround == [kind |-> "startround", round_pubkey |-> round]
Shared(skip) == [kind |-> "sharecovertcomponents", list |-> components, skip |-> skip, hash |-> last_hash]
Refusal == [kind |-> "fusionresult", ok |-> FALSE, bad |-> Unsigned]

Unread(p) ==
    LET restart == Message("restartround")
        blindsig == Message("blindsigresponses")
    IN  /\ stage = "begin" => inbox[p] \in {<<>>, <<restart>>}
        /\ stage = "commitments" => inbox[p] \in {<<>>, <<Startround>>, <<restart, Startround>>}
        /\ stage = "components" => inbox[p] \in {<<>>, <<blindsig>>}
        /\ stage = "signatures" => inbox[p] \in {<<>>, <<Shared(FALSE)>>, <<blindsig, Shared(FALSE)>>}
        /\ stage = "proofs" =>
              inbox[p] \in {<<>>, <<Shared(TRUE)>>, <<blindsig, Shared(TRUE)>>, <<Refusal>>,
                            <<Shared(FALSE), Refusal>>, <<blindsig, Shared(FALSE), Refusal>>}
        /\ stage = "blames" => inbox[p] \in {<<>>, <<Message("theirproofslist")>>}

\* Server and client take turns: a client answers what it has read, and the
\* thread of one that has not answered does not outlive the phase.
Turns(p) ==
    /\ p \in clients /\ stage # "ended" /\ Unread(p)
    /\ p \in results /\ stage \in {"commitments", "proofs", "blames"} => inbox[p] = <<>> /\ outbox[p] = ""
    /\ outbox[p] = "playercommit" => stage = "commitments" /\ inbox[p] = <<>>
    /\ outbox[p] = "myproofslist" => stage = "proofs" /\ inbox[p] = <<>>
    /\ outbox[p] = "blames" => \/ stage = "blames" /\ inbox[p] = <<>>
                               \/ stage \in {"begin", "commitments"}

\* A player that is in the fusion has at most one list to read, that of the
\* round after the last one in its hash, and is behind by that list at most.
Lists(p) == {i \in DOMAIN inbox[p] : inbox[p][i].kind = "sharecovertcomponents"}

InSession(p) ==
    /\ \A i, j \in Lists(p) : i = j
    /\ \A i \in Lists(p) : inbox[p][i].hash = my_hash[p] + 1 /\ inbox[p][i].hash <= last_hash
    /\ p \notin dead /\ Lists(p) = {} => my_hash[p] = last_hash

\* What a player signed has its components and a hash it has passed.
Consents(p) ==
    agreed[p] # <<>> => agreed[p][1] <= my_hash[p] /\ Mine(p) \subseteq agreed[p][2]

Session ==
    /\ \A p \in Player \ dead : Turns(p)
    /\ \A p \in Player : (status[p] \notin Over => InSession(p)) /\ Consents(p) /\ my_hash[p] <= last_hash
    /\ last_hash <= round /\ (stage \in {"commitments", "components"} => last_hash < round)
    /\ fails \subseteq dead

Signing ==
    /\ stage = "signatures" => \A p \in signatures : agreed[p] = Tx
    /\ broadcast # {} => stage = "ended"
    /\ \A tx \in broadcast : tx[1] = last_hash
    /\ SignedByAll

RoundsInv == TypeOK /\ Session /\ Signing
=============================================================================
