---------------------------- MODULE Synchronizer ----------------------------
(***************************************************************************)
(* The wallet synchronizer (electronfittexxcoin/synchronizer.py): it        *)
(* subscribes to the wallet's addresses, asks for the history of an address *)
(* whose status changed and for the transactions the wallet lacks, and      *)
(* decides when the wallet is up to date.                                   *)
(*                                                                         *)
(* Every handler runs in the network thread and is one step; run is two,    *)
(* because add(), which like release() comes from another thread, may fall  *)
(* between them.  The server answers requests in any                        *)
(* order and over one TCP connection: `wire' is a queue.  Its view of the   *)
(* chain moves on its own.  A status is the hash of the listed history, so  *)
(* it is represented by that history; heights are left out, and the empty   *)
(* history's status, None, is the empty set.                                *)
(***************************************************************************)
EXTENDS Integers, Sequences, FiniteSets, Bags

CONSTANTS
    Addr,           \* addresses
    ChangeAddr,     \* the change addresses among them
    Derivation,     \* the order in which the wallet derives them
    InitDerived,    \* how many it has at the start
    Tx,             \* transactions
    Pays,           \* Pays[t]: the addresses t has outputs to
    Takes,          \* Takes[t]: the coins <<tx, address>> that t spends
    SavedHistory,   \* _history as loaded from the wallet file
    SavedTxs,       \* transactions as loaded from the wallet file
    SavedRetired,   \* 'synchronizer_retired_change_scripthashes' of the file
    Limit,          \* limit_change_subs; 0 switches the limit off
    InitChain,      \* the transactions the server knows at the start
    Reorgs,         \* whether transactions may vanish from the server's view
    Errors,         \* the kinds of request a server may answer with an error
    MaxChanges, MaxErrors, MaxLosses,   \* bounds on what the environment does
    NotRequested    \* no entry in requested_histories

touches(t, a) == a \in Pays[t] \/ \E u \in Tx : <<u, a>> \in Takes[t]

ASSUME SyncAssumption ==
    /\ ChangeAddr \subseteq Addr
    /\ Derivation \in Seq(Addr) /\ \A a \in Addr : \E i \in DOMAIN Derivation : Derivation[i] = a
    /\ \A i, j \in DOMAIN Derivation : Derivation[i] = Derivation[j] => i = j
    /\ InitDerived \in 0..Len(Derivation)
    /\ Pays \in [Tx -> SUBSET Addr]
    /\ Takes \in [Tx -> SUBSET (Tx \X Addr)]
    /\ SavedHistory \in [Addr -> SUBSET Tx]
    /\ SavedTxs \subseteq Tx /\ SavedRetired \subseteq ChangeAddr
    /\ Limit \in Nat
    /\ InitChain \subseteq Tx
    /\ Reorgs \in BOOLEAN
    /\ Errors \subseteq {"subscribe", "history", "tx"}
    /\ {MaxChanges, MaxErrors, MaxLosses} \subseteq Nat
    /\ \A S \in SUBSET Tx : S # NotRequested

\* Transactions spend outputs of other transactions, which the server knows too.
ASSUME GraphAssumption ==
    /\ IsFiniteSet(Tx)
    /\ \A t \in Tx : \A c \in Takes[t] : c[1] # t /\ c[2] \in Pays[c[1]]
    /\ \A t \in InitChain : \A c \in Takes[t] : c[1] \in InitChain

VARIABLES
    derived,                    \* the wallet has the first `derived' addresses
    history,                    \* wallet._history
    transactions,               \* keys of wallet.transactions
    up_to_date,                 \* wallet.up_to_date
    new_addresses,
    new_addresses_for_change,   \* an ordered set: in the order of Derivation
    requested_tx,
    requested_tx_by_sh,
    requested_histories,        \* address -> announced status
    requested_hashes,
    change_scripthashes,        \* change addresses seen, in the order of Derivation
    change_subs,
    change_subs_expiry_candidates,
    change_scripthashes_that_are_retired,
    need_release,
    cleaned_up,
    ticking,                    \* run has taken the queues and not yet looked at the result
    subscriptions,              \* Network: addresses with a registered callback
    unanswered_requests,        \* Network: a bag of requests a server has not answered
    wire,                       \* messages from the server, in order
    chain,                      \* server: the transactions it knows
    server_subs,                \* server: addresses it sends notifications for
    touched,                    \* server: subscribed addresses to notify
    changes, errors, losses     \* how often the environment has acted

walletVars == <<derived, history, transactions, up_to_date>>
queueVars == <<new_addresses, new_addresses_for_change>>
requestVars == <<requested_tx, requested_tx_by_sh, requested_histories, requested_hashes>>
changeVars == <<change_scripthashes, change_subs, change_subs_expiry_candidates,
                change_scripthashes_that_are_retired>>
releaseVars == <<need_release, cleaned_up>>
serverVars == <<chain, server_subs, touched>>
envVars == <<changes, errors, losses>>
vars == <<walletVars, queueVars, requestVars, changeVars, releaseVars, ticking, subscriptions,
          unanswered_requests, wire, serverVars, envVars>>

Derived(i, j) == {Derivation[k] : k \in i..j}
Mine == Derived(1, derived)
retired == change_scripthashes_that_are_retired
candidates == change_subs_expiry_candidates
Listed(a) == {t \in chain : touches(t, a)}      \* the server's history of a

Subscribe(a) == [m |-> "subscribe", key |-> a, sh |-> a]
GetHistory(a) == [m |-> "history", key |-> a, sh |-> a]
GetTx(t, a) == [m |-> "tx", key |-> t, sh |-> a]

-----------------------------------------------------------------------------
(* __init__ and _initialize                                                 *)

Init ==
    LET initial == Derived(1, InitDerived)
        now == {a \in initial : a \notin ChangeAddr \/ Limit = 0}
        missing == (UNION {SavedHistory[a] : a \in Addr}) \ SavedTxs
    IN  /\ derived = InitDerived
        /\ history = SavedHistory
        /\ transactions = SavedTxs
        /\ up_to_date = FALSE
        /\ new_addresses = {}
        /\ new_addresses_for_change = initial \ now
        /\ requested_tx = missing
        /\ \E owner \in [missing -> Addr] :    \* the first history that lists t
              /\ \A t \in missing : t \in SavedHistory[owner[t]]
              /\ requested_tx_by_sh =
                    [a \in Addr |-> {t \in missing : Limit > 0 /\ owner[t] = a}]
              /\ unanswered_requests = SetToBag({GetTx(t, owner[t]) : t \in missing}
                                                   \cup {Subscribe(a) : a \in now})
        /\ requested_histories = [a \in Addr |-> NotRequested]
        /\ requested_hashes = now
        /\ change_scripthashes = {} /\ change_subs = {}
        /\ candidates = {}
        /\ retired = IF Limit > 0 THEN SavedRetired ELSE {}
        /\ need_release = FALSE /\ cleaned_up = FALSE /\ ticking = FALSE
        /\ subscriptions = now
        /\ wire = <<>>
        /\ chain = InitChain /\ server_subs = {} /\ touched = {}
        /\ changes = 0 /\ errors = 0 /\ losses = 0

-----------------------------------------------------------------------------
(* run                                                                      *)

is_up_to_date ==
    /\ requested_tx = {}
    /\ \A a \in Addr : requested_histories[a] = NotRequested
    /\ requested_hashes = {}

before(a, b) == \E i, j \in DOMAIN Derivation : i < j /\ Derivation[i] = a /\ Derivation[j] = b

\* The n members of S that were seen first.
oldest(S, n) == {a \in S : Cardinality({b \in S : before(b, a)}) < n}

\* The queued change addresses _pop_new_addresses takes.
popped(queue) == IF Limit = 0 THEN queue ELSE oldest(queue, Limit - Cardinality(requested_hashes))

\* _check_change_subs_limits: the candidates given up when the change addresses in
\* subs are subscribed to and those in asked have not been answered.
expired(subs, asked) ==
    IF Limit = 0 THEN {}
    ELSE oldest(candidates \cap (subs \ asked), Cardinality(subs \ asked) - Limit)

\* A tick begins: wallet.synchronize() derives up to n addresses in all, the queues
\* are taken (_pop_new_addresses) and subscribed to.
run(n) ==
    LET fresh == Derived(derived + 1, n)
        queue == new_addresses_for_change \cup (fresh \cap ChangeAddr)
        batch == popped(queue)
        change == {a \in batch : Limit = 0 \/ a \notin retired}
        hashes == new_addresses \cup (fresh \ ChangeAddr) \cup change
        subs == IF Limit > 0 THEN change_subs \cup change ELSE change_subs
        out == IF batch # {} THEN expired(subs, requested_hashes \cup hashes) ELSE {}
    IN  /\ ~ need_release /\ ~ cleaned_up /\ ~ ticking
        /\ ticking' = TRUE
        /\ derived' = n
        /\ new_addresses' = {}
        /\ new_addresses_for_change' = queue \ batch
        /\ requested_hashes' = requested_hashes \cup hashes
        /\ change_scripthashes' = IF Limit > 0 THEN change_scripthashes \cup batch ELSE change_scripthashes
        /\ change_subs' = subs \ out
        /\ candidates' = candidates \ out
        /\ retired' = retired \cup out
        /\ subscriptions' = (subscriptions \cup hashes) \ out
        /\ unanswered_requests' = unanswered_requests (+) SetToBag({Subscribe(a) : a \in hashes})
        /\ UNCHANGED <<history, transactions, up_to_date, requested_tx, requested_tx_by_sh,
                       requested_histories, releaseVars, wire, serverVars, envVars>>

\* Mutant: the queue is emptied when the tick is over, not when it was taken.
run_settle_Emptied(tick) ==
    LET out == IF tick /\ is_up_to_date THEN expired(change_subs, requested_hashes) ELSE {}
    IN  /\ ticking /\ ticking' = FALSE
        /\ up_to_date' = is_up_to_date
        /\ new_addresses' = {}
        /\ change_subs' = change_subs \ out
        /\ candidates' = candidates \ out
        /\ retired' = retired \cup out
        /\ subscriptions' = subscriptions \ out
        /\ UNCHANGED <<derived, history, transactions, new_addresses_for_change, requestVars,
                       change_scripthashes, releaseVars, unanswered_requests, wire, serverVars, envVars>>

\* It ends: the wallet learns whether it is up to date, and every 50th time (tick) the
\* limit on change subscriptions is enforced.
run_settle(tick) ==
    LET out == IF tick /\ is_up_to_date THEN expired(change_subs, requested_hashes) ELSE {}
    IN  /\ ticking /\ ticking' = FALSE
        /\ up_to_date' = is_up_to_date
        /\ change_subs' = change_subs \ out
        /\ candidates' = candidates \ out
        /\ retired' = retired \cup out
        /\ subscriptions' = subscriptions \ out
        /\ UNCHANGED <<derived, history, transactions, queueVars, requestVars, change_scripthashes,
                       releaseVars, unanswered_requests, wire, serverVars, envVars>>

\* _release: cancel_requests finds the callbacks of subscriptions and histories,
\* not the closures that were passed for transactions.
run_release ==
    /\ need_release /\ ~ cleaned_up /\ ~ ticking
    /\ need_release' = FALSE /\ cleaned_up' = TRUE
    /\ subscriptions' = {}
    /\ unanswered_requests' = [r \in {q \in DOMAIN unanswered_requests : q.m = "tx"}
                                  |-> unanswered_requests[r]]
    /\ UNCHANGED <<walletVars, queueVars, requestVars, changeVars, ticking, wire, serverVars, envVars>>

release ==
    /\ ~ need_release /\ ~ cleaned_up
    /\ need_release' = TRUE
    /\ UNCHANGED <<walletVars, queueVars, requestVars, changeVars, cleaned_up, ticking,
                   subscriptions, unanswered_requests, wire, serverVars, envVars>>

\* Mutant: every new address is queued as a change address.
add_ForChange ==
    /\ derived < Len(Derivation)
    /\ derived' = derived + 1
    /\ new_addresses_for_change' = new_addresses_for_change \cup {Derivation[derived + 1]}
    /\ UNCHANGED <<history, transactions, up_to_date, new_addresses, requestVars, changeVars,
                   releaseVars, ticking, subscriptions, unanswered_requests, wire, serverVars, envVars>>

\* create_new_address in another thread, which calls add().
add ==
    /\ derived < Len(Derivation)
    /\ derived' = derived + 1
    /\ LET a == Derivation[derived + 1]
       IN  IF a \in ChangeAddr
           THEN /\ new_addresses_for_change' = new_addresses_for_change \cup {a}
                /\ UNCHANGED new_addresses
           ELSE /\ new_addresses' = new_addresses \cup {a}
                /\ UNCHANGED new_addresses_for_change
    /\ UNCHANGED <<history, transactions, up_to_date, requestVars, changeVars, releaseVars,
                   ticking, subscriptions, unanswered_requests, wire, serverVars, envVars>>

-----------------------------------------------------------------------------
(* The handlers                                                             *)

\* get_addr_balance(a) is zero: every output to a of a known transaction in
\* a's history is spent by another one.
zero_balance(a, known) ==
    \A t \in known : a \in Pays[t] => \E u \in known : <<t, a>> \in Takes[u]

\* Change address a is subscribed to and nothing is pending for it.
stable(a) ==
    /\ a \in change_scripthashes
    /\ requested_tx_by_sh'[a] = {}
    /\ requested_histories'[a] = NotRequested
    /\ a \in change_subs \ requested_hashes'

\* The handler has finished with address a: is a change subscription expendable?
_check_change_scripthash(a) ==
    LET spent == Cardinality(history'[a]) = 2 /\ zero_balance(a, history'[a] \cap transactions')
    IN  candidates' = IF Limit = 0 THEN candidates
                      ELSE IF stable(a) /\ spent THEN candidates \cup {a} ELSE candidates \ {a}

\* Mutant: a released synchronizer handles what still arrives.
Receive_Late(m) == ~ ticking /\ wire # <<>> /\ Head(wire).m = m /\ wire' = Tail(wire)

\* The next message on the wire is of kind m and there is someone to handle it.
Receive(m) ==
    /\ ~ cleaned_up /\ ~ ticking
    /\ wire # <<>> /\ Head(wire).m = m
    /\ wire' = Tail(wire)

\* A subscribe reply or a notification that Network has a callback for.
_on_address_status ==
    LET msg == Head(wire)
        a == msg.key
        ask == history[a] # msg.result /\ requested_histories[a] \in {NotRequested, {}}
    IN  /\ Receive("subscribe")
        /\ a \in subscriptions /\ ~ msg.error
        /\ requested_histories' = [requested_histories EXCEPT ![a] = IF ask THEN msg.result ELSE @]
        /\ unanswered_requests' = IF ask THEN unanswered_requests (+) SetToBag({GetHistory(a)})
                                  ELSE unanswered_requests
        /\ requested_hashes' = requested_hashes \ {a}
        /\ UNCHANGED <<walletVars, requested_tx, requested_tx_by_sh>>
        /\ _check_change_scripthash(a)
        /\ UNCHANGED <<queueVars, change_scripthashes, change_subs, retired, releaseVars,
                       ticking, subscriptions, serverVars, envVars>>

\* _request_missing_txs
missing(hist) == hist \ (requested_tx \cup transactions)

_on_address_history ==
    LET msg == Head(wire)
        a == msg.key
        match == msg.result = requested_histories[a]
        ask == IF match THEN missing(msg.result) ELSE {}
    IN  /\ Receive("history")
        /\ ~ msg.error /\ requested_histories[a] # NotRequested
        /\ requested_histories' = [requested_histories EXCEPT ![a] = NotRequested]
        /\ history' = [history EXCEPT ![a] = IF match THEN msg.result ELSE @]
        /\ requested_tx' = requested_tx \cup ask
        /\ requested_tx_by_sh' = [requested_tx_by_sh EXCEPT ![a] = IF Limit > 0 THEN @ \cup ask ELSE @]
        /\ unanswered_requests' = unanswered_requests (+) SetToBag({GetTx(t, a) : t \in ask})
        /\ UNCHANGED <<derived, transactions, up_to_date, requested_hashes>>
        /\ _check_change_scripthash(a)
        /\ UNCHANGED <<queueVars, change_scripthashes, change_subs, retired, releaseVars,
                       ticking, subscriptions, serverVars, envVars>>

\* Mutant: a request that failed stays in requested_tx.
answered_OnSuccess(t, error) == requested_tx' = IF error THEN requested_tx ELSE requested_tx \ {t}

\* "unconditionally pop. so we don't end up in a not up to date state on bad
\* server reply or reorg"
answered(t, error) == requested_tx' = requested_tx \ {t}

_tx_response ==
    LET msg == Head(wire)
        t == msg.key
        a == msg.sh
    IN  /\ Receive("tx")
        /\ answered(t, msg.error)
        /\ requested_tx_by_sh' = [requested_tx_by_sh EXCEPT ![a] = @ \ {t}]
        /\ transactions' = IF msg.error THEN transactions ELSE transactions \cup {t}
        /\ UNCHANGED <<derived, history, up_to_date, requested_histories, requested_hashes>>
        /\ _check_change_scripthash(a)
        /\ UNCHANGED <<queueVars, change_scripthashes, change_subs, retired, releaseVars,
                       ticking, subscriptions, unanswered_requests, serverVars, envVars>>

\* Early returns: an error, no callback, an unexpected history, or a released
\* synchronizer.
ignore ==
    /\ wire # <<>> /\ ~ ticking
    /\ wire' = Tail(wire)
    /\ LET msg == Head(wire)
       IN  \/ cleaned_up
           \/ msg.m = "subscribe" /\ (msg.error \/ msg.key \notin subscriptions)
           \/ msg.m = "history" /\ (msg.error \/ requested_histories[msg.key] = NotRequested)
    /\ UNCHANGED <<walletVars, queueVars, requestVars, changeVars, releaseVars, ticking, subscriptions,
                   unanswered_requests, serverVars, envVars>>

-----------------------------------------------------------------------------
(* The network and the server                                               *)

\* A transaction the server does not know is always an error.
answer(r, error) ==
    LET gone == r.m = "tx" /\ r.key \notin chain
    IN  /\ BagIn(r, unanswered_requests)
        /\ error => gone \/ (r.m \in Errors /\ errors < MaxErrors)
        /\ gone => error
        /\ wire' = Append(wire, [m |-> r.m, key |-> r.key, sh |-> r.sh, error |-> error,
                                 result |-> IF r.m = "tx" THEN {r.key} ELSE Listed(r.key)])
        /\ unanswered_requests' = unanswered_requests (-) SetToBag({r})
        /\ server_subs' = IF r.m = "subscribe" /\ ~ error THEN server_subs \cup {r.key} ELSE server_subs
        /\ touched' = IF r.m = "subscribe" THEN touched \ {r.key} ELSE touched
        /\ errors' = IF error /\ ~ gone THEN errors + 1 ELSE errors
        /\ UNCHANGED <<walletVars, queueVars, requestVars, changeVars, releaseVars, ticking, subscriptions,
                       chain, changes, losses>>

notify(a) ==
    /\ a \in touched
    /\ touched' = touched \ {a}
    /\ wire' = Append(wire, [m |-> "subscribe", key |-> a, sh |-> a, error |-> FALSE,
                             result |-> Listed(a)])
    /\ UNCHANGED <<walletVars, queueVars, requestVars, changeVars, releaseVars, ticking, subscriptions,
                   unanswered_requests, chain, server_subs, envVars>>

\* A block or a mempool transaction changes the server's view.
chain_moves(view) ==
    /\ changes < MaxChanges
    /\ view # chain /\ (Reorgs \/ chain \subseteq view)
    /\ \A t \in view : \A c \in Takes[t] : c[1] \in view
    /\ chain' = view
    /\ touched' = touched \cup {a \in server_subs : Listed(a)' # Listed(a)}
    /\ changes' = changes + 1
    /\ UNCHANGED <<walletVars, queueVars, requestVars, changeVars, releaseVars, ticking, subscriptions,
                   unanswered_requests, wire, server_subs, errors, losses>>

\* Mutant: only the requests the old server had not answered are sent again.
resend_Unsent ==
    unanswered_requests (+) SetToBag({Subscribe(a) : a \in subscriptions})

\* The messages on the wire that answer r.
AnswersTo(r) == {i \in DOMAIN wire : wire[i].m = r.m /\ wire[i].key = r.key /\ wire[i].sh = r.sh}

\* send_subscriptions: what the lost connection had not delivered is asked
\* again, and every subscription is renewed.
resend ==
    LET pending(r) == (IF BagIn(r, unanswered_requests) THEN unanswered_requests[r] ELSE 0)
                         + Cardinality(AnswersTo(r))
        asked == {GetHistory(a) : a \in Addr} \cup {GetTx(t, a) : t \in Tx, a \in Addr}
    IN  [r \in {q \in asked : pending(q) > 0} |-> pending(r)]
           (+) SetToBag({Subscribe(a) : a \in subscriptions})

switch_interface ==
    /\ losses < MaxLosses
    /\ losses' = losses + 1
    /\ unanswered_requests' = resend
    /\ wire' = <<>>
    /\ server_subs' = {} /\ touched' = {}
    /\ UNCHANGED <<walletVars, queueVars, requestVars, changeVars, releaseVars, ticking, subscriptions,
                   chain, changes, errors>>

Deliver == _on_address_status \/ _on_address_history \/ _tx_response \/ ignore

Next ==
    \/ \E n \in derived..Len(Derivation) : run(n)
    \/ \E tick \in BOOLEAN : run_settle(tick)
    \/ run_release
    \/ release
    \/ add
    \/ Deliver
    \/ \E r \in DOMAIN unanswered_requests, error \in BOOLEAN : answer(r, error)
    \/ \E a \in Addr : notify(a)
    \/ \E view \in SUBSET Tx : chain_moves(view)
    \/ switch_interface

Spec == Init /\ [][Next]_vars

\* The network thread keeps running its jobs and reading its sockets, which it does
\* in turns, and a server that stays connected answers and notifies.
Fairness ==
    /\ WF_vars(run(derived))
    /\ WF_vars(\E tick \in BOOLEAN : run_settle(tick))
    /\ WF_vars(run_release)
    /\ SF_vars(Deliver)
    /\ WF_vars(\E r \in DOMAIN unanswered_requests, error \in BOOLEAN : answer(r, error))
    /\ WF_vars(\E a \in Addr : notify(a))

FairSpec == Spec /\ Fairness

-----------------------------------------------------------------------------
(* Properties                                                               *)

Request == {Subscribe(a) : a \in Addr} \cup {GetHistory(a) : a \in Addr}
              \cup {GetTx(t, a) : t \in Tx, a \in Addr}

\* The request a message answers; a notification looks like the reply to one.
Asked(w) == [m |-> w.m, key |-> w.key, sh |-> w.sh]

Reply == {w \in [m : {"subscribe", "history", "tx"}, key : Addr \cup Tx, sh : Addr,
                 error : BOOLEAN, result : SUBSET Tx] : Asked(w) \in Request}

\* Every variable keeps its type.
TypeOK ==
    /\ derived \in 0..Len(Derivation)
    /\ history \in [Addr -> SUBSET Tx]
    /\ transactions \subseteq Tx
    /\ up_to_date \in BOOLEAN
    /\ new_addresses \subseteq Addr
    /\ new_addresses_for_change \cup change_scripthashes \subseteq ChangeAddr
    /\ requested_tx \subseteq Tx
    /\ requested_tx_by_sh \in [Addr -> SUBSET Tx]
    /\ requested_histories \in [Addr -> {NotRequested} \cup SUBSET Tx]
    /\ requested_hashes \subseteq Addr
    /\ change_subs \cup candidates \cup retired \subseteq ChangeAddr
    /\ {need_release, cleaned_up, ticking} \subseteq BOOLEAN
    /\ subscriptions \subseteq Addr
    /\ IsABag(unanswered_requests) /\ DOMAIN unanswered_requests \subseteq Request
    /\ wire \in Seq(Reply)
    /\ chain \subseteq Tx /\ touched \subseteq server_subs /\ server_subs \subseteq Addr

\* A request is on its way to the server or its answer on the way back.
InFlight(m, key) ==
    \/ \E r \in DOMAIN unanswered_requests : r.m = m /\ r.key = key
    \/ \E i \in DOMAIN wire : wire[i].m = m /\ wire[i].key = key

\* Whatever the synchronizer waits for is still on its way, also after the
\* connection was lost: no entry of requested_hashes, requested_histories or
\* requested_tx is left behind to keep the wallet from becoming up to date.
NothingForgotten ==
    ~ cleaned_up =>
        /\ \A a \in requested_hashes : InFlight("subscribe", a)
        /\ \A a \in Addr : requested_histories[a] # NotRequested => InFlight("history", a)
        /\ \A t \in requested_tx : InFlight("tx", t)
        /\ \A a \in Addr : requested_tx_by_sh[a] \subseteq requested_tx

\* When nothing is requested any more, the wallet holds every transaction that
\* is in a history and that the server still knows.
UpToDateHasTxs == is_up_to_date => \A a \in Addr : history[a] \cap chain \subseteq transactions

\* The addresses that wait for the next ticks.
Queued == new_addresses \cup new_addresses_for_change

\* No address is lost between the thread that derives it and the tick that takes
\* the queues: when the wallet is told that it is up to date, each of its addresses
\* has been subscribed to and answered for, or is retired, or waits in a queue.
SettledMeansSubscribed ==
    [][up_to_date' /\ ~ up_to_date =>
          \A a \in Mine' : a \in (Queued \cup ((subscriptions \cup retired) \ requested_hashes))']_vars

\* "is_fully_settled_down: its synchronizer and verifier aren't busy doing work": an
\* up-to-date wallet waits for none of its addresses.
UpToDateWaitsForNone ==
    [][up_to_date' /\ ~ up_to_date => Mine' \subseteq (subscriptions \cup retired)']_vars

\* A released synchronizer never touches the wallet again, although answers
\* keep arriving for transactions it had asked for.
ReleasedIsInert == [][cleaned_up => UNCHANGED <<history, transactions, up_to_date>>]_vars

\* Nothing is under way and the server has told everything it had to tell.
Quiet == /\ unanswered_requests = EmptyBag /\ wire = <<>> /\ touched = {}
         /\ ~ need_release /\ ~ cleaned_up

\* "The synchronizer keeps the wallet up-to-date with its set of addresses and
\* their transactions": once all is quiet, a subscribed address has the history
\* the server lists.
UpToDateIsFresh == Quiet => \A a \in subscriptions : history[a] = Listed(a)

\* Only change addresses that were paid once and emptied by a second transaction
\* are retired ("precisely 1 input tx and 1 spending tx").
RetiredIsSpent == \A a \in retired : zero_balance(a, Listed(a))

\* The wallet becomes and stays up to date, with every address subscribed to and
\* answered for or retired, unless the synchronizer is released.
Settles ==
    <>[](\/ need_release \/ cleaned_up
         \/ up_to_date /\ Mine \subseteq (subscriptions \cup retired) \ requested_hashes)
-----------------------------------------------------------------------------
(* The inductive invariants behind them.                                    *)

\* The requests for t that are unanswered, and the answers on the wire.
Questions(t) == {r \in DOMAIN unanswered_requests : r.m = "tx" /\ r.key = t}
Replies(t) == {i \in DOMAIN wire : wire[i].m = "tx" /\ wire[i].key = t}

\* A transaction is asked for once, for one address, until the answer is read.
TxOnce(t) ==
    /\ \A r, q \in Questions(t) : r = q
    /\ \A r \in Questions(t) : unanswered_requests[r] = 1
    /\ \A i, j \in Replies(t) : i = j
    /\ Questions(t) = {} \/ Replies(t) = {}
    /\ Questions(t) # {} \/ Replies(t) # {} => t \in requested_tx
    /\ \A a \in Addr : t \in requested_tx_by_sh[a] =>
          /\ t \in requested_tx
          /\ \A r \in Questions(t) : r.sh = a
          /\ \A i \in Replies(t) : wire[i].sh = a

\* What is asked for can be answered: Network has a callback for it.
Registered ==
    /\ \A t \in Tx : TxOnce(t)
    /\ ~ cleaned_up => requested_hashes \subseteq subscriptions

\* Without reorganisations and errors, histories list what the server knows, and
\* the wallet has it or asks for it.
Complete ==
    /\ \A a \in Addr : history[a] \subseteq chain /\ history[a] \subseteq transactions \cup requested_tx
    /\ requested_tx \subseteq chain
    /\ \A i \in DOMAIN wire : IF wire[i].m = "tx" THEN ~ wire[i].error ELSE wire[i].result \subseteq chain

\* Every address is subscribed to, queued or retired, and no tick outlives a release.
Covered ==
    /\ ticking => ~ cleaned_up
    /\ ~ cleaned_up => Mine \subseteq subscriptions \cup retired \cup Queued

SyncInv == TypeOK /\ Registered

=============================================================================
