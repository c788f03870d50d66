---------------------------- MODULE WalletLedger ----------------------------
(***************************************************************************)
(* The coin bookkeeping of Abstract_Wallet (electronfittexxcoin/wallet.py):  *)
(* which outputs the wallet received, which of them a known transaction     *)
(* spends, and the spends whose funding transaction has not arrived yet.    *)
(*                                                                         *)
(* The network thread delivers address histories and transactions in any    *)
(* order; the cleaner thread reaps irrelevant entries of pruned_txo.  The   *)
(* loops of receive_history_callback, check_history and add_transaction run *)
(* under self.lock; each iteration is a step here, because the GUI thread   *)
(* reads without the lock and sees the states in between (module            *)
(* WalletReaders) and because the code iterates over sets in no fixed order.*)
(*                                                                         *)
(* A coin is an output of a transaction; its value, its script and its      *)
(* serialised form play no part.  The maps unverified_tx and verified_tx,   *)
(* which the same callbacks update, are in module SPV.                     *)
(***************************************************************************)
EXTENDS Integers, FiniteSets

CONSTANTS
    Tx,         \* the transactions a server may show to the wallet
    Addr,       \* the addresses the wallet owns now or will derive later
    Coin,       \* the outputs of the transactions in Tx
    Fund,       \* Fund[c]: the transaction that creates coin c
    Owner,      \* Owner[c]: the address coin c pays, or Other
    Spends,     \* Spends[t]: the coins transaction t spends
    Opaque,     \* coins whose spending input shows no address (get 'address' is None)
    Token,      \* coins that carry a CashToken
    InitMine,   \* the addresses of the wallet at the start
    Height,     \* heights a server reports: -1 and 0 unconfirmed, > 0 confirmed
    SyncReads,  \* whether the network thread calls get_addr_balance
    Other,      \* any address that is never the wallet's
    NoTx,       \* "no transaction" in pruned_txo
    NoHeight,   \* "not in this history"
    NoEntry     \* "no entry" in the balance cache

Outs(t) == {c \in Coin : Fund[c] = t}
Own(a) == {c \in Coin : Owner[c] = a}
NoHist == [t \in Tx |-> NoHeight]
History == [Tx -> Height \cup {NoHeight}]
InHist(h) == {t \in Tx : h[t] # NoHeight}

ASSUME GraphAssumption ==
    /\ Fund \in [Coin -> Tx]
    /\ Owner \in [Coin -> Addr \cup {Other}]
    /\ Spends \in [Tx -> SUBSET Coin]
    /\ \A t \in Tx : \A c \in Spends[t] : Fund[c] # t
    /\ Opaque \subseteq Coin /\ Token \subseteq Coin

ASSUME NameAssumption ==
    /\ InitMine \subseteq Addr
    /\ Height \subseteq Int
    /\ Other \notin Addr
    /\ NoTx \notin Tx
    /\ NoHeight \notin Height
    /\ SyncReads \in BOOLEAN

VARIABLES
    mine,               \* addresses for which is_mine() is true
    transactions,       \* keys of self.transactions
    txi,                \* txi[t]: wallet coins t is known to spend
    txo,                \* txo[t]: outputs of t that are the wallet's
    ct_txi,             \* the token-carrying part of txi, kept separately
    pruned_txo,         \* spent coin -> spending tx, funding tx not seen yet
    pruned_txo_values,  \* the set kept alongside pruned_txo
    history,            \* _history[a]: tx -> height
    tx_addr_hist,       \* tx -> addresses whose history mentions it
    requested_tx,       \* transactions the synchronizer has asked a server for
    cb,                 \* the loop that holds self.lock
    adding,             \* the add_transaction under way
    reaping,            \* the coin the cleaner found irrelevant, not yet removed
    addr_bal_cache      \* _addr_bal_cache

ledgerVars == <<txi, txo, ct_txi, pruned_txo, pruned_txo_values, transactions>>
vars == <<mine, ledgerVars, history, tx_addr_hist, requested_tx, cb, adding, reaping,
          addr_bal_cache>>

Idle == [phase |-> "idle", addr |-> Other, hist |-> NoHist, todo |-> {}]
NoAdd == [tx |-> NoTx, stage |-> "none", todo |-> {}]

\* Nothing holds self.lock.
Unlocked == cb = Idle /\ adding = NoAdd

Init ==
    /\ mine = InitMine
    /\ transactions = {}
    /\ txi = [t \in Tx |-> {}]
    /\ txo = [t \in Tx |-> {}]
    /\ ct_txi = [t \in Tx |-> {}]
    /\ pruned_txo = [c \in Coin |-> NoTx]
    /\ pruned_txo_values = {}
    /\ history = [a \in Addr |-> NoHist]
    /\ tx_addr_hist = [t \in Tx |-> {}]
    /\ requested_tx = {}
    /\ cb = Idle
    /\ adding = NoAdd
    /\ reaping = {}
    /\ addr_bal_cache = [a \in Addr |-> NoEntry]

-----------------------------------------------------------------------------
(* add_transaction and remove_transaction                                   *)

\* Mutant: the cache entries are never dropped.
Invalidate_Kept(owners) == addr_bal_cache' = addr_bal_cache

Invalidate(owners) ==
    addr_bal_cache' = [a \in Addr |-> IF a \in owners THEN NoEntry ELSE addr_bal_cache[a]]

\* Mutant: an input is taken as found as soon as its address is ours.
find_in_self_txo_Unchecked(c) == Owner[c] \in mine

\* The output an input refers to is recorded.
find_in_self_txo(c) == c \in txo[Fund[c]]

\* Mutant: a spend that arrives before its funding tx is forgotten.
put_pruned_txo_Never(c) == UNCHANGED <<pruned_txo, pruned_txo_values>>

put_pruned_txo(c) ==
    /\ pruned_txo' = [pruned_txo EXCEPT ![c] = adding.tx]
    /\ pruned_txo_values' = pruned_txo_values \cup {adding.tx}

\* The inputs of t that are looked up: the wallet's and those of no known
\* address.  The others leave everything as it is.
Searched(t) == {c \in Spends[t] : c \in Opaque \/ Owner[c] \in mine}

\* add_transaction begins: what was recorded as spent by t is dropped.
add_transaction(t) ==
    /\ adding = NoAdd
    /\ adding' = [tx |-> t, stage |-> "inputs", todo |-> Searched(t)]
    /\ txi' = [txi EXCEPT ![t] = {}]
    /\ ct_txi' = [ct_txi EXCEPT ![t] = {}]
    /\ UNCHANGED <<txo, pruned_txo, pruned_txo_values, transactions, addr_bal_cache>>

\* "add inputs": one input.
add_input(c) ==
    LET t == adding.tx
    IN  /\ adding.stage = "inputs"
        /\ c \in adding.todo
        /\ adding' = [tx |-> t, stage |-> "inputs", todo |-> adding.todo \ {c}]
        /\ IF find_in_self_txo(c)
           THEN /\ txi' = [txi EXCEPT ![t] = @ \cup {c}]
                /\ ct_txi' = [ct_txi EXCEPT ![t] = @ \cup ({c} \cap Token)]
                /\ Invalidate({Owner[c]})
                /\ UNCHANGED <<pruned_txo, pruned_txo_values>>
           ELSE /\ put_pruned_txo(c)
                /\ Invalidate({Owner[e] : e \in {c} \ Opaque})
                /\ UNCHANGED <<txi, ct_txi>>
        /\ UNCHANGED <<mine, txo, transactions, history, tx_addr_hist, requested_tx, cb, reaping>>

\* What was recorded as received from t is dropped.
clear_outputs ==
    /\ adding.stage = "inputs"
    /\ adding.todo = {}
    /\ adding' = [tx |-> adding.tx, stage |-> "outputs", todo |-> Outs(adding.tx)]
    /\ txo' = [txo EXCEPT ![adding.tx] = {}]
    /\ UNCHANGED <<mine, txi, ct_txi, pruned_txo, pruned_txo_values, transactions, history,
                   tx_addr_hist, requested_tx, cb, reaping, addr_bal_cache>>

\* "add outputs": one output, given to the tx flagged as its spender.
add_output(c) ==
    LET ours == Owner[c] \in mine
        gain(x) == {e \in {c} : ours /\ pruned_txo[e] = x}
    IN  /\ adding.stage = "outputs"
        /\ c \in adding.todo
        /\ adding' = [tx |-> adding.tx, stage |-> "outputs", todo |-> adding.todo \ {c}]
        /\ txo' = [txo EXCEPT ![adding.tx] = @ \cup {e \in {c} : ours}]
        /\ txi' = [x \in Tx |-> txi[x] \cup gain(x)]
        /\ ct_txi' = [x \in Tx |-> ct_txi[x] \cup (gain(x) \cap Token)]
        /\ pruned_txo' = [pruned_txo EXCEPT ![c] = NoTx]
        /\ pruned_txo_values' = pruned_txo_values \ {pruned_txo[c]}
        /\ Invalidate({Owner[e] : e \in {x \in {c} : ours}})
        /\ UNCHANGED <<mine, transactions, history, tx_addr_hist, requested_tx, cb, reaping>>

\* "save"
save_transaction ==
    /\ adding.stage = "outputs"
    /\ adding.todo = {}
    /\ adding' = NoAdd
    /\ transactions' = transactions \cup {adding.tx}
    /\ UNCHANGED <<mine, txi, txo, ct_txi, pruned_txo, pruned_txo_values, history, tx_addr_hist,
                   requested_tx, cb, reaping, addr_bal_cache>>

\* The entry in self.transactions stays until the next load_transactions().
remove_transaction(t) ==
    LET lost(x) == {c \in txi[x] : Fund[c] = t}
        back == {c \in Coin : \E x \in Tx : c \in lost(x)}
        flags == [c \in Coin |-> IF pruned_txo[c] = t THEN NoTx ELSE pruned_txo[c]]
    IN  /\ \E next \in [back -> Tx] :     \* the last next_tx of the scan wins
              /\ \A c \in back : c \in lost(next[c])
              /\ pruned_txo' = [c \in Coin |-> IF c \in back THEN next[c] ELSE flags[c]]
        /\ pruned_txo_values' =
              (pruned_txo_values \ {x \in {t} : \E c \in Coin : pruned_txo[c] = t})
                 \cup {x \in Tx : lost(x) # {}}
        /\ txi' = [x \in Tx |-> IF x = t THEN {} ELSE txi[x] \ lost(x)]
        /\ txo' = [txo EXCEPT ![t] = {}]
        /\ ct_txi' = [ct_txi EXCEPT ![t] = {}]
        /\ Invalidate({Owner[c] : c \in back \cup txo[t]})
        /\ UNCHANGED transactions

-----------------------------------------------------------------------------
(* receive_history_callback, receive_tx_callback                            *)

\* What an Electrum server can answer for address a at one moment: every
\* listed tx touches a, the list has the funding tx of each coin of a it
\* spends, no two listed txs spend the same coin, and a confirmed tx has its
\* parents confirmed no later.
ServerHistory(a, h) ==
    LET S == InHist(h)
    IN  /\ \A t \in S : (Outs(t) \cup Spends[t]) \cap Own(a) # {}
        /\ \A t \in S : \A c \in Spends[t] \cap Own(a) : Fund[c] \in S
        /\ \A t, u \in S : t # u => Spends[t] \cap Spends[u] = {}
        /\ \A t, u \in S : Spends[t] \cap Outs(u) # {} /\ h[t] > 0
                             => h[u] > 0 /\ h[u] <= h[t]

\* Mutant: only moved entries count, vanished ones are overlooked.
Outdated_Moved(old, new) ==
    {t \in Tx : /\ old[t] # NoHeight /\ new[t] # NoHeight
                /\ old[t] > 0 /\ old[t] # new[t]}

\* Entries of the old history that the new one removes or moves; a mempool tx
\* that confirmed, or whose parents did, stays.
Outdated(old, new) ==
    {t \in Tx : /\ old[t] # NoHeight
                /\ old[t] # new[t]
                /\ ~ (new[t] # NoHeight /\ old[t] <= 0 /\ 0 <= new[t])}

\* The running loop after its iteration for t.
LoopRest(t) ==
    [phase |-> cb.phase, addr |-> cb.addr, hist |-> cb.hist, todo |-> cb.todo \ {t}]

receive_history_begin(a, h) ==
    /\ Unlocked
    /\ a \in mine
    /\ ServerHistory(a, h)
    /\ cb' = [phase |-> "remove", addr |-> a, hist |-> h,
              todo |-> Outdated(history[a], h)]
    /\ UNCHANGED <<mine, ledgerVars, history, tx_addr_hist, requested_tx, adding, reaping, addr_bal_cache>>

receive_history_remove(t) ==
    /\ cb.phase = "remove"
    /\ adding = NoAdd
    /\ t \in cb.todo
    /\ cb' = LoopRest(t)
    /\ tx_addr_hist' = [tx_addr_hist EXCEPT ![t] = @ \ {cb.addr}]
    /\ IF tx_addr_hist[t] \ {cb.addr} = {}
       THEN remove_transaction(t)
       ELSE UNCHANGED <<ledgerVars, addr_bal_cache>>
    /\ UNCHANGED <<mine, history, requested_tx, adding, reaping>>

receive_history_store ==
    /\ cb.phase = "remove"
    /\ adding = NoAdd
    /\ cb.todo = {}
    /\ Invalidate({cb.addr})
    /\ history' = [history EXCEPT ![cb.addr] = cb.hist]
    /\ cb' = IF cb.hist = NoHist THEN Idle
             ELSE [phase |-> "add", addr |-> cb.addr, hist |-> NoHist,
                   todo |-> InHist(cb.hist)]
    /\ requested_tx' = requested_tx \cup (InHist(cb.hist) \ transactions)
    /\ UNCHANGED <<mine, ledgerVars, tx_addr_hist, adding, reaping>>

\* "if addr is new, we have to recompute txi and txo"
receive_history_add(t) ==
    /\ cb.phase = "add"
    /\ adding = NoAdd
    /\ t \in cb.todo
    /\ cb' = IF cb.todo = {t} THEN Idle ELSE LoopRest(t)
    /\ tx_addr_hist' = [tx_addr_hist EXCEPT ![t] = @ \cup {cb.addr}]
    /\ IF t \in transactions /\ (txi[t] \cup txo[t]) \cap Own(cb.addr) = {}
       THEN add_transaction(t)
       ELSE UNCHANGED <<ledgerVars, adding, addr_bal_cache>>
    /\ UNCHANGED <<mine, history, requested_tx, reaping>>

receive_tx_callback(t) ==
    /\ Unlocked
    /\ t \in requested_tx
    /\ requested_tx' = requested_tx \ {t}
    /\ add_transaction(t)
    /\ UNCHANGED <<mine, history, tx_addr_hist, cb, reaping>>

-----------------------------------------------------------------------------
(* New addresses, the cleaner thread, balances, restart                     *)

add_address(a) ==
    /\ Unlocked
    /\ a \in Addr \ mine
    /\ mine' = mine \cup {a}
    /\ Invalidate({a})
    /\ UNCHANGED <<ledgerVars, history, tx_addr_hist, requested_tx, cb, adding, reaping>>

\* The cleaner thread looks up the output behind a flag under self.lock ...
clean_pruned_txo_check(c) ==
    /\ Unlocked
    /\ reaping = {}
    /\ pruned_txo[c] # NoTx
    /\ Owner[c] \notin mine
    /\ reaping' = {c}
    /\ UNCHANGED <<mine, ledgerVars, history, tx_addr_hist, requested_tx, cb, adding, addr_bal_cache>>

\* ... and removes the flag in a second critical section (rm).
clean_pruned_txo_rm(c) ==
    /\ Unlocked
    /\ c \in reaping
    /\ reaping' = {}
    /\ pruned_txo' = [pruned_txo EXCEPT ![c] = NoTx]
    /\ pruned_txo_values' = pruned_txo_values \ {pruned_txo[c]}
    /\ UNCHANGED <<mine, txi, txo, ct_txi, transactions, history, tx_addr_hist, requested_tx, cb,
                   adding, addr_bal_cache>>

received(a) == {c \in Own(a) : c \in txo[Fund[c]] /\ history[a][Fund[c]] # NoHeight}
sent(a) == {c \in Own(a) : \E t \in InHist(history[a]) : c \in txi[t]}

\* What determines (c, u): the received coins and the spent ones, each split
\* by whether its transaction is confirmed.
Balance(a) ==
    [c |-> {x \in received(a) : history[a][Fund[x]] > 0},
     u |-> {x \in received(a) : history[a][Fund[x]] <= 0},
     spent_c |-> {x \in received(a) : \E t \in InHist(history[a]) :
                                         x \in txi[t] /\ history[a][t] > 0},
     spent_u |-> {x \in received(a) : \E t \in InHist(history[a]) :
                                         x \in txi[t] /\ history[a][t] <= 0}]

\* get_addr_utxo: coins.pop(txi) for every spent coin, the rest is offered.
Utxo(a) == received(a) \ sent(a)

\* The network thread calls get_addr_balance between two callbacks only.
get_addr_balance(a) ==
    /\ SyncReads
    /\ Unlocked
    /\ a \in mine
    /\ addr_bal_cache[a] = NoEntry
    /\ addr_bal_cache' = [addr_bal_cache EXCEPT ![a] = Balance(a)]
    /\ UNCHANGED <<mine, ledgerVars, history, tx_addr_hist, requested_tx, cb, adding, reaping>>

\* stop_threads saves everything under self.lock; the wallet is loaded again:
\* load_transactions drops unreferenced transactions, build_reverse_history
\* rebuilds tx_addr_hist, check_history scans the histories, and
\* prepare_for_verifier drops transactions of no history unless they are in
\* verified_tx, which is not part of this module: any subset K may be.
restart(K) ==
    LET flagged == {t \in Tx : \E c \in Coin : pruned_txo[c] = t}
        held == {t \in transactions : \/ txi[t] # {} \/ txo[t] # {} \/ ct_txi[t] # {}
                                      \/ t \in flagged}
        listed == {t \in Tx : \E a \in Addr : history[a][t] # NoHeight}
    IN  /\ Unlocked
        /\ K \subseteq held \ listed
        /\ pruned_txo_values' = flagged
        /\ transactions' = (held \cap listed) \cup K
        /\ tx_addr_hist' = [t \in Tx |-> {a \in Addr : history[a][t] # NoHeight}]
        /\ requested_tx' = listed \ transactions'
        /\ cb' = IF held \cap listed = {} THEN Idle
                 ELSE [phase |-> "check", addr |-> Other, hist |-> NoHist,
                       todo |-> held \cap listed]
        /\ reaping' = {}
        /\ addr_bal_cache' = [a \in Addr |-> NoEntry]
        /\ UNCHANGED <<mine, txi, txo, ct_txi, pruned_txo, history, adding>>

\* One transaction of the scan check_history makes before any thread starts.
check_history(t) ==
    /\ cb.phase = "check"
    /\ adding = NoAdd
    /\ t \in cb.todo
    /\ cb' = IF cb.todo = {t} THEN Idle ELSE LoopRest(t)
    /\ IF t \in pruned_txo_values \/ txi[t] # {} \/ txo[t] # {}
       THEN UNCHANGED <<ledgerVars, adding, addr_bal_cache>>
       ELSE add_transaction(t)
    /\ UNCHANGED <<mine, history, tx_addr_hist, requested_tx, reaping>>

\* The user asks for a full resync.  The wallet starts from nothing; replies to
\* the old synchronizer may arrive until the network thread releases it.
rebuild_history ==
    /\ Unlocked
    /\ mine' = InitMine
    /\ transactions' = {}
    /\ txi' = [t \in Tx |-> {}]
    /\ txo' = [t \in Tx |-> {}]
    /\ ct_txi' = [t \in Tx |-> {}]
    /\ pruned_txo' = [c \in Coin |-> NoTx]
    /\ pruned_txo_values' = {}
    /\ history' = [a \in Addr |-> NoHist]
    /\ tx_addr_hist' = [t \in Tx |-> {}]
    /\ addr_bal_cache' = [a \in Addr |-> NoEntry]
    /\ UNCHANGED <<requested_tx, cb, adding, reaping>>

\* Every step of a running wallet.
Running ==
    \/ \E a \in Addr : \E h \in History : receive_history_begin(a, h)
    \/ \E t \in Tx : receive_history_remove(t)
    \/ receive_history_store
    \/ \E t \in Tx : receive_history_add(t)
    \/ \E t \in Tx : receive_tx_callback(t)
    \/ \E c \in Coin : add_input(c)
    \/ clear_outputs
    \/ \E c \in Coin : add_output(c)
    \/ save_transaction
    \/ \E a \in Addr : add_address(a)
    \/ \E c \in Coin : clean_pruned_txo_check(c)
    \/ \E c \in Coin : clean_pruned_txo_rm(c)
    \/ \E a \in Addr : get_addr_balance(a)
    \/ \E t \in Tx : check_history(t)
    \/ rebuild_history

Next == Running \/ \E K \in SUBSET Tx : restart(K)

Spec == Init /\ [][Next]_vars

-----------------------------------------------------------------------------
(* Properties                                                               *)

Callback == [phase : {"idle", "remove", "add", "check"}, addr : Addr \cup {Other},
             hist : History, todo : SUBSET Tx]

Adding == {NoAdd} \cup [tx : Tx, stage : {"inputs", "outputs"}, todo : SUBSET Coin]

Balances == [c : SUBSET Coin, u : SUBSET Coin, spent_c : SUBSET Coin, spent_u : SUBSET Coin]

\* Every variable keeps its type; pruned_txo and the maps mention only
\* transactions and coins that exist.
TypeOK ==
    /\ mine \subseteq Addr
    /\ transactions \subseteq Tx
    /\ txi \in [Tx -> SUBSET Coin]
    /\ txo \in [Tx -> SUBSET Coin]
    /\ ct_txi \in [Tx -> SUBSET Coin]
    /\ pruned_txo \in [Coin -> Tx \cup {NoTx}]
    /\ pruned_txo_values \subseteq Tx
    /\ history \in [Addr -> History]
    /\ tx_addr_hist \in [Tx -> SUBSET Addr]
    /\ requested_tx \subseteq Tx
    /\ cb \in Callback
    /\ cb.phase \in {"remove", "add"} => cb.addr \in Addr
    /\ adding \in Adding
    /\ reaping \subseteq Coin
    /\ addr_bal_cache \in [Addr -> Balances \cup {NoEntry}]

\* The transactions of a's history whose bytes the wallet holds.
KnownOf(a) == InHist(history[a]) \cap transactions

\* However histories and transactions arrived, get_addr_utxo offers no coin
\* that a known transaction of the address spends, and it offers every output
\* of a known transaction that no listed transaction spends; once all listed
\* transactions are known these are the same coins.
UtxoIsExact ==
    cb.phase \in {"idle", "check"} /\ adding = NoAdd =>
        \A a \in mine : \A c \in Own(a) :
            /\ c \in Utxo(a) => \A t \in KnownOf(a) : c \notin Spends[t]
            /\ /\ Fund[c] \in KnownOf(a)
               /\ \A t \in InHist(history[a]) : c \notin Spends[t]
               => c \in Utxo(a)

\* Coin c belongs to the tx that is being added and is still to be recorded.
Unrecorded(c) == adding.stage = "outputs" /\ c \in adding.todo

\* Every coin recorded as spent is recorded as received, so coins.pop(txi) in
\* get_addr_utxo finds it: always for get_utxos, which holds the lock, and
\* between any two steps of a callback except for the outputs of a transaction
\* that is being recorded again ("if addr is new, we have to recompute").
SpentIsReceived ==
    \A a \in mine : \A c \in sent(a) \ received(a) : Unrecorded(c)

\* A balance cached by the network thread is the balance recomputed from the
\* ledger.  The GUI thread caches balances too: module WalletReaders.
CacheCoherent ==
    Unlocked => \A a \in mine : addr_bal_cache[a] \in {NoEntry, Balance(a)}

-----------------------------------------------------------------------------
(* The inductive invariant behind UtxoIsExact and SpentIsReceived           *)

\* The wallet's txs conflict with no other; mempool double spends are excluded.
SingleSpend == \A t, u \in Tx : t # u => Spends[t] \cap Spends[u] = {}

\* Inputs that show no address spend coins of strangers or of addresses the
\* wallet has had all along.
OpaqueSettled == \A c \in Opaque : Owner[c] \in InitMine \cup {Other}

\* txo holds wallet outputs of the tx it is filed under; a recorded spend is a
\* real spend of a recorded output, or of one that is being recorded again; a
\* flagged spend waits for an output that is not recorded.
Sound ==
    /\ InitMine \subseteq mine
    /\ adding.stage = "inputs" => adding.todo \subseteq Searched(adding.tx)
    /\ adding.stage = "outputs" => adding.todo \subseteq Outs(adding.tx)
    /\ \A t \in Tx : \A c \in txo[t] : Fund[c] = t /\ Owner[c] \in mine
    /\ \A t \in Tx : \A c \in txi[t] :
          /\ c \in Spends[t]
          /\ Owner[c] \in mine
          /\ c \in txo[Fund[c]] \/ Unrecorded(c)
    /\ \A c \in Coin : pruned_txo[c] # NoTx =>
          /\ c \in Spends[pruned_txo[c]]
          /\ c \notin txo[Fund[c]]
          /\ Owner[c] \in mine \/ c \in Opaque

\* A history comes from a server: with a spend it lists the funding tx.
ClosedFor(a, h) ==
    \A t \in InHist(h) : \A c \in Spends[t] \cap Own(a) : Fund[c] \in InHist(h)

Closed ==
    /\ \A a \in Addr : ClosedFor(a, history[a])
    /\ cb.phase = "remove" => ClosedFor(cb.addr, cb.hist)

\* Only the wallet's own addresses have a history or a callback.
Owned ==
    /\ \A a \in Addr \ mine : history[a] = NoHist
    /\ cb.phase \in {"remove", "add"} => cb.addr \in mine
    /\ \A c \in reaping : Owner[c] = Other

\* tx_addr_hist is the reverse of the histories, up to the running callback.
Reverse ==
    /\ \A a \in Addr : \A t \in Tx :
        /\ a \in tx_addr_hist[t] =>
              IF cb.phase = "remove" /\ a = cb.addr
              THEN t \in cb.todo \/ cb.hist[t] # NoHeight
              ELSE history[a][t] # NoHeight
        /\ history[a][t] # NoHeight =>
              \/ a \in tx_addr_hist[t]
              \/ a = cb.addr /\ cb.phase = "remove"
              \/ a = cb.addr /\ cb.phase = "add" /\ t \in cb.todo
    /\ cb.phase = "add" => \A t \in cb.todo : history[cb.addr][t] # NoHeight

\* Something of tx t is recorded for address a; everything is.
Touched(a, t) == \E c \in Own(a) : c \in txi[t] \/ c \in txo[t] \/ pruned_txo[c] = t
Full(a, t) ==
    /\ \A c \in Own(a) \cap Outs(t) : c \in txo[t]
    /\ \A c \in Own(a) \cap Spends[t] : c \in txi[t] \/ pruned_txo[c] = t

\* The tx being added is recorded up to what its loops have still to do.
Underway ==
    \A a \in mine :
        /\ adding # NoAdd =>
              \A c \in Own(a) \cap Spends[adding.tx] :
                  \/ c \in txi[adding.tx] \/ pruned_txo[c] = adding.tx
                  \/ adding.stage = "inputs" /\ c \in adding.todo
        /\ adding.stage = "outputs" =>
              \A c \in Own(a) \cap Outs(adding.tx) : c \in txo[adding.tx] \cup adding.todo

\* A tx is recorded for an address in full or not at all, and in full once it
\* is listed in the address's history and its bytes are there.
Complete ==
    \A a \in mine : \A t \in Tx \ {adding.tx} :
        /\ Touched(a, t) => Full(a, t)
        /\ t \in KnownOf(a) => \/ Full(a, t)
                               \/ a = cb.addr /\ cb.phase = "remove"
                               \/ a = cb.addr /\ cb.phase = "add" /\ t \in cb.todo

BaseInv == TypeOK /\ Sound /\ Closed
LedgerInv == BaseInv /\ Owned /\ Reverse /\ Underway /\ Complete
=============================================================================
