--------------------------- MODULE WalletReaders ---------------------------
(***************************************************************************)
(* get_addr_utxo and get_addr_balance of electronfittexxcoin/wallet.py as    *)
(* threads call them that do not hold self.lock: the GUI's address list and  *)
(* the CashFusion plugin.  get_addr_io takes the history once and then looks *)
(* at the ledger twice, for what was received and for what was sent; module  *)
(* WalletLedger makes its steps in between.  Each of the two loops is one    *)
(* step here, which only leaves out interleavings.                          *)
(***************************************************************************)
EXTENDS WalletLedger

CONSTANTS Readers   \* threads that read without the lock

VARIABLES reading   \* what a reader has seen so far

readerVars == <<vars, reading>>

ReaderInit == Init /\ reading = [r \in Readers |-> NoEntry]

\* get_addr_io: the history and the coins received; get_addr_balance ("balance")
\* comes here on a cache miss only.
get_addr_io_received(r, a, caller) ==
    /\ reading[r] = NoEntry
    /\ a \in mine
    /\ caller = "balance" => addr_bal_cache[a] = NoEntry
    /\ reading' = [reading EXCEPT ![r] =
          [loop |-> "received", caller |-> caller, addr |-> a, hist |-> history[a],
           received |-> received(a), sent |-> {}, result |-> NoEntry]]
    /\ UNCHANGED vars

\* get_addr_io: the coins sent, by transactions of the history taken before.
get_addr_io_sent(r) ==
    LET io == reading[r]
        spenders(c) == {t \in InHist(io.hist) : c \in txi[t]}
    IN  /\ io # NoEntry
        /\ io.loop = "received"
        /\ reading' = [reading EXCEPT ![r] =
              [io EXCEPT
                 !.loop = "sent",
                 !.sent = {c \in Own(io.addr) : spenders(c) # {}},
                 !.result =
                   [c |-> {c \in io.received : io.hist[Fund[c]] > 0},
                    u |-> {c \in io.received : io.hist[Fund[c]] <= 0},
                    spent_c |-> {c \in io.received : \E t \in spenders(c) : io.hist[t] > 0},
                    spent_u |-> {c \in io.received : \E t \in spenders(c) : io.hist[t] <= 0}]]]
        /\ UNCHANGED vars

\* get_addr_utxo pops the spent coins and returns the rest.
get_addr_utxo(r) ==
    /\ reading[r] # NoEntry
    /\ reading[r].loop = "sent"
    /\ reading[r].caller = "utxo"
    /\ reading' = [reading EXCEPT ![r] = NoEntry]
    /\ UNCHANGED vars

\* get_addr_balance caches its result, whatever happened to the ledger meanwhile.
get_addr_balance_store(r) ==
    /\ reading[r] # NoEntry
    /\ reading[r].loop = "sent"
    /\ reading[r].caller = "balance"
    /\ addr_bal_cache' = [addr_bal_cache EXCEPT ![reading[r].addr] = reading[r].result]
    /\ reading' = [reading EXCEPT ![r] = NoEntry]
    /\ UNCHANGED <<mine, ledgerVars, history, tx_addr_hist, requested_tx, cb, adding, reaping>>

ReaderNext ==
    \/ Running /\ UNCHANGED reading
    \/ \E K \in SUBSET Tx : restart(K) /\ reading' = [r \in Readers |-> NoEntry]
    \/ \E r \in Readers : \E a \in Addr : \E caller \in {"utxo", "balance"} :
          get_addr_io_received(r, a, caller)
    \/ \E r \in Readers : get_addr_io_sent(r)
    \/ \E r \in Readers : get_addr_utxo(r)
    \/ \E r \in Readers : get_addr_balance_store(r)

ReaderSpec == ReaderInit /\ [][ReaderNext]_readerVars

-----------------------------------------------------------------------------
(* Properties                                                               *)

=============================================================================
