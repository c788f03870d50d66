------------------------- MODULE WalletLedgerProofs -------------------------
(***************************************************************************)
(* TLAPS proofs about WalletLedger, for every transaction graph.            *)
(***************************************************************************)
EXTENDS WalletLedger, TLAPS

\* An add_transaction under way is about a transaction and its coins.
LEMMA AddingFacts ==
    ASSUME TypeOK
    PROVE  /\ NoAdd.tx = NoTx /\ NoAdd.stage = "none" /\ NoAdd.todo = {}
           /\ adding = NoAdd \/ (/\ adding.tx \in Tx /\ adding.todo \subseteq Coin
                                 /\ adding.stage \in {"inputs", "outputs"}
                                 /\ adding = [tx |-> adding.tx, stage |-> adding.stage,
                                              todo |-> adding.todo])
  BY NameAssumption DEF TypeOK, Adding, NoAdd

\* What the beginning of add_transaction leaves behind.
LEMMA BeginTyped ==
    ASSUME TypeOK, NEW t \in Tx, add_transaction(t)
    PROVE  /\ transactions' \subseteq Tx
           /\ txi' \in [Tx -> SUBSET Coin]
           /\ txo' \in [Tx -> SUBSET Coin]
           /\ ct_txi' \in [Tx -> SUBSET Coin]
           /\ pruned_txo' \in [Coin -> Tx \cup {NoTx}]
           /\ pruned_txo_values' \subseteq Tx
           /\ adding' \in Adding
           /\ addr_bal_cache' \in [Addr -> Balances \cup {NoEntry}]
<1>1. adding' \in Adding
  BY GraphAssumption DEF add_transaction, Adding, Searched
<1> QED BY <1>1 DEF TypeOK, add_transaction

\* One input changes the spends of the transaction added or one flag.
LEMMA InputEffect ==
    ASSUME TypeOK, NEW c \in Coin, add_input(c)
    PROVE  /\ adding.tx \in Tx /\ adding.stage = "inputs" /\ c \in adding.todo
           /\ adding' = [tx |-> adding.tx, stage |-> "inputs", todo |-> adding.todo \ {c}]
           /\ UNCHANGED <<mine, txo, transactions, history, tx_addr_hist, cb, reaping>>
           /\ txi' \in [Tx -> SUBSET Coin]
           /\ pruned_txo' \in [Coin -> Tx \cup {NoTx}]
           /\ \A x \in Tx, e \in Coin :
                 e \in txi'[x] <=> \/ e \in txi[x]
                                   \/ x = adding.tx /\ e = c /\ c \in txo[Fund[c]]
           /\ \A e \in Coin :
                 pruned_txo'[e] = IF e = c /\ c \notin txo[Fund[c]] THEN adding.tx ELSE pruned_txo[e]
<1> USE GraphAssumption, NameAssumption
<1>1. /\ adding.tx \in Tx /\ adding.stage = "inputs" /\ c \in adding.todo
      /\ adding' = [tx |-> adding.tx, stage |-> "inputs", todo |-> adding.todo \ {c}]
  BY AddingFacts DEF add_input
<1>2. UNCHANGED <<mine, txo, transactions, history, tx_addr_hist, cb, reaping>>
  BY DEF add_input
<1>3. CASE c \in txo[Fund[c]]
  <2>1. txi' = [txi EXCEPT ![adding.tx] = @ \cup {c}] /\ pruned_txo' = pruned_txo
    BY <1>3 DEF add_input, find_in_self_txo
  <2> QED BY <1>1, <1>2, <1>3, <2>1 DEF TypeOK
<1>4. CASE c \notin txo[Fund[c]]
  <2>1. pruned_txo' = [pruned_txo EXCEPT ![c] = adding.tx] /\ txi' = txi
    BY <1>4 DEF add_input, find_in_self_txo, put_pruned_txo
  <2> QED BY <1>1, <1>2, <1>4, <2>1 DEF TypeOK
<1> QED BY <1>3, <1>4

\* One output enters txo if it is the wallet's, and then its spender's txi.
LEMMA OutputEffect ==
    ASSUME TypeOK, NEW c \in Coin, add_output(c)
    PROVE  /\ adding.tx \in Tx /\ adding.stage = "outputs" /\ c \in adding.todo
           /\ adding' = [tx |-> adding.tx, stage |-> "outputs", todo |-> adding.todo \ {c}]
           /\ UNCHANGED <<mine, transactions, history, tx_addr_hist, cb, reaping>>
           /\ txi' \in [Tx -> SUBSET Coin]
           /\ txo' \in [Tx -> SUBSET Coin]
           /\ pruned_txo' \in [Coin -> Tx \cup {NoTx}]
           /\ \A x \in Tx, e \in Coin :
                 e \in txi'[x] <=> \/ e \in txi[x]
                                   \/ e = c /\ Owner[c] \in mine /\ pruned_txo[c] = x
           /\ \A x \in Tx, e \in Coin :
                 e \in txo'[x] <=> \/ e \in txo[x]
                                   \/ x = adding.tx /\ e = c /\ Owner[c] \in mine
           /\ \A e \in Coin : pruned_txo'[e] = IF e = c THEN NoTx ELSE pruned_txo[e]
<1> USE GraphAssumption, NameAssumption
<1>1. /\ adding.tx \in Tx /\ adding.stage = "outputs" /\ c \in adding.todo
      /\ adding' = [tx |-> adding.tx, stage |-> "outputs", todo |-> adding.todo \ {c}]
  BY AddingFacts DEF add_output
<1>2. UNCHANGED <<mine, transactions, history, tx_addr_hist, cb, reaping>>
  BY DEF add_output
<1>3. /\ txi' \in [Tx -> SUBSET Coin]
      /\ \A x \in Tx, e \in Coin :
            e \in txi'[x] <=> \/ e \in txi[x]
                              \/ e = c /\ Owner[c] \in mine /\ pruned_txo[c] = x
  <2>1. txi' = [x \in Tx |-> txi[x] \cup {e \in {c} : Owner[c] \in mine /\ pruned_txo[e] = x}]
    BY DEF add_output
  <2> QED BY <2>1 DEF TypeOK
<1>4. /\ txo' \in [Tx -> SUBSET Coin]
      /\ \A x \in Tx, e \in Coin :
            e \in txo'[x] <=> \/ e \in txo[x]
                              \/ x = adding.tx /\ e = c /\ Owner[c] \in mine
  <2>1. txo' = [txo EXCEPT ![adding.tx] = @ \cup {e \in {c} : Owner[c] \in mine}]
    BY DEF add_output
  <2> QED BY <1>1, <2>1 DEF TypeOK
<1>5. /\ pruned_txo' \in [Coin -> Tx \cup {NoTx}]
      /\ \A e \in Coin : pruned_txo'[e] = IF e = c THEN NoTx ELSE pruned_txo[e]
  <2>1. pruned_txo' = [pruned_txo EXCEPT ![c] = NoTx]
    BY DEF add_output
  <2> QED BY <2>1 DEF TypeOK
<1> QED BY <1>1, <1>2, <1>3, <1>4, <1>5

\* Everything remove_transaction assigns is well typed.
LEMMA RemoveTyped ==
    ASSUME TypeOK, NEW t \in Tx, remove_transaction(t)
    PROVE  /\ transactions' \subseteq Tx
           /\ txi' \in [Tx -> SUBSET Coin]
           /\ txo' \in [Tx -> SUBSET Coin]
           /\ ct_txi' \in [Tx -> SUBSET Coin]
           /\ pruned_txo' \in [Coin -> Tx \cup {NoTx}]
           /\ pruned_txo_values' \subseteq Tx
           /\ addr_bal_cache' \in [Addr -> Balances \cup {NoEntry}]
<1> USE GraphAssumption, NameAssumption
<1>1. transactions' \subseteq Tx
  BY DEF TypeOK, remove_transaction
<1>2. txi' \in [Tx -> SUBSET Coin]
  BY DEF TypeOK, remove_transaction
<1>3. txo' \in [Tx -> SUBSET Coin] /\ ct_txi' \in [Tx -> SUBSET Coin]
  BY DEF TypeOK, remove_transaction
<1>4. pruned_txo' \in [Coin -> Tx \cup {NoTx}]
  <2> DEFINE lost(x) == {c \in txi[x] : Fund[c] = t}
             back == {c \in Coin : \E x \in Tx : c \in lost(x)}
             flags == [c \in Coin |-> IF pruned_txo[c] = t THEN NoTx ELSE pruned_txo[c]]
  <2>1. PICK next \in [back -> Tx] :
          pruned_txo' = [c \in Coin |-> IF c \in back THEN next[c] ELSE flags[c]]
    BY DEF remove_transaction
  <2> QED BY <2>1 DEF TypeOK
<1>5. pruned_txo_values' \subseteq Tx
  BY DEF TypeOK, remove_transaction
<1>6. addr_bal_cache' \in [Addr -> Balances \cup {NoEntry}]
  BY DEF TypeOK, remove_transaction, Invalidate
<1> QED BY <1>1, <1>2, <1>3, <1>4, <1>5, <1>6

\* get_addr_balance returns four sets of coins.
LEMMA BalanceTyped == \A a \in Addr : Balance(a) \in Balances
  BY DEF Balance, Balances, received, Own

\* The empty wallet is well typed.
LEMMA TypeInit == Init => TypeOK
  BY GraphAssumption, NameAssumption DEF Init, TypeOK, Idle, NoHist, History, Callback, Adding

\* No callback, cleaner step, reader or restart breaks the type invariant.
LEMMA TypeStep == TypeOK /\ [Next]_vars => TypeOK'
<1> USE GraphAssumption, NameAssumption
<1> SUFFICES ASSUME TypeOK, [Next]_vars PROVE TypeOK'
  OBVIOUS
<1>a. NoHist \in History /\ Idle \in Callback
  BY DEF NoHist, History, Idle, Callback
<1>1. ASSUME NEW a \in Addr, NEW h \in History, receive_history_begin(a, h)
      PROVE  TypeOK'
  BY <1>1 DEF receive_history_begin, TypeOK, ledgerVars, Callback, Outdated
<1>b. ASSUME NEW t \in Tx PROVE LoopRest(t) \in Callback
  BY DEF LoopRest, Callback, TypeOK
<1>2. ASSUME NEW t \in Tx, receive_history_remove(t)
      PROVE  TypeOK'
  <2>a. cb' \in Callback /\ cb'.addr = cb.addr /\ cb'.phase = cb.phase
    BY <1>2, <1>b DEF receive_history_remove, LoopRest
  <2>1. CASE tx_addr_hist[t] \ {cb.addr} = {}
    <3>1. remove_transaction(t)
      BY <1>2, <2>1 DEF receive_history_remove
    <3> QED BY <1>2, <2>a, <3>1, RemoveTyped DEF receive_history_remove, TypeOK
  <2>2. CASE tx_addr_hist[t] \ {cb.addr} # {}
    BY <1>2, <2>2, <2>a DEF receive_history_remove, TypeOK, ledgerVars
  <2> QED BY <2>1, <2>2
<1>3. ASSUME receive_history_store PROVE TypeOK'
  <2>1. cb' \in Callback /\ (cb'.phase \in {"remove", "add"} => cb'.addr \in Addr)
    BY <1>3, <1>a DEF receive_history_store, TypeOK, Callback, InHist, Idle
  <2>2. addr_bal_cache' \in [Addr -> Balances \cup {NoEntry}]
    BY <1>3 DEF receive_history_store, TypeOK, Invalidate
  <2>3. history' \in [Addr -> History]
    BY <1>3 DEF receive_history_store, TypeOK, Callback
  <2>4. requested_tx' \subseteq Tx
    BY <1>3 DEF receive_history_store, TypeOK, InHist
  <2> QED BY <1>3, <2>1, <2>2, <2>3, <2>4 DEF receive_history_store, TypeOK, ledgerVars
<1>4. ASSUME NEW t \in Tx, receive_history_add(t) PROVE TypeOK'
  <2>a. cb' \in Callback /\ (cb'.phase \in {"remove", "add"} => cb'.addr \in Addr)
    BY <1>4, <1>a, <1>b DEF receive_history_add, TypeOK, LoopRest, Idle
  <2>b. tx_addr_hist' \in [Tx -> SUBSET Addr]
    BY <1>4 DEF receive_history_add, TypeOK
  <2>1. CASE add_transaction(t)
    BY <1>4, <2>a, <2>b, <2>1, BeginTyped DEF receive_history_add, TypeOK
  <2>2. CASE UNCHANGED <<ledgerVars, adding, addr_bal_cache>>
    BY <1>4, <2>a, <2>b, <2>2 DEF receive_history_add, TypeOK, ledgerVars
  <2> QED BY <1>4, <2>1, <2>2 DEF receive_history_add
<1>5. ASSUME NEW t \in Tx, receive_tx_callback(t) PROVE TypeOK'
  BY <1>5, BeginTyped DEF receive_tx_callback, TypeOK
<1>16. ASSUME NEW c \in Coin, add_input(c) PROVE TypeOK'
  <2>1. /\ adding' \in Adding /\ txi' \in [Tx -> SUBSET Coin] /\ adding.tx \in Tx
        /\ pruned_txo' \in [Coin -> Tx \cup {NoTx}]
    <3>1. adding.todo \ {c} \subseteq Coin
      BY <1>16, InputEffect, AddingFacts
    <3> QED BY <1>16, <3>1, InputEffect DEF Adding
  <2>2. /\ ct_txi' \in [Tx -> SUBSET Coin] /\ pruned_txo_values' \subseteq Tx
        /\ addr_bal_cache' \in [Addr -> Balances \cup {NoEntry}]
    <3>1. CASE find_in_self_txo(c)
      BY <1>16, <2>1, <3>1 DEF add_input, Invalidate, TypeOK
    <3>2. CASE ~ find_in_self_txo(c)
      BY <1>16, <2>1, <3>2 DEF add_input, Invalidate, put_pruned_txo, TypeOK
    <3> QED BY <3>1, <3>2
  <2> QED BY <1>16, <2>1, <2>2 DEF add_input, TypeOK
<1>17. ASSUME clear_outputs PROVE TypeOK'
  <2>1. adding.tx \in Tx
    BY <1>17, AddingFacts DEF clear_outputs
  <2>2. adding' \in Adding
    BY <1>17, <2>1 DEF clear_outputs, Adding, Outs
  <2> QED BY <1>17, <2>1, <2>2 DEF clear_outputs, TypeOK
<1>18. ASSUME NEW c \in Coin, add_output(c) PROVE TypeOK'
  <2>1. /\ adding' \in Adding /\ txi' \in [Tx -> SUBSET Coin] /\ txo' \in [Tx -> SUBSET Coin]
        /\ pruned_txo' \in [Coin -> Tx \cup {NoTx}]
    <3>1. adding.todo \ {c} \subseteq Coin
      BY <1>18, OutputEffect, AddingFacts
    <3> QED BY <1>18, <3>1, OutputEffect DEF Adding
  <2>2. /\ ct_txi' \in [Tx -> SUBSET Coin] /\ pruned_txo_values' \subseteq Tx
        /\ addr_bal_cache' \in [Addr -> Balances \cup {NoEntry}]
    BY <1>18 DEF add_output, Invalidate, TypeOK
  <2> QED BY <1>18, <2>1, <2>2 DEF add_output, TypeOK
<1>19. ASSUME save_transaction PROVE TypeOK'
  <2>1. adding.tx \in Tx /\ adding' \in Adding
    BY <1>19, AddingFacts DEF save_transaction, Adding
  <2> QED BY <1>19, <2>1 DEF save_transaction, TypeOK
<1>6. ASSUME NEW a \in Addr, add_address(a) PROVE TypeOK'
  BY <1>6 DEF add_address, TypeOK, ledgerVars, Invalidate
<1>7. ASSUME NEW c \in Coin, clean_pruned_txo_check(c) PROVE TypeOK'
  BY <1>7 DEF clean_pruned_txo_check, TypeOK, ledgerVars
<1>8. ASSUME NEW c \in Coin, clean_pruned_txo_rm(c) PROVE TypeOK'
  BY <1>8 DEF clean_pruned_txo_rm, TypeOK
<1>11. ASSUME NEW a \in Addr, get_addr_balance(a) PROVE TypeOK'
  BY <1>11, BalanceTyped DEF get_addr_balance, TypeOK, ledgerVars
<1>12. ASSUME NEW K \in SUBSET Tx, restart(K) PROVE TypeOK'
  <2>1. cb' \in Callback /\ (cb'.phase \in {"remove", "add"} => cb'.addr \in Addr)
    BY <1>12, <1>a DEF restart, Callback, Idle
  <2>2. requested_tx' \subseteq Tx /\ transactions' \subseteq Tx
    BY <1>12 DEF restart, TypeOK
  <2>3. tx_addr_hist' \in [Tx -> SUBSET Addr]
    BY <1>12 DEF restart, TypeOK
  <2>4. /\ pruned_txo_values' \subseteq Tx /\ reaping' \subseteq Coin
        /\ addr_bal_cache' \in [Addr -> Balances \cup {NoEntry}]
    BY <1>12 DEF restart, TypeOK
  <2> QED BY <1>12, <2>1, <2>2, <2>3, <2>4 DEF restart, TypeOK
<1>13. ASSUME NEW t \in Tx, check_history(t) PROVE TypeOK'
  <2>a. cb' \in Callback /\ (cb'.phase \in {"remove", "add"} => cb'.addr \in Addr)
    BY <1>13, <1>a, <1>b DEF check_history, TypeOK, LoopRest, Idle
  <2>1. CASE add_transaction(t)
    BY <1>13, <2>a, <2>1, BeginTyped DEF check_history, TypeOK
  <2>2. CASE UNCHANGED <<ledgerVars, adding, addr_bal_cache>>
    BY <1>13, <2>a, <2>2 DEF check_history, TypeOK, ledgerVars
  <2> QED BY <1>13, <2>1, <2>2 DEF check_history
<1>14. ASSUME rebuild_history PROVE TypeOK'
  BY <1>14, <1>a DEF rebuild_history, TypeOK, NoHist
<1>15. CASE UNCHANGED vars
  BY <1>15 DEF vars, ledgerVars, TypeOK
<1> QED
  BY <1>1, <1>2, <1>3, <1>4, <1>5, <1>6, <1>7, <1>8, <1>11, <1>12, <1>13, <1>14,
     <1>15, <1>16, <1>17, <1>18, <1>19 DEF Next, Running

\* Every variable of the wallet ledger keeps its type, whatever the order in
\* which histories, transactions and readers reach it.
THEOREM TypeCorrect == Spec => []TypeOK
  BY TypeInit, TypeStep, PTL DEF Spec

-----------------------------------------------------------------------------
(* The ledger operations keep Sound                                         *)

\* remove_transaction coin by coin: the spends of t's outputs become flags, the
\* rest of the ledger is left alone.
LEMMA RemoveEffect ==
    ASSUME TypeOK, NEW t \in Tx, remove_transaction(t)
    PROVE  /\ \A x \in Tx, c \in Coin :
                 c \in txi'[x] <=> x # t /\ c \in txi[x] /\ Fund[c] # t
           /\ \A x \in Tx, c \in Coin : c \in txo'[x] <=> x # t /\ c \in txo[x]
           /\ \A c \in Coin :
                 IF Fund[c] = t /\ \E x \in Tx : c \in txi[x]
                 THEN \E x \in Tx : c \in txi[x] /\ pruned_txo'[c] = x
                 ELSE pruned_txo'[c] = IF pruned_txo[c] = t THEN NoTx ELSE pruned_txo[c]
           /\ transactions' = transactions
<1> USE GraphAssumption, NameAssumption
<1>1. \A x \in Tx, c \in Coin : c \in txi'[x] <=> x # t /\ c \in txi[x] /\ Fund[c] # t
  BY DEF remove_transaction, TypeOK
<1>2. \A x \in Tx, c \in Coin : c \in txo'[x] <=> x # t /\ c \in txo[x]
  BY DEF remove_transaction, TypeOK
<1>3. ASSUME NEW c \in Coin
      PROVE  IF Fund[c] = t /\ \E x \in Tx : c \in txi[x]
             THEN \E x \in Tx : c \in txi[x] /\ pruned_txo'[c] = x
             ELSE pruned_txo'[c] = IF pruned_txo[c] = t THEN NoTx ELSE pruned_txo[c]
  <2> DEFINE lost(x) == {e \in txi[x] : Fund[e] = t}
             back == {e \in Coin : \E x \in Tx : e \in lost(x)}
             flags == [e \in Coin |-> IF pruned_txo[e] = t THEN NoTx ELSE pruned_txo[e]]
  <2>1. PICK next \in [back -> Tx] :
          /\ \A e \in back : e \in lost(next[e])
          /\ pruned_txo' = [e \in Coin |-> IF e \in back THEN next[e] ELSE flags[e]]
    BY DEF remove_transaction
  <2>2. c \in back <=> Fund[c] = t /\ \E x \in Tx : c \in txi[x]
    OBVIOUS
  <2> QED BY <2>1, <2>2
<1> QED BY <1>1, <1>2, <1>3 DEF remove_transaction

\* A transaction added again first loses what it was recorded to spend.
LEMMA BeginSound ==
    ASSUME TypeOK, Sound, NEW t \in Tx, add_transaction(t), mine' = mine
    PROVE  Sound'
<1> USE GraphAssumption, NameAssumption
<1>1. /\ adding = NoAdd
      /\ adding' = [tx |-> t, stage |-> "inputs", todo |-> Searched(t)]
      /\ UNCHANGED <<txo, pruned_txo>>
      /\ \A x \in Tx : txi'[x] \subseteq txi[x]
  BY DEF add_transaction, TypeOK
<1>2. ~ Unrecorded(NoTx) /\ adding'.stage = "inputs" /\ adding'.todo = Searched(t) /\ adding'.tx = t
  BY <1>1, AddingFacts DEF Unrecorded
<1>3. \A c \in Coin : ~ Unrecorded(c)
  BY <1>1, AddingFacts DEF Unrecorded
<1>4. (adding.todo \subseteq Searched(adding.tx))'
  BY <1>1, <1>2 DEF Searched
<1>5. \A x \in Tx : \A c \in txi'[x] : c \in Spends[x] /\ Owner[c] \in mine /\ c \in txo[Fund[c]]
  BY <1>1, <1>3 DEF Sound, TypeOK
<1> QED BY <1>1, <1>2, <1>4, <1>5 DEF Sound

\* An input is recorded as the spend of a recorded output or flagged.
LEMMA InputSound ==
    ASSUME TypeOK, Sound, NEW c \in Coin, add_input(c)
    PROVE  Sound'
<1> USE GraphAssumption, NameAssumption
<1>1. adding'.stage = "inputs" /\ adding'.tx = adding.tx /\ adding'.todo = adding.todo \ {c}
  BY InputEffect
<1>2. (adding.todo \subseteq Searched(adding.tx))'
  BY <1>1, InputEffect DEF Sound, Searched
<1>3. c \in Spends[adding.tx] /\ (c \in Opaque \/ Owner[c] \in mine)
  BY InputEffect DEF Sound, Searched
<1>4. \A x \in Tx : \A e \in txi'[x] : e \in Spends[x] /\ Owner[e] \in mine /\ e \in txo'[Fund[e]]
  <2> SUFFICES ASSUME NEW x \in Tx, NEW e \in Coin, e \in txi'[x]
               PROVE  e \in Spends[x] /\ Owner[e] \in mine /\ e \in txo[Fund[e]]
    BY InputEffect
  <2>1. CASE e \in txi[x]
    BY <2>1, InputEffect DEF Sound, Unrecorded
  <2>2. CASE x = adding.tx /\ e = c /\ c \in txo[Fund[c]]
    BY <1>3, <2>2 DEF Sound
  <2> QED BY <2>1, <2>2, InputEffect
<1>5. \A e \in Coin : pruned_txo'[e] # NoTx =>
          /\ e \in Spends[pruned_txo'[e]]
          /\ e \notin txo'[Fund[e]]
          /\ Owner[e] \in mine \/ e \in Opaque
  BY <1>3, InputEffect DEF Sound
<1> QED BY <1>1, <1>2, <1>4, <1>5, InputEffect DEF Sound

\* Once the outputs are dropped, every one of them is still to be recorded.
LEMMA ClearSound ==
    ASSUME TypeOK, Sound, clear_outputs
    PROVE  Sound'
<1> USE GraphAssumption, NameAssumption
<1>1. /\ adding.stage = "inputs" /\ adding.tx \in Tx
      /\ UNCHANGED <<mine, txi, pruned_txo>>
      /\ adding'.tx = adding.tx /\ adding'.stage = "outputs" /\ adding'.todo = Outs(adding.tx)
  BY AddingFacts DEF clear_outputs
<1>2. \A x \in Tx, c \in Coin : c \in txo'[x] <=> x # adding.tx /\ c \in txo[x]
  BY <1>1 DEF clear_outputs, TypeOK
<1>3. txo' \in [Tx -> SUBSET Coin]
  BY DEF clear_outputs, TypeOK
<1>4. ASSUME NEW x \in Tx, NEW c \in txi[x]
      PROVE  c \in txo'[Fund[c]] \/ Unrecorded(c)'
  <2>1. c \in Coin /\ c \in txo[Fund[c]]
    BY <1>1 DEF Sound, Unrecorded, TypeOK
  <2> QED BY <1>1, <1>2, <2>1 DEF Unrecorded, Outs
<1>5. (adding.todo \subseteq Outs(adding.tx))'
  BY <1>1 DEF Outs
<1> QED BY <1>1, <1>2, <1>3, <1>4, <1>5 DEF Sound

\* An output enters txo together with what was flagged as its spend.
LEMMA OutputSound ==
    ASSUME TypeOK, Sound, NEW c \in Coin, add_output(c)
    PROVE  Sound'
<1> USE GraphAssumption, NameAssumption
<1>1. adding'.stage = "outputs" /\ adding'.tx = adding.tx /\ adding'.todo = adding.todo \ {c}
  BY OutputEffect
<1>2. (adding.todo \subseteq Outs(adding.tx))' /\ Fund[c] = adding.tx
  BY <1>1, OutputEffect DEF Sound, Outs
<1>3. \A x \in Tx : \A e \in txo'[x] : Fund[e] = x /\ Owner[e] \in mine
  <2> SUFFICES ASSUME NEW x \in Tx, NEW e \in Coin, e \in txo'[x]
               PROVE  Fund[e] = x /\ Owner[e] \in mine
    BY OutputEffect
  <2> QED BY <1>2, OutputEffect DEF Sound
<1>4. ASSUME NEW x \in Tx, NEW e \in Coin, e \in txi'[x]
      PROVE  e \in Spends[x] /\ Owner[e] \in mine /\ (e \in txo'[Fund[e]] \/ Unrecorded(e)')
  <2>1. CASE e \in txi[x]
    <3>1. e \in Spends[x] /\ Owner[e] \in mine /\ (e \in txo[Fund[e]] \/ e \in adding.todo)
      BY <2>1 DEF Sound, Unrecorded
    <3> QED BY <1>1, <1>2, <3>1, OutputEffect DEF Unrecorded
  <2>2. CASE e = c /\ Owner[c] \in mine /\ pruned_txo[c] = x
    BY <1>2, <2>2, OutputEffect DEF Sound
  <2> QED BY <1>4, <2>1, <2>2, OutputEffect
<1>5. \A e \in Coin : pruned_txo'[e] # NoTx =>
          /\ e \in Spends[pruned_txo'[e]]
          /\ e \notin txo'[Fund[e]]
          /\ Owner[e] \in mine \/ e \in Opaque
  BY OutputEffect DEF Sound
<1> QED BY <1>1, <1>2, <1>3, <1>4, <1>5, OutputEffect DEF Sound

\* remove_transaction leaves no spend of an output it forgets.
LEMMA RemoveSound ==
    ASSUME TypeOK, Sound, NEW t \in Tx, remove_transaction(t), UNCHANGED <<mine, adding>>,
           adding = NoAdd
    PROVE  Sound'
<1> USE GraphAssumption, NameAssumption
<1>a. txi' \in [Tx -> SUBSET Coin] /\ txo' \in [Tx -> SUBSET Coin]
  BY RemoveTyped
<1>1. \A x \in Tx : \A c \in txo'[x] : Fund[c] = x /\ Owner[c] \in mine
  BY <1>a, RemoveEffect DEF Sound
<1>b. \A c \in Coin : ~ Unrecorded(c)
  BY AddingFacts DEF Unrecorded
<1>2. \A x \in Tx : \A c \in txi'[x] : c \in Spends[x] /\ Owner[c] \in mine /\ c \in txo'[Fund[c]]
  BY <1>a, <1>b, RemoveEffect DEF Sound
<1>3. \A c \in Coin : pruned_txo'[c] # NoTx =>
          /\ c \in Spends[pruned_txo'[c]]
          /\ c \notin txo'[Fund[c]]
          /\ Owner[c] \in mine \/ c \in Opaque
  <2> SUFFICES ASSUME NEW c \in Coin, pruned_txo'[c] # NoTx
               PROVE  /\ c \in Spends[pruned_txo'[c]]
                      /\ c \notin txo'[Fund[c]]
                      /\ Owner[c] \in mine \/ c \in Opaque
    OBVIOUS
  <2>1. CASE Fund[c] = t /\ \E x \in Tx : c \in txi[x]
    BY <1>b, <2>1, RemoveEffect DEF Sound
  <2>2. CASE ~ (Fund[c] = t /\ \E x \in Tx : c \in txi[x])
    BY <2>2, RemoveEffect DEF Sound
  <2> QED BY <2>1, <2>2
<1> QED BY <1>1, <1>2, <1>3, AddingFacts DEF Sound

-----------------------------------------------------------------------------
(* SpentIsReceived                                                          *)

\* Sound is inductive: one step per action, the ledger lemmas do the work.
LEMMA SoundStep == TypeOK /\ Sound /\ [Next]_vars => Sound'
<1> USE GraphAssumption, NameAssumption
<1> SUFFICES ASSUME TypeOK, Sound, [Next]_vars PROVE Sound'
  OBVIOUS
<1>a. ASSUME UNCHANGED <<mine, txi, txo, pruned_txo, adding>> PROVE Sound'
  BY <1>a DEF Sound, Unrecorded, Searched, Outs
<1>1. ASSUME NEW a \in Addr, NEW h \in History, receive_history_begin(a, h) PROVE Sound'
  BY <1>1, <1>a DEF receive_history_begin, ledgerVars
<1>2. ASSUME NEW t \in Tx, receive_history_remove(t) PROVE Sound'
  BY <1>2, <1>a, RemoveSound DEF receive_history_remove, ledgerVars
<1>3. ASSUME receive_history_store PROVE Sound'
  BY <1>3, <1>a DEF receive_history_store, ledgerVars
<1>4. ASSUME NEW t \in Tx, receive_history_add(t) PROVE Sound'
  BY <1>4, <1>a, BeginSound DEF receive_history_add, ledgerVars
<1>5. ASSUME NEW t \in Tx, receive_tx_callback(t) PROVE Sound'
  BY <1>5, BeginSound DEF receive_tx_callback
<1>16. ASSUME NEW c \in Coin, add_input(c) PROVE Sound'
  BY <1>16, InputSound
<1>17. ASSUME clear_outputs PROVE Sound'
  BY <1>17, ClearSound
<1>18. ASSUME NEW c \in Coin, add_output(c) PROVE Sound'
  BY <1>18, OutputSound
<1>19. ASSUME save_transaction PROVE Sound'
  BY <1>19, AddingFacts DEF save_transaction, Sound, Unrecorded
<1>6. ASSUME NEW a \in Addr, add_address(a) PROVE Sound'
  BY <1>6, AddingFacts DEF add_address, Unlocked, Sound, Unrecorded, ledgerVars
<1>7. ASSUME NEW c \in Coin, clean_pruned_txo_check(c) PROVE Sound'
  BY <1>7, <1>a DEF clean_pruned_txo_check, ledgerVars
<1>8. ASSUME NEW c \in Coin, clean_pruned_txo_rm(c) PROVE Sound'
  BY <1>8, AddingFacts DEF clean_pruned_txo_rm, Unlocked, Sound, Unrecorded, TypeOK
<1>11. ASSUME NEW a \in Addr, get_addr_balance(a) PROVE Sound'
  BY <1>11, <1>a DEF get_addr_balance, ledgerVars
<1>12. ASSUME NEW K \in SUBSET Tx, restart(K) PROVE Sound'
  BY <1>12, <1>a DEF restart
<1>13. ASSUME NEW t \in Tx, check_history(t) PROVE Sound'
  BY <1>13, <1>a, BeginSound DEF check_history, ledgerVars
<1>14. ASSUME rebuild_history PROVE Sound'
  BY <1>14, AddingFacts DEF rebuild_history, Unlocked, Sound
<1>15. CASE UNCHANGED vars
  BY <1>15, <1>a DEF vars, ledgerVars
<1> QED
  BY <1>1, <1>2, <1>3, <1>4, <1>5, <1>6, <1>7, <1>8, <1>11, <1>12, <1>13, <1>14,
     <1>15, <1>16, <1>17, <1>18, <1>19 DEF Next, Running

\* Every stored history stays one a server could have sent.
LEMMA ClosedStep == TypeOK /\ Closed /\ [Next]_vars => Closed'
<1> USE GraphAssumption, NameAssumption
<1> SUFFICES ASSUME TypeOK, Closed, [Next]_vars PROVE Closed'
  OBVIOUS
<1>a. ASSUME UNCHANGED history, cb'.phase # "remove" PROVE Closed'
  BY <1>a DEF Closed, ClosedFor, InHist
<1>b. ASSUME UNCHANGED history, cb'.phase = cb.phase, cb'.addr = cb.addr, cb'.hist = cb.hist
      PROVE  Closed'
  BY <1>b DEF Closed, ClosedFor, InHist
<1>c. Idle.phase # "remove" /\ ClosedFor(Other, NoHist) /\ \A a \in Addr : ClosedFor(a, NoHist)
  BY DEF Idle, ClosedFor, InHist, NoHist
<1>1. ASSUME NEW a \in Addr, NEW h \in History, receive_history_begin(a, h) PROVE Closed'
  <2>1. ClosedFor(a, h)
    BY <1>1 DEF receive_history_begin, ServerHistory, ClosedFor
  <2> QED BY <1>1, <2>1 DEF receive_history_begin, Closed, ClosedFor, InHist
<1>2. ASSUME NEW t \in Tx, receive_history_remove(t) PROVE Closed'
  BY <1>2, <1>b DEF receive_history_remove, LoopRest
<1>3. ASSUME receive_history_store PROVE Closed'
  <2>1. cb'.phase # "remove"
    BY <1>3, <1>c DEF receive_history_store
  <2>2. ASSUME NEW a \in Addr PROVE ClosedFor(a, history'[a])
    <3>1. CASE a = cb.addr
      BY <1>3, <3>1 DEF receive_history_store, Closed, TypeOK
    <3>2. CASE a # cb.addr
      BY <1>3, <3>2 DEF receive_history_store, Closed, TypeOK
    <3> QED BY <3>1, <3>2
  <2> QED BY <2>1, <2>2 DEF Closed, ClosedFor, InHist
<1>4. ASSUME NEW t \in Tx, receive_history_add(t) PROVE Closed'
  BY <1>4, <1>a, <1>c DEF receive_history_add, LoopRest
<1>5. ASSUME NEW t \in Tx, receive_tx_callback(t) PROVE Closed'
  BY <1>5, <1>b DEF receive_tx_callback
<1>16. ASSUME \/ \E c \in Coin : add_input(c) \/ add_output(c)
             \/ clear_outputs \/ save_transaction
      PROVE  Closed'
  BY <1>16, <1>b DEF add_input, add_output, clear_outputs, save_transaction
<1>6. ASSUME NEW a \in Addr, add_address(a) PROVE Closed'
  BY <1>6, <1>b DEF add_address
<1>7. ASSUME NEW c \in Coin, clean_pruned_txo_check(c) PROVE Closed'
  BY <1>7, <1>b DEF clean_pruned_txo_check
<1>8. ASSUME NEW c \in Coin, clean_pruned_txo_rm(c) PROVE Closed'
  BY <1>8, <1>b DEF clean_pruned_txo_rm
<1>11. ASSUME NEW a \in Addr, get_addr_balance(a) PROVE Closed'
  BY <1>11, <1>b DEF get_addr_balance
<1>12. ASSUME NEW K \in SUBSET Tx, restart(K) PROVE Closed'
  BY <1>12, <1>a, <1>c DEF restart
<1>13. ASSUME NEW t \in Tx, check_history(t) PROVE Closed'
  BY <1>13, <1>a, <1>c DEF check_history, LoopRest
<1>14. ASSUME rebuild_history PROVE Closed'
  <2>1. history' = [a \in Addr |-> NoHist] /\ cb' = Idle
    BY <1>14 DEF rebuild_history, Unlocked
  <2> QED BY <2>1, <1>c DEF Closed, ClosedFor, InHist
<1>15. CASE UNCHANGED vars
  BY <1>15, <1>b DEF vars
<1> QED
  BY <1>1, <1>2, <1>3, <1>4, <1>5, <1>6, <1>7, <1>8, <1>11, <1>12, <1>13, <1>14,
     <1>15, <1>16 DEF Next, Running

\* Types, soundness and closed histories hold in every reachable state.
LEMMA BaseInvariant == Spec => []BaseInv
<1> USE GraphAssumption, NameAssumption
<1>1. Init => BaseInv
  <2>1. Init => Sound
    BY DEF Init, Sound, NoAdd
  <2>2. Init => Closed
    BY DEF Init, Closed, ClosedFor, InHist, NoHist, Idle
  <2> QED BY <2>1, <2>2, TypeInit DEF BaseInv
<1>2. BaseInv /\ [Next]_vars => BaseInv'
  BY TypeStep, SoundStep, ClosedStep DEF BaseInv
<1> QED BY <1>1, <1>2, PTL DEF Spec

\* Whoever holds the lock finds every spent coin among the received ones, with
\* double spends allowed; a reader without it may miss the outputs of the one
\* transaction that is being recorded again, and no others.
THEOREM SpentReceived == Spec => []SpentIsReceived
<1>1. BaseInv => SpentIsReceived
  BY GraphAssumption, NameAssumption
  DEF BaseInv, TypeOK, Sound, Closed, ClosedFor, SpentIsReceived, sent, received, Own, InHist
<1> QED BY <1>1, BaseInvariant, PTL

-----------------------------------------------------------------------------
(* UtxoIsExact                                                              *)

\* Nobody else's record of a transaction changes when it is not the one added.
LEMMA OthersKept ==
    ASSUME Complete, UNCHANGED <<mine, history, cb, transactions>>,
           NEW a \in mine, NEW u \in Tx \ {adding.tx},
           Full(a, u) => Full(a, u)', Touched(a, u)' => Touched(a, u)
    PROVE  /\ Touched(a, u)' => Full(a, u)'
           /\ u \in KnownOf(a)' => \/ Full(a, u)'
                                   \/ a = cb'.addr /\ cb'.phase = "remove"
                                   \/ a = cb'.addr /\ cb'.phase = "add" /\ u \in cb'.todo
<1>1. KnownOf(a)' = KnownOf(a)
  BY DEF KnownOf, InHist
<1> QED BY <1>1 DEF Complete

\* When add_transaction begins, all inputs of the wallet are still to be done.
LEMMA BeginUnderway ==
    ASSUME TypeOK, NEW t \in Tx, add_transaction(t), mine' = mine
    PROVE  Underway'
<1>1. adding'.tx = t /\ adding'.stage = "inputs" /\ adding'.todo = Searched(t)
  BY DEF add_transaction
<1>2. \A a \in mine : \A c \in Own(a) \cap Spends[t] : c \in Searched(t)
  BY GraphAssumption DEF Own, Searched
<1> QED BY <1>1, <1>2 DEF Underway, Own

\* add_input records one more spend of the transaction being added.
LEMMA InputComplete ==
    ASSUME TypeOK, Sound, SingleSpend, Underway, Complete, NEW c \in Coin, add_input(c)
    PROVE  Underway' /\ Complete'
<1> USE GraphAssumption, NameAssumption
<1> DEFINE t == adding.tx
<1>1. /\ t \in Tx /\ adding # NoAdd /\ adding.stage = "inputs" /\ c \in Spends[t]
      /\ adding'.tx = t /\ adding'.stage = "inputs" /\ adding'.todo = adding.todo \ {c}
  BY InputEffect, AddingFacts DEF Sound, Searched
<1>2. Underway'
  <2> SUFFICES ASSUME NEW a \in mine, NEW e \in Own(a) \cap Spends[t]
               PROVE  e \in txi'[t] \/ pruned_txo'[e] = t \/ e \in adding'.todo
    BY <1>1, InputEffect DEF Underway, Own
  <2>1. e \in Coin /\ (e \in txi[t] \/ pruned_txo[e] = t \/ e \in adding.todo)
    BY <1>1 DEF Underway, Own
  <2> QED BY <1>1, <2>1, InputEffect
<1>3. ASSUME NEW a \in mine, NEW u \in Tx \ {t}, Full(a, u) PROVE Full(a, u)'
  <2>1. \A e \in Own(a) \cap Spends[u] : e \in Coin /\ e # c
    BY <1>1 DEF SingleSpend, Own
  <2> QED BY <1>3, <2>1, InputEffect DEF Full, Own, Outs
<1>4. ASSUME NEW a \in mine, NEW u \in Tx \ {t}, Touched(a, u)' PROVE Touched(a, u)
  BY <1>4, InputEffect DEF Touched, Own
<1>5. Complete'
  BY <1>1, <1>3, <1>4, InputEffect, OthersKept DEF Complete
<1> QED BY <1>2, <1>5

\* clear_outputs drops outputs of the transaction being added only.
LEMMA ClearComplete ==
    ASSUME TypeOK, Underway, Complete, clear_outputs
    PROVE  Underway' /\ Complete'
<1> USE GraphAssumption, NameAssumption
<1> DEFINE t == adding.tx
<1>1. /\ t \in Tx /\ adding # NoAdd /\ adding.stage = "inputs" /\ adding.todo = {}
      /\ adding'.tx = t /\ adding'.stage = "outputs" /\ adding'.todo = Outs(t)
      /\ UNCHANGED <<mine, txi, pruned_txo, history, cb, transactions>>
      /\ txo' = [txo EXCEPT ![t] = {}]
  BY AddingFacts DEF clear_outputs
<1>2. Underway'
  BY <1>1 DEF Underway, Own, Outs
<1>3. \A u \in Tx \ {t} : txo'[u] = txo[u]
  BY <1>1 DEF TypeOK
<1>4. \A a \in mine, u \in Tx \ {t} : (Full(a, u) => Full(a, u)') /\ (Touched(a, u)' => Touched(a, u))
  BY <1>1, <1>3 DEF Full, Touched, Own, Outs
<1>5. Complete'
  BY <1>1, <1>4, OthersKept DEF Complete
<1> QED BY <1>2, <1>5

\* add_output records one more output and completes the transaction flagged as
\* its spender.
LEMMA OutputComplete ==
    ASSUME TypeOK, Sound, Underway, Complete, NEW c \in Coin, add_output(c)
    PROVE  Underway' /\ Complete'
<1> USE GraphAssumption, NameAssumption
<1> DEFINE t == adding.tx
<1>1. /\ t \in Tx /\ adding # NoAdd /\ adding.stage = "outputs" /\ Fund[c] = t
      /\ adding'.tx = t /\ adding'.stage = "outputs" /\ adding'.todo = adding.todo \ {c}
  BY OutputEffect, AddingFacts DEF Sound, Outs
<1>2. Underway'
  <2>1. ASSUME NEW a \in mine, NEW e \in Own(a) \cap Spends[t]
        PROVE  e \in txi'[t] \/ pruned_txo'[e] = t
    BY <1>1, OutputEffect DEF Underway, Own
  <2>2. ASSUME NEW a \in mine, NEW e \in Own(a) \cap Outs(t)
        PROVE  e \in txo'[t] \cup adding'.todo
    BY <1>1, OutputEffect DEF Underway, Own, Outs
  <2> QED BY <1>1, <2>1, <2>2, OutputEffect DEF Underway, Own, Outs
<1>3. ASSUME NEW a \in mine, NEW u \in Tx \ {t}, Full(a, u) PROVE Full(a, u)'
  <2>1. \A e \in Own(a) \cap Outs(u) : e \in txo'[u]
    BY <1>3, OutputEffect DEF Full, Own
  <2>2. \A e \in Own(a) \cap Spends[u] : e \in txi'[u] \/ pruned_txo'[e] = u
    BY <1>3, OutputEffect DEF Full, Own
  <2> QED BY <2>1, <2>2 DEF Full, Own, Outs
<1>4. ASSUME NEW a \in mine, NEW u \in Tx \ {t}, Touched(a, u)' PROVE Touched(a, u)
  BY <1>1, <1>4, OutputEffect DEF Touched, Own
<1>5. Complete'
  BY <1>1, <1>3, <1>4, OutputEffect, OthersKept DEF Complete
<1> QED BY <1>2, <1>5

\* When the transaction is saved, nothing of it is missing.
LEMMA SaveComplete ==
    ASSUME TypeOK, Underway, Complete, save_transaction
    PROVE  Underway' /\ Complete'
<1> USE GraphAssumption, NameAssumption
<1> DEFINE t == adding.tx
<1>1. /\ t \in Tx /\ adding # NoAdd /\ adding.stage = "outputs" /\ adding.todo = {}
      /\ adding' = NoAdd /\ NoAdd.tx = NoTx /\ NoAdd.stage = "none"
      /\ UNCHANGED <<mine, txi, txo, pruned_txo, history, cb>>
      /\ transactions' = transactions \cup {t}
  BY AddingFacts DEF save_transaction
<1>2. Underway'
  BY <1>1 DEF Underway
<1>3. \A a \in mine : Full(a, t)
  BY <1>1 DEF Underway, Full, Own
<1>4. \A a \in mine, u \in Tx : (Full(a, u)' <=> Full(a, u)) /\ (Touched(a, u)' <=> Touched(a, u))
  BY <1>1 DEF Full, Touched, Own, Outs
<1>5. \A a \in mine, u \in Tx \ {t} : u \in KnownOf(a)' => u \in KnownOf(a)
  BY <1>1 DEF KnownOf, InHist
<1>6. Complete'
  BY <1>1, <1>3, <1>4, <1>5 DEF Complete
<1> QED BY <1>2, <1>6

\* remove_transaction(t) leaves nothing of t and leaves every other
\* transaction as complete as it was: its spends of t's outputs are flagged.
LEMMA RemoveComplete ==
    ASSUME TypeOK, Sound, SingleSpend, NEW t \in Tx, remove_transaction(t), mine' = mine,
           adding = NoAdd,
           NEW a \in mine
    PROVE  /\ ~ Touched(a, t)'
           /\ \A u \in Tx : u # t /\ Full(a, u) => Full(a, u)'
           /\ \A u \in Tx : Touched(a, u)' => Touched(a, u)
<1> USE GraphAssumption, NameAssumption
<1>a. \A c \in Coin : ~ Unrecorded(c)
  BY AddingFacts DEF Unrecorded
<1>1. ~ Touched(a, t)'
  <2> SUFFICES ASSUME NEW c \in Own(a), pruned_txo'[c] = t PROVE FALSE
    BY RemoveEffect DEF Touched, Own
  <2>1. CASE Fund[c] = t /\ \E x \in Tx : c \in txi[x]
    BY <2>1, RemoveEffect DEF Own, Sound
  <2>2. CASE ~ (Fund[c] = t /\ \E x \in Tx : c \in txi[x])
    BY <2>2, RemoveEffect DEF Own
  <2> QED BY <2>1, <2>2
<1>2. ASSUME NEW u \in Tx, u # t, Full(a, u) PROVE Full(a, u)'
  <2>1. \A c \in Own(a) \cap Outs(u) : c \in txo'[u]
    BY <1>2, RemoveEffect DEF Own, Full
  <2>2. ASSUME NEW c \in Own(a) \cap Spends[u] PROVE c \in txi'[u] \/ pruned_txo'[c] = u
    <3>1. c \in Coin
      BY DEF Own
    <3>2. CASE c \in txi[u] /\ Fund[c] # t
      BY <1>2, <3>1, <3>2, RemoveEffect
    <3>3. CASE c \in txi[u] /\ Fund[c] = t
      <4>1. PICK x \in Tx : c \in txi[x] /\ pruned_txo'[c] = x
        BY <3>1, <3>3, RemoveEffect
      <4>2. c \in Spends[x] /\ c \in Spends[u]
        BY <3>3, <4>1 DEF Sound
      <4> QED BY <4>1, <4>2 DEF SingleSpend
    <3>4. CASE pruned_txo[c] = u
      <4>1. \A x \in Tx : c \notin txi[x]
        BY <1>a, <3>1, <3>4 DEF Sound
      <4> QED BY <1>2, <3>1, <3>4, <4>1, RemoveEffect
    <3> QED BY <1>2, <2>2, <3>2, <3>3, <3>4 DEF Full
  <2> QED BY <2>1, <2>2 DEF Full
<1>3. ASSUME NEW u \in Tx, Touched(a, u)' PROVE Touched(a, u)
  <2>1. PICK c \in Own(a) : c \in txi'[u] \/ c \in txo'[u] \/ pruned_txo'[c] = u
    BY <1>3 DEF Touched, Own
  <2>2. CASE c \in txi'[u] \/ c \in txo'[u]
    BY <2>2, RemoveEffect DEF Touched, Own
  <2>3. CASE pruned_txo'[c] = u /\ Fund[c] = t /\ \E x \in Tx : c \in txi[x]
    BY <2>3, RemoveEffect DEF Touched, Own
  <2>4. CASE pruned_txo'[c] = u /\ ~ (Fund[c] = t /\ \E x \in Tx : c \in txi[x])
    BY <2>4, RemoveEffect DEF Touched, Own
  <2> QED BY <2>1, <2>2, <2>3, <2>4
<1> QED BY <1>1, <1>2, <1>3

\* Histories, callbacks and the cleaner stay with the addresses they belong to.
LEMMA OwnedStep ==
    ASSUME TypeOK, Sound, Owned, OpaqueSettled, [Next]_vars
    PROVE  Owned'
<1> USE GraphAssumption, NameAssumption
<1>a. ASSUME UNCHANGED <<mine, history, cb, reaping>> PROVE Owned'
  BY <1>a DEF Owned
<1>b. Idle.phase = "idle" /\ NoHist = NoHist'
  BY DEF Idle, NoHist
<1>1. ASSUME NEW a \in Addr, NEW h \in History, receive_history_begin(a, h) PROVE Owned'
  BY <1>1 DEF receive_history_begin, Owned, NoHist
<1>2. ASSUME NEW t \in Tx, receive_history_remove(t) PROVE Owned'
  BY <1>2 DEF receive_history_remove, LoopRest, Owned, NoHist
<1>3. ASSUME receive_history_store PROVE Owned'
  <2>1. cb'.phase \in {"remove", "add"} => cb'.addr \in mine
    BY <1>3, <1>b DEF receive_history_store, Owned
  <2>2. \A a \in Addr \ mine : history'[a] = NoHist
    BY <1>3 DEF receive_history_store, Owned, TypeOK
  <2> QED BY <1>3, <2>1, <2>2, <1>b DEF receive_history_store, Owned
<1>4. ASSUME NEW t \in Tx, receive_history_add(t) PROVE Owned'
  BY <1>4, <1>b DEF receive_history_add, LoopRest, Owned
<1>5. ASSUME NEW t \in Tx, receive_tx_callback(t) PROVE Owned'
  BY <1>5, <1>a DEF receive_tx_callback
<1>16. ASSUME \/ \E c \in Coin : add_input(c) \/ add_output(c)
             \/ clear_outputs \/ save_transaction
      PROVE  Owned'
  BY <1>16, <1>a DEF add_input, add_output, clear_outputs, save_transaction
<1>6. ASSUME NEW a \in Addr, add_address(a) PROVE Owned'
  BY <1>6, <1>b DEF add_address, Owned
<1>7. ASSUME NEW c \in Coin, clean_pruned_txo_check(c) PROVE Owned'
  <2>1. Owner[c] = Other
    BY <1>7 DEF clean_pruned_txo_check, Sound, OpaqueSettled
  <2> QED BY <1>7, <2>1, <1>b DEF clean_pruned_txo_check, Owned
<1>8. ASSUME NEW c \in Coin, clean_pruned_txo_rm(c) PROVE Owned'
  BY <1>8, <1>b DEF clean_pruned_txo_rm, Owned
<1>11. ASSUME NEW a \in Addr, get_addr_balance(a) PROVE Owned'
  BY <1>11, <1>a DEF get_addr_balance
<1>12. ASSUME NEW K \in SUBSET Tx, restart(K) PROVE Owned'
  BY <1>12, <1>b DEF restart, Owned
<1>13. ASSUME NEW t \in Tx, check_history(t) PROVE Owned'
  BY <1>13, <1>b DEF check_history, LoopRest, Owned
<1>14. ASSUME rebuild_history PROVE Owned'
  BY <1>14, <1>b DEF rebuild_history, Unlocked, Owned
<1>15. CASE UNCHANGED vars
  BY <1>15, <1>a DEF vars
<1> QED
  BY <1>1, <1>2, <1>3, <1>4, <1>5, <1>6, <1>7, <1>8, <1>11, <1>12, <1>13, <1>14,
     <1>15, <1>16 DEF Next, Running

\* tx_addr_hist stays the reverse of _history while a callback rewrites both.
LEMMA ReverseStep ==
    ASSUME TypeOK, Owned, Reverse, [Next]_vars
    PROVE  Reverse'
<1> USE GraphAssumption, NameAssumption
<1>a. ASSUME UNCHANGED <<history, tx_addr_hist, cb>> PROVE Reverse'
  BY <1>a DEF Reverse
<1>b. Idle.phase = "idle" /\ Idle.addr = Other
  BY DEF Idle
<1>1. ASSUME NEW a \in Addr, NEW h \in History, receive_history_begin(a, h) PROVE Reverse'
  BY <1>1, <1>b DEF receive_history_begin, Unlocked, Reverse, Outdated
<1>2. ASSUME NEW t \in Tx, receive_history_remove(t) PROVE Reverse'
  BY <1>2 DEF receive_history_remove, LoopRest, Reverse, TypeOK
<1>3. ASSUME receive_history_store PROVE Reverse'
  <2>1. ASSUME NEW t \in Tx, cb.hist[t] # NoHeight
        PROVE  cb'.addr = cb.addr /\ cb'.phase = "add" /\ t \in cb'.todo
    BY <1>3, <2>1 DEF receive_history_store, InHist, NoHist
  <2>2. cb'.phase = "add" => \A t \in cb'.todo : history'[cb'.addr][t] # NoHeight
    BY <1>3, <1>b DEF receive_history_store, TypeOK, InHist
  <2>3. ASSUME NEW a \in Addr, NEW t \in Tx
        PROVE  /\ a \in tx_addr_hist[t] => history'[a][t] # NoHeight
               /\ history'[a][t] # NoHeight =>
                     \/ a \in tx_addr_hist[t]
                     \/ a = cb'.addr /\ cb'.phase = "add" /\ t \in cb'.todo
    <3>1. CASE a = cb.addr
      <4>1. history'[a] = cb.hist
        BY <1>3, <3>1 DEF receive_history_store, TypeOK
      <4> QED BY <1>3, <2>1, <3>1, <4>1 DEF Reverse, receive_history_store
    <3>2. CASE a # cb.addr
      <4>1. history'[a] = history[a]
        BY <1>3, <3>2 DEF receive_history_store, TypeOK
      <4> QED BY <3>2, <4>1 DEF Reverse
    <3> QED BY <3>1, <3>2
  <2> QED BY <1>3, <1>b, <2>2, <2>3 DEF receive_history_store, Reverse
<1>4. ASSUME NEW t \in Tx, receive_history_add(t) PROVE Reverse'
  <2>1. tx_addr_hist' = [tx_addr_hist EXCEPT ![t] = @ \cup {cb.addr}] /\ history' = history
    BY <1>4 DEF receive_history_add
  <2>2. history[cb.addr][t] # NoHeight
    BY <1>4 DEF receive_history_add, Reverse
  <2>3. CASE cb.todo = {t}
    BY <1>4, <1>b, <2>1, <2>2, <2>3 DEF receive_history_add, Reverse, TypeOK
  <2>4. CASE cb.todo # {t}
    BY <1>4, <2>1, <2>2, <2>4 DEF receive_history_add, LoopRest, Reverse, TypeOK
  <2> QED BY <2>3, <2>4
<1>5. ASSUME NEW t \in Tx, receive_tx_callback(t) PROVE Reverse'
  BY <1>5, <1>a DEF receive_tx_callback
<1>16. ASSUME \/ \E c \in Coin : add_input(c) \/ add_output(c)
             \/ clear_outputs \/ save_transaction
      PROVE  Reverse'
  BY <1>16, <1>a DEF add_input, add_output, clear_outputs, save_transaction
<1>6. ASSUME NEW a \in Addr, add_address(a) PROVE Reverse'
  BY <1>6, <1>a DEF add_address
<1>7. ASSUME NEW c \in Coin, clean_pruned_txo_check(c) PROVE Reverse'
  BY <1>7, <1>a DEF clean_pruned_txo_check
<1>8. ASSUME NEW c \in Coin, clean_pruned_txo_rm(c) PROVE Reverse'
  BY <1>8, <1>a DEF clean_pruned_txo_rm
<1>11. ASSUME NEW a \in Addr, get_addr_balance(a) PROVE Reverse'
  BY <1>11, <1>a DEF get_addr_balance
<1>12. ASSUME NEW K \in SUBSET Tx, restart(K) PROVE Reverse'
  BY <1>12, <1>b DEF restart, Reverse
<1>13. ASSUME NEW t \in Tx, check_history(t) PROVE Reverse'
  BY <1>13, <1>b DEF check_history, LoopRest, Reverse
<1>14. ASSUME rebuild_history PROVE Reverse'
  BY <1>14, <1>b DEF rebuild_history, Unlocked, Reverse, NoHist
<1>15. CASE UNCHANGED vars
  BY <1>15, <1>a DEF vars
<1> QED
  BY <1>1, <1>2, <1>3, <1>4, <1>5, <1>6, <1>7, <1>8, <1>11, <1>12, <1>13, <1>14,
     <1>15, <1>16 DEF Next, Running

\* A listed and known transaction is recorded in full for each of the wallet's
\* addresses; this is the step that needs tx_addr_hist to be exact.
LEMMA CompleteStep ==
    ASSUME TypeOK, Sound, Owned, Reverse, Underway, Complete, SingleSpend, OpaqueSettled,
           [Next]_vars
    PROVE  Complete'
<1> USE GraphAssumption, NameAssumption
<1>a. ASSUME UNCHANGED <<mine, txi, txo, pruned_txo, history, cb, adding, transactions>>
      PROVE  Complete'
  BY <1>a DEF Complete, Touched, Full, KnownOf, InHist, Own
<1>b. Idle.phase = "idle" /\ Idle.addr = Other
  BY DEF Idle
<1>c. ASSUME NEW t \in Tx, add_transaction(t), UNCHANGED <<mine, history>>,
             \A u \in Tx \ {t} : cb.phase = "add" /\ u \in cb.todo
                 => cb'.phase = "add" /\ cb'.addr = cb.addr /\ u \in cb'.todo,
             cb.phase # "remove"
      PROVE  Complete'
  <2>1. /\ adding = NoAdd /\ NoAdd.tx = NoTx /\ adding'.tx = t
        /\ UNCHANGED <<txo, pruned_txo, transactions>>
        /\ \A u \in Tx \ {t} : txi'[u] = txi[u]
    BY <1>c, AddingFacts DEF add_transaction, TypeOK
  <2>2. \A a \in mine, u \in Tx \ {t} : /\ (Full(a, u)' <=> Full(a, u))
                                        /\ (Touched(a, u)' <=> Touched(a, u))
                                        /\ (u \in KnownOf(a)' <=> u \in KnownOf(a))
    BY <1>c, <2>1 DEF Full, Touched, Own, Outs, KnownOf, InHist
  <2> QED BY <1>c, <2>1, <2>2 DEF Complete
<1>1. ASSUME NEW a \in Addr, NEW h \in History, receive_history_begin(a, h) PROVE Complete'
  <2>1. UNCHANGED <<mine, txi, txo, pruned_txo, history, transactions, adding>>
    BY <1>1 DEF receive_history_begin, ledgerVars
  <2> QED BY <1>1, <1>b, <2>1 DEF receive_history_begin, Unlocked, Complete, Touched, Full, KnownOf, InHist, Own
<1>2. ASSUME NEW t \in Tx, receive_history_remove(t) PROVE Complete'
  <2>a. /\ UNCHANGED <<mine, history, adding>> /\ adding = NoAdd /\ cb.phase = "remove"
        /\ cb'.phase = cb.phase /\ cb'.addr = cb.addr
    BY <1>2 DEF receive_history_remove, LoopRest
  <2>b. adding.tx = NoTx
    BY <2>a, AddingFacts
  <2>1. CASE tx_addr_hist[t] \ {cb.addr} = {}
    <3>1. remove_transaction(t)
      BY <1>2, <2>1 DEF receive_history_remove
    <3> SUFFICES ASSUME NEW a \in mine, NEW u \in Tx
                 PROVE  /\ Touched(a, u)' => Full(a, u)'
                        /\ u \in KnownOf(a)' => Full(a, u)' \/ a = cb.addr
      BY <2>a DEF Complete
    <3>2. CASE u = t
      <4>1. ~ Touched(a, t)'
        BY <2>a, <3>1, RemoveComplete
      <4>2. t \in KnownOf(a)' => a = cb.addr
        BY <2>a, <2>1 DEF KnownOf, InHist, Reverse, TypeOK
      <4> QED BY <3>2, <4>1, <4>2
    <3>3. CASE u # t
      <4>1. KnownOf(a)' = KnownOf(a)
        BY <2>a, <3>1, RemoveEffect DEF KnownOf, InHist
      <4> QED BY <2>a, <2>b, <3>1, <3>3, <4>1, RemoveComplete DEF Complete
    <3> QED BY <3>2, <3>3
  <2>2. CASE tx_addr_hist[t] \ {cb.addr} # {}
    <3>1. UNCHANGED <<txi, txo, pruned_txo, transactions>>
      BY <1>2, <2>2 DEF receive_history_remove, ledgerVars
    <3> QED BY <2>a, <3>1 DEF Complete, Touched, Full, KnownOf, InHist, Own
  <2> QED BY <2>1, <2>2
<1>3. ASSUME receive_history_store PROVE Complete'
  <2>1. UNCHANGED <<mine, txi, txo, pruned_txo, transactions, adding>>
    BY <1>3 DEF receive_history_store, ledgerVars
  <2>2. ASSUME NEW a \in mine, NEW u \in Tx \ {adding.tx}, u \in KnownOf(a)'
        PROVE  Full(a, u) \/ (a = cb'.addr /\ cb'.phase = "add" /\ u \in cb'.todo)
    <3>1. CASE a = cb.addr
      <4>1. history'[a] = cb.hist
        BY <1>3, <3>1 DEF receive_history_store, TypeOK
      <4> QED BY <1>3, <2>2, <3>1, <4>1 DEF receive_history_store, KnownOf, InHist, NoHist
    <3>2. CASE a # cb.addr
      <4>1. history'[a] = history[a]
        BY <1>3, <3>2 DEF receive_history_store, TypeOK
      <4>2. u \in KnownOf(a)
        BY <2>1, <2>2, <4>1 DEF KnownOf, InHist
      <4> QED BY <3>2, <4>2 DEF Complete
    <3> QED BY <3>1, <3>2
  <2> QED BY <2>1, <2>2 DEF Complete, Touched, Full, Own
<1>4. ASSUME NEW t \in Tx, receive_history_add(t) PROVE Complete'
  <2>a. /\ UNCHANGED <<mine, history>> /\ cb.phase = "add" /\ t \in cb.todo
        /\ cb.addr \in mine /\ adding = NoAdd
    BY <1>4 DEF receive_history_add, Owned
  <2>b. ASSUME NEW u \in cb.todo, u # t PROVE cb'.addr = cb.addr /\ cb'.phase = "add" /\ u \in cb'.todo
    BY <1>4, <2>a, <2>b DEF receive_history_add, LoopRest
  <2>1. CASE t \in transactions /\ (txi[t] \cup txo[t]) \cap Own(cb.addr) = {}
    <3>1. add_transaction(t)
      BY <1>4, <2>1 DEF receive_history_add
    <3> QED BY <1>c, <2>a, <2>b, <3>1
  <2>2. CASE ~ (t \in transactions /\ (txi[t] \cup txo[t]) \cap Own(cb.addr) = {})
    <3>1. UNCHANGED <<txi, txo, pruned_txo, transactions, adding>> /\ adding.tx = NoTx
      BY <1>4, <2>2, <2>a, AddingFacts DEF receive_history_add, ledgerVars
    <3>2. t \in KnownOf(cb.addr) => Full(cb.addr, t)
      <4>1. t \in KnownOf(cb.addr) => Touched(cb.addr, t)
        BY <2>2 DEF KnownOf, Touched
      <4> QED BY <2>a, <3>1, <4>1 DEF Complete
    <3>3. \A a \in mine, u \in Tx : /\ (Touched(a, u)' <=> Touched(a, u))
                                    /\ (Full(a, u)' <=> Full(a, u))
                                    /\ (u \in KnownOf(a)' <=> u \in KnownOf(a))
      BY <2>a, <3>1 DEF Touched, Full, KnownOf, InHist, Own
    <3> QED BY <2>a, <2>b, <3>1, <3>2, <3>3 DEF Complete
  <2> QED BY <2>1, <2>2
<1>5. ASSUME NEW t \in Tx, receive_tx_callback(t) PROVE Complete'
  BY <1>5, <1>b, <1>c DEF receive_tx_callback, Unlocked
<1>16. ASSUME NEW c \in Coin, add_input(c) PROVE Complete'
  BY <1>16, InputComplete
<1>17. ASSUME clear_outputs PROVE Complete'
  BY <1>17, ClearComplete
<1>18. ASSUME NEW c \in Coin, add_output(c) PROVE Complete'
  BY <1>18, OutputComplete
<1>19. ASSUME save_transaction PROVE Complete'
  BY <1>19, SaveComplete
<1>6. ASSUME NEW b \in Addr, add_address(b) PROVE Complete'
  <2>1. UNCHANGED <<txi, txo, pruned_txo, history, cb, adding, transactions>> /\ mine' = mine \cup {b}
    BY <1>6 DEF add_address, ledgerVars
  <2>2. \A u \in Tx : ~ Touched(b, u) /\ u \notin KnownOf(b)
    <3>1. \A u \in Tx : u \notin KnownOf(b)
      BY <1>6 DEF add_address, Owned, KnownOf, InHist, NoHist
    <3>2. ASSUME NEW u \in Tx, NEW c \in Own(b) PROVE ~ (c \in txi[u] \/ c \in txo[u] \/ pruned_txo[c] = u)
      BY <1>6 DEF add_address, Sound, OpaqueSettled, Own, TypeOK
    <3> QED BY <3>1, <3>2 DEF Touched
  <2> QED BY <2>1, <2>2 DEF Complete, Touched, Full, KnownOf, InHist, Own
<1>7. ASSUME NEW c \in Coin, clean_pruned_txo_check(c) PROVE Complete'
  BY <1>7, <1>a DEF clean_pruned_txo_check, ledgerVars
<1>8. ASSUME NEW c \in Coin, clean_pruned_txo_rm(c) PROVE Complete'
  <2>1. UNCHANGED <<mine, txi, txo, history, cb, adding, transactions>> /\ Owner[c] = Other
    BY <1>8 DEF clean_pruned_txo_rm, Owned
  <2>2. \A a \in mine : \A e \in Own(a) : pruned_txo'[e] = pruned_txo[e]
    BY <1>8, <2>1 DEF clean_pruned_txo_rm, Own, TypeOK
  <2> QED BY <2>1, <2>2 DEF Complete, Touched, Full, KnownOf, InHist, Own
<1>11. ASSUME NEW a \in Addr, get_addr_balance(a) PROVE Complete'
  BY <1>11, <1>a DEF get_addr_balance, ledgerVars
<1>12. ASSUME NEW K \in SUBSET Tx, restart(K) PROVE Complete'
  <2>1. /\ UNCHANGED <<mine, txi, txo, pruned_txo, history, adding>> /\ cb = Idle
        /\ transactions' \subseteq transactions
    BY <1>12 DEF restart, Unlocked
  <2> QED BY <1>b, <2>1 DEF Complete, Touched, Full, KnownOf, InHist, Own
<1>13. ASSUME NEW t \in Tx, check_history(t) PROVE Complete'
  <2>1. cb.phase = "check" /\ cb'.phase \in {"idle", "check"} /\ UNCHANGED <<mine, history>>
    BY <1>13, <1>b DEF check_history, LoopRest
  <2>2. CASE add_transaction(t)
    BY <2>1, <2>2, <1>c
  <2>3. CASE UNCHANGED <<ledgerVars, adding, addr_bal_cache>>
    BY <2>1, <2>3 DEF ledgerVars, Complete, Touched, Full, KnownOf, InHist, Own
  <2> QED BY <1>13, <2>2, <2>3 DEF check_history
<1>14. ASSUME rebuild_history PROVE Complete'
  <2>1. \A a \in Addr, u \in Tx : ~ Touched(a, u)'
    BY <1>14 DEF rebuild_history, Touched, Own
  <2>2. \A a \in Addr, u \in Tx : u \notin KnownOf(a)'
    BY <1>14 DEF rebuild_history, KnownOf
  <2> QED BY <1>14, <2>1, <2>2 DEF rebuild_history, Complete
<1>15. CASE UNCHANGED vars
  BY <1>15, <1>a DEF vars, ledgerVars
<1> QED
  BY <1>1, <1>2, <1>3, <1>4, <1>5, <1>6, <1>7, <1>8, <1>11, <1>12, <1>13, <1>14,
     <1>15, <1>16, <1>17, <1>18, <1>19 DEF Next, Running

\* Only the steps of an add_transaction happen while one is under way.
LEMMA UnderwayStep ==
    ASSUME TypeOK, Sound, Underway, Complete, SingleSpend, [Next]_vars
    PROVE  Underway'
<1>1. CASE adding' = NoAdd
  BY <1>1, AddingFacts DEF Underway
<1>2. CASE UNCHANGED <<mine, txi, txo, pruned_txo, adding>>
  BY <1>2 DEF Underway, Own, Outs
<1>3. ASSUME NEW t \in Tx, add_transaction(t), mine' = mine PROVE Underway'
  BY <1>3, BeginUnderway
<1>4. ASSUME NEW a \in Addr, NEW h \in History, receive_history_begin(a, h) PROVE Underway'
  BY <1>4, <1>2 DEF receive_history_begin, ledgerVars
<1>5. ASSUME NEW t \in Tx, receive_history_remove(t) PROVE Underway'
  BY <1>5, <1>1 DEF receive_history_remove
<1>6. ASSUME receive_history_store PROVE Underway'
  BY <1>6, <1>2 DEF receive_history_store, ledgerVars
<1>7. ASSUME NEW t \in Tx, receive_history_add(t) PROVE Underway'
  BY <1>7, <1>2, <1>3 DEF receive_history_add, ledgerVars
<1>8. ASSUME NEW t \in Tx, receive_tx_callback(t) \/ check_history(t) PROVE Underway'
  BY <1>8, <1>2, <1>3 DEF receive_tx_callback, check_history, ledgerVars
<1>9. ASSUME NEW c \in Coin, add_input(c) \/ add_output(c) PROVE Underway'
  BY <1>9, InputComplete, OutputComplete
<1>10. CASE clear_outputs \/ save_transaction
  BY <1>10, ClearComplete, SaveComplete
<1>11. ASSUME NEW a \in Addr, add_address(a) \/ get_addr_balance(a) PROVE Underway'
  BY <1>11, <1>1 DEF add_address, get_addr_balance, Unlocked
<1>12. ASSUME NEW c \in Coin, clean_pruned_txo_check(c) \/ clean_pruned_txo_rm(c) PROVE Underway'
  BY <1>12, <1>1 DEF clean_pruned_txo_check, clean_pruned_txo_rm, Unlocked
<1>13. ASSUME NEW K \in SUBSET Tx, restart(K) PROVE Underway'
  BY <1>13, <1>1 DEF restart, Unlocked
<1>14. CASE rebuild_history
  BY <1>14, <1>1 DEF rebuild_history, Unlocked
<1>15. CASE UNCHANGED vars
  BY <1>15, <1>2 DEF vars, ledgerVars
<1> QED
  BY <1>4, <1>5, <1>6, <1>7, <1>8, <1>9, <1>10, <1>11, <1>12, <1>13, <1>14, <1>15 DEF Next, Running

\* The inductive invariant holds in every reachable state.
THEOREM LedgerInvariant ==
    ASSUME SingleSpend, OpaqueSettled
    PROVE  Spec => []LedgerInv
<1> USE GraphAssumption, NameAssumption
<1>1. Init => LedgerInv
  <2> SUFFICES ASSUME Init PROVE LedgerInv
    OBVIOUS
  <2>1. TypeOK
    BY TypeInit
  <2>2. Sound /\ Underway
    BY DEF Init, Sound, Underway, NoAdd
  <2>3. Closed
    BY DEF Init, Closed, ClosedFor, InHist, NoHist, Idle
  <2>4. Owned /\ Reverse
    BY DEF Init, Owned, Reverse, Idle, NoHist
  <2>5. Complete
    <3>1. \A a \in Addr, u \in Tx : ~ Touched(a, u)
      BY DEF Init, Touched, Own
    <3>2. \A a \in Addr, u \in Tx : u \notin KnownOf(a)
      BY DEF Init, KnownOf
    <3> QED BY <3>1, <3>2 DEF Init, Complete
  <2> QED BY <2>1, <2>2, <2>3, <2>4, <2>5 DEF LedgerInv, BaseInv
<1>2. LedgerInv /\ [Next]_vars => LedgerInv'
  BY SingleSpend, OpaqueSettled, TypeStep, SoundStep, ClosedStep, OwnedStep, ReverseStep,
     UnderwayStep, CompleteStep DEF LedgerInv, BaseInv
<1> QED BY <1>1, <1>2, PTL DEF Spec

\* Without conflicting transactions, and whatever the order of histories,
\* transactions, new addresses, restarts and cleaner runs, the coins
\* get_addr_utxo offers are exactly the unspent ones of the known history.
THEOREM UtxoExact ==
    ASSUME SingleSpend, OpaqueSettled
    PROVE  Spec => []UtxoIsExact
<1>1. LedgerInv => UtxoIsExact
  <2> SUFFICES ASSUME LedgerInv, cb.phase \in {"idle", "check"}, adding = NoAdd,
                      NEW a \in mine, NEW c \in Own(a)
               PROVE  /\ c \in Utxo(a) => \A t \in KnownOf(a) : c \notin Spends[t]
                      /\ /\ Fund[c] \in KnownOf(a)
                         /\ \A t \in InHist(history[a]) : c \notin Spends[t]
                         => c \in Utxo(a)
    BY DEF UtxoIsExact
  <2>0. adding.tx = NoTx /\ \A e \in Coin : ~ Unrecorded(e)
    BY AddingFacts DEF LedgerInv, BaseInv, Unrecorded
  <2>1. \A t \in KnownOf(a) : Full(a, t)
    BY <2>0, NameAssumption DEF LedgerInv, Complete, KnownOf, InHist
  <2>2. ASSUME c \in Utxo(a), NEW t \in KnownOf(a), c \in Spends[t] PROVE FALSE
    <3>1. c \in txi[t] \/ pruned_txo[c] = t
      BY <2>1, <2>2 DEF Full
    <3>2. c \in Coin /\ c \in txo[Fund[c]] /\ c \notin txi[t]
      BY <2>2 DEF Utxo, received, sent, KnownOf, Own
    <3> QED BY <3>1, <3>2, <2>2, NameAssumption DEF LedgerInv, BaseInv, Sound, KnownOf, InHist
  <2>3. ASSUME Fund[c] \in KnownOf(a), \A t \in InHist(history[a]) : c \notin Spends[t]
        PROVE  c \in Utxo(a)
    <3>1. c \in txo[Fund[c]]
      BY <2>1, <2>3 DEF Full, Own, Outs
    <3>2. \A t \in InHist(history[a]) : c \notin txi[t]
      BY <2>3 DEF LedgerInv, BaseInv, Sound, InHist
    <3> QED BY <2>3, <3>1, <3>2 DEF Utxo, received, sent, KnownOf, InHist, Own
  <2> QED BY <2>2, <2>3
<1> QED BY <1>1, LedgerInvariant, PTL

=============================================================================
