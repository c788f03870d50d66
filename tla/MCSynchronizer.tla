--------------------------- MODULE MCSynchronizer ---------------------------
(***************************************************************************)
(* Small wallets and transaction graphs for Synchronizer.                   *)
(***************************************************************************)
EXTENDS Synchronizer

CONSTANTS A, B, C, D,   \* addresses
          f, s, r       \* transactions

\* Nothing is in the wallet file.
NoHistory == [a \in Addr |-> {}]

\* f pays A; s moves the coin to B, r moves it back.  D was retired in an earlier
\* session.
MoveOrder == <<D, A, B, C>>
PairOrder == <<A, B>>
MovePays == [t \in Tx |-> IF t = s THEN {B} ELSE {A}]
MoveTakes == [t \in Tx |-> IF t = f THEN {} ELSE IF t = s THEN {<<f, A>>} ELSE {<<s, B>>}]

\* f and s both pay A and B: change address B has two coins and no spend.
TwiceOrder == <<A, B, C>>
TwicePays == [t \in Tx |-> {A, B}]
TwiceTakes == [t \in Tx |-> {}]

\* f pays B, s spends it and pays C: B is used up.
SpentPays == [t \in Tx |-> IF t = f THEN {B} ELSE {C}]
SpentTakes == [t \in Tx |-> IF t = f THEN {} ELSE {<<f, B>>}]
=============================================================================
