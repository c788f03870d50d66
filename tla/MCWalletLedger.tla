--------------------------- MODULE MCWalletLedger ---------------------------
(***************************************************************************)
(* Small transaction graphs for WalletLedger.                               *)
(***************************************************************************)
EXTENDS WalletLedger

CONSTANTS A, B,                      \* addresses; B is derived later
          f, s, r,                   \* fund, spend, respend
          d,                         \* double spend
          c1, c2, c3, c4             \* coins

\* f pays c1 to A and c2 to a stranger; s spends both (the stranger's input
\* shows no address) and pays the change c3 to A and c4 to B; r spends both.
\* When B is derived late, s and r are recorded again, s while c3 is spent.
ChainTx == {f, s, r}
ChainCoin == {c1, c2, c3, c4}
ChainFund == [c \in ChainCoin |-> IF c \in {c1, c2} THEN f ELSE s]
ChainOwner == [c \in ChainCoin |-> IF c = c2 THEN Other ELSE IF c = c4 THEN B ELSE A]
ChainSpends == [t \in ChainTx |-> IF t = f THEN {} ELSE IF t = s THEN {c1, c2} ELSE {c3, c4}]

\* The first two of them only, for runs with a reader without the lock.
PairTx == {f, s}
PairCoin == {c1, c2, c3}
PairFund == [c \in PairCoin |-> IF c = c3 THEN s ELSE f]
PairOwner == [c \in PairCoin |-> IF c = c2 THEN Other ELSE IF c = c3 THEN B ELSE A]
PairSpends == [t \in PairTx |-> IF t = f THEN {} ELSE {c1, c2}]

\* f pays c1 to A; s and d both spend it: s pays the change c3 to A and c4 to
\* B, d pays c2 to A.
FightTx == {f, s, d}
FightFund == [c \in ChainCoin |-> IF c = c1 THEN f ELSE IF c = c2 THEN d ELSE s]
FightOwner == [c \in ChainCoin |-> IF c = c4 THEN B ELSE A]
FightSpends == [t \in FightTx |-> IF t = f THEN {} ELSE {c1}]
=============================================================================
