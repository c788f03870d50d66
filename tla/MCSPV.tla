------------------------------- MODULE MCSPV -------------------------------
(***************************************************************************)
(* Header trees for SPV.  R is the root chain of four blocks; X leaves it   *)
(* at height 2, and Y at height 3.  t1 is mined at the same height on R and *)
(* on X, t2 at different ones, and t3 on R only.                            *)
(***************************************************************************)
EXTENDS SPV

CONSTANTS t1, t2, t3, R, X, Y

OneChain == {R}
Fork == {R, X}
Nested == {R, X, Y}

BaseOf == [c \in Chain |-> CASE c = R -> 0 [] c = X -> 2 [] OTHER -> 3]
ParentOf == [c \in Chain |-> IF c = R THEN NoChain ELSE R]
BlocksOf ==
    [c \in Chain |-> CASE c = R -> <<"g1", "r2", "r3", "r4">>
                       [] c = X -> <<"g1", "x2", "x3", "x4">>
                       [] OTHER -> <<"g1", "r2", "y3", "y4">>]
IncludesOf ==
    [b \in Block |-> {t \in Tx : \/ t = t1 /\ b \in {"r2", "x2"}
                                 \/ t = t2 /\ b \in {"r3", "x2", "y4"}
                                 \/ t = t3 /\ b \in {"r4"}}]
TimeOf == [b \in Block |-> CASE b = "g1" -> 1 [] b = "r2" -> 2 [] b = "r3" -> 3 [] b = "r4" -> 4
                             [] b = "x2" -> 5 [] b = "x3" -> 6 [] b = "x4" -> 7
                             [] b = "y3" -> 8 [] OTHER -> 9]
=============================================================================
