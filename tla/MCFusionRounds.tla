--------------------------- MODULE MCFusionRounds ---------------------------
(***************************************************************************)
(* A small fusion for FusionRounds.                                        *)
(***************************************************************************)
EXTENDS FusionRounds

CONSTANTS p1, p2, p3    \* players
=============================================================================
