-------------------------- MODULE MCWalletStorage --------------------------
(***************************************************************************)
(* The threads of one wallet for WalletStorage.                             *)
(***************************************************************************)
EXTENDS WalletStorage, TLC

CONSTANTS gui, network, cleaner, k1

Writers == Permutations({gui, network})
=============================================================================
