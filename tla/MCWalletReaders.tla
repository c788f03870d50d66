-------------------------- MODULE MCWalletReaders --------------------------
(***************************************************************************)
(* WalletReaders on the graphs of MCWalletLedger.                           *)
(***************************************************************************)
EXTENDS MCWalletLedger, WalletReaders

CONSTANTS gui                        \* the GUI thread
=============================================================================
