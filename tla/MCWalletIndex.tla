---------------------------- MODULE MCWalletIndex ----------------------------
(* WalletIndex for TLC: all constants are given in the configurations. *)
EXTENDS WalletIndex
==============================================================================
