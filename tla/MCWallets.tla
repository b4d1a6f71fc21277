------------------------------ MODULE MCWallets ------------------------------
(* Model-checking instance of Wallets.                                     *)
EXTENDS Wallets
=============================================================================
