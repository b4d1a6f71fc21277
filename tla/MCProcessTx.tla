----------------------------- MODULE MCProcessTx -----------------------------
(* Model-checking instance of ProcessTx.                                   *)
EXTENDS ProcessTx, TLC

\* Jobs and wallets are interchangeable (safety runs only).
Symmetry == Permutations(Job) \union Permutations(Wallet)
=============================================================================
