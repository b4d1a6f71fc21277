------------------------------- MODULE MCMint -------------------------------
(* Model-checking instance of Mint.                                        *)
EXTENDS Mint, TLC

\* Jobs and wallets are interchangeable.
Symmetry == Permutations(Job) \union Permutations(Wallet)
=============================================================================
