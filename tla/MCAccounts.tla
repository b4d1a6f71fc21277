----------------------------- MODULE MCAccounts -----------------------------
(* Model-checking instance of Accounts.                                    *)
EXTENDS Accounts
=============================================================================
