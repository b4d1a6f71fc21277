----------------------------- MODULE MCWhitelist -----------------------------
(* Model-checking instance of Whitelist: two commands on a list of two.    *)
EXTENDS Whitelist, TLC

CONSTANTS a, b, c

Commands == {[op |-> "whitelistadd", addresses |-> {b, c}],
             [op |-> "whitelistadd", addresses |-> {a, c}],
             [op |-> "whitelistremove", addresses |-> {a, c}]}
MCSeedList == {a, b}

\* The two jobs are interchangeable.
Symmetry == Permutations(Job)
=============================================================================
