------------------------------ MODULE MCDeploy ------------------------------
(* Model-checking instance of Deploy.                                      *)
EXTENDS Deploy, TLC

\* The jobs are interchangeable.
Symmetry == Permutations(Job)
=============================================================================
