----------------------------- MODULE MCMetadata -----------------------------
(* Model-checking instance of Metadata.                                    *)
EXTENDS Metadata, TLC

\* Updates, rows, ids and fields are interchangeable.
Symmetry ==
    Permutations(Update) \cup Permutations(Row)
        \cup Permutations(TokenId) \cup Permutations(Field)
=============================================================================
