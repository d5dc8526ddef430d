-------------------------- MODULE MCRefreshTokens --------------------------
(* Small instances of RefreshTokens for TLC. *)
EXTENDS RefreshTokens, TLC

\* Users, families, tokens and request slots are interchangeable, and the
\* runs that use the symmetry check no liveness.
Symmetry == Permutations(Users) \union Permutations(Families)
            \union Permutations(Tokens) \union Permutations(Requests)
=============================================================================
