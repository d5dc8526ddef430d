--------------------------- MODULE MCAroAccounts ---------------------------
(* Small instances of AroAccounts for TLC. *)
EXTENDS AroAccounts, TLC

Symmetry == Permutations(Ids) \union Permutations(Emails)
            \union Permutations(Requests)
=============================================================================
