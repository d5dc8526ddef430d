---------------------------- MODULE MCAroClient ----------------------------
(* Small instances of AroClient for TLC. *)
EXTENDS AroClient, TLC

\* For the runs that check no liveness.
Symmetry == Permutations(Users) \union Permutations(Families)
            \union Permutations(Tokens) \union Permutations(Requests) \union Permutations(Calls)
            \union Permutations(Tabs)
=============================================================================
