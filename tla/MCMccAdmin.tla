----------------------------- MODULE MCMccAdmin -----------------------------
(* A small instance of MissionControl for TLC. *)
EXTENDS MissionControl, TLC

\* The run checks no liveness.
Symmetry == Permutations(Users \ Admins) \union Permutations(Requests)
            \union Permutations(Emails)
=============================================================================
