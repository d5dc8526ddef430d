------------------------ MODULE MCCommandScheduling ------------------------
(* Small instances of CommandScheduling for TLC. *)
EXTENDS CommandScheduling, TLC

CONSTANTS s1, s2

\* s1 is locked out from 1 on, s2 from 2 on, with a lockout of one tick.
StartTimes == s1 :> 2 @@ s2 :> 3

\* For the runs that check no liveness.
Symmetry == Permutations(Commands) \union Permutations(Contents)
            \union Permutations(Requests)
=============================================================================
