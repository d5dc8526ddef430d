--------------------------- MODULE MissionControl ---------------------------
(***************************************************************************)
(* Mission control's users: their admission and deletion (MccAdmin) and    *)
(* the profile of one who stays (MccProfile).  The two share no variable   *)
(* and no handler, so that it is enough to let each of them run while the  *)
(* other stands at its beginning, the first while no name is known.        *)
(***************************************************************************)
EXTENDS MccAdmin, MccProfile

MissionInit == Init /\ ProfileInit

MissionNext == \/ ProfileInit /\ account = row /\ Next /\ UNCHANGED profileVars
               \/ Init /\ ProfileNext /\ UNCHANGED vars

MissionSpec == MissionInit /\ [][MissionNext]_<<vars, profileVars>>
=============================================================================
