----------------------------- MODULE GsContact -----------------------------
(***************************************************************************)
(* What the state machine of the ground station promises of a contact with *)
(* the satellite: nothing is sent up before the contact was opened in the  *)
(* way of its mode and accepted, one contact ends before the next begins,  *)
(* every step on the way may end it, and after an error of the server there*)
(* is no contact any more.                                                 *)
(***************************************************************************)
VARIABLES
  phase,   \* "none", "opening", "accepted", "up", "closing" or "failed"
  mode     \* "normal" or "emergency", "none" without a contact

Init == phase = "none" /\ mode = "none"

Begin(m) == /\ phase = "none" /\ phase' = "opening"
            /\ mode' = m

Accept == /\ phase = "opening" /\ phase' = "accepted"
          /\ UNCHANGED mode

Establish == /\ phase = "accepted" /\ phase' = "up"
             /\ UNCHANGED mode

\* Only a normal contact is closed in steps.
Close == /\ phase = "up" /\ mode = "normal" /\ phase' = "closing"
         /\ UNCHANGED mode

End == /\ phase \in {"opening", "accepted", "up", "closing"} /\ phase' = "none"
       /\ mode' = "none"

Fail == phase' = "failed" /\ mode' = "none"

Next == Begin("normal") \/ Begin("emergency") \/ Accept \/ Establish \/ Close \/ End \/ Fail

Spec == Init /\ [][Next]_<<phase, mode>>
=============================================================================
