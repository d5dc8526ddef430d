---------------------------- MODULE AuthSession ----------------------------
(***************************************************************************)
(* What one ARO login promises to the outside, whatever the table behind   *)
(* it looks like.  A session is a token family.  It begins with one token, *)
(* it has at most one usable token at a time, it may be without a usable   *)
(* token while a rotation is under way, every token it ever hands out is   *)
(* new, and once it is dead nothing brings it back.                        *)
(*                                                                         *)
(* RefreshTokens implements this specification (see Session there).        *)
(***************************************************************************)
CONSTANTS Families, \* the sessions (family_id)
          Tokens,   \* the refresh tokens
          NoToken   \* no usable token; not one of Tokens

VARIABLES phase,    \* phase[f]: where session f is in its life
          current,  \* current[f]: the one token that still buys a rotation
          spent     \* every token some session has ever handed out

sessionVars == <<phase, current, spent>>

Phases == {"unborn", "open", "renewing", "dead"}

SessionInit == /\ phase = [f \in Families |-> "unborn"]
               /\ current = [f \in Families |-> NoToken]
               /\ spent = {}

\* A session gets a usable token it has never had: by a login when it is
\* unborn, by the rotation under way when it is renewing.
HandOut(f, t) == /\ phase[f] \in {"unborn", "renewing"}
                 /\ t \notin spent
                 /\ phase' = [phase EXCEPT ![f] = "open"]
                 /\ current' = [current EXCEPT ![f] = t]
                 /\ spent' = spent \union {t}

\* The usable tokens of the sessions in renewing and dead are withdrawn: they
\* were spent, revoked or deleted, or they expired, or the rotation that was
\* under way ended without a token.  Only the sessions in renewing can go on.
Withdraw(renewing, dead) ==
    /\ renewing \subseteq {f \in Families : phase[f] = "open"}
    /\ dead \subseteq {f \in Families : phase[f] \in {"open", "renewing"}} \ renewing
    /\ phase' = [f \in Families |-> CASE f \in renewing -> "renewing"
                                      [] f \in dead -> "dead"
                                      [] OTHER -> phase[f]]
    /\ current' = [f \in Families |-> IF f \in renewing \union dead
                                      THEN NoToken ELSE current[f]]
    /\ UNCHANGED spent

SessionNext == \/ \E f \in Families, t \in Tokens : HandOut(f, t)
               \/ \E renewing, dead \in SUBSET Families : Withdraw(renewing, dead)

SessionSpec == SessionInit /\ [][SessionNext]_sessionVars
=============================================================================
