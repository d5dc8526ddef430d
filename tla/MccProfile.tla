----------------------------- MODULE MccProfile -----------------------------
(***************************************************************************)
(* The profile of one user of mission control, which Postgres and Keycloak *)
(* both keep:                                                              *)
(*   backend/app/api/mcc/routes/users.py    update_me                      *)
(*   backend/app/mcc_keycloak/client.py     sync_user_changes              *)
(*   backend/app/data/repositories          AbstractRepository.update      *)
(* The row is written first and the account in Keycloak second, by as many *)
(* requests at once as the user sends.  Names are one field; the phone     *)
(* number is in the row only.                                              *)
(***************************************************************************)
CONSTANTS Emails, Names,
          Updates,  \* slots for updates being handled at the same time
          None      \* a field that was left out, or is NULL

ASSUME ProfileAssumption == None \notin Emails /\ None \notin Names

VARIABLES
  row,      \* the row: email and name
  account,  \* the account in Keycloak: email and name
  update,   \* update[r]: the update r, its next step and what it writes
  mixed,    \* history: updates that shared their time between the two writes
  astray    \* history: the stores may differ: an update failed or was mixed,
            \* and none has gone through by itself since

profileVars == <<row, account, update, mixed, astray>>

Profiles == [email : Emails, name : Names \union {None}]
Partial == [email : Emails \union {None}, name : Names \union {None}]
NoUpdate == [step |-> "idle", data |-> [email |-> None, name |-> None]]

\* auth_token_callback made the row with the email of the account and no name.
ProfileInit == /\ account \in Profiles
               /\ row = [email |-> account.email, name |-> None]
               /\ update = [r \in Updates |-> NoUpdate]
               /\ mixed = {}
               /\ astray = FALSE

Written == {r \in Updates : update[r].step = "sync"}   \* between its two writes
EndUpdate(r) == update' = [update EXCEPT ![r] = NoUpdate] /\ mixed' = mixed \ {r}

UpdateBegin(r, data) ==
    /\ update[r].step = "idle"
    /\ update' = [update EXCEPT ![r] = [step |-> "write", data |-> data]]
    /\ UNCHANGED <<row, account, mixed, astray>>

\* Mutant: the fields that were left out are not written to the row, but the
\* email is required no more.
UpdateRowAnyway(r) ==
    /\ update[r].step = "write"
    /\ row' = [row EXCEPT !.name = update[r].data.name]
    /\ update' = [update EXCEPT ![r].step = "sync"]
    /\ mixed' = IF Written = {} THEN mixed ELSE mixed \union Written \union {r}
    /\ UNCHANGED <<account, astray>>

\* mcc_users.update writes every field, the ones that were left out too.  The
\* email must not be NULL: nothing is written then, and the request fails.
UpdateRow(r) ==
    /\ update[r].step = "write"
    /\ IF update[r].data.email = None
       THEN EndUpdate(r) /\ UNCHANGED row
       ELSE /\ row' = update[r].data
            /\ update' = [update EXCEPT ![r].step = "sync"]
            /\ mixed' = IF Written = {} THEN mixed ELSE mixed \union Written \union {r}
    /\ UNCHANGED <<account, astray>>

\* What Keycloak makes of a payload: a field that is null is cleared or left.
Synced(data) == {a \in Profiles : /\ a.email = data.email
                                  /\ data.name # None => a.name = data.name
                                  /\ data.name = None => a.name \in {None, account.name}}

\* sync_user_changes.  A failing call, which may have taken effect, fails the
\* request and leaves the row as it is.
UpdateSync(r) ==
    /\ update[r].step = "sync"
    /\ \/ account' \in Synced(update[r].data) /\ astray' = (r \in mixed)
       \/ account' \in Synced(update[r].data) \union {account} /\ astray' = TRUE
    /\ EndUpdate(r)
    /\ UNCHANGED row

\* The handler ends before its next write.
UpdateAbort(r) ==
    /\ update[r].step # "idle"
    /\ astray' = (astray \/ r \in Written)
    /\ EndUpdate(r)
    /\ UNCHANGED <<row, account>>

ProfileNext == \E r \in Updates : \/ \E data \in Partial : UpdateBegin(r, data)
                                  \/ UpdateRow(r) \/ UpdateSync(r) \/ UpdateAbort(r)

ProfileSpec == ProfileInit /\ [][ProfileNext]_profileVars

-----------------------------------------------------------------------------
(* Properties *)

\* Between updates the stores agree about the email, and about the name if the
\* row has one, unless the last update failed after its first write or shared
\* its time with another: one that goes through by itself mends what those did.
StoresAgree ==
    Written = {} /\ ~astray =>
       /\ row.email = account.email
       /\ row.name # None => row.name = account.name
=============================================================================
