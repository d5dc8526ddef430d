------------------------------ MODULE MccAdmin ------------------------------
(***************************************************************************)
(* The users and admins of mission control, kept in two stores:            *)
(*   backend/app/api/mcc/routes/admin.py    request and decide             *)
(*   backend/app/api/mcc/routes/users.py    delete_me                      *)
(*   backend/app/api/mcc/routes/auth.py     the login callback             *)
(*   backend/app/mcc_keycloak/client.py     the calls to Keycloak          *)
(*                                                                         *)
(* The users_data row of a user, with its admin_request_status, is in      *)
(* Postgres, the account and the membership of the admin group in          *)
(* Keycloak.  No transaction spans both: a handler is a sequence of        *)
(* database transactions and Keycloak calls, and the handlers of           *)
(* concurrent requests interleave between them.  The role a handler trusts *)
(* is the one in the access token, as of the login.  The profile fields    *)
(* (update_me) bear on none of this and are in MccProfile.                 *)
(***************************************************************************)
EXTENDS FiniteSets

CONSTANTS Users,     \* people with a Keycloak account at the start
          Admins,    \* those whom an operator put into the admin group by hand
          Requests,  \* slots for requests being handled at the same time
          NoUser,
          Faults     \* what may go wrong in this instance, of Kinds

Kinds == {"keycloak",  \* a call fails, before or after it took effect
          "crash"}     \* a handler dies between two of its steps

ASSUME AdminAssumption == /\ Admins \subseteq Users /\ NoUser \notin Users
                          /\ Faults \subseteq Kinds

VARIABLES
  status,    \* status[u]: admin_request_status, absent when there is no row
  accounts,  \* users with a Keycloak account
  group,     \* members of the admin group in Keycloak
  tokens,    \* access tokens in cookies: <<user, role>>
  pc,        \* pc[r]: the next step of request r
  subject,   \* subject[r]: the user it acts on
  choice,    \* choice[r]: the decision or the role it carries
  asked      \* history: users who asked for admin access

directory == <<accounts, group>>
slots == <<pc, subject, choice>>
vars == <<status, accounts, group, tokens, pc, subject, choice, asked>>

Statuses == {"not_requested", "pending", "approved", "rejected"}
Decisions == {"approved", "rejected"}
Steps == {"idle", "provision", "request", "decide", "grant", "record",
          "delete", "sync_deletion"}
Roles == {"admin", "member"}  \* what an access token says of its bearer
Nothing == "nothing"
Choices == Decisions \union Roles \union {Nothing}

Init == /\ status = [u \in Users |-> "absent"]
        /\ accounts = Users
        /\ group = Admins
        /\ tokens = {}
        /\ pc = [r \in Requests |-> "idle"]
        /\ subject = [r \in Requests |-> NoUser]
        /\ choice = [r \in Requests |-> Nothing]
        /\ asked = {}

-----------------------------------------------------------------------------
(* Control of a request slot *)

Begin(r, s, u, c) == /\ pc[r] = "idle"
                     /\ pc' = [pc EXCEPT ![r] = s]
                     /\ subject' = [subject EXCEPT ![r] = u]
                     /\ choice' = [choice EXCEPT ![r] = c]

Goto(r, s) == pc' = [pc EXCEPT ![r] = s] /\ UNCHANGED <<subject, choice>>

\* The handler answers or raises.
Finish(r) == /\ pc' = [pc EXCEPT ![r] = "idle"]
             /\ subject' = [subject EXCEPT ![r] = NoUser]
             /\ choice' = [choice EXCEPT ![r] = Nothing]

Row(u) == status[u] # "absent"

\* get_current_user: a token of u verifies without Keycloak, and u has a row.
SignedIn(u) == (\E role \in Roles : <<u, role>> \in tokens) /\ Row(u)

\* get_current_admin: the token says that u has the role.
SignedInAsAdmin(u) == <<u, "admin">> \in tokens /\ Row(u)

-----------------------------------------------------------------------------
(* GET /callback *)

\* get_tokens: Keycloak exchanges the code for tokens that carry the role of now.
Exchange(r, u) ==
    /\ u \in accounts
    /\ Begin(r, "provision", u, IF u \in group THEN "admin" ELSE "member")
    /\ UNCHANGED <<status, directory, tokens, asked>>

\* The row is created unless it exists (IntegrityError), and the cookies are set.
Provision(r) ==
    /\ pc[r] = "provision"
    /\ LET u == subject[r] IN
       /\ status' = [status EXCEPT ![u] = IF Row(u) THEN @ ELSE "not_requested"]
       /\ tokens' = tokens \union {<<u, choice[r]>>}
    /\ Finish(r)
    /\ UNCHANGED <<directory, asked>>

\* A token expires, or the browser drops its cookie at the logout.
Forget(t) == /\ t \in tokens
             /\ tokens' = tokens \ {t}
             /\ UNCHANGED <<status, directory, slots, asked>>

-----------------------------------------------------------------------------
(* POST /request-access *)

RequestRead(r, u) ==
    /\ SignedIn(u) /\ status[u] = "not_requested"
    /\ Begin(r, "request", u, Nothing)
    /\ UNCHANGED <<status, directory, tokens, asked>>

\* Mutant: update inserts a row that is gone.
RequestWriteUpsert(r) ==
    /\ pc[r] = "request"
    /\ status' = [status EXCEPT ![subject[r]] = "pending"]
    /\ asked' = asked \union {subject[r]}
    /\ Finish(r)
    /\ UNCHANGED <<directory, tokens>>

\* mcc_users.update, which raises when the row is gone.
RequestWrite(r) ==
    /\ pc[r] = "request"
    /\ LET u == subject[r] IN
       /\ status' = [status EXCEPT ![u] = IF Row(u) THEN "pending" ELSE @]
       /\ asked' = IF Row(u) THEN asked \union {u} ELSE asked
    /\ Finish(r)
    /\ UNCHANGED <<directory, tokens>>

-----------------------------------------------------------------------------
(* PATCH /applicants/{user_id} *)

\* The caller is an admin, by its token.
DecideAuthorise(r, u, d) ==
    /\ \E admin \in Users : SignedInAsAdmin(admin)
    /\ Begin(r, "decide", u, d)
    /\ UNCHANGED <<status, directory, tokens, asked>>

\* Mutant: the status is not checked.
DecideReadAny(r) ==
    /\ pc[r] = "decide"
    /\ IF ~Row(subject[r]) THEN Finish(r)
       ELSE Goto(r, IF choice[r] = "approved" THEN "grant" ELSE "record")
    /\ UNCHANGED <<status, directory, tokens, asked>>

\* The target is read: a request that is not pending is a conflict.
DecideRead(r) ==
    /\ pc[r] = "decide"
    /\ IF status[subject[r]] # "pending" THEN Finish(r)
       ELSE Goto(r, IF choice[r] = "approved" THEN "grant" ELSE "record")
    /\ UNCHANGED <<status, directory, tokens, asked>>

\* Mutant: a failure of Keycloak is swallowed.
GrantIgnoresFailure(r) ==
    /\ pc[r] = "grant"
    /\ group' \in {group, group \union ({subject[r]} \intersect accounts)}
    /\ Goto(r, "record")
    /\ UNCHANGED <<status, accounts, tokens, asked>>

\* grant_mcc_admin.  It fails for an account that is gone, and when the call
\* does, possibly after it took effect.
Grant(r) ==
    /\ pc[r] = "grant"
    /\ LET u == subject[r]
           granted == group \union {u} IN
       \/ u \in accounts /\ group' = granted /\ Goto(r, "record")
       \/ u \notin accounts /\ group' = group /\ Finish(r)
       \/ /\ u \in accounts /\ "keycloak" \in Faults
          /\ group' \in {group, granted} /\ Finish(r)
    /\ UNCHANGED <<status, accounts, tokens, asked>>

\* The decision is written, whatever the status is by now.
Record(r) ==
    /\ pc[r] = "record"
    /\ status' = [status EXCEPT ![subject[r]] = IF Row(subject[r]) THEN choice[r] ELSE @]
    /\ Finish(r)
    /\ UNCHANGED <<directory, tokens, asked>>

-----------------------------------------------------------------------------
(* DELETE /me *)

DeleteBegin(r, u) ==
    /\ SignedIn(u)
    /\ Begin(r, "delete", u, Nothing)
    /\ UNCHANGED <<status, directory, tokens, asked>>

DeleteRow(r) ==
    /\ pc[r] = "delete"
    /\ LET u == subject[r] IN
       IF Row(u) THEN /\ status' = [status EXCEPT ![u] = "absent"]
                      /\ Goto(r, "sync_deletion")
       ELSE UNCHANGED status /\ Finish(r)
    /\ UNCHANGED <<directory, tokens, asked>>

\* sync_user_deletion: the account goes, and its membership with it.
DeleteSync(r) ==
    /\ pc[r] = "sync_deletion"
    /\ LET u == subject[r] IN
       \/ accounts' = accounts \ {u} /\ group' = group \ {u}
       \/ "keycloak" \in Faults /\ UNCHANGED <<accounts, group>>
    /\ Finish(r)
    /\ UNCHANGED <<status, tokens, asked>>

-----------------------------------------------------------------------------

\* A handler dies before its next step.
Abort(r) == /\ "crash" \in Faults /\ pc[r] # "idle"
            /\ Finish(r)
            /\ UNCHANGED <<status, directory, tokens, asked>>

Step(r) == \/ Provision(r) \/ RequestWrite(r)
           \/ DecideRead(r) \/ Grant(r) \/ Record(r)
           \/ DeleteRow(r) \/ DeleteSync(r) \/ Abort(r)

Next == \/ \E r \in Requests, u \in Users :
              \/ Exchange(r, u) \/ RequestRead(r, u) \/ DeleteBegin(r, u)
              \/ \E d \in Decisions : DecideAuthorise(r, u, d)
        \/ \E r \in Requests : Step(r)
        \/ \E t \in tokens : Forget(t)

Spec == Init /\ [][Next]_vars

-----------------------------------------------------------------------------
(* Properties *)

\* The variables stay in their ranges, and every request under way has a user
\* and carries what its step needs.
TypeOK ==
    /\ status \in [Users -> Statuses \union {"absent"}]
    /\ group \subseteq accounts /\ accounts \subseteq Users
    /\ tokens \subseteq Users \X Roles
    /\ pc \in [Requests -> Steps]
    /\ subject \in [Requests -> Users \union {NoUser}]
    /\ choice \in [Requests -> Choices]
    /\ asked \subseteq Users
    /\ \A r \in Requests :
          /\ pc[r] # "idle" => subject[r] \in Users
          /\ pc[r] = "provision" => choice[r] \in Roles
          /\ pc[r] \in {"decide", "grant", "record"} => choice[r] \in Decisions
          /\ pc[r] = "grant" => choice[r] = "approved"

\* decide_admin_applicant grants before it writes: whoever is marked approved
\* and still has an account has the role, whatever fails or runs concurrently.
ApprovedIsAdmin ==
    \A u \in accounts : status[u] = "approved" => u \in group

\* Nobody gets the role who did not ask for it.
Solicited == group \subseteq Admins \union asked

\* A deletion is final: once the row and the account are gone and no login is
\* under way, no request that is still running brings the row back.
DeletionIsFinal ==
    [][\A u \in Users : /\ u \notin accounts /\ ~Row(u)
                        /\ \A r \in Requests : pc[r] = "provision" => subject[r] # u
                        => ~Row(u)']_vars
=============================================================================
