--------------------------- MODULE RefreshTokens ---------------------------
(***************************************************************************)
(* The refresh-token sessions of the ARO backend:                          *)
(*   backend/app/api/aro/auth/aro_session.py   issue, rotate, revoke       *)
(*   backend/app/api/aro/routes/auth.py        login, rotate_tokens, logout*)
(*   backend/app/api/aro/routes/user.py        delete_user                 *)
(*   backend/app/data/repositories             the statements they run     *)
(*                                                                         *)
(* Every repository call opens a session of its own and commits it, so a   *)
(* handler is a sequence of transactions and the handlers of concurrent    *)
(* requests interleave between them.  Here a request is a slot with a      *)
(* program counter and each action is one transaction, with the Python     *)
(* around it up to the next await.  A handler can also end between two of  *)
(* its transactions (a database error, a restart of the server): Abort.    *)
(***************************************************************************)
EXTENDS FiniteSets, Naturals

CONSTANTS Users,     \* users_data rows that exist at the start
          Families,  \* values of family_id; a login draws a fresh one
          Tokens,    \* refresh tokens: raw value, hash and row are one identity
          Requests,  \* slots for requests being handled at the same time
          NoToken, NoUser, NoFamily

ASSUME NullAssumption == /\ NoToken \notin Tokens
                         /\ NoUser \notin Users
                         /\ NoFamily \notin Families

VARIABLES
  accounts,  \* users with a row in users_data
  logins,    \* users with a row in user_login
  rows,      \* tokens with a row in auth_tokens
  owner,     \* owner[t]: user_id of t
  family,    \* family[t]: family_id of t
  rotated,   \* rows whose rotated_at is set
  revoked,   \* rows whose revoked_at is set
  expired,   \* rows whose expiry has passed
  pc,        \* pc[r]: the next transaction of request r
  tok,       \* tok[r]: the token request r was sent, then the one it made
  usr,       \* usr[r]: the user request r acts for
  held,      \* tokens whose raw value reached a client
  issued,    \* history: every token a row was ever inserted for
  parent,    \* history: parent[t] is the token whose rotation made t
  shown,     \* history: how often t was sent to rotate_tokens, 2 = twice or more
  alarmed,   \* history: families revoked because of reuse
  loggedOut  \* history: families revoked by a logout

users == <<accounts, logins>>
columns == <<owner, family, parent>>
marks == <<rotated, revoked, expired>>
local == <<tok, usr>>
history == <<shown, alarmed, loggedOut>>
vars == <<accounts, logins, rows, owner, family, rotated, revoked, expired,
          pc, tok, usr, held, issued, parent, shown, alarmed, loggedOut>>

Steps == {"idle", "login_issue", "claim", "rotate_issue", "rotate_user",
          "reuse_revoke", "logout_revoke", "delete_logins", "delete_user"}

\* A row of auth_tokens and what the code asks of it.
Usable(t) == t \in rows \ (rotated \union revoked \union expired)
RowsOf(f) == {t \in rows : family[t] = f}
RowsOwnedBy(u) == {t \in rows : owner[t] = u}
FamiliesUsed == {family[t] : t \in issued}

\* Model bound: a request that will insert a row starts only while the pool of
\* tokens (and, for a login, of families) covers it and those under way.
Awaiting(steps) == {r \in Requests : pc[r] \in steps}
TokenLeft == Cardinality(Awaiting({"login_issue", "claim", "rotate_issue"}))
                 < Cardinality(Tokens \ issued)
FamilyLeft == Cardinality(Awaiting({"login_issue"})) < Cardinality(Families \ FamiliesUsed)

Init == /\ accounts = Users
        /\ logins = Users
        /\ rows = {}
        /\ owner = [t \in Tokens |-> NoUser]
        /\ family = [t \in Tokens |-> NoFamily]
        /\ rotated = {}
        /\ revoked = {}
        /\ expired = {}
        /\ pc = [r \in Requests |-> "idle"]
        /\ tok = [r \in Requests |-> NoToken]
        /\ usr = [r \in Requests |-> NoUser]
        /\ held = {}
        /\ issued = {}
        /\ parent = [t \in Tokens |-> NoToken]
        /\ shown = [t \in Tokens |-> 0]
        /\ alarmed = {}
        /\ loggedOut = {}

-----------------------------------------------------------------------------
(* Control of a request slot. *)

\* A request arrives with the token and user it is about and goes on to step s.
Begin(r, s, t, u) == /\ pc[r] = "idle"
                     /\ pc' = [pc EXCEPT ![r] = s]
                     /\ tok' = [tok EXCEPT ![r] = t]
                     /\ usr' = [usr EXCEPT ![r] = u]

Goto(r, s) == pc' = [pc EXCEPT ![r] = s]

\* The handler returns or raises; the slot forgets what it held.
Finish(r) == /\ pc' = [pc EXCEPT ![r] = "idle"]
             /\ tok' = [tok EXCEPT ![r] = NoToken]
             /\ usr' = [usr EXCEPT ![r] = NoUser]

\* INSERT INTO auth_tokens of a fresh token t (issue_refresh_token).
InsertRow(t, u, f, p) == /\ t \in Tokens \ issued
                         /\ rows' = rows \union {t}
                         /\ issued' = issued \union {t}
                         /\ owner' = [owner EXCEPT ![t] = u]
                         /\ family' = [family EXCEPT ![t] = f]
                         /\ parent' = [parent EXCEPT ![t] = p]

-----------------------------------------------------------------------------
(* POST /login *)

\* user_manager.authenticate: the users_data and the user_login row are read
\* and the password matches.  Without both rows the answer is a 401.
Authenticate(r, u) ==
    /\ TokenLeft /\ FamilyLeft
    /\ u \in accounts \intersect logins
    /\ Begin(r, "login_issue", NoToken, u)
    /\ UNCHANGED <<users, rows, columns, marks, held, issued, history>>

\* Mutant: the family is not drawn afresh, so a login may join another session.
LoginIssueSharedFamily(r) ==
    /\ pc[r] = "login_issue"
    /\ Finish(r)
    /\ usr[r] \in accounts
    /\ \E t \in Tokens, f \in Families :
         /\ InsertRow(t, usr[r], f, NoToken)
         /\ held' = held \union {t}
    /\ UNCHANGED <<users, marks, history>>

\* issue_refresh_token(user.id): a new family.  The foreign key on user_id
\* refuses the row of a user deleted since; the response may get lost.
LoginIssue(r) ==
    /\ pc[r] = "login_issue"
    /\ Finish(r)
    /\ \/ /\ usr[r] \in accounts
          /\ \E t \in Tokens, f \in Families \ FamiliesUsed :
               /\ InsertRow(t, usr[r], f, NoToken)
               /\ held' \in {held, held \union {t}}
       \/ /\ usr[r] \notin accounts
          /\ UNCHANGED <<rows, columns, held, issued>>
    /\ UNCHANGED <<users, marks, history>>

-----------------------------------------------------------------------------
(* POST /rotate_tokens *)

Shown(t) == shown' = [shown EXCEPT ![t] = IF @ < 2 THEN @ + 1 ELSE @]

\* Mutant: every row that is not usable counts as reuse.
RotateReadUnusableIsReuse(r, t) ==
    /\ t \in held \intersect rows
    /\ Shown(t)
    /\ Begin(r, IF Usable(t) THEN "claim" ELSE "reuse_revoke", t, NoUser)
    /\ TokenLeft
    /\ UNCHANGED <<users, rows, columns, marks, held, issued, alarmed, loggedOut>>

\* Mutant: revoked_at is not looked at.
RotateReadRevokedPasses(r, t) ==
    /\ t \in held \intersect (rows \ (rotated \union expired))
    /\ TokenLeft
    /\ Shown(t)
    /\ Begin(r, "claim", t, NoUser)
    /\ UNCHANGED <<users, rows, columns, marks, held, issued, alarmed, loggedOut>>

\* The checks of rotate_refresh_token on the row as it is now.  A rotated row
\* means reuse, a usable one may be claimed, anything else is a 401.
RotateRead(r, t) ==
    /\ t \in held
    /\ Shown(t)
    /\ \/ /\ t \in rows /\ t \in rotated
          /\ Begin(r, "reuse_revoke", t, NoUser)
       \/ /\ Usable(t)
          /\ TokenLeft
          /\ Begin(r, "claim", t, NoUser)
       \/ /\ t \notin rotated /\ ~Usable(t)
          /\ pc[r] = "idle"
          /\ UNCHANGED <<pc, local>>
    /\ UNCHANGED <<users, rows, columns, marks, held, issued, alarmed, loggedOut>>

\* Mutant: the UPDATE lost its "rotated_at IS NULL".
RotateClaimUnconditional(r) ==
    /\ pc[r] = "claim"
    /\ tok[r] \in rows
    /\ rotated' = rotated \union {tok[r]}
    /\ Goto(r, "rotate_issue")
    /\ UNCHANGED <<users, rows, columns, revoked, expired, local, held, issued, history>>

\* Mutant: a row that is gone is claimed all the same (an upsert).
RotateClaimUpsert(r) ==
    /\ pc[r] = "claim"
    /\ tok[r] \notin rotated
    /\ rotated' = rotated \union {tok[r]}
    /\ Goto(r, "rotate_issue")
    /\ UNCHANGED <<users, rows, columns, revoked, expired, local, held, issued, history>>

\* claim_rotation: UPDATE ... SET rotated_at WHERE id = :pk AND rotated_at IS
\* NULL.  It looks at neither revoked_at nor expiry.  No row: 401, no revoke.
RotateClaim(r) ==
    /\ pc[r] = "claim"
    /\ \/ /\ tok[r] \in rows \ rotated
          /\ rotated' = rotated \union {tok[r]}
          /\ Goto(r, "rotate_issue")
          /\ UNCHANGED local
       \/ /\ tok[r] \notin rows \ rotated
          /\ Finish(r)
          /\ UNCHANGED rotated
    /\ UNCHANGED <<users, rows, columns, revoked, expired, held, issued, history>>

\* Mutant: the insert is retried although it was committed.
RotateIssueRetried(r) ==
    /\ pc[r] = "rotate_issue"
    /\ owner[tok[r]] \in accounts
    /\ \E t \in Tokens : InsertRow(t, owner[tok[r]], family[tok[r]], tok[r])
    /\ UNCHANGED <<users, marks, pc, local, held, history>>

\* Mutant: user_id is no foreign key.
RotateIssueNoForeignKey(r) ==
    /\ pc[r] = "rotate_issue"
    /\ \E t \in Tokens :
         /\ InsertRow(t, owner[tok[r]], family[tok[r]], tok[r])
         /\ tok' = [tok EXCEPT ![r] = t]
    /\ Goto(r, "rotate_user")
    /\ UNCHANGED <<users, marks, usr, held, history>>

\* issue_refresh_token(existing.user_id, existing.family_id).
RotateIssue(r) ==
    /\ pc[r] = "rotate_issue"
    /\ \/ /\ owner[tok[r]] \in accounts
          /\ \E t \in Tokens :
               /\ InsertRow(t, owner[tok[r]], family[tok[r]], tok[r])
               /\ tok' = [tok EXCEPT ![r] = t]
          /\ Goto(r, "rotate_user")
          /\ UNCHANGED usr
       \/ /\ owner[tok[r]] \notin accounts
          /\ Finish(r)
          /\ UNCHANGED <<rows, columns, issued>>
    /\ UNCHANGED <<users, marks, held, history>>

\* aro_users.get_by_id raises for a deleted user; otherwise the new token
\* travels back in the cookie, and may get lost on the way.
RotateUser(r) ==
    /\ pc[r] = "rotate_user"
    /\ Finish(r)
    /\ \/ /\ owner[tok[r]] \in accounts
          /\ held' = held \union {tok[r]}
       \/ UNCHANGED held
    /\ UNCHANGED <<users, rows, columns, marks, issued, history>>

-----------------------------------------------------------------------------
(* POST /logout, and the revocation both paths end in *)

\* revoke_token looks the row up; a token without a row is ignored.
LogoutRead(r, t) ==
    /\ t \in held \intersect rows
    /\ Begin(r, "logout_revoke", t, NoUser)
    /\ UNCHANGED <<users, rows, columns, marks, held, issued, history>>

\* revoke_by_family_id: one UPDATE over the rows the family has at this moment.
RevokeFamily(r) ==
    /\ pc[r] \in {"reuse_revoke", "logout_revoke"}
    /\ LET f == family[tok[r]]
       IN /\ revoked' = revoked \union RowsOf(f)
          /\ alarmed' = IF pc[r] = "reuse_revoke" THEN alarmed \union {f} ELSE alarmed
          /\ loggedOut' = IF pc[r] = "logout_revoke" THEN loggedOut \union {f} ELSE loggedOut
    /\ Finish(r)
    /\ UNCHANGED <<users, rows, columns, rotated, expired, held, issued, shown>>

-----------------------------------------------------------------------------
(* DELETE /delete_user/{userid}: three transactions, children first *)

DeleteTokens(r, u) ==
    /\ Begin(r, "delete_logins", NoToken, u)
    /\ rows' = rows \ RowsOwnedBy(u)
    /\ rotated' = rotated \ RowsOwnedBy(u)
    /\ revoked' = revoked \ RowsOwnedBy(u)
    /\ expired' = expired \ RowsOwnedBy(u)
    /\ UNCHANGED <<users, columns, held, issued, history>>

DeleteLogins(r) ==
    /\ pc[r] = "delete_logins"
    /\ logins' = logins \ {usr[r]}
    /\ Goto(r, "delete_user")
    /\ UNCHANGED <<accounts, rows, columns, marks, local, held, issued, history>>

\* The foreign keys refuse to delete a user whom a row still references, and a
\* user who is gone already raises ValueError: the request fails either way.
DeleteUser(r) ==
    /\ pc[r] = "delete_user"
    /\ Finish(r)
    /\ accounts' = IF RowsOwnedBy(usr[r]) = {} /\ usr[r] \notin logins
                   THEN accounts \ {usr[r]} ELSE accounts
    /\ UNCHANGED <<logins, rows, columns, marks, held, issued, history>>

-----------------------------------------------------------------------------
(* The environment *)

\* Time passes the expiry of a row.  A child is issued after its parent and
\* every token lives equally long, so the parent's expiry is never the later.
Expire(t) ==
    /\ t \in rows \ expired
    /\ parent[t] \notin rows \ expired
    /\ expired' = expired \union {t}
    /\ UNCHANGED <<users, rows, columns, rotated, revoked, pc, local, held, issued, history>>

\* The handler dies before its next transaction.
Abort(r) ==
    /\ pc[r] # "idle"
    /\ Finish(r)
    /\ UNCHANGED <<users, rows, columns, marks, held, issued, history>>

Next ==
    \/ \E r \in Requests, u \in Users : Authenticate(r, u) \/ DeleteTokens(r, u)
    \/ \E r \in Requests, t \in Tokens : RotateRead(r, t) \/ LogoutRead(r, t)
    \/ \E r \in Requests : \/ LoginIssue(r)
                           \/ RotateClaim(r)
                           \/ RotateIssue(r)
                           \/ RotateUser(r)
                           \/ RevokeFamily(r)
                           \/ DeleteLogins(r)
                           \/ DeleteUser(r)
                           \/ Abort(r)
    \/ \E t \in Tokens : Expire(t)

Spec == Init /\ [][Next]_vars

-----------------------------------------------------------------------------
(* Properties *)

\* The variables stay in their ranges, and the marks are columns of rows that
\* exist: no statement of the repositories writes to a row that is gone.
TypeOK ==
    /\ accounts \subseteq Users /\ logins \subseteq Users
    /\ rows \subseteq issued /\ held \subseteq issued /\ issued \subseteq Tokens
    /\ rotated \subseteq rows /\ revoked \subseteq rows /\ expired \subseteq rows
    /\ owner \in [Tokens -> Users \union {NoUser}]
    /\ family \in [Tokens -> Families \union {NoFamily}]
    /\ parent \in [Tokens -> Tokens \union {NoToken}]
    /\ pc \in [Requests -> Steps]
    /\ tok \in [Requests -> Tokens \union {NoToken}]
    /\ usr \in [Requests -> Users \union {NoUser}]
    /\ shown \in [Tokens -> 0..2]
    /\ alarmed \subseteq Families /\ loggedOut \subseteq Families

\* A session is a chain, never a tree: however many requests present the same
\* token at once, at most one of them gets a successor for it.
NoFork ==
    \A t1, t2 \in issued :
        parent[t1] = parent[t2] /\ parent[t1] # NoToken => t1 = t2

\* A family never has two rows that are not yet rotated, and while a claimed
\* rotation has not inserted its successor it has none (claim_rotation is what
\* decides between racing requests).
OneUnrotated ==
    /\ \A t1, t2 \in rows \ rotated : family[t1] = family[t2] => t1 = t2
    /\ \A r \in Requests : pc[r] = "rotate_issue" =>
           RowsOf(family[tok[r]]) \subseteq rotated

\* Every token of a family belongs to the user who logged in.
OneOwner ==
    \A t1, t2 \in issued : family[t1] = family[t2] => owner[t1] = owner[t2]

\* The reuse alarm never goes off by itself: a family is revoked as stolen only
\* if one of its tokens really was presented twice.
NoFalseAlarm ==
    \A f \in alarmed : \E t \in issued : family[t] = f /\ shown[t] = 2

\* Nobody keeps a session of an account that no longer exists, and nobody has a
\* login row without an account, although the deletion is three transactions.
NoOrphans ==
    /\ \A t \in rows : owner[t] \in accounts
    /\ logins \subseteq accounts

\* What revoke_family and revoke_token promise: "Invalidate every refresh token
\* descended from one login".  After it ran, no token of the family is usable.
RevokeKillsDescendants ==
    \A t \in issued : Usable(t) => family[t] \notin alarmed \union loggedOut

-----------------------------------------------------------------------------
(* What the proofs need besides: the parts of the inductive invariant *)

\* Rows name a user and a family, and a request past its first read works on a
\* token that has been issued, or for a user.
TokensKnown ==
    /\ \A t \in issued : owner[t] \in Users /\ family[t] \in Families
    /\ \A r \in Requests :
         /\ pc[r] \in {"claim", "rotate_issue", "rotate_user", "reuse_revoke", "logout_revoke"}
              => tok[r] \in issued
         /\ pc[r] \in {"login_issue", "delete_logins", "delete_user"} => usr[r] \in Users

\* The parent of a token was issued before it.
ParentsIssued == \A t \in issued : parent[t] \in issued \union {NoToken}

\* A token has no successor before its rotation is claimed, nor between the
\* claim and the insert of that rotation.
UnspentChildless ==
    \A c \in issued :
        /\ parent[c] \notin rows \ rotated
        /\ \A r \in Requests : pc[r] = "rotate_issue" => parent[c] # tok[r]

\* At most one request at a time is between the claim and the insert of a family.
OneRotation ==
    \A r1, r2 \in Requests :
        /\ pc[r1] = "rotate_issue" /\ pc[r2] = "rotate_issue"
        /\ family[tok[r1]] = family[tok[r2]]
        => r1 = r2

\* Sessions are chains: NoFork and OneUnrotated with what keeps them true.
ChainInv == /\ NoFork /\ OneUnrotated
            /\ TokensKnown /\ ParentsIssued
            /\ UnspentChildless /\ OneRotation

\* The alarm is justified, with what the code relies on for it: a rotated row
\* was presented before, and a reuse was noticed at the second presentation.
AlarmInv ==
    /\ NoFalseAlarm
    /\ \A t \in rotated : shown[t] # 0
    /\ \A r \in Requests :
          /\ pc[r] = "claim" => shown[tok[r]] # 0
          /\ pc[r] = "reuse_revoke" => shown[tok[r]] = 2

-----------------------------------------------------------------------------
(* The sessions the table implements *)

UsableIn(f) == {t \in RowsOf(f) : Usable(t)}
Rotating(f) == \E r \in Requests :
                   pc[r] \in {"claim", "rotate_issue"} /\ family[tok[r]] = f

PhaseOf(f) == CASE f \notin FamiliesUsed -> "unborn"
                [] UsableIn(f) # {} -> "open"
                [] UsableIn(f) = {} /\ Rotating(f) -> "renewing"
                [] OTHER -> "dead"

Session == INSTANCE AuthSession WITH
    phase <- [f \in Families |-> PhaseOf(f)],
    current <- [f \in Families |-> IF UsableIn(f) = {} THEN NoToken
                                   ELSE CHOOSE t \in UsableIn(f) : TRUE],
    spent <- issued

\* Every login behaves as an AuthSession.  In particular a family without a
\* usable token and without a rotation past its checks is dead for good, and a
\* token that stopped being the current one never becomes it again.
ImplementsSession == Session!SessionSpec
=============================================================================
