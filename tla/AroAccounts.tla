---------------------------- MODULE AroAccounts ----------------------------
(***************************************************************************)
(* The accounts of the ARO backend:                                        *)
(*   backend/app/api/aro/auth/adapter.py   a user is a row of users_data   *)
(*                                         and a row of user_login         *)
(*   backend/app/api/aro/auth/manager.py   the mails of fastapi-users      *)
(*   backend/app/api/aro/routes/user.py    create_user, delete_user        *)
(*                                                                         *)
(* register, forgot-password, reset-password, request-verify-token and     *)
(* verify are routes of the library fastapi_users, which calls the adapter.*)
(* All of them begin by loading a record in two transactions, and those    *)
(* that write do so in later ones; a handler can end between any two.      *)
(* Tokens of sessions are in RefreshTokens, where the login is.            *)
(***************************************************************************)
EXTENDS FiniteSets, Naturals

CONSTANTS Ids,         \* values of users_data.id, each drawn at most once
          Emails,
          MaxHash,     \* bound: password hashes an account has had
          Requests,    \* slots for requests being handled at the same time
          NoId, NoEmail

ASSUME AccountsAssumption == /\ NoId \notin Ids
                             /\ NoEmail \notin Emails
                             /\ MaxHash \in Nat \ {0}

VARIABLES
  users,      \* users[i]: email of the users_data row of i, NoEmail: no row
  login,      \* login[i]: the hash in the user_login row of i, 0: no row.  The
              \* n-th hash of an account is n: hashes are salted, so never equal
  verified,   \* ids whose is_verified is set
  orders,     \* ids that own a row of aro_requests (PictureRequests)
  slot,       \* slot[r]: the request r, its next step and what it holds
  resetMail,  \* <<i, n>>: reset tokens of account i and its hash n that were mailed
  verifyMail, \* <<i, e>>: verification tokens of account i that were mailed to e
  origin,     \* history: how the row of i came to be
  doomed,     \* history: ids whose deletion has begun
  spent,      \* history: reset tokens with which a password was replaced
  pinned      \* history: ids whose deletion was refused because of aro_requests

rows == <<users, login, verified, orders>>
mails == <<resetMail, verifyMail>>
history == <<origin, doomed, spent, pinned>>
vars == <<users, login, verified, orders, slot, resetMail, verifyMail,
          origin, doomed, spent, pinned>>

ByEmail == {"register", "forgot", "request_verify", "verify"}
Ops == ByEmail \union {"reset"}
Steps == {"idle", "load_user", "load_login", "act", "insert_user", "insert_login",
          "delete_logins", "delete_user"}
Idle == [step |-> "idle", op |-> "none", id |-> NoId, email |-> NoEmail, hash |-> 0]

Holder(e) == {i \in Ids : users[i] = e}      \* rows with the email e
Fresh == {i \in Ids : origin[i] = "unused"}  \* uuid4 draws an id never used

\* Model bound: a request that will draw an id starts only while one is left
\* for it and for those under way.
IdLeft == Cardinality({r \in Requests : slot[r].op = "register"}) < Cardinality(Fresh)

Init == /\ users = [i \in Ids |-> NoEmail]
        /\ login = [i \in Ids |-> 0]
        /\ verified = {}
        /\ orders = {}
        /\ slot = [r \in Requests |-> Idle]
        /\ resetMail = {}
        /\ verifyMail = {}
        /\ origin = [i \in Ids |-> "unused"]
        /\ doomed = {}
        /\ spent = {}
        /\ pinned = {}

-----------------------------------------------------------------------------
(* Control of a request slot. *)

Begin(r, s) == slot[r].step = "idle" /\ slot' = [slot EXCEPT ![r] = s]
Goto(r, s) == slot' = [slot EXCEPT ![r] = s]
Finish(r) == slot' = [slot EXCEPT ![r] = Idle]

\* get_user_by_token: an access token is signed and not stored, so it names i
\* for as long as it lasts; what makes it good is the row of i.  is_active is
\* true in every row: nothing in the code writes it.
GetUserByToken(i) == users[i] # NoEmail

-----------------------------------------------------------------------------
(* Loading a record: AROUserDatabaseAdapter.get and get_by_email. *)

\* A request to one of the library's routes, with an email or a token that was
\* mailed.
Receive(r) ==
    /\ \/ \E e \in Emails, op \in {"register", "forgot", "request_verify"} :
            /\ op = "register" => IdLeft
            /\ Begin(r, [Idle EXCEPT !.step = "load_user", !.op = op, !.email = e])
       \/ \E t \in verifyMail :
            Begin(r, [step |-> "load_user", op |-> "verify", id |-> t[1], email |-> t[2], hash |-> 0])
       \/ \E t \in resetMail :
            Begin(r, [Idle EXCEPT !.step = "load_user", !.op = "reset", !.id = t[1], !.hash = t[2]])
    /\ UNCHANGED <<rows, mails, history>>

\* Mutant: any account that has the address now is the one to verify.
RefusesVerified(s, i) == s.op \in {"verify", "request_verify"} /\ i \in verified

\* verify refuses an account that is not the one of its token, and both refuse
\* one that is verified.
Refuses(s, i) == \/ s.op = "verify" /\ i # s.id
                 \/ s.op \in {"verify", "request_verify"} /\ i \in verified

\* get_first_by on users_data.  Registering goes on when nothing is found, the
\* others when something is.
LoadUser(r) ==
    LET s == slot[r]
        found == IF s.op = "reset" THEN {i \in {s.id} : users[i] # NoEmail} ELSE Holder(s.email)
    IN  /\ s.step = "load_user"
        /\ \/ /\ found = {}
              /\ IF s.op = "register" THEN Goto(r, [s EXCEPT !.step = "insert_user"]) ELSE Finish(r)
           \/ \E i \in found :
                IF Refuses(s, i) THEN Finish(r)
                ELSE Goto(r, [s EXCEPT !.step = "load_login", !.id = i])
        /\ UNCHANGED <<rows, mails, history>>

\* _load: the login row of that user.  Without one the record is None, as if
\* there were no user.
LoadLogin(r) ==
    LET s == slot[r] IN
    /\ s.step = "load_login"
    /\ IF s.op = "register"
       THEN IF login[s.id] = 0
            THEN Goto(r, [s EXCEPT !.step = "insert_user", !.id = NoId])
            ELSE Finish(r)
       ELSE IF login[s.id] = 0 \/ (s.op = "reset" /\ login[s.id] # s.hash)
            THEN Finish(r)
            ELSE Goto(r, [s EXCEPT !.step = "act", !.hash = IF s.op = "forgot" THEN login[s.id] ELSE @])
    /\ UNCHANGED <<rows, mails, history>>

-----------------------------------------------------------------------------
(* POST /register: AROUserDatabaseAdapter.create *)

\* INSERT INTO users_data, which the unique email refuses when another row has
\* it.
InsertUserRow(i, e) == /\ Holder(e) = {}
                       /\ users' = [users EXCEPT ![i] = e]

\* Mutant: the migration has lost the unique constraint.
InsertUserTwice(r) ==
    /\ slot[r].step = "insert_user"
    /\ \E i \in Fresh :
         /\ users' = [users EXCEPT ![i] = slot[r].email]
         /\ origin' = [origin EXCEPT ![i] = "registering"]
         /\ Goto(r, [slot[r] EXCEPT !.step = "insert_login", !.id = i])
    /\ UNCHANGED <<login, verified, orders, mails, doomed, spent, pinned>>

InsertUser(r) ==
    /\ slot[r].step = "insert_user"
    /\ \/ \E i \in Fresh :
            /\ InsertUserRow(i, slot[r].email)
            /\ origin' = [origin EXCEPT ![i] = "registering"]
            /\ Goto(r, [slot[r] EXCEPT !.step = "insert_login", !.id = i])
       \/ /\ Holder(slot[r].email) # {}
          /\ Finish(r)
          /\ UNCHANGED <<users, origin>>
    /\ UNCHANGED <<login, verified, orders, mails, doomed, spent, pinned>>

\* Mutant: create answers with the record although the second insert failed.
InsertLoginUnchecked(r) ==
    LET i == slot[r].id IN
    /\ slot[r].step = "insert_login"
    /\ login' \in {login, [login EXCEPT ![i] = IF users[i] = NoEmail THEN 0 ELSE 1]}
    /\ origin' = [origin EXCEPT ![i] = "answered"]
    /\ Finish(r)
    /\ UNCHANGED <<users, verified, orders, mails, doomed, spent, pinned>>

\* Mutant: user_login has no foreign key.
InsertLoginNoForeignKey(r) ==
    LET i == slot[r].id IN
    /\ slot[r].step = "insert_login"
    /\ login' = [login EXCEPT ![i] = 1]
    /\ origin' = [origin EXCEPT ![i] = "answered"]
    /\ Finish(r)
    /\ UNCHANGED <<users, verified, orders, mails, doomed, spent, pinned>>

\* INSERT INTO user_login.  The foreign key refuses it when the row of the user
\* was deleted since; its own unique columns cannot, as the id is new and every
\* other login row belongs to a user with another email.
InsertLogin(r) ==
    LET i == slot[r].id IN
    /\ slot[r].step = "insert_login"
    /\ \/ /\ users[i] # NoEmail
          /\ login' = [login EXCEPT ![i] = 1]
          /\ origin' = [origin EXCEPT ![i] = "answered"]
       \/ /\ users[i] = NoEmail
          /\ UNCHANGED <<login, origin>>
    /\ Finish(r)
    /\ UNCHANGED <<users, verified, orders, mails, doomed, spent, pinned>>

-----------------------------------------------------------------------------
(* The mails, and the tokens that come back. *)

\* send: the mail goes out or is lost, and send_many swallows what goes wrong.
Mailed(box, token) == {box, box \union {token}}

\* on_after_forgot_password: the token goes to the address of the record.
SendReset(r) ==
    LET s == slot[r] IN
    /\ s.step = "act" /\ s.op = "forgot"
    /\ resetMail' \in Mailed(resetMail, <<s.id, s.hash>>)
    /\ Finish(r)
    /\ UNCHANGED <<rows, verifyMail, history>>

\* on_after_request_verify, send_verification_email
SendVerification(r) ==
    LET s == slot[r] IN
    /\ s.step = "act" /\ s.op = "request_verify"
    /\ verifyMail' \in Mailed(verifyMail, <<s.id, s.email>>)
    /\ Finish(r)
    /\ UNCHANGED <<rows, resetMail, history>>

SendToken(r) == SendReset(r) \/ SendVerification(r)

\* Mutant: hashed_password is popped from the update and written nowhere.
UpdateDropsPassword(r) ==
    LET s == slot[r] IN
    /\ s.step = "act"
    /\ \/ /\ s.op = "reset"
          /\ spent' = spent \union {<<s.id, s.hash>>}
          /\ UNCHANGED <<login, verified>>
       \/ /\ s.op = "verify"
          /\ verified' = IF users[s.id] = NoEmail THEN verified ELSE verified \union {s.id}
          /\ UNCHANGED <<login, spent>>
    /\ Finish(r)
    /\ UNCHANGED <<users, orders, mails, origin, doomed, pinned>>

\* AROUserDatabaseAdapter.update: hashed_password goes to the login row and
\* is_verified to the row of the user.  A row deleted since raises.
Update(r) ==
    LET s == slot[r] IN
    /\ s.step = "act"
    /\ \/ /\ s.op = "reset"
          /\ \/ /\ login[s.id] # 0 /\ login[s.id] < MaxHash
                /\ login' = [login EXCEPT ![s.id] = @ + 1]
                /\ spent' = spent \union {<<s.id, s.hash>>}
             \/ login[s.id] = 0 /\ UNCHANGED <<login, spent>>
          /\ UNCHANGED verified
       \/ /\ s.op = "verify"
          /\ verified' = IF users[s.id] = NoEmail THEN verified ELSE verified \union {s.id}
          /\ UNCHANGED <<login, spent>>
    /\ Finish(r)
    /\ UNCHANGED <<users, orders, mails, origin, doomed, pinned>>

-----------------------------------------------------------------------------
(* The superuser's routes, and the rows of aro_requests.  The superuser is an *)
(* account of the operators, which is not among Ids.                          *)

\* POST /create_user: a row of users_data without a login row.
CreateUser ==
    /\ \E i \in Fresh, e \in Emails :
         /\ InsertUserRow(i, e)
         /\ origin' = [origin EXCEPT ![i] = "created"]
    /\ IdLeft
    /\ UNCHANGED <<login, verified, orders, slot, mails, doomed, spent, pinned>>

\* DELETE /delete_user: the tokens go first (RefreshTokens), also when there is
\* no such user.
DeleteTokens(r, i) ==
    /\ users[i] # NoEmail
    /\ Begin(r, [Idle EXCEPT !.step = "delete_logins", !.op = "delete", !.id = i])
    /\ UNCHANGED <<rows, mails, history>>

DeleteLogins(r) ==
    /\ slot[r].step = "delete_logins"
    /\ login' = [login EXCEPT ![slot[r].id] = 0]
    /\ doomed' = doomed \union {slot[r].id}
    /\ Goto(r, [slot[r] EXCEPT !.step = "delete_user"])
    /\ UNCHANGED <<users, verified, orders, mails, origin, spent, pinned>>

\* A row of aro_requests keeps its user from being deleted: its foreign key is
\* declared with ON DELETE SET NULL on a column that is NOT NULL.
Ordered(i) == i \in orders

\* delete_by_id: raises when the row is gone, and is refused while a login row
\* refers to it.
DeleteUser(r) ==
    LET i == slot[r].id IN
    /\ slot[r].step = "delete_user"
    /\ IF login[i] # 0 \/ Ordered(i)
       THEN UNCHANGED <<users, verified>>
       ELSE /\ users' = [users EXCEPT ![i] = NoEmail]
            /\ verified' = verified \ {i}
    /\ pinned' = IF Ordered(i) THEN pinned \union {i} ELSE pinned
    /\ Finish(r)
    /\ UNCHANGED <<login, orders, mails, origin, doomed, spent>>

\* create_picture_request and delete_picture_request (PictureRequests), of which
\* what matters here is whether i owns a row.
Order(i) ==
    /\ GetUserByToken(i)
    /\ i \notin orders
    /\ orders' = orders \union {i}
    /\ UNCHANGED <<users, login, verified, slot, mails, history>>

Withdraw(i) ==
    /\ GetUserByToken(i)
    /\ i \in orders
    /\ orders' = orders \ {i}
    /\ UNCHANGED <<users, login, verified, slot, mails, history>>

\* The handler ends between two transactions: a lost connection, a restart.
Abort(r) ==
    /\ slot[r].step # "idle"
    /\ origin' = IF slot[r].step = "insert_login"
                 THEN [origin EXCEPT ![slot[r].id] = "cut"] ELSE origin
    /\ Finish(r)
    /\ UNCHANGED <<rows, mails, doomed, spent, pinned>>

Handle(r) == \/ Receive(r) \/ LoadUser(r) \/ LoadLogin(r)
             \/ InsertUser(r) \/ InsertLogin(r)
             \/ SendToken(r) \/ Update(r)
             \/ DeleteLogins(r) \/ DeleteUser(r) \/ Abort(r)

Next == \/ \E r \in Requests : Handle(r)
        \/ \E r \in Requests, i \in Ids : DeleteTokens(r, i)
        \/ \E i \in Ids : Order(i) \/ Withdraw(i)
        \/ CreateUser

Spec == Init /\ [][Next]_vars

-----------------------------------------------------------------------------
(* Properties *)

\* The tables hold what the code can put there: a login row refers to a row of
\* users_data, and what a request holds fits its next step.
TypeOK ==
    /\ users \in [Ids -> Emails \union {NoEmail}]
    /\ login \in [Ids -> 0 .. MaxHash]
    /\ verified \subseteq Ids /\ orders \subseteq Ids
    /\ \A i \in Ids : users[i] = NoEmail =>
          login[i] = 0 /\ i \notin verified /\ i \notin orders
    /\ slot \in [Requests -> [step : Steps, op : Ops \union {"none", "delete"},
                             id : Ids \union {NoId}, email : Emails \union {NoEmail},
                             hash : 0 .. MaxHash]]
    /\ resetMail \subseteq Ids \X (1 .. MaxHash)
    /\ verifyMail \subseteq Ids \X Emails
    /\ origin \in [Ids -> {"unused", "registering", "answered", "cut", "created"}]
    /\ doomed \subseteq Ids /\ pinned \subseteq doomed
    /\ spent \subseteq Ids \X (1 .. MaxHash)

\* A registration that was answered made an account that works: its two rows are
\* there, and its email finds it and no other, until its deletion begins -
\* whatever registrations of the same email ran beside it (the check of the
\* library and the two inserts are three transactions).
RegistrationTakes ==
    \A i \in Ids \ doomed : origin[i] = "answered" => login[i] # 0 /\ Holder(users[i]) = {i}

\* An account that is there and cannot log in, whose email nobody can register,
\* is one of four: being registered, cut off between the inserts, created by a
\* superuser, or half deleted.
StrandedHasCause ==
    \A i \in Ids : users[i] # NoEmail /\ login[i] = 0 =>
        \/ i \in doomed
        \/ origin[i] \in {"cut", "created"}
        \/ \E r \in Requests : slot[r].step = "insert_login" /\ slot[r].id = i

\* is_verified says that a token of this very account reached its address: not a
\* token of an account that had the address before it.
VerifiedOwnsMail == \A i \in verified : <<i, users[i]>> \in verifyMail

\* A reset token is not accepted once a password was set with it: only requests
\* whose check came before that share it.
ResetTokenIsSpent ==
    [][\A r \in Requests :
         slot[r].op = "reset" /\ slot[r].step # "act" /\ slot'[r].step = "act"
           => <<slot[r].id, slot[r].hash>> \notin spent]_vars

\* "We want to maintain the request" (transactional_models.py:81): a picture
\* request is no obstacle to the deletion of its owner.
DeletionSparesOrders == pinned = {}
=============================================================================
