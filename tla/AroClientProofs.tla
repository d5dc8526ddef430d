---------------------------- MODULE AroClientProofs ----------------------------
(***************************************************************************)
(* Proofs about AroClient: any number of tabs, calls, requests and users in*)
(* front of the token server, and one tab where the properties are of one. *)
(***************************************************************************)
EXTENDS AroClient, RefreshTokensProofs

USE DEF users, columns, marks, local, history

-----------------------------------------------------------------------------
(* The parts of the inductive invariant. *)

Maybe == Tokens \union {NoToken}

ReqTypes == [kind : {"none", "login", "rotate", "logout"}, tab : Tabs \union {NoTab},
             at : {"free", "sent", "serving", "answered", "body"}, ok : BOOLEAN, token : Maybe]

CallTypes == [at : {"idle", "out", "last", "denied", "restoring", "renewing", "checking"},
              sent : Maybe]

ClientTypes == /\ cookie \in Maybe
               /\ store \in [Tabs -> Maybe]
               /\ req \in [Requests -> ReqTypes]
               /\ refreshInFlight \in [Tabs -> BOOLEAN]
               /\ call \in [Tabs \X Calls -> CallTypes]
               /\ severed \in BOOLEAN

RotateSteps == {"claim", "rotate_issue", "rotate_user", "reuse_revoke"}

\* A handler runs for a request that is served, and for what that request is.
Slots == \A r \in Requests :
            /\ req[r].kind = "none" => req[r] = Free
            /\ req[r].at = "free" => req[r].kind = "none"
            /\ req[r].at = "serving" <=> pc[r] # "idle"
            /\ pc[r] = "login_issue" => req[r].kind = "login"
            /\ pc[r] \in RotateSteps => req[r].kind = "rotate"
            /\ pc[r] = "logout_revoke" => req[r].kind = "logout"
            /\ pc[r] \notin {"delete_logins", "delete_user"}

Refreshes(r, p) == req[r].kind = "rotate" /\ req[r].tab = p

\* A tab has one rotation under way at most.
OneRefresh == \A p \in Tabs : \A r1, r2 \in Requests :
                 Refreshes(r1, p) /\ Refreshes(r2, p) => r1 = r2

\* Requests with a token that the browser has not seen.
Brings(r) == req[r].kind # "logout" /\ req[r].at = "answered"

\* What is sent has been handed out, and so has what was rotated; a token that
\* is being made has not.
HandedOut ==
    /\ cookie \in held \union {NoToken} /\ rotated \subseteq held
    /\ \A r \in Requests : /\ req[r].token \in held \union {NoToken}
                           /\ pc[r] = "claim" => tok[r] \in held
                           /\ req[r].kind = "logout" /\ req[r].at = "answered"
                                => req[r].token = NoToken
                           /\ pc[r] = "rotate_user" => tok[r] \notin held

\* A token that is on its way to the browser is nowhere else.
Unseen ==
    \A r \in Requests : Brings(r) =>
       /\ req[r].token \in held \ rotated /\ req[r].token # cookie
       /\ \A q \in Requests \ {r} :
             /\ req[q].at \in {"sent", "answered"} => req[q].token # req[r].token
             /\ pc[q] = "claim" => tok[q] # req[r].token

\* The cookie is spent only while its successor is on its way.
Succession ==
    /\ \A r \in Requests : req[r].kind = "rotate" =>
          /\ req[r].tab = NoTab => req[r].at = "body"
          /\ req[r].at = "sent" => req[r].token \notin rotated
    /\ cookie \in rotated => \E r \in Requests :
          /\ req[r].kind = "rotate"
          /\ req[r].at = "answered" \/ pc[r] \in {"rotate_issue", "rotate_user"}

NoAlarm == alarmed = {} /\ \A r \in Requests : pc[r] # "reuse_revoke"

Sound == HandedOut /\ Unseen /\ Succession /\ NoAlarm
Unsevered == severed \/ Sound

\* Nothing deletes a row, and what is revoked was given up or thought stolen.
RowsKept == rows = issued /\ \A t \in revoked : family[t] \in alarmed \union loggedOut

-----------------------------------------------------------------------------
(* The clients run on the server *)

\* A step of a client is one transaction of the server or none.
LEMMA ClientStepOfServer == Types /\ [ClientNext]_allVars => [Next]_vars
<1> SUFFICES ASSUME Types, [ClientNext]_allVars PROVE Next \/ UNCHANGED vars
  OBVIOUS
<1>1. ASSUME NEW r \in Requests, Serve(r) PROVE Next \/ UNCHANGED vars
  <2>1. ASSUME NEW u \in Users, Authenticate(r, u) PROVE Next
    BY <2>1 DEF Next
  <2>2. CASE RotateRead(r, req[r].token)
    <3>1. req[r].token \in Tokens
      BY <2>2 DEF RotateRead, Types, TypeOK
    <3> QED BY <2>2, <3>1 DEF Next
  <2>3. CASE LogoutRead(r, req[r].token)
    <3>1. req[r].token \in Tokens
      BY <2>3 DEF LogoutRead, Types, TypeOK
    <3> QED BY <2>3, <3>1 DEF Next
  <2> QED BY <1>1, <2>1, <2>2, <2>3 DEF Serve
<1>2. ASSUME NEW r \in Requests, Work(r) PROVE Next
  BY <1>2 DEF Work, Next
<1>3. ASSUME NEW r \in Requests, Lose(r) \/ Headers(r) \/ Settle(r) PROVE UNCHANGED vars
  BY <1>3 DEF Lose, Headers, Settle
<1>4. ASSUME NEW p \in Tabs, Login(p) \/ Logout(p) \/ Leave(p) PROVE UNCHANGED vars
  BY <1>4 DEF Login, Logout, Leave, Unload
<1>5. ASSUME NEW p \in Tabs, NEW c \in Calls, Fetch(p, c) \/ Tick(p, c) PROVE UNCHANGED vars
  BY <1>5 DEF Fetch, Tick, Answer, Denied, Unload
<1>6. ASSUME NEW t \in Tokens, Lapse(t) \/ ExpireRow(t) PROVE Next \/ UNCHANGED vars
  BY <1>6 DEF Lapse, ExpireRow, Next
<1>7. CASE UNCHANGED allVars
  BY <1>7 DEF allVars
<1> QED BY <1>1, <1>2, <1>3, <1>4, <1>5, <1>6, <1>7 DEF ClientNext, Arrive

\* Whatever the clients do, the token server in front of them behaves as it does
\* alone: what is proved of RefreshTokens holds with its clients.
THEOREM ClientsRunOnServer == ClientSpec => Spec
<1>1. ClientInit => Init /\ Types
  BY InitTypes DEF ClientInit
<1>2. ClientSpec => []Types
  BY <1>1, ClientStepOfServer, NextTypes, PTL DEF ClientSpec
<1> QED BY <1>1, <1>2, ClientStepOfServer, PTL DEF ClientSpec, Spec

\* So with any number of browsers, tabs and calls in front of it: a session does not
\* fork, has one owner and one row to rotate, ends for a cause, and its families are
\* what AuthSession promises.
THEOREM ClientsKeepSessions ==
    ClientSpec => [](NoFork /\ OneUnrotated /\ OneOwner /\ NoOrphans /\ NoFalseAlarm) /\ ImplementsSession
BY ClientsRunOnServer, SessionsDoNotFork, OneUnrotatedRow, FamilyHasOneOwner, NoOrphanRows,
   AlarmIsJustified, TableImplementsSession, PTL

-----------------------------------------------------------------------------
(* What a step does to a request *)

\* A handler goes on and keeps the request open, or ends and answers it: with a
\* failure, with a logout, or with the one token it has just handed out.
LEMMA WorkOutcome ==
    ASSUME Types, ClientTypes, Slots, NEW r \in Requests, Work(r)
    PROVE  \/ pc'[r] # "idle" /\ req' = req /\ held' = held
           \/ /\ pc'[r] = "idle" /\ held' = held
              /\ \E ok \in BOOLEAN : /\ req' = Answered(r, ok, NoToken)
                                     /\ ok => req[r].kind = "logout"
           \/ /\ pc'[r] = "idle" /\ req[r].kind \in {"login", "rotate"}
              /\ \E t \in Tokens \ held :
                    /\ held' = held \union {t} /\ req' = Answered(r, TRUE, t)
                    /\ \/ pc[r] = "login_issue" /\ t \notin issued
                       \/ pc[r] = "rotate_user" /\ t = tok[r]
<1> USE DEF Types, TypeOK, Steps
<1>1. r \in Requests /\ pc[r] # "idle" /\ held \subseteq issued
  BY DEF Work, Slots
<1>2. CASE /\ LoginIssue(r) \/ RotateClaim(r) \/ RotateIssue(r) \/ RotateUser(r)
           /\ req' = IF pc'[r] # "idle" THEN req
                     ELSE IF held' = held THEN Answered(r, FALSE, NoToken)
                     ELSE Answered(r, TRUE, CHOOSE t \in held' \ held : TRUE)
  <2>1. CASE LoginIssue(r)
    <3>1. pc'[r] = "idle" /\ pc[r] = "login_issue" /\ req[r].kind = "login"
      BY <2>1 DEF LoginIssue, Finish, Slots
    <3>2. CASE held' = held
      BY <1>2, <3>1, <3>2
    <3>3. CASE held' # held
      <4>1. PICK t \in Tokens : t \notin issued /\ held' = held \union {t}
        BY <2>1, <3>3 DEF LoginIssue, InsertRow
      <4>2. t \notin held /\ (CHOOSE x \in held' \ held : TRUE) = t
        BY <1>1, <4>1
      <4>3. req' = Answered(r, TRUE, t)
        BY <1>2, <3>1, <3>3, <4>2
      <4> QED BY <3>1, <4>1, <4>2, <4>3
    <3> QED BY <3>2, <3>3
  <2>2. CASE RotateClaim(r) \/ RotateIssue(r)
    <3>1. held' = held
      BY <2>2 DEF RotateClaim, RotateIssue
    <3>2. CASE pc'[r] = "idle"
      BY <1>2, <3>1, <3>2
    <3> QED BY <1>2, <3>1, <3>2
  <2>3. CASE RotateUser(r)
    <3>1. pc'[r] = "idle" /\ pc[r] = "rotate_user" /\ req[r].kind = "rotate"
      BY <2>3 DEF RotateUser, Finish, Slots, RotateSteps
    <3>2. CASE held' = held
      BY <1>2, <3>1, <3>2
    <3>3. CASE held' # held
      <4>1. held' = held \union {tok[r]} /\ tok[r] \in Tokens
        BY <2>3, <3>1, <3>3 DEF RotateUser, TokensKnown
      <4>2. tok[r] \notin held /\ (CHOOSE x \in held' \ held : TRUE) = tok[r]
        BY <3>3, <4>1
      <4>3. req' = Answered(r, TRUE, tok[r])
        BY <1>2, <3>1, <3>3, <4>2
      <4> QED BY <3>1, <4>1, <4>2, <4>3
    <3> QED BY <3>2, <3>3
  <2> QED BY <1>2, <2>1, <2>2, <2>3
<1>3. CASE RevokeFamily(r) /\ req' = Answered(r, req[r].kind = "logout", NoToken)
  BY <1>3 DEF RevokeFamily, Finish
<1>4. CASE Abort(r) /\ req' = Answered(r, FALSE, NoToken)
  BY <1>4 DEF Abort, Finish
<1> QED BY <1>2, <1>3, <1>4 DEF Work

\* Serving is the first stretch of a handler, or an answer at once.
LEMMA ServeOutcome ==
    ASSUME Types, Slots, NEW r \in Requests, Serve(r)
    PROVE  /\ pc[r] = "idle" /\ req[r].at = "sent" /\ held' = held /\ rotated' = rotated
           /\ \/ pc'[r] # "idle" /\ req' = [req EXCEPT ![r].at = "serving"]
              \/ pc' = pc /\ tok' = tok /\ \E ok \in BOOLEAN :
                    req' = Answered(r, ok, NoToken) /\ (ok => req[r].kind = "logout")
<1> USE DEF Types, TypeOK, Steps
<1>1. req[r].at = "sent" /\ pc[r] = "idle"
  BY DEF Serve, Slots
<1>2. CASE (\E u \in Users : Authenticate(r, u)) /\ req' = [req EXCEPT ![r].at = "serving"]
  BY <1>1, <1>2 DEF Authenticate, Begin
<1>3. CASE /\ RotateRead(r, req[r].token)
           /\ req' = IF pc'[r] = "idle" THEN Answered(r, FALSE, NoToken)
                     ELSE [req EXCEPT ![r].at = "serving"]
  <2>1. held' = held /\ rotated' = rotated
    BY <1>3 DEF RotateRead
  <2>2. pc'[r] # "idle" \/ (pc' = pc /\ tok' = tok)
    BY <1>3 DEF RotateRead, Begin
  <2>3. CASE pc'[r] = "idle"
    BY <1>1, <1>3, <2>1, <2>2, <2>3
  <2> QED BY <1>1, <1>3, <2>1, <2>3
<1>4. CASE LogoutRead(r, req[r].token) /\ req' = [req EXCEPT ![r].at = "serving"]
  BY <1>1, <1>4 DEF LogoutRead, Begin
<1>5. CASE req' = Answered(r, req[r].kind = "logout", NoToken) /\ UNCHANGED vars
  BY <1>1, <1>5 DEF vars
<1> QED BY <1>2, <1>3, <1>4, <1>5 DEF Serve

\* A request is sent from a free slot, with the cookie.
LEMMA SendOutcome ==
    ASSUME NEW r \in Requests, NEW k \in {"login", "rotate", "logout"}, NEW p \in Tabs,
           ClientTypes, Send(r, k, p)
    PROVE  /\ req[r] = Free
           /\ req'[r] = [kind |-> k, tab |-> p, at |-> "sent", ok |-> FALSE, token |-> cookie]
           /\ req' \in [Requests -> ReqTypes]
           /\ \A q \in Requests \ {r} : req'[q] = req[q]
<1>1. [kind |-> k, tab |-> p, at |-> "sent", ok |-> FALSE, token |-> cookie] \in ReqTypes
  BY DEF ClientTypes, ReqTypes
<1>2. /\ req \in [Requests -> ReqTypes] /\ req[r] = Free
      /\ req' = [req EXCEPT ![r] = [kind |-> k, tab |-> p, at |-> "sent",
                                    ok |-> FALSE, token |-> cookie]]
  BY DEF Send, ClientTypes
<1> QED BY <1>1, <1>2
\* Only the slot itself is touched.
LEMMA AnsweredIs ==
    ASSUME ClientTypes, NEW r \in Requests, NEW ok \in BOOLEAN, NEW t \in Maybe,
           req' = Answered(r, ok, t)
    PROVE  /\ req' \in [Requests -> ReqTypes]
           /\ \A q \in Requests \ {r} : req'[q] = req[q]
           /\ req'[r].kind = req[r].kind /\ req'[r].tab = req[r].tab /\ req'[r].token = t
           /\ ok => req'[r].at = "answered"
           /\ ~ok => req'[r].at = "body"
<1>1. /\ Answered(r, ok, t) \in [Requests -> ReqTypes]
      /\ \A q \in Requests \ {r} : Answered(r, ok, t)[q] = req[q]
      /\ Answered(r, ok, t)[r] = [kind |-> req[r].kind, tab |-> req[r].tab,
                                  at |-> IF ok THEN "answered" ELSE "body",
                                  ok |-> ok, token |-> t]
  BY DEF Answered, ClientTypes, ReqTypes
<1>2. req'[r] = [kind |-> req[r].kind, tab |-> req[r].tab,
                 at |-> IF ok THEN "answered" ELSE "body", ok |-> ok, token |-> t]
  BY <1>1
<1> QED BY <1>1, <1>2

LEMMA FailedIs ==
    ASSUME ClientTypes, NEW r \in Requests, req' = Answered(r, FALSE, NoToken)
    PROVE  /\ req' \in [Requests -> ReqTypes]
           /\ \A q \in Requests \ {r} : req'[q] = req[q]
           /\ req'[r].kind = req[r].kind /\ req'[r].tab = req[r].tab
           /\ req'[r].token = NoToken /\ req'[r].at = "body"
<1>1. PICK ok \in BOOLEAN : ok = FALSE
  OBVIOUS
<1>2. NoToken \in Maybe
  BY DEF Maybe
<1> QED BY <1>1, <1>2, AnsweredIs

LEMMA AtIs ==
    ASSUME ClientTypes, NEW r \in Requests,
           NEW at \in {"serving", "body"}, req' = [req EXCEPT ![r].at = at]
    PROVE  /\ req' \in [Requests -> ReqTypes]
           /\ \A q \in Requests \ {r} : req'[q] = req[q]
           /\ req'[r].kind = req[r].kind /\ req'[r].tab = req[r].tab
           /\ req'[r].token = req[r].token /\ req'[r].at = at
<1>1. /\ req' \in [Requests -> ReqTypes]
      /\ \A q \in Requests \ {r} : req'[q] = req[q]
      /\ req'[r] = [kind |-> req[r].kind, tab |-> req[r].tab, at |-> at,
                    ok |-> req[r].ok, token |-> req[r].token]
  BY DEF ClientTypes, ReqTypes
<1> QED BY <1>1

LEMMA FreeIs == Free \in ReqTypes /\ Free.kind = "none" /\ Free.at = "free" /\ Free.tab = NoTab
                /\ Free.token = NoToken
BY DEF Free, ReqTypes, Maybe

\* The steps of a handler, in order.
LEMMA WorkSteps ==
    ASSUME Types, NEW r \in Requests, Work(r)
    PROVE  /\ \A q \in Requests \ {r} : pc'[q] = pc[q] /\ tok'[q] = tok[q]
           /\ \/ pc'[r] = "idle"
              \/ pc[r] = "claim" /\ pc'[r] = "rotate_issue" /\ tok'[r] = tok[r]
              \/ pc[r] = "rotate_issue" /\ pc'[r] = "rotate_user" /\ tok'[r] \notin issued
<1> USE DEF Types, TypeOK
<1>1. CASE LoginIssue(r) \/ RotateUser(r) \/ RevokeFamily(r) \/ Abort(r)
  BY <1>1 DEF LoginIssue, RotateUser, RevokeFamily, Abort, Finish
<1>2. CASE RotateClaim(r)
  BY <1>2 DEF RotateClaim, Finish, Goto
<1>3. CASE RotateIssue(r)
  BY <1>3 DEF RotateIssue, Finish, Goto, InsertRow
<1> QED BY <1>1, <1>2, <1>3 DEF Work

LEMMA ServeSteps ==
    ASSUME Types, Slots, NEW r \in Requests, Serve(r)
    PROVE  /\ \A q \in Requests \ {r} : pc'[q] = pc[q] /\ tok'[q] = tok[q]
           /\ \/ pc'[r] = "idle"
              \/ pc'[r] = "login_issue" /\ req[r].kind = "login"
              \/ /\ pc'[r] = "claim" /\ req[r].kind = "rotate"
                 /\ tok'[r] = req[r].token /\ req[r].token \in held
              \/ pc'[r] = "reuse_revoke" /\ req[r].kind = "rotate" /\ req[r].token \in rotated
              \/ pc'[r] = "logout_revoke" /\ req[r].kind = "logout"
<1> USE DEF Types, TypeOK
<1>1. pc[r] = "idle"
  BY DEF Serve, Slots, Steps
<1>2. CASE req[r].kind = "login" /\ \E u \in Users : Authenticate(r, u)
  BY <1>2 DEF Authenticate, Begin
<1>3. CASE req[r].kind = "rotate" /\ RotateRead(r, req[r].token)
  BY <1>1, <1>3 DEF RotateRead, Begin
<1>4. CASE req[r].kind = "logout" /\ LogoutRead(r, req[r].token)
  BY <1>4 DEF LogoutRead, Begin
<1>5. CASE UNCHANGED vars
  BY <1>1, <1>5 DEF vars
<1> QED BY <1>2, <1>3, <1>4, <1>5 DEF Serve

-----------------------------------------------------------------------------
(* Types and slots *)

\* A request that is joined or sent: the promise, and the slots.
LEMMA JoinTypes ==
    ASSUME ClientTypes, NEW p \in Tabs, JoinRefresh(p)
    PROVE  req' \in [Requests -> ReqTypes] /\ refreshInFlight' \in [Tabs -> BOOLEAN]
<1>1. CASE UNCHANGED <<req, refreshInFlight>>
  BY <1>1 DEF ClientTypes
<1>2. ASSUME NEW r \in Requests, Send(r, "rotate", p),
             refreshInFlight' = [refreshInFlight EXCEPT ![p] = TRUE]
      PROVE  req' \in [Requests -> ReqTypes] /\ refreshInFlight' \in [Tabs -> BOOLEAN]
  BY <1>2, SendOutcome DEF ClientTypes
<1> QED BY <1>1, <1>2 DEF JoinRefresh, SendRotation

LEMMA UnloadTypes == ASSUME ClientTypes, NEW p \in Tabs, Unload(p) PROVE ClientTypes'
<1>1. req' \in [Requests -> ReqTypes]
  <2>1. \A r \in Requests : [req[r] EXCEPT !.tab = NoTab] \in ReqTypes
    BY DEF ClientTypes, ReqTypes
  <2> QED BY <2>1 DEF Unload, ClientTypes
<1>2. store' \in [Tabs -> Maybe] /\ refreshInFlight' \in [Tabs -> BOOLEAN] /\ severed' \in BOOLEAN
      /\ cookie' \in Maybe
  BY DEF Unload, ClientTypes, Maybe
<1>3. call' \in [Tabs \X Calls -> CallTypes]
  <2>1. Idle \in CallTypes
    BY DEF Idle, CallTypes, Maybe
  <2> QED BY <2>1 DEF Unload, ClientTypes
<1> QED BY <1>1, <1>2, <1>3 DEF ClientTypes

LEMMA ResumedTypes ==
    ASSUME NEW k \in CallTypes, NEW ok \in BOOLEAN, NEW t \in Maybe
    PROVE  /\ Resumed(k, ok, t) \in CallTypes
           /\ Resumed(k, ok, t).at \notin {"restoring", "renewing", "checking"}
<1>1. CASE k.at = "restoring"
  <2>1. Resumed(k, ok, t) = [at |-> "last", sent |-> t]
    BY <1>1 DEF Resumed
  <2> QED BY <2>1 DEF CallTypes
<1>2. CASE k.at = "renewing"
  <2>1. Resumed(k, ok, t) = [at |-> IF ok THEN "last" ELSE "denied", sent |-> t]
    BY <1>2 DEF Resumed
  <2> QED BY <2>1 DEF CallTypes
<1>3. CASE k.at = "checking"
  <2>1. Resumed(k, ok, t) = IF ok THEN [at |-> "out", sent |-> t] ELSE Idle
    BY <1>3 DEF Resumed
  <2> QED BY <2>1 DEF CallTypes, Idle, Maybe
<1>4. CASE k.at \notin {"restoring", "renewing", "checking"}
  BY <1>4 DEF Resumed
<1> QED BY <1>1, <1>2, <1>3, <1>4

LEMMA NextClientTypes ==
    Types /\ Types' /\ Slots /\ ClientTypes /\ [ClientNext]_allVars => ClientTypes'
<1> SUFFICES ASSUME Types, Types', Slots, ClientTypes, [ClientNext]_allVars PROVE ClientTypes'
  OBVIOUS
<1>0. /\ cookie \in Maybe /\ store \in [Tabs -> Maybe] /\ req \in [Requests -> ReqTypes]
      /\ refreshInFlight \in [Tabs -> BOOLEAN] /\ call \in [Tabs \X Calls -> CallTypes]
      /\ severed \in BOOLEAN /\ NoToken \in Maybe /\ Tokens \subseteq Maybe
  BY DEF ClientTypes, Maybe
<1>1. ASSUME NEW r \in Requests, Serve(r) PROVE ClientTypes'
  <2>1. UNCHANGED <<cookie, store, refreshInFlight, call, severed>>
    BY <1>1 DEF Serve
  <2>2. req' \in [Requests -> ReqTypes]
    <3>1. ASSUME NEW ok \in BOOLEAN, req' = Answered(r, ok, NoToken)
          PROVE  req' \in [Requests -> ReqTypes]
      BY <1>0, <3>1, AnsweredIs
    <3>2. CASE req' = [req EXCEPT ![r].at = "serving"]
      BY <3>2, AtIs
    <3> QED BY <1>1, <3>1, <3>2, ServeOutcome
  <2> QED BY <1>0, <2>1, <2>2 DEF ClientTypes
<1>2. ASSUME NEW r \in Requests, Work(r) PROVE ClientTypes'
  <2>1. UNCHANGED <<cookie, store, refreshInFlight, call>> /\ severed' \in BOOLEAN
    BY <1>0, <1>2 DEF Work
  <2>2. req' \in [Requests -> ReqTypes]
    <3>1. ASSUME NEW ok \in BOOLEAN, NEW t \in Maybe, req' = Answered(r, ok, t)
          PROVE  req' \in [Requests -> ReqTypes]
      BY <3>1, AnsweredIs
    <3> QED BY <1>0, <1>2, <3>1, WorkOutcome
  <2> QED BY <1>0, <2>1, <2>2 DEF ClientTypes
<1>3. ASSUME NEW r \in Requests, Lose(r) PROVE ClientTypes'
  <2>1. UNCHANGED <<cookie, store, refreshInFlight, call, severed>>
    BY <1>3 DEF Lose
  <2>2. req' \in [Requests -> ReqTypes]
    BY <1>0, <1>3, FailedIs DEF Lose
  <2> QED BY <1>0, <2>1, <2>2 DEF ClientTypes
<1>4. ASSUME NEW r \in Requests, Headers(r) PROVE ClientTypes'
  <2>1. UNCHANGED <<store, refreshInFlight, call, severed>>
    BY <1>4 DEF Headers
  <2>2. req' \in [Requests -> ReqTypes]
    BY <1>4, AtIs DEF Headers
  <2>3. cookie' \in Maybe
    <3>1. req[r] \in ReqTypes
      BY <1>0
    <3>2. req[r].token \in Maybe
      BY <3>1 DEF ReqTypes
    <3> QED BY <1>0, <1>4, <3>2 DEF Headers
  <2> QED BY <1>0, <2>1, <2>2, <2>3 DEF ClientTypes
<1>5. ASSUME NEW r \in Requests, Settle(r) PROVE ClientTypes'
  <2>1. UNCHANGED <<cookie, severed>> /\ req' = [req EXCEPT ![r] = Free]
    BY <1>5 DEF Settle
  <2>2. req' \in [Requests -> ReqTypes]
    BY <1>0, <2>1, FreeIs
  <2>3. req[r] \in ReqTypes
    BY <1>0
  <2>4. req[r].tab \in Tabs \union {NoTab} /\ req[r].ok \in BOOLEAN /\ req[r].token \in Maybe
    BY <2>3 DEF ReqTypes
  <2>5. CASE req[r].tab # NoTab /\ SettleRotation(req[r].tab, req[r].ok, req[r].token)
    <3> DEFINE p == req[r].tab
    <3>1. p \in Tabs
      BY <2>4, <2>5
    <3>2. store' \in [Tabs -> Maybe] /\ refreshInFlight' \in [Tabs -> BOOLEAN]
      BY <1>0, <2>4, <2>5 DEF SettleRotation
    <3>3. store'[p] \in Maybe
      BY <3>1, <3>2
    <3>4. call' \in [Tabs \X Calls -> CallTypes]
      BY <1>0, <2>4, <2>5, <3>3, ResumedTypes DEF SettleRotation
    <3> QED BY <1>0, <2>1, <2>2, <3>2, <3>4 DEF ClientTypes
  <2>6. CASE /\ \/ store' = [store EXCEPT ![req[r].tab] = IF req[r].ok THEN req[r].token ELSE @]
                \/ store' = [store EXCEPT ![req[r].tab] = NoToken]
                \/ store' = store
             /\ UNCHANGED <<refreshInFlight, call>>
    <3>1. store' \in [Tabs -> Maybe]
      BY <1>0, <2>4, <2>6
    <3> QED BY <1>0, <2>1, <2>2, <2>6, <3>1 DEF ClientTypes
  <2> QED BY <1>5, <2>5, <2>6 DEF Settle
<1>6. ASSUME NEW p \in Tabs, Login(p) \/ Logout(p) PROVE ClientTypes'
  <2>1. UNCHANGED <<cookie, store, refreshInFlight, call, severed>>
    BY <1>6 DEF Login, Logout
  <2>2. PICK r \in Requests, k \in {"login", "logout"} : Send(r, k, p)
    BY <1>6 DEF Login, Logout
  <2>4. req' \in [Requests -> ReqTypes]
    BY <2>2, SendOutcome
  <2> QED BY <1>0, <2>1, <2>4 DEF ClientTypes
<1>7. ASSUME NEW p \in Tabs, Leave(p) PROVE ClientTypes'
  BY <1>7, UnloadTypes DEF Leave
<1>8. ASSUME NEW p \in Tabs, NEW c \in Calls, Fetch(p, c) \/ Answer(p, c) PROVE ClientTypes'
  <2>1. UNCHANGED <<cookie, store, severed>>
    BY <1>8 DEF Fetch, Answer
  <2>2. req' \in [Requests -> ReqTypes] /\ refreshInFlight' \in [Tabs -> BOOLEAN]
    BY <1>0, <1>8, JoinTypes DEF Fetch, Answer
  <2>3. call' \in [Tabs \X Calls -> CallTypes]
    <3>1. \E k \in CallTypes : call' = [call EXCEPT ![<<p, c>>] = k]
      <4>1. call[<<p, c>>] \in CallTypes /\ store[p] \in Maybe
        BY <1>0
      <4>2. \A a \in {"restoring", "checking", "renewing", "denied"} :
              /\ [call EXCEPT ![<<p, c>>].at = a]
                    = [call EXCEPT ![<<p, c>>] = [at |-> a, sent |-> call[<<p, c>>].sent]]
              /\ [at |-> a, sent |-> call[<<p, c>>].sent] \in CallTypes
        <5> SUFFICES ASSUME NEW a \in {"restoring", "checking", "renewing", "denied"}
                     PROVE  [call EXCEPT ![<<p, c>>].at = a]
                               = [call EXCEPT ![<<p, c>>] = [at |-> a, sent |-> call[<<p, c>>].sent]]
                            /\ [at |-> a, sent |-> call[<<p, c>>].sent] \in CallTypes
          OBVIOUS
        <5>1. \A k \in CallTypes : [k EXCEPT !.at = a] = [at |-> a, sent |-> k.sent]
          BY DEF CallTypes
        <5>2. [call[<<p, c>>] EXCEPT !.at = a] = [at |-> a, sent |-> call[<<p, c>>].sent]
          BY <4>1, <5>1
        <5>3. [call EXCEPT ![<<p, c>>].at = a]
                 = [call EXCEPT ![<<p, c>>] = [call[<<p, c>>] EXCEPT !.at = a]]
          BY <1>0
        <5>4. [at |-> a, sent |-> call[<<p, c>>].sent] \in CallTypes
          BY <4>1 DEF CallTypes
        <5> QED BY <5>2, <5>3, <5>4
      <4>3. \A a \in {"out", "last"} : [at |-> a, sent |-> store[p]] \in CallTypes
        BY <4>1 DEF CallTypes
      <4>4. Idle \in CallTypes
        BY <1>0 DEF Idle, CallTypes
      <4> QED BY <1>8, <4>2, <4>3, <4>4 DEF Fetch, Answer
    <3> QED BY <1>0, <3>1
  <2> QED BY <1>0, <2>1, <2>2, <2>3 DEF ClientTypes
<1>9. ASSUME NEW p \in Tabs, NEW c \in Calls, Denied(p, c) PROVE ClientTypes'
  <2>1. CASE Unload(p)
    BY <2>1, UnloadTypes
  <2>2. CASE call' = [call EXCEPT ![<<p, c>>] = Idle]
             /\ UNCHANGED <<vars, cookie, store, req, refreshInFlight, lapsed, severed>>
    <3>1. Idle \in CallTypes
      BY <1>0 DEF Idle, CallTypes
    <3> QED BY <1>0, <2>2, <3>1 DEF ClientTypes
  <2> QED BY <1>9, <2>1, <2>2 DEF Denied
<1>10. ASSUME NEW t \in Tokens, Lapse(t) \/ ExpireRow(t) PROVE ClientTypes'
  BY <1>10 DEF Lapse, ExpireRow, client, ClientTypes
<1>11. CASE UNCHANGED allVars
  BY <1>11 DEF allVars, client, ClientTypes
<1> QED BY <1>1, <1>2, <1>3, <1>4, <1>5, <1>6, <1>7, <1>8, <1>9, <1>10, <1>11
        DEF ClientNext, Arrive, Tick

LEMMA NextSlots ==
    Types /\ Types' /\ ClientTypes /\ ClientTypes' /\ Slots /\ [ClientNext]_allVars => Slots'
<1> SUFFICES ASSUME Types, Types', ClientTypes, ClientTypes', Slots, [ClientNext]_allVars
             PROVE  Slots'
  OBVIOUS
<1> DEFINE Slot(r) ==
       /\ req[r].kind = "none" => req[r] = Free
       /\ req[r].at = "free" => req[r].kind = "none"
       /\ req[r].at = "serving" <=> pc[r] # "idle"
       /\ pc[r] = "login_issue" => req[r].kind = "login"
       /\ pc[r] \in RotateSteps => req[r].kind = "rotate"
       /\ pc[r] = "logout_revoke" => req[r].kind = "logout"
       /\ pc[r] \notin {"delete_logins", "delete_user"}
<1>0. \A r \in Requests : Slot(r)
  BY DEF Slots
<1>a. \A r \in Requests : req'[r] = req[r] /\ pc'[r] = pc[r] => Slot(r)'
  BY <1>0
\* A slot whose request is another now, and whose handler does not run.
<1>b. \A r \in Requests :
         /\ pc'[r] = "idle" /\ req'[r].at \in {"sent", "answered", "body"}
         /\ req'[r].kind # "none"
         => Slot(r)'
  BY DEF RotateSteps
<1> HIDE DEF Slot
<1>1. ASSUME NEW r \in Requests, Serve(r) PROVE Slots'
  <2>1. \A q \in Requests \ {r} : Slot(q)'
    <3>1. \A q \in Requests \ {r} : pc'[q] = pc[q]
      BY <1>1, ServeSteps
    <3>2. \A q \in Requests \ {r} : req'[q] = req[q]
      <4>1. ASSUME NEW ok \in BOOLEAN, req' = Answered(r, ok, NoToken)
            PROVE  \A q \in Requests \ {r} : req'[q] = req[q]
        BY <4>1, AnsweredIs DEF Maybe
      <4>2. CASE req' = [req EXCEPT ![r].at = "serving"]
        BY <4>2, AtIs
      <4> QED BY <1>1, <4>1, <4>2, ServeOutcome
    <3> QED BY <1>a, <3>1, <3>2
  <2>2. pc[r] = "idle" /\ req[r].at = "sent" /\ req[r].kind # "none"
    <3>1. pc[r] = "idle" /\ req[r].at = "sent"
      BY <1>1, ServeOutcome
    <3> QED BY <1>0, <3>1, FreeIs DEF Slot
  <2>3. ASSUME NEW ok \in BOOLEAN, req' = Answered(r, ok, NoToken), pc'[r] = "idle" PROVE Slot(r)'
    BY <1>b, <2>2, <2>3, AnsweredIs DEF Maybe
  <2>4. ASSUME req' = [req EXCEPT ![r].at = "serving"], pc'[r] # "idle" PROVE Slot(r)'
    <3>1. req'[r].kind = req[r].kind /\ req'[r].at = "serving"
      BY <2>4, AtIs
    <3>2. \/ pc'[r] = "login_issue" /\ req[r].kind = "login"
          \/ pc'[r] \in {"claim", "reuse_revoke"} /\ req[r].kind = "rotate"
          \/ pc'[r] = "logout_revoke" /\ req[r].kind = "logout"
      BY <1>1, <2>4, ServeSteps
    <3>3. CASE pc'[r] = "login_issue" /\ req[r].kind = "login"
      BY <3>1, <3>3 DEF Slot, RotateSteps
    <3>4. CASE pc'[r] \in {"claim", "reuse_revoke"} /\ req[r].kind = "rotate"
      BY <3>1, <3>4 DEF Slot, RotateSteps
    <3>5. CASE pc'[r] = "logout_revoke" /\ req[r].kind = "logout"
      BY <3>1, <3>5 DEF Slot, RotateSteps
    <3> QED BY <3>2, <3>3, <3>4, <3>5
  <2> QED BY <1>1, <2>1, <2>2, <2>3, <2>4, ServeOutcome DEF Slots, Slot
<1>2. ASSUME NEW r \in Requests, Work(r) PROVE Slots'
  <2>1. pc[r] # "idle" /\ req[r].at = "serving" /\ req[r].kind # "none"
    BY <1>0, <1>2, FreeIs DEF Work, Slot
  <2>2. \A q \in Requests \ {r} : pc'[q] = pc[q]
    BY <1>2, WorkSteps
  <2>3. ASSUME NEW ok \in BOOLEAN, NEW t \in Maybe, req' = Answered(r, ok, t), pc'[r] = "idle"
        PROVE  Slots'
    <3>1. Slot(r)'
      BY <1>b, <2>1, <2>3, AnsweredIs
    <3>2. \A q \in Requests \ {r} : Slot(q)'
      BY <1>a, <2>2, <2>3, AnsweredIs
    <3> QED BY <3>1, <3>2 DEF Slots, Slot
  <2>4. CASE pc'[r] # "idle" /\ req' = req
    <3>1. pc[r] \in {"claim", "rotate_issue"} /\ pc'[r] \in {"rotate_issue", "rotate_user"}
      BY <1>2, <2>4, WorkSteps
    <3>2. Slot(r)'
      BY <1>0, <2>1, <2>4, <3>1 DEF Slot, RotateSteps
    <3>3. \A q \in Requests \ {r} : Slot(q)'
      BY <1>a, <2>2, <2>4
    <3> QED BY <3>2, <3>3 DEF Slots, Slot
  <2> QED BY <1>2, <2>3, <2>4, WorkOutcome DEF Maybe
<1>3. ASSUME NEW r \in Requests, pc' = pc, pc[r] = "idle",
             \A q \in Requests \ {r} : req'[q] = req[q],
             \/ req'[r].at \in {"sent", "answered", "body"} /\ req'[r].kind # "none"
             \/ req'[r] = Free
      PROVE  Slots'
  <2>1. Slot(r)'
    <3>1. CASE req'[r] = Free
      BY <1>3, <3>1, FreeIs DEF Slot, RotateSteps
    <3> QED BY <1>3, <1>b, <3>1
  <2>2. \A q \in Requests \ {r} : Slot(q)'
    BY <1>3, <1>a
  <2> QED BY <2>1, <2>2 DEF Slots, Slot
<1>4. ASSUME NEW r \in Requests, Lose(r) PROVE Slots'
  <2>1. req' = Answered(r, FALSE, NoToken) /\ pc' = pc /\ req[r].at \in {"sent", "answered"}
    BY <1>4 DEF Lose, vars
  <2>2. pc[r] = "idle" /\ req[r].kind # "none"
    BY <1>0, <2>1, FreeIs DEF Slot
  <2>3. \A q \in Requests \ {r} : req'[q] = req[q]
    BY <2>1, FailedIs
  <2>4. req'[r].at = "body" /\ req'[r].kind = req[r].kind
    BY <2>1, FailedIs
  <2> QED BY <1>3, <2>1, <2>2, <2>3, <2>4
<1>5. ASSUME NEW r \in Requests, Headers(r) PROVE Slots'
  <2>1. req' = [req EXCEPT ![r].at = "body"] /\ pc' = pc /\ req[r].at = "answered"
    BY <1>5 DEF Headers, vars
  <2>2. pc[r] = "idle" /\ req[r].kind # "none"
    BY <1>0, <2>1, FreeIs DEF Slot
  <2> QED BY <1>3, <2>1, <2>2, AtIs
<1>6. ASSUME NEW r \in Requests, Settle(r) PROVE Slots'
  <2>1. req' = [req EXCEPT ![r] = Free] /\ pc' = pc /\ req[r].at = "body"
    BY <1>6 DEF Settle, vars
  <2>2. pc[r] = "idle"
    BY <1>0, <2>1 DEF Slot
  <2>3. req'[r] = Free /\ \A q \in Requests \ {r} : req'[q] = req[q]
    BY <2>1 DEF ClientTypes
  <2> QED BY <1>3, <2>1, <2>2, <2>3
<1>7. ASSUME NEW r \in Requests, NEW k \in {"login", "rotate", "logout"}, NEW p \in Tabs,
             Send(r, k, p), pc' = pc
      PROVE  Slots'
  <2>1. /\ req[r] = Free
        /\ req'[r] = [kind |-> k, tab |-> p, at |-> "sent", ok |-> FALSE, token |-> cookie]
        /\ \A q \in Requests \ {r} : req'[q] = req[q]
    BY <1>7, SendOutcome
  <2>2. pc[r] = "idle"
    BY <1>0, <2>1, FreeIs DEF Slot
  <2>3. req'[r].at = "sent" /\ req'[r].kind = k /\ k # "none"
    BY <2>1
  <2> QED BY <1>3, <1>7, <2>1, <2>2, <2>3
<1>8. CASE req' = req /\ pc' = pc
  BY <1>8, <1>a DEF Slots, Slot
<1>9. ASSUME NEW p \in Tabs, Unload(p) PROVE Slots'
  <2>1. pc' = pc /\ \A r \in Requests : req'[r] = IF req[r].tab = p THEN [req[r] EXCEPT !.tab = NoTab]
                                                  ELSE req[r]
    BY <1>9 DEF Unload, vars
  <2>2. \A r \in Requests : [req[r] EXCEPT !.tab = NoTab].kind = req[r].kind
                            /\ [req[r] EXCEPT !.tab = NoTab].at = req[r].at
    BY DEF ClientTypes, ReqTypes
  <2>3. \A r \in Requests : req[r].kind = "none" => req[r].tab # p
    BY <1>0, FreeIs, ClientAssumption DEF Slot
  <2>4. \A r \in Requests : req'[r].kind = req[r].kind /\ req'[r].at = req[r].at
                            /\ (req[r].kind = "none" => req'[r] = req[r])
    BY <2>1, <2>2, <2>3
  <2> QED BY <1>0, <2>1, <2>4 DEF Slots, Slot
<1>10. ASSUME NEW p \in Tabs, JoinRefresh(p), pc' = pc PROVE Slots'
  BY <1>7, <1>8, <1>10 DEF JoinRefresh, SendRotation
<1>11. ASSUME NEW p \in Tabs, Login(p) \/ Logout(p) PROVE Slots'
  BY <1>7, <1>11 DEF Login, Logout, vars
<1>12. ASSUME NEW p \in Tabs, NEW c \in Calls, Fetch(p, c) \/ Answer(p, c) PROVE Slots'
  BY <1>8, <1>10, <1>12 DEF Fetch, Answer, vars
<1>13. ASSUME NEW p \in Tabs, NEW c \in Calls, Denied(p, c) PROVE Slots'
  BY <1>8, <1>9, <1>13 DEF Denied, vars
<1>14. ASSUME NEW t \in Tokens, Lapse(t) \/ ExpireRow(t) PROVE Slots'
  BY <1>8, <1>14 DEF Lapse, ExpireRow, Expire, client, vars
<1>15. CASE UNCHANGED allVars
  BY <1>8, <1>15 DEF allVars, vars, client
<1> QED BY <1>1, <1>2, <1>4, <1>5, <1>6, <1>9, <1>11, <1>12, <1>13, <1>14, <1>15
        DEF ClientNext, Arrive, Tick, Leave

-----------------------------------------------------------------------------
(* The shared promise *)

\* On the way through the network and the server a request stays what it is.
LEMMA KindsKept ==
    ASSUME Types, ClientTypes, Slots, NEW r \in Requests,
           Serve(r) \/ Work(r) \/ Lose(r) \/ Headers(r)
    PROVE  \A q \in Requests : req'[q].kind = req[q].kind /\ req'[q].tab = req[q].tab
<1> DEFINE Kept == \A q \in Requests : req'[q].kind = req[q].kind /\ req'[q].tab = req[q].tab
<1>0. NoToken \in Maybe /\ Tokens \subseteq Maybe
  BY DEF Maybe
<1>1. ASSUME NEW ok \in BOOLEAN, NEW t \in Maybe, req' = Answered(r, ok, t) PROVE Kept
  BY <1>1, AnsweredIs
<1>2. ASSUME NEW at \in {"serving", "body"}, req' = [req EXCEPT ![r].at = at] PROVE Kept
  BY <1>2, AtIs
<1>3. CASE req' = req
  BY <1>3
<1> HIDE DEF Kept
<1>4. CASE Serve(r)
  <2>1. ASSUME NEW ok \in BOOLEAN, req' = Answered(r, ok, NoToken) PROVE Kept
    BY <1>0, <1>1, <2>1
  <2>2. CASE req' = [req EXCEPT ![r].at = "serving"]
    BY <1>2, <2>2
  <2> QED BY <1>4, <2>1, <2>2, ServeOutcome DEF Kept
<1>5. CASE Work(r)
  <2>1. ASSUME NEW ok \in BOOLEAN, NEW t \in Maybe, req' = Answered(r, ok, t) PROVE Kept
    BY <1>1, <2>1
  <2> QED BY <1>0, <1>3, <1>5, <2>1, WorkOutcome DEF Kept
<1>6. CASE Lose(r)
  BY <1>6, FailedIs DEF Lose
<1>7. CASE Headers(r)
  BY <1>2, <1>7 DEF Headers
<1> QED BY <1>4, <1>5, <1>6, <1>7 DEF Kept

Waiting == {"restoring", "renewing", "checking"}
Promises == OneRefresh /\ WaitersAreServed

\* The parts by the tab.
PromiseOf(p) ==
    /\ \A r1, r2 \in Requests : Refreshes(r1, p) /\ Refreshes(r2, p) => r1 = r2
    /\ refreshInFlight[p] <=> \E r \in Requests : Refreshes(r, p)
    /\ \A c \in Calls : call[<<p, c>>].at \in Waiting => refreshInFlight[p]

LEMMA PromisesMeaning ==
    /\ Promises <=> \A p \in Tabs : PromiseOf(p)
    /\ Promises' <=> \A p \in Tabs : PromiseOf(p)'
<1>1. /\ (\A q \in Tabs \X Calls : call[q].at \in Waiting => refreshInFlight[q[1]])
           <=> \A p \in Tabs : \A c \in Calls : call[<<p, c>>].at \in Waiting => refreshInFlight[p]
      /\ (\A q \in Tabs \X Calls : call'[q].at \in Waiting => refreshInFlight'[q[1]])
           <=> \A p \in Tabs : \A c \in Calls : call'[<<p, c>>].at \in Waiting => refreshInFlight'[p]
  OBVIOUS
<1>2. Promises <=> \A p \in Tabs : PromiseOf(p)
  BY <1>1 DEF Promises, OneRefresh, WaitersAreServed, Waiting, Refreshes, PromiseOf
<1>3. Promises' <=> \A p \in Tabs : PromiseOf(p)'
  BY <1>1 DEF Promises, OneRefresh, WaitersAreServed, Waiting, Refreshes, PromiseOf
<1> QED BY <1>2, <1>3

LEMMA NextPromises ==
    Types /\ ClientTypes /\ ClientTypes' /\ Slots /\ Promises /\ [ClientNext]_allVars => Promises'
<1> SUFFICES ASSUME Types, ClientTypes, ClientTypes', Slots, Promises, [ClientNext]_allVars
             PROVE  Promises'
  OBVIOUS
<1>0. \A p \in Tabs : PromiseOf(p)
  BY PromisesMeaning
<1>a. (\A p \in Tabs : PromiseOf(p)') => Promises'
  BY PromisesMeaning
\* A tab of which nothing changed.
<1>b. ASSUME NEW p \in Tabs, \A r \in Requests : Refreshes(r, p)' <=> Refreshes(r, p),
             refreshInFlight'[p] = refreshInFlight[p],
             \A c \in Calls : call'[<<p, c>>].at \in Waiting => call[<<p, c>>].at \in Waiting
      PROVE  PromiseOf(p)'
  BY <1>0, <1>b DEF PromiseOf
<1>1. ASSUME NEW r \in Requests, Serve(r) \/ Work(r) \/ Lose(r) \/ Headers(r) PROVE Promises'
  <2>1. \A q \in Requests : req'[q].kind = req[q].kind /\ req'[q].tab = req[q].tab
    BY <1>1, KindsKept
  <2>2. refreshInFlight' = refreshInFlight /\ call' = call
    BY <1>1 DEF Serve, Work, Lose, Headers
  <2> QED BY <1>a, <1>b, <2>1, <2>2 DEF Refreshes
<1>2. ASSUME NEW r \in Requests, Settle(r) PROVE Promises'
  <2>1. /\ req'[r] = Free /\ \A q \in Requests \ {r} : req'[q] = req[q]
        /\ req[r].ok \in BOOLEAN /\ req[r].token \in Maybe /\ req[r].tab \in Tabs \union {NoTab}
    <3>1. req \in [Requests -> ReqTypes] /\ req[r] \in ReqTypes
      BY DEF ClientTypes
    <3>2. req' = [req EXCEPT ![r] = Free]
      BY <1>2 DEF Settle
    <3> QED BY <3>1, <3>2 DEF ReqTypes
  <2>2. \A p \in Tabs : ~Refreshes(r, p)'
    BY <2>1, FreeIs DEF Refreshes
  <2>3. \A p \in Tabs : \A q \in Requests \ {r} : Refreshes(q, p)' <=> Refreshes(q, p)
    BY <2>1 DEF Refreshes
  <2>4. CASE req[r].tab # NoTab /\ req[r].kind = "rotate"
             /\ SettleRotation(req[r].tab, req[r].ok, req[r].token)
    <3>1. PICK p \in Tabs : p = req[r].tab
      BY <2>1, <2>4
    <3>2. Refreshes(r, p) /\ \A q \in Requests : Refreshes(q, p) => q = r
      BY <1>0, <2>4, <3>1 DEF Refreshes, PromiseOf
    <3>3. /\ refreshInFlight' = [refreshInFlight EXCEPT ![p] = FALSE]
          /\ call' = [q \in Tabs \X Calls |-> IF q[1] = p THEN Resumed(call[q], req[r].ok, store'[p])
                                              ELSE call[q]]
      BY <2>4, <3>1 DEF SettleRotation
    <3>4. \A c \in Calls : call'[<<p, c>>].at \notin Waiting
      <4>1. store'[p] \in Maybe /\ \A c \in Calls : call[<<p, c>>] \in CallTypes
        BY DEF ClientTypes
      <4>2. \A c \in Calls : call'[<<p, c>>] = Resumed(call[<<p, c>>], req[r].ok, store'[p])
        BY <3>3
      <4> QED BY <2>1, <4>1, <4>2, ResumedTypes DEF Waiting
    <3>5. PromiseOf(p)'
      BY <2>2, <2>3, <3>2, <3>3, <3>4 DEF ClientTypes, PromiseOf
    <3>6. ASSUME NEW x \in Tabs \ {p} PROVE PromiseOf(x)'
      <4>1. \A q \in Requests : Refreshes(q, x)' <=> Refreshes(q, x)
        BY <2>2, <2>3, <3>1 DEF Refreshes
      <4>2. refreshInFlight'[x] = refreshInFlight[x]
        BY <3>3 DEF ClientTypes
      <4>3. \A c \in Calls : call'[<<x, c>>] = call[<<x, c>>]
        BY <3>3
      <4> QED BY <1>b, <4>1, <4>2, <4>3
    <3> QED BY <1>a, <3>5, <3>6
  <2>5. CASE (req[r].tab = NoTab \/ req[r].kind \in {"login", "logout"})
             /\ UNCHANGED <<refreshInFlight, call>>
    <3>1. \A p \in Tabs : ~Refreshes(r, p)
      BY <2>5, ClientAssumption DEF Refreshes
    <3> QED BY <1>a, <1>b, <2>2, <2>3, <2>5, <3>1
  <2> QED BY <1>2, <2>4, <2>5 DEF Settle
<1>3. ASSUME NEW p \in Tabs, Login(p) \/ Logout(p) PROVE Promises'
  <2>1. PICK r \in Requests, k \in {"login", "logout"} : Send(r, k, p)
    BY <1>3 DEF Login, Logout
  <2>a. /\ req[r] = Free /\ \A q \in Requests \ {r} : req'[q] = req[q]
        /\ req'[r] = [kind |-> k, tab |-> p, at |-> "sent", ok |-> FALSE, token |-> cookie]
    BY <2>1, SendOutcome
  <2>2. req[r] = Free /\ req'[r].kind = k /\ \A q \in Requests \ {r} : req'[q] = req[q]
    BY <2>a
  <2>3. \A x \in Tabs : \A q \in Requests : Refreshes(q, x)' <=> Refreshes(q, x)
    BY <2>2, FreeIs DEF Refreshes
  <2>4. refreshInFlight' = refreshInFlight /\ call' = call
    BY <1>3 DEF Login, Logout
  <2> QED BY <1>a, <1>b, <2>3, <2>4
<1>4. ASSUME NEW p \in Tabs, Unload(p) PROVE Promises'
  <2>1. /\ \A r \in Requests : req'[r] = IF req[r].tab = p THEN [req[r] EXCEPT !.tab = NoTab] ELSE req[r]
        /\ \A r \in Requests : [req[r] EXCEPT !.tab = NoTab].tab = NoTab
        /\ \A c \in Calls : call'[<<p, c>>] = Idle
        /\ \A x \in Tabs \ {p}, c \in Calls : call'[<<x, c>>] = call[<<x, c>>]
        /\ refreshInFlight'[p] = FALSE
        /\ \A x \in Tabs \ {p} : refreshInFlight'[x] = refreshInFlight[x]
    BY <1>4 DEF Unload, ClientTypes, ReqTypes
  <2>2. PromiseOf(p)'
    <3>1. \A r \in Requests : ~Refreshes(r, p)'
      BY <2>1, ClientAssumption DEF Refreshes
    <3>2. \A c \in Calls : call'[<<p, c>>].at \notin Waiting
      BY <2>1 DEF Idle, Waiting
    <3> QED BY <2>1, <3>1, <3>2 DEF PromiseOf
  <2>3. ASSUME NEW x \in Tabs \ {p} PROVE PromiseOf(x)'
    <3>1. \A r \in Requests : Refreshes(r, x)' <=> Refreshes(r, x)
      BY <2>1, ClientAssumption DEF Refreshes
    <3> QED BY <1>b, <2>1, <3>1
  <2> QED BY <1>a, <2>2, <2>3
<1>5. ASSUME NEW p \in Tabs, JoinRefresh(p)
      PROVE  /\ refreshInFlight'[p]
             /\ \A x \in Tabs \ {p} : /\ refreshInFlight'[x] = refreshInFlight[x]
                                      /\ \A r \in Requests : Refreshes(r, x)' <=> Refreshes(r, x)
             /\ \A r1, r2 \in Requests : Refreshes(r1, p)' /\ Refreshes(r2, p)' => r1 = r2
             /\ \E r \in Requests : Refreshes(r, p)'
  <2>1. CASE refreshInFlight[p] /\ UNCHANGED <<req, refreshInFlight>>
    BY <1>0, <2>1 DEF PromiseOf, Refreshes
  <2>2. ASSUME NEW r \in Requests, ~refreshInFlight[p], Send(r, "rotate", p),
               refreshInFlight' = [refreshInFlight EXCEPT ![p] = TRUE]
        PROVE  /\ refreshInFlight'[p]
               /\ \A x \in Tabs \ {p} : /\ refreshInFlight'[x] = refreshInFlight[x]
                                        /\ \A q \in Requests : Refreshes(q, x)' <=> Refreshes(q, x)
               /\ \A r1, r2 \in Requests : Refreshes(r1, p)' /\ Refreshes(r2, p)' => r1 = r2
               /\ \E q \in Requests : Refreshes(q, p)'
    <3>a. /\ req[r] = Free /\ \A q \in Requests \ {r} : req'[q] = req[q]
          /\ req'[r] = [kind |-> "rotate", tab |-> p, at |-> "sent", ok |-> FALSE, token |-> cookie]
      BY <2>2, SendOutcome
    <3>1. /\ req[r] = Free /\ req'[r].kind = "rotate" /\ req'[r].tab = p
          /\ \A q \in Requests \ {r} : req'[q] = req[q]
      BY <3>a
    <3>2. \A q \in Requests : ~Refreshes(q, p)
      BY <1>0, <2>2 DEF PromiseOf
    <3>3. Refreshes(r, p)' /\ \A q \in Requests \ {r} : ~Refreshes(q, p)'
      BY <3>1, <3>2 DEF Refreshes
    <3>4. \A x \in Tabs \ {p} : \A q \in Requests : Refreshes(q, x)' <=> Refreshes(q, x)
      BY <3>1, FreeIs DEF Refreshes
    <3>5. refreshInFlight'[p] /\ \A x \in Tabs \ {p} : refreshInFlight'[x] = refreshInFlight[x]
      BY <2>2 DEF ClientTypes
    <3> QED BY <3>3, <3>4, <3>5
  <2> QED BY <1>5, <2>1, <2>2 DEF JoinRefresh, SendRotation
\* One call of a tab changes; if it waits now, it has joined a rotation.
<1>6. ASSUME NEW p \in Tabs, NEW c \in Calls, NEW k, call' = [call EXCEPT ![<<p, c>>] = k],
             k.at \in Waiting => JoinRefresh(p),
             UNCHANGED <<req, refreshInFlight>> \/ JoinRefresh(p)
      PROVE  Promises'
  <2>1. call'[<<p, c>>] = k /\ \A x \in Tabs, d \in Calls :
            <<x, d>> # <<p, c>> => call'[<<x, d>>] = call[<<x, d>>]
    BY <1>6 DEF ClientTypes
  <2>2. CASE JoinRefresh(p)
    <3>1. PromiseOf(p)'
      BY <1>5, <2>2 DEF PromiseOf
    <3>2. \A x \in Tabs \ {p} : PromiseOf(x)'
      BY <1>5, <1>b, <2>1, <2>2
    <3> QED BY <1>a, <3>1, <3>2
  <2>3. CASE UNCHANGED <<req, refreshInFlight>> /\ k.at \notin Waiting
    <3>1. \A x \in Tabs : \A d \in Calls : call'[<<x, d>>].at \in Waiting => call[<<x, d>>].at \in Waiting
      BY <2>1, <2>3
    <3>2. \A x \in Tabs : \A r \in Requests : Refreshes(r, x)' <=> Refreshes(r, x)
      BY <2>3 DEF Refreshes
    <3> QED BY <1>a, <1>b, <2>3, <3>1, <3>2
  <2> QED BY <1>6, <2>2, <2>3
<1>c. ASSUME NEW p \in Tabs, NEW c \in Calls, NEW a \in Waiting \union {"denied"},
             call' = [call EXCEPT ![<<p, c>>].at = a],
             a # "denied" => JoinRefresh(p),
             UNCHANGED <<req, refreshInFlight>> \/ JoinRefresh(p)
      PROVE  Promises'
  <2>1. call[<<p, c>>] \in CallTypes
    BY DEF ClientTypes
  <2>2. \A k \in CallTypes : [k EXCEPT !.at = a].at = a
    BY DEF CallTypes
  <2>3. PICK k : k = [call[<<p, c>>] EXCEPT !.at = a]
    OBVIOUS
  <2>4. call' = [call EXCEPT ![<<p, c>>] = k]
    BY <1>c, <2>3 DEF ClientTypes
  <2>5. k.at \in Waiting => JoinRefresh(p)
    BY <1>c, <2>1, <2>2, <2>3 DEF Waiting
  <2> QED BY <1>6, <1>c, <2>4, <2>5
<1>d. Idle.at \notin Waiting
  BY DEF Idle, Waiting
<1>e. ASSUME NEW p \in Tabs, NEW c \in Calls, call' = [call EXCEPT ![<<p, c>>] = Idle],
             UNCHANGED <<req, refreshInFlight>>
      PROVE  Promises'
  <2>1. PICK k : k = Idle
    OBVIOUS
  <2> QED BY <1>6, <1>d, <1>e, <2>1
<1>7. ASSUME NEW p \in Tabs, NEW c \in Calls, Fetch(p, c) PROVE Promises'
  <2>1. CASE call' = [call EXCEPT ![<<p, c>>] = [at |-> "out", sent |-> store[p]]]
             /\ UNCHANGED <<req, refreshInFlight>>
    BY <1>6, <2>1 DEF Waiting
  <2>2. ASSUME NEW a \in {"restoring", "checking"}, JoinRefresh(p),
               call' = [call EXCEPT ![<<p, c>>].at = a]
        PROVE  Promises'
    BY <1>c, <2>2 DEF Waiting
  <2> QED BY <1>7, <2>1, <2>2 DEF Fetch
<1>8. ASSUME NEW p \in Tabs, NEW c \in Calls, Answer(p, c) PROVE Promises'
  <2>1. CASE call' = [call EXCEPT ![<<p, c>>] = Idle] /\ UNCHANGED <<req, refreshInFlight>>
    BY <1>e, <2>1
  <2>2. CASE call' = [call EXCEPT ![<<p, c>>].at = "denied"] /\ UNCHANGED <<req, refreshInFlight>>
    BY <1>c, <2>2
  <2>3. CASE call' = [call EXCEPT ![<<p, c>>] = [at |-> "last", sent |-> store[p]]]
             /\ UNCHANGED <<req, refreshInFlight>>
    BY <1>6, <2>3 DEF Waiting
  <2>4. CASE call' = [call EXCEPT ![<<p, c>>].at = "renewing"] /\ JoinRefresh(p)
    BY <1>c, <2>4 DEF Waiting
  <2> QED BY <1>8, <2>1, <2>2, <2>3, <2>4 DEF Answer
<1>9. ASSUME NEW p \in Tabs, NEW c \in Calls, Denied(p, c) PROVE Promises'
  <2>1. CASE call' = [call EXCEPT ![<<p, c>>] = Idle] /\ UNCHANGED <<req, refreshInFlight>>
    BY <1>e, <2>1
  <2> QED BY <1>4, <1>9, <2>1 DEF Denied
<1>10. CASE UNCHANGED <<req, refreshInFlight, call>>
  BY <1>10, <1>a, <1>b DEF Refreshes
<1>11. ASSUME NEW t \in Tokens, Lapse(t) \/ ExpireRow(t) PROVE Promises'
  BY <1>10, <1>11 DEF Lapse, ExpireRow, client
<1>12. CASE UNCHANGED allVars
  BY <1>10, <1>12 DEF allVars, client
<1> QED BY <1>1, <1>2, <1>3, <1>4, <1>7, <1>8, <1>9, <1>11, <1>12
        DEF ClientNext, Arrive, Tick, Leave

-----------------------------------------------------------------------------
(* Rows *)

\* No request of a client deletes a row, and what is revoked is a family.
LEMMA NextRowsKept == Types /\ RowsKept /\ [ClientNext]_allVars => RowsKept'
<1> SUFFICES ASSUME Types, RowsKept, [ClientNext]_allVars PROVE RowsKept'
  OBVIOUS
<1> USE DEF Types, TypeOK, RowsKept
<1>1. CASE UNCHANGED <<rows, issued, revoked, family, alarmed, loggedOut>>
  BY <1>1
<1>2. ASSUME NEW r \in Requests, Serve(r) PROVE RowsKept'
  BY <1>1, <1>2 DEF Serve, Authenticate, RotateRead, LogoutRead, vars
<1>3. ASSUME NEW r \in Requests, Work(r) PROVE RowsKept'
  <2>1. ASSUME NEW t \in Tokens, NEW u, NEW f, NEW p, InsertRow(t, u, f, p),
               UNCHANGED <<revoked, alarmed, loggedOut>>
        PROVE  RowsKept'
    BY <2>1 DEF InsertRow
  <2>2. CASE LoginIssue(r)
    BY <1>1, <2>1, <2>2 DEF LoginIssue
  <2>3. CASE RotateIssue(r)
    BY <1>1, <2>1, <2>3 DEF RotateIssue
  <2>4. CASE RotateClaim(r) \/ RotateUser(r) \/ Abort(r)
    BY <1>1, <2>4 DEF RotateClaim, RotateUser, Abort
  <2>5. CASE RevokeFamily(r)
    BY <2>5 DEF RevokeFamily, RowsOf
  <2> QED BY <1>3, <2>2, <2>3, <2>4, <2>5 DEF Work
<1>4. CASE UNCHANGED vars
  BY <1>1, <1>4 DEF vars
<1>5. ASSUME NEW t \in Tokens, Expire(t) PROVE RowsKept'
  BY <1>1, <1>5 DEF Expire
<1>6. ASSUME NEW r \in Requests, Lose(r) \/ Headers(r) \/ Settle(r) PROVE RowsKept'
  BY <1>4, <1>6 DEF Lose, Headers, Settle
<1>7. ASSUME NEW p \in Tabs, Login(p) \/ Logout(p) \/ Leave(p) PROVE RowsKept'
  BY <1>4, <1>7 DEF Login, Logout, Leave, Unload
<1>8. ASSUME NEW p \in Tabs, NEW c \in Calls, Fetch(p, c) \/ Tick(p, c) PROVE RowsKept'
  BY <1>4, <1>8 DEF Fetch, Tick, Answer, Denied, Unload
<1>9. ASSUME NEW t \in Tokens, Lapse(t) \/ ExpireRow(t) PROVE RowsKept'
  BY <1>4, <1>5, <1>9 DEF Lapse, ExpireRow
<1>10. CASE UNCHANGED allVars
  BY <1>4, <1>10 DEF allVars
<1> QED BY <1>2, <1>3, <1>6, <1>7, <1>8, <1>9, <1>10 DEF ClientNext, Arrive

-----------------------------------------------------------------------------
(* One tab *)

OneTab == \A p, q \in Tabs : p = q

Structure == Types /\ ClientTypes /\ Slots /\ Promises

\* Of the rotations that are still seen through there is one.
LEMMA OneRotate ==
    ASSUME OneTab, Structure, Sound, NEW r \in Requests, NEW q \in Requests,
           req[r].kind = "rotate", req[q].kind = "rotate",
           req[r].at # "body", req[q].at # "body"
    PROVE  r = q
<1>1. req[r].tab # NoTab /\ req[q].tab # NoTab
  BY DEF Sound, Succession
<1>2. req[r].tab \in Tabs /\ req[q].tab \in Tabs
  <2>1. req[r] \in ReqTypes /\ req[q] \in ReqTypes
    BY DEF Structure, ClientTypes
  <2> QED BY <1>1, <2>1 DEF ReqTypes
<1>3. req[r].tab = req[q].tab
  BY <1>2 DEF OneTab
<1> QED BY <1>2, <1>3 DEF Structure, Promises, OneRefresh, Refreshes

\* What the pieces of Sound say of one request, and of two.
LEMMA SoundMeaning ==
    ASSUME Structure, Sound, NEW r \in Requests
    PROVE  /\ req[r].token \in held \union {NoToken}
           /\ cookie \in held \union {NoToken}
           /\ rotated \subseteq held /\ held \subseteq issued /\ NoToken \notin held
           /\ pc[r] = "claim" => tok[r] \in held
           /\ pc[r] = "rotate_user" => tok[r] \notin held /\ tok[r] \in issued
           /\ req[r].at \in {"free", "sent", "answered", "body"} <=> pc[r] = "idle"
<1>1. req[r] \in ReqTypes
  BY DEF Structure, ClientTypes
<1>2. req[r].at \in {"free", "sent", "serving", "answered", "body"}
  BY <1>1 DEF ReqTypes
<1> QED BY <1>2, NullAssumption DEF Structure, Types, TypeOK, TokensKnown, Sound, HandedOut, Slots

\* A request is answered in a way that brings nothing, or goes on to its handler.
LEMMA SoundServe ==
    ASSUME Structure, Sound, NEW r \in Requests, Serve(r)
    PROVE  Sound'
<1>0. Types /\ ClientTypes /\ Slots
  BY DEF Structure
<1>1. /\ pc[r] = "idle" /\ req[r].at = "sent" /\ held' = held /\ rotated' = rotated
      /\ cookie' = cookie /\ alarmed' = alarmed
  BY <1>0, ServeOutcome DEF Serve, Authenticate, RotateRead, LogoutRead, vars
<1>2. /\ \A q \in Requests \ {r} : req'[q] = req[q] /\ pc'[q] = pc[q] /\ tok'[q] = tok[q]
      /\ req'[r].kind = req[r].kind /\ req'[r].tab = req[r].tab
      /\ \/ req'[r].at = "serving" /\ req'[r].token = req[r].token
         \/ req'[r].at = "answered" /\ req'[r].token = NoToken /\ req[r].kind = "logout"
         \/ req'[r].at = "body" /\ req'[r].token = NoToken
  <2>1. \A q \in Requests \ {r} : pc'[q] = pc[q] /\ tok'[q] = tok[q]
    BY <1>0, ServeSteps
  <2>2. CASE req' = [req EXCEPT ![r].at = "serving"]
    BY <1>0, <2>1, <2>2, AtIs
  <2>3. ASSUME NEW ok \in BOOLEAN, req' = Answered(r, ok, NoToken), ok => req[r].kind = "logout"
        PROVE  /\ \A q \in Requests \ {r} : req'[q] = req[q]
               /\ req'[r].kind = req[r].kind /\ req'[r].tab = req[r].tab
               /\ \/ req'[r].at = "answered" /\ req'[r].token = NoToken /\ req[r].kind = "logout"
                  \/ req'[r].at = "body" /\ req'[r].token = NoToken
    BY <1>0, <2>3, AnsweredIs DEF Maybe
  <2> QED BY <1>0, <2>1, <2>2, <2>3, ServeOutcome
<1>3. /\ pc'[r] \notin {"rotate_issue", "rotate_user"}
      /\ pc'[r] = "claim" => tok'[r] = req[r].token /\ req[r].token \in held
      /\ pc'[r] = "reuse_revoke" => req[r].kind = "rotate" /\ req[r].token \in rotated
  BY <1>0, ServeSteps
<1>4. HandedOut'
  <2>1. \A q \in Requests : /\ req'[q].token \in held \union {NoToken}
                            /\ pc'[q] = "claim" => tok'[q] \in held
                            /\ req'[q].kind = "logout" /\ req'[q].at = "answered" => req'[q].token = NoToken
                            /\ pc'[q] = "rotate_user" => tok'[q] \notin held
    <3>1. ASSUME NEW q \in Requests \ {r}
          PROVE  /\ req'[q].token \in held \union {NoToken}
                 /\ pc'[q] = "claim" => tok'[q] \in held
                 /\ req'[q].kind = "logout" /\ req'[q].at = "answered" => req'[q].token = NoToken
                 /\ pc'[q] = "rotate_user" => tok'[q] \notin held
      BY <1>2 DEF Sound, HandedOut
    <3>2. /\ req'[r].token \in held \union {NoToken}
          /\ pc'[r] = "claim" => tok'[r] \in held
          /\ req'[r].kind = "logout" /\ req'[r].at = "answered" => req'[r].token = NoToken
          /\ pc'[r] = "rotate_user" => tok'[r] \notin held
      BY <1>2, <1>3 DEF Sound, HandedOut
    <3> QED BY <3>1, <3>2
  <2> QED BY <1>1, <2>1 DEF Sound, HandedOut
<1>5. Unseen'
  <2> SUFFICES ASSUME NEW q \in Requests, Brings(q)'
               PROVE  /\ req'[q].token \in held' \ rotated' /\ req'[q].token # cookie'
                      /\ \A x \in Requests \ {q} :
                            /\ req'[x].at \in {"sent", "answered"} => req'[x].token # req'[q].token
                            /\ pc'[x] = "claim" => tok'[x] # req'[q].token
    BY DEF Unseen
  <2>1. q # r /\ req'[q] = req[q] /\ Brings(q)
    BY <1>2 DEF Brings
  <2>2. /\ req[q].token \in held \ rotated /\ req[q].token # cookie /\ req[q].token # NoToken
        /\ \A x \in Requests \ {q} :
              /\ req[x].at \in {"sent", "answered"} => req[x].token # req[q].token
              /\ pc[x] = "claim" => tok[x] # req[q].token
    BY <2>1, SoundMeaning DEF Sound, Unseen
  <2>3. ASSUME NEW x \in Requests \ {q}
        PROVE  /\ req'[x].at \in {"sent", "answered"} => req'[x].token # req[q].token
               /\ pc'[x] = "claim" => tok'[x] # req[q].token
    BY <1>1, <1>2, <1>3, <2>1, <2>2
  <2> QED BY <1>1, <2>1, <2>2, <2>3
<1>6. Succession'
  <2>1. \A q \in Requests : req'[q].kind = "rotate" =>
           /\ req'[q].tab = NoTab => req'[q].at = "body"
           /\ req'[q].at = "sent" => req'[q].token \notin rotated'
    BY <1>1, <1>2 DEF Sound, Succession
  <2>2. cookie \in rotated => \E q \in Requests \ {r} :
           /\ req[q].kind = "rotate"
           /\ req[q].at = "answered" \/ pc[q] \in {"rotate_issue", "rotate_user"}
    BY <1>1 DEF Sound, Succession
  <2>3. cookie' \in rotated' => \E q \in Requests :
           /\ req'[q].kind = "rotate"
           /\ req'[q].at = "answered" \/ pc'[q] \in {"rotate_issue", "rotate_user"}
    BY <1>1, <1>2, <2>2
  <2> QED BY <2>1, <2>3 DEF Succession
<1>7. NoAlarm'
  <2>1. pc'[r] # "reuse_revoke"
    BY <1>1, <1>3 DEF Sound, Succession
  <2> QED BY <1>1, <1>2, <2>1 DEF Sound, NoAlarm
<1> QED BY <1>4, <1>5, <1>6, <1>7 DEF Sound

\* What a step of a handler does to the tokens.
LEMMA WorkTokens ==
    ASSUME Types, Slots, NoAlarm, NEW r \in Requests, Work(r), ~severed'
    PROVE  /\ alarmed' = alarmed /\ cookie' = cookie
           /\ \/ rotated' = rotated
              \/ pc[r] = "claim" /\ pc'[r] = "rotate_issue" /\ rotated' = rotated \union {tok[r]}
           /\ pc[r] \in {"rotate_issue", "rotate_user"} => pc'[r] # "idle" \/ held' # held
<1>1. pc[r] # "reuse_revoke"
  BY DEF NoAlarm
<1>2. alarmed' = alarmed /\ cookie' = cookie
  BY <1>1 DEF Work, LoginIssue, RotateClaim, RotateIssue, RotateUser, RevokeFamily, Abort
<1>3. \/ rotated' = rotated
      \/ pc[r] = "claim" /\ pc'[r] = "rotate_issue" /\ rotated' = rotated \union {tok[r]}
  <2>1. CASE RotateClaim(r)
    BY <2>1 DEF RotateClaim, Goto, Types, TypeOK
  <2> QED BY <2>1 DEF Work, LoginIssue, RotateIssue, RotateUser, RevokeFamily, Abort
<1>4. pc[r] \in {"rotate_issue", "rotate_user"} => pc'[r] # "idle" \/ held' # held
  BY DEF Work
<1> QED BY <1>2, <1>3, <1>4

LEMMA SoundWork ==
    ASSUME OneTab, Structure, Sound, Types', NEW r \in Requests, Work(r), ~severed'
    PROVE  Sound'
<1>0. Types /\ ClientTypes /\ Slots /\ NoAlarm
  BY DEF Structure, Sound
<1>1. req[r].at = "serving" /\ pc[r] # "idle"
  BY <1>0 DEF Work, Slots
<1>2. /\ alarmed' = alarmed /\ cookie' = cookie
      /\ \/ rotated' = rotated
         \/ pc[r] = "claim" /\ pc'[r] = "rotate_issue" /\ rotated' = rotated \union {tok[r]}
      /\ pc[r] \in {"rotate_issue", "rotate_user"} => pc'[r] # "idle" \/ held' # held
  BY <1>0, WorkTokens
<1>3. /\ \A q \in Requests \ {r} : pc'[q] = pc[q] /\ tok'[q] = tok[q]
      /\ \/ pc'[r] = "idle"
         \/ pc[r] = "claim" /\ pc'[r] = "rotate_issue" /\ tok'[r] = tok[r]
         \/ pc[r] = "rotate_issue" /\ pc'[r] = "rotate_user" /\ tok'[r] \notin issued
  BY <1>0, WorkSteps
\* The three ways a step ends.
<1> DEFINE GoesOn == pc'[r] # "idle" /\ req' = req /\ held' = held
           Fails == /\ pc'[r] = "idle" /\ held' = held
                    /\ req'[r].token = NoToken
                    /\ \/ req'[r].at = "body"
                       \/ req'[r].at = "answered" /\ req[r].kind = "logout"
           Delivers(t) == /\ pc'[r] = "idle" /\ held' = held \union {t}
                          /\ req'[r].token = t /\ req'[r].at = "answered"
                          /\ req[r].kind # "logout"
                          /\ \/ pc[r] = "login_issue" /\ t \notin issued
                             \/ pc[r] = "rotate_user" /\ t = tok[r]
<1>4. /\ \A q \in Requests \ {r} : req'[q] = req[q]
      /\ req'[r].kind = req[r].kind /\ req'[r].tab = req[r].tab
      /\ GoesOn \/ Fails \/ \E t \in Tokens \ held : Delivers(t)
  <2>1. CASE GoesOn
    BY <2>1
  <2>2. ASSUME NEW ok \in BOOLEAN, req' = Answered(r, ok, NoToken), ok => req[r].kind = "logout",
               pc'[r] = "idle", held' = held
        PROVE  /\ \A q \in Requests \ {r} : req'[q] = req[q]
               /\ req'[r].kind = req[r].kind /\ req'[r].tab = req[r].tab
               /\ Fails
    BY <1>0, <2>2, AnsweredIs DEF Maybe
  <2>3. ASSUME NEW t \in Tokens \ held, pc'[r] = "idle", req[r].kind \in {"login", "rotate"},
               held' = held \union {t}, req' = Answered(r, TRUE, t),
               \/ pc[r] = "login_issue" /\ t \notin issued
               \/ pc[r] = "rotate_user" /\ t = tok[r]
        PROVE  /\ \A q \in Requests \ {r} : req'[q] = req[q]
               /\ req'[r].kind = req[r].kind /\ req'[r].tab = req[r].tab
               /\ Delivers(t)
    <3>1. PICK ok \in BOOLEAN : ok = TRUE
      OBVIOUS
    <3>2. t \in Maybe /\ req' = Answered(r, ok, t)
      BY <2>3, <3>1 DEF Maybe
    <3>3. /\ \A q \in Requests \ {r} : req'[q] = req[q]
          /\ req'[r].kind = req[r].kind /\ req'[r].tab = req[r].tab
          /\ req'[r].token = t /\ req'[r].at = "answered"
      BY <1>0, <3>1, <3>2, AnsweredIs
    <3> QED BY <2>3, <3>3
  <2> QED BY <1>0, <2>1, <2>2, <2>3, WorkOutcome
<1> HIDE DEF GoesOn, Fails, Delivers
\* While a rotation runs here there is none elsewhere.
<1>5. pc[r] \in RotateSteps =>
         /\ req[r].kind = "rotate"
         /\ \A q \in Requests \ {r} : req[q].kind = "rotate" => req[q].at = "body"
  BY <1>0, <1>1, OneRotate DEF Slots
<1>6. \A q \in Requests : pc[q] \in RotateSteps => req[q].kind = "rotate" /\ req[q].at = "serving"
  BY <1>0 DEF Slots, RotateSteps
<1>7. held \subseteq held'
  BY <1>4 DEF GoesOn, Fails, Delivers
<1>8. \A q \in Requests :
         /\ req[q].token \in held \union {NoToken} /\ cookie \in held \union {NoToken}
         /\ rotated \subseteq held /\ held \subseteq issued /\ NoToken \notin held
         /\ pc[q] = "claim" => tok[q] \in held
         /\ pc[q] = "rotate_user" => tok[q] \notin held /\ tok[q] \in issued
  BY SoundMeaning
<1>9. HandedOut'
  <2>1. cookie' \in held' \union {NoToken} /\ rotated' \subseteq held'
    BY <1>2, <1>7, <1>8
  <2>2. ASSUME NEW q \in Requests \ {r}
        PROVE  /\ req'[q].token \in held' \union {NoToken}
               /\ pc'[q] = "claim" => tok'[q] \in held'
               /\ req'[q].kind = "logout" /\ req'[q].at = "answered" => req'[q].token = NoToken
               /\ pc'[q] = "rotate_user" => tok'[q] \notin held'
    <3>1. pc[q] = "rotate_user" => tok[q] \notin held'
      <4> SUFFICES ASSUME pc[q] = "rotate_user" PROVE tok[q] \notin held'
        OBVIOUS
      <4>1. req[q].kind = "rotate" /\ req[q].at = "serving"
        BY <1>6 DEF RotateSteps
      <4>2. pc[r] # "rotate_user"
        BY <1>5, <4>1 DEF RotateSteps
      <4>3. tok[q] \notin held /\ tok[q] \in issued
        BY <1>8
      <4> QED BY <1>4, <4>2, <4>3 DEF GoesOn, Fails, Delivers
    <3>2. req[q].kind = "logout" /\ req[q].at = "answered" => req[q].token = NoToken
      BY DEF Sound, HandedOut
    <3> QED BY <1>3, <1>4, <1>7, <1>8, <3>1, <3>2
  <2>3. /\ req'[r].token \in held' \union {NoToken}
        /\ pc'[r] = "claim" => tok'[r] \in held'
        /\ req'[r].kind = "logout" /\ req'[r].at = "answered" => req'[r].token = NoToken
        /\ pc'[r] = "rotate_user" => tok'[r] \notin held'
    <3>1. CASE GoesOn
      BY <1>1, <1>3, <1>8, <3>1 DEF GoesOn
    <3>2. CASE Fails
      BY <3>2 DEF Fails
    <3>3. ASSUME NEW t \in Tokens \ held, Delivers(t)
          PROVE  /\ req'[r].token \in held' \union {NoToken}
                 /\ pc'[r] = "claim" => tok'[r] \in held'
                 /\ req'[r].kind = "logout" /\ req'[r].at = "answered" => req'[r].token = NoToken
                 /\ pc'[r] = "rotate_user" => tok'[r] \notin held'
      BY <1>4, <3>3 DEF Delivers
    <3> QED BY <1>4, <3>1, <3>2, <3>3
  <2> QED BY <2>1, <2>2, <2>3 DEF HandedOut
<1>10. Unseen'
  <2>1. ASSUME NEW q \in Requests \ {r}, Brings(q)'
        PROVE  /\ req'[q].token \in held' \ rotated' /\ req'[q].token # cookie'
               /\ \A x \in Requests \ {q} :
                     /\ req'[x].at \in {"sent", "answered"} => req'[x].token # req'[q].token
                     /\ pc'[x] = "claim" => tok'[x] # req'[q].token
    <3>1. Brings(q) /\ req'[q] = req[q]
      BY <1>4, <2>1 DEF Brings
    <3>2. /\ req[q].token \in held \ rotated /\ req[q].token # cookie /\ req[q].token # NoToken
          /\ \A x \in Requests \ {q} :
                /\ req[x].at \in {"sent", "answered"} => req[x].token # req[q].token
                /\ pc[x] = "claim" => tok[x] # req[q].token
      BY <1>8, <3>1 DEF Sound, Unseen
    <3>3. req[q].token \notin rotated'
      BY <1>2, <3>2
    <3>4. ASSUME NEW x \in Requests \ {q, r}
          PROVE  /\ req'[x].at \in {"sent", "answered"} => req'[x].token # req[q].token
                 /\ pc'[x] = "claim" => tok'[x] # req[q].token
      BY <1>3, <1>4, <3>2
    <3>5. pc'[r] # "claim"
      BY <1>3
    <3>6. req'[r].at \in {"sent", "answered"} => req'[r].token # req[q].token
      <4>1. CASE GoesOn
        BY <1>1, <4>1 DEF GoesOn
      <4>2. CASE Fails
        BY <3>2, <4>2 DEF Fails
      <4>3. ASSUME NEW t \in Tokens \ held, Delivers(t) PROVE req'[r].token # req[q].token
        BY <3>2, <4>3 DEF Delivers
      <4> QED BY <1>4, <4>1, <4>2, <4>3
    <3> QED BY <1>2, <1>7, <3>1, <3>2, <3>3, <3>4, <3>5, <3>6
  <2>2. ASSUME Brings(r)'
        PROVE  /\ req'[r].token \in held' \ rotated' /\ req'[r].token # cookie'
               /\ \A x \in Requests \ {r} :
                     /\ req'[x].at \in {"sent", "answered"} => req'[x].token # req'[r].token
                     /\ pc'[x] = "claim" => tok'[x] # req'[r].token
    <3>1. req'[r].kind # "logout" /\ req'[r].at = "answered"
      BY <2>2 DEF Brings
    <3>2. ~GoesOn /\ ~Fails
      BY <1>1, <1>4, <3>1 DEF GoesOn, Fails
    <3>3. PICK t \in Tokens \ held : Delivers(t)
      BY <1>4, <3>2
    <3>4. t \in held' /\ t # NoToken /\ t \notin held /\ req'[r].token = t
          /\ pc[r] \in {"login_issue", "rotate_user"}
      BY <3>3, NullAssumption DEF Delivers
    <3>5. rotated' = rotated
      BY <1>2, <3>4
    <3>6. ASSUME NEW x \in Requests \ {r}
          PROVE  /\ req'[x].at \in {"sent", "answered"} => req'[x].token # t
                 /\ pc'[x] = "claim" => tok'[x] # t
      BY <1>3, <1>4, <1>8, <3>4
    <3> QED BY <1>2, <1>8, <3>4, <3>5, <3>6
  <2> QED BY <2>1, <2>2 DEF Unseen
<1>11. Succession'
  <2>1. ASSUME NEW q \in Requests, req'[q].kind = "rotate"
        PROVE  /\ req'[q].tab = NoTab => req'[q].at = "body"
               /\ req'[q].at = "sent" => req'[q].token \notin rotated'
    <3>1. req[q].kind = "rotate" /\ req'[q].tab = req[q].tab
      BY <1>4, <2>1
    <3>2. /\ req[q].tab = NoTab => req[q].at = "body"
          /\ req[q].at = "sent" => req[q].token \notin rotated
      BY <3>1 DEF Sound, Succession
    <3>3. CASE q = r
      <4>1. req[r].tab # NoTab
        BY <1>1, <3>2, <3>3
      <4>2. req'[r].at # "sent"
        BY <1>1, <1>4 DEF GoesOn, Fails, Delivers
      <4> QED BY <3>1, <3>3, <4>1, <4>2
    <3>4. CASE q # r
      <4>1. req'[q] = req[q]
        BY <1>4, <3>4
      <4>2. req[q].at = "sent" => rotated' = rotated
        BY <1>2, <1>5, <3>1, <3>4 DEF RotateSteps
      <4> QED BY <3>2, <4>1, <4>2
    <3> QED BY <3>3, <3>4
  <2>2. cookie' \in rotated' => \E q \in Requests :
           /\ req'[q].kind = "rotate"
           /\ req'[q].at = "answered" \/ pc'[q] \in {"rotate_issue", "rotate_user"}
    <3> SUFFICES ASSUME cookie' \in rotated'
                 PROVE  \E q \in Requests :
                           /\ req'[q].kind = "rotate"
                           /\ req'[q].at = "answered" \/ pc'[q] \in {"rotate_issue", "rotate_user"}
      OBVIOUS
    <3>1. CASE cookie \in rotated
      <4>1. PICK q \in Requests : /\ req[q].kind = "rotate"
                                  /\ req[q].at = "answered" \/ pc[q] \in {"rotate_issue", "rotate_user"}
        BY <3>1 DEF Sound, Succession
      <4>2. CASE q # r
        BY <1>3, <1>4, <4>1, <4>2
      <4>3. CASE q = r
        <5>1. pc[r] \in {"rotate_issue", "rotate_user"}
          BY <1>1, <4>1, <4>3
        <5>2. CASE pc'[r] # "idle"
          BY <1>3, <1>4, <4>1, <4>3, <5>2
        <5>3. CASE pc'[r] = "idle"
          <6>1. held' # held
            BY <1>2, <5>1, <5>3
          <6>2. req'[r].at = "answered"
            BY <1>4, <6>1 DEF GoesOn, Fails, Delivers
          <6> QED BY <1>4, <4>1, <4>3, <6>2
        <5> QED BY <5>2, <5>3
      <4> QED BY <4>2, <4>3
    <3>2. CASE cookie \notin rotated
      <4>1. pc[r] = "claim" /\ pc'[r] = "rotate_issue"
        BY <1>2, <3>2
      <4> QED BY <1>4, <1>5, <4>1 DEF RotateSteps
    <3> QED BY <3>1, <3>2
  <2> QED BY <2>1, <2>2 DEF Succession
<1>12. NoAlarm'
  BY <1>0, <1>2, <1>3 DEF NoAlarm
<1> QED BY <1>9, <1>10, <1>11, <1>12 DEF Sound

\* The network and the page: a step that touches one slot, and perhaps the cookie,
\* and puts no answer there.
LEMMA SoundSlot ==
    ASSUME Structure, Sound, NEW r \in Requests, UNCHANGED vars, pc[r] = "idle",
           \A q \in Requests \ {r} : req'[q] = req[q],
           req'[r].at \in {"free", "sent", "body"},
           req'[r].token \in held \union {NoToken}, cookie' \in held \union {NoToken},
           req'[r].at = "sent" => req'[r].token = cookie /\ cookie' = cookie,
           \A q \in Requests \ {r} : Brings(q) => cookie' # req[q].token,
           req'[r].kind = "rotate" =>
              /\ req'[r].tab = NoTab => req'[r].at = "body"
              /\ req'[r].at = "sent" => cookie \notin rotated,
           cookie' \in rotated =>
              cookie' = cookie /\ ~(req[r].kind = "rotate" /\ req[r].at = "answered")
    PROVE  Sound'
<1>1. /\ held' = held /\ rotated' = rotated /\ pc' = pc /\ tok' = tok /\ alarmed' = alarmed
  BY DEF vars
<1>2. HandedOut'
  <2>1. cookie' \in held' \union {NoToken} /\ rotated' \subseteq held'
    BY <1>1 DEF Sound, HandedOut
  <2>2. ASSUME NEW q \in Requests
        PROVE  /\ req'[q].token \in held' \union {NoToken}
               /\ pc'[q] = "claim" => tok'[q] \in held'
               /\ req'[q].kind = "logout" /\ req'[q].at = "answered" => req'[q].token = NoToken
               /\ pc'[q] = "rotate_user" => tok'[q] \notin held'
    BY <1>1 DEF Sound, HandedOut
  <2> QED BY <2>1, <2>2 DEF HandedOut
<1>3. Unseen'
  <2> SUFFICES ASSUME NEW q \in Requests, Brings(q)'
               PROVE  /\ req'[q].token \in held' \ rotated' /\ req'[q].token # cookie'
                      /\ \A x \in Requests \ {q} :
                            /\ req'[x].at \in {"sent", "answered"} => req'[x].token # req'[q].token
                            /\ pc'[x] = "claim" => tok'[x] # req'[q].token
    BY DEF Unseen
  <2>1. q # r /\ req'[q] = req[q] /\ Brings(q)
    BY DEF Brings
  <2>2. /\ req[q].token \in held \ rotated /\ req[q].token # cookie
        /\ \A x \in Requests \ {q} :
              /\ req[x].at \in {"sent", "answered"} => req[x].token # req[q].token
              /\ pc[x] = "claim" => tok[x] # req[q].token
    BY <2>1 DEF Sound, Unseen
  <2>3. ASSUME NEW x \in Requests \ {q}
        PROVE  /\ req'[x].at \in {"sent", "answered"} => req'[x].token # req[q].token
               /\ pc'[x] = "claim" => tok'[x] # req[q].token
    <3>1. CASE x = r
      BY <1>1, <2>2, <3>1
    <3>2. CASE x # r
      BY <1>1, <2>2, <3>2
    <3> QED BY <3>1, <3>2
  <2> QED BY <1>1, <2>1, <2>2, <2>3
<1>4. Succession'
  <2>1. ASSUME NEW q \in Requests, req'[q].kind = "rotate"
        PROVE  /\ req'[q].tab = NoTab => req'[q].at = "body"
               /\ req'[q].at = "sent" => req'[q].token \notin rotated'
    <3>1. CASE q = r
      BY <1>1, <2>1, <3>1
    <3>2. CASE q # r
      BY <1>1, <2>1, <3>2 DEF Sound, Succession
    <3> QED BY <3>1, <3>2
  <2>2. cookie' \in rotated' => \E q \in Requests :
           /\ req'[q].kind = "rotate"
           /\ req'[q].at = "answered" \/ pc'[q] \in {"rotate_issue", "rotate_user"}
    <3> SUFFICES ASSUME cookie' \in rotated'
                 PROVE  \E q \in Requests :
                           /\ req'[q].kind = "rotate"
                           /\ req'[q].at = "answered" \/ pc'[q] \in {"rotate_issue", "rotate_user"}
      OBVIOUS
    <3>1. PICK q \in Requests : /\ req[q].kind = "rotate"
                                /\ req[q].at = "answered" \/ pc[q] \in {"rotate_issue", "rotate_user"}
      BY <1>1 DEF Sound, Succession
    <3>2. q # r
      BY <1>1, <3>1
    <3> QED BY <1>1, <3>1, <3>2
  <2> QED BY <2>1, <2>2 DEF Succession
<1>5. NoAlarm'
  BY <1>1 DEF Sound, NoAlarm
<1> QED BY <1>2, <1>3, <1>4, <1>5 DEF Sound

LEMMA SoundLose == ASSUME Structure, Sound, NEW r \in Requests, Lose(r) PROVE Sound'
<1>a. UNCHANGED vars
  BY DEF Lose
<1>b. /\ cookie' = cookie
      /\ req[r].at = "sent" \/ (req[r].at = "answered" /\ req[r].kind = "logout")
  BY DEF Lose
<1>1. /\ UNCHANGED vars /\ cookie' = cookie
      /\ req[r].at = "sent" \/ (req[r].at = "answered" /\ req[r].kind = "logout")
  BY <1>a, <1>b
<1>2. /\ \A q \in Requests \ {r} : req'[q] = req[q]
      /\ req'[r].token = NoToken /\ req'[r].at = "body"
  BY FailedIs DEF Lose, Structure
<1>3. pc[r] = "idle" /\ cookie \in held \union {NoToken}
  BY <1>1, SoundMeaning
<1>4. \A q \in Requests : Brings(q) => cookie # req[q].token
  BY DEF Sound, Unseen
<1> QED BY <1>1, <1>2, <1>3, <1>4, SoundSlot

LEMMA SoundHeaders == ASSUME Structure, Sound, NEW r \in Requests, Headers(r) PROVE Sound'
<1>a. UNCHANGED vars
  BY DEF Headers
<1>b. /\ req[r].at = "answered"
      /\ cookie' = req[r].token \/ (req[r].tab = NoTab /\ cookie' = cookie)
  BY DEF Headers
<1>1. /\ UNCHANGED vars /\ req[r].at = "answered"
      /\ cookie' = req[r].token \/ (req[r].tab = NoTab /\ cookie' = cookie)
  BY <1>a, <1>b
<1>2. /\ \A q \in Requests \ {r} : req'[q] = req[q]
      /\ req'[r].token = req[r].token /\ req'[r].at = "body"
  BY AtIs DEF Headers, Structure
<1>3. /\ pc[r] = "idle" /\ cookie \in held \union {NoToken} /\ req[r].token \in held \union {NoToken}
      /\ NoToken \notin held /\ rotated \subseteq held
  BY <1>1, SoundMeaning
<1>4. \A q \in Requests : Brings(q) => req[q].token # cookie /\ req[q].token \in held \ rotated
  BY DEF Sound, Unseen
<1>5. req[r].kind = "logout" => req[r].token = NoToken
  BY <1>1 DEF Sound, HandedOut
<1>6. CASE cookie' = req[r].token
  <2>1. \A q \in Requests \ {r} : Brings(q) => cookie' # req[q].token
    BY <1>1, <1>6 DEF Sound, Unseen
  <2>2. cookie' \notin rotated
    BY <1>1, <1>3, <1>4, <1>5, <1>6 DEF Brings
  <2> QED BY <1>1, <1>2, <1>3, <1>6, <2>1, <2>2, SoundSlot
<1>7. CASE req[r].tab = NoTab /\ cookie' = cookie
  <2>1. req[r].kind # "rotate"
    BY <1>1, <1>7 DEF Sound, Succession
  <2> QED BY <1>1, <1>2, <1>3, <1>4, <1>7, <2>1, SoundSlot
<1> QED BY <1>1, <1>6, <1>7

LEMMA SoundSettle == ASSUME Structure, Sound, NEW r \in Requests, Settle(r) PROVE Sound'
<1>1. UNCHANGED vars /\ req[r].at = "body" /\ cookie' = cookie /\ req' = [req EXCEPT ![r] = Free]
  BY DEF Settle
<1>2. req'[r] = Free /\ \A q \in Requests \ {r} : req'[q] = req[q]
  BY <1>1 DEF Structure, ClientTypes
<1>3. req'[r].token = NoToken /\ req'[r].at = "free" /\ req'[r].kind = "none"
  BY <1>2, FreeIs
<1>4. pc[r] = "idle" /\ cookie \in held \union {NoToken}
  BY <1>1, SoundMeaning
<1>5. \A q \in Requests : Brings(q) => cookie # req[q].token
  BY DEF Sound, Unseen
<1> QED BY <1>1, <1>2, <1>3, <1>4, <1>5, SoundSlot

\* A rotation is sent only with a cookie that is not spent.
LEMMA SoundSend ==
    ASSUME Structure, Sound, NEW r \in Requests, NEW k \in {"login", "rotate", "logout"},
           NEW p \in Tabs, Send(r, k, p), UNCHANGED vars, cookie' = cookie,
           k = "rotate" => cookie \notin rotated
    PROVE  Sound'
<1>1. /\ req[r] = Free
      /\ req'[r] = [kind |-> k, tab |-> p, at |-> "sent", ok |-> FALSE, token |-> cookie]
      /\ \A q \in Requests \ {r} : req'[q] = req[q]
  BY SendOutcome DEF Structure
<1>2. req'[r].kind = k /\ req'[r].tab = p /\ req'[r].at = "sent" /\ req'[r].token = cookie
  BY <1>1
<1>3. pc[r] = "idle" /\ cookie \in held \union {NoToken} /\ req[r].at = "free"
  BY <1>1, FreeIs, SoundMeaning
<1>4. \A q \in Requests : Brings(q) => cookie # req[q].token
  BY DEF Sound, Unseen
<1>5. p # NoTab
  BY ClientAssumption
<1> QED BY <1>1, <1>2, <1>3, <1>4, <1>5, SoundSlot

\* While the cookie is spent the one tab has its promise.
LEMMA SpentIsPromised ==
    ASSUME OneTab, Structure, Sound, NEW p \in Tabs, cookie \in rotated
    PROVE  refreshInFlight[p]
<1>1. PICK r \in Requests : /\ req[r].kind = "rotate"
                            /\ req[r].at = "answered" \/ pc[r] \in {"rotate_issue", "rotate_user"}
  BY DEF Sound, Succession
<1>2. req[r].at # "body"
  BY <1>1, SoundMeaning
<1>3. req[r].tab # NoTab
  BY <1>1, <1>2 DEF Sound, Succession
<1>4. req[r].tab \in Tabs
  <2>1. req[r] \in ReqTypes
    BY DEF Structure, ClientTypes
  <2> QED BY <1>3, <2>1 DEF ReqTypes
<1>5. req[r].tab = p
  BY <1>4 DEF OneTab
<1> QED BY <1>1, <1>5 DEF Structure, Promises, WaitersAreServed

\* A step that changes nothing the tokens depend on.
LEMMA SoundStill ==
    ASSUME Sound, UNCHANGED <<held, rotated, pc, tok, alarmed, cookie>>,
           \A r \in Requests : /\ req'[r].kind = req[r].kind /\ req'[r].at = req[r].at
                               /\ req'[r].token = req[r].token
                               /\ req'[r].tab # req[r].tab => (req[r].kind = "rotate" => req[r].at = "body")
    PROVE  Sound'
<1>1. HandedOut'
  BY DEF Sound, HandedOut
<1>2. Unseen'
  BY DEF Sound, Unseen, Brings
<1>3. Succession'
  <2>1. ASSUME NEW q \in Requests, req'[q].kind = "rotate"
        PROVE  /\ req'[q].tab = NoTab => req'[q].at = "body"
               /\ req'[q].at = "sent" => req'[q].token \notin rotated'
    BY <2>1 DEF Sound, Succession
  <2>2. cookie' \in rotated' => \E q \in Requests :
           /\ req'[q].kind = "rotate"
           /\ req'[q].at = "answered" \/ pc'[q] \in {"rotate_issue", "rotate_user"}
    BY DEF Sound, Succession
  <2> QED BY <2>1, <2>2 DEF Succession
<1>4. NoAlarm'
  BY DEF Sound, NoAlarm
<1> QED BY <1>1, <1>2, <1>3, <1>4 DEF Sound

LEMMA SoundJoin ==
    ASSUME OneTab, Structure, Sound, NEW p \in Tabs, JoinRefresh(p), UNCHANGED vars, cookie' = cookie
    PROVE  Sound'
<1>1. CASE UNCHANGED <<req, refreshInFlight>>
  BY <1>1, SoundStill DEF vars
<1>2. ASSUME NEW r \in Requests, Send(r, "rotate", p), ~refreshInFlight[p] PROVE Sound'
  BY <1>2, SpentIsPromised, SoundSend
<1> QED BY <1>1, <1>2 DEF JoinRefresh, SendRotation

LEMMA SoundUnload ==
    ASSUME Structure, Sound, NEW p \in Tabs, Unload(p), ~severed'
    PROVE  Sound'
<1>1. \A r \in Requests : req'[r] = IF req[r].tab = p THEN [req[r] EXCEPT !.tab = NoTab] ELSE req[r]
  BY DEF Unload
<1>2. \A r \in Requests : LET s == [req[r] EXCEPT !.tab = NoTab]
                          IN  s.kind = req[r].kind /\ s.at = req[r].at /\ s.token = req[r].token
  BY DEF Structure, ClientTypes, ReqTypes
<1>3. \A r \in Requests : req[r].kind = "rotate" /\ req[r].tab = p => req[r].at = "body"
  BY DEF Unload
<1>4. UNCHANGED <<held, rotated, pc, tok, alarmed, cookie>>
  BY DEF Unload, vars
<1> QED BY <1>1, <1>2, <1>3, <1>4, SoundStill

LEMMA NextUnsevered ==
    OneTab /\ Structure /\ Types' /\ Unsevered /\ [ClientNext]_allVars => Unsevered'
<1> SUFFICES ASSUME OneTab, Structure, Types', Unsevered, [ClientNext]_allVars, ~severed'
             PROVE  Sound'
  BY DEF Unsevered
<1>a. CASE req' = req /\ cookie' = cookie /\ severed' = severed
           /\ UNCHANGED <<held, rotated, pc, tok, alarmed>>
  BY <1>a, SoundStill DEF Unsevered
<1>1. ASSUME NEW r \in Requests, Arrive(r) \/ Work(r) \/ Headers(r) \/ Settle(r) PROVE Sound'
  <2>1. Sound
    BY <1>1 DEF Unsevered, Arrive, Serve, Work, Lose, Headers, Settle
  <2> QED BY <1>1, <2>1, SoundServe, SoundWork, SoundLose, SoundHeaders, SoundSettle DEF Arrive
<1>2. ASSUME NEW p \in Tabs, Login(p) \/ Logout(p) PROVE Sound'
  <2>1. PICK r \in Requests, k \in {"login", "logout"} : Send(r, k, p)
    BY <1>2 DEF Login, Logout
  <2>2. UNCHANGED vars /\ cookie' = cookie /\ Sound
    BY <1>2 DEF Login, Logout, Unsevered
  <2> QED BY <2>1, <2>2, SoundSend
<1>3. ASSUME NEW p \in Tabs, Unload(p) PROVE Sound'
  <2>1. Sound
    BY <1>3 DEF Unload, Unsevered
  <2> QED BY <1>3, <2>1, SoundUnload
<1>4. ASSUME NEW p \in Tabs, NEW c \in Calls, Fetch(p, c) \/ Answer(p, c) PROVE Sound'
  <2>1. UNCHANGED vars /\ cookie' = cookie /\ severed' = severed /\ Sound
    BY <1>4 DEF Fetch, Answer, Unsevered
  <2>2. CASE req' = req
    BY <1>a, <2>1, <2>2 DEF vars
  <2>3. CASE JoinRefresh(p)
    BY <2>1, <2>3, SoundJoin
  <2> QED BY <1>4, <2>2, <2>3 DEF Fetch, Answer
<1>5. ASSUME NEW p \in Tabs, NEW c \in Calls, Denied(p, c) PROVE Sound'
  BY <1>3, <1>5, <1>a DEF Denied, vars
<1>6. ASSUME NEW t \in Tokens, Lapse(t) \/ ExpireRow(t) PROVE Sound'
  BY <1>6, <1>a DEF Lapse, ExpireRow, Expire, client, vars
<1>7. CASE UNCHANGED allVars
  BY <1>7, <1>a DEF allVars, client, vars
<1> QED BY <1>1, <1>2, <1>3, <1>4, <1>5, <1>6, <1>7 DEF ClientNext, Tick, Leave

-----------------------------------------------------------------------------
(* The theorems *)

LEMMA InitClient ==
    ClientInit => /\ Types /\ ClientTypes /\ Slots /\ Promises /\ RowsKept
                  /\ Unsevered
<1> SUFFICES ASSUME ClientInit PROVE Types /\ ClientTypes /\ Slots /\ Promises /\ RowsKept /\ Unsevered
  OBVIOUS
<1>1. /\ \A r \in Requests : req[r] = Free /\ pc[r] = "idle"
      /\ \A q \in Tabs \X Calls : call[q].at = "idle"
      /\ cookie = NoToken /\ rotated = {} /\ alarmed = {} /\ rows = {} /\ issued = {} /\ revoked = {}
  BY DEF ClientInit, Init, Idle
<1>2. Types
  BY InitTypes DEF ClientInit
<1>3. ClientTypes
  BY FreeIs DEF ClientInit, ClientTypes, Maybe, CallTypes, Idle
<1>4. Slots
  BY <1>1, FreeIs DEF Slots, RotateSteps
<1>5. Promises
  BY <1>1, FreeIs DEF ClientInit, Promises, OneRefresh, Refreshes, WaitersAreServed
<1>6. RowsKept
  BY <1>1 DEF RowsKept
<1>7. Sound
  BY <1>1, FreeIs DEF Sound, HandedOut, Unseen, Brings, Succession, NoAlarm
<1> QED BY <1>2, <1>3, <1>4, <1>5, <1>6, <1>7 DEF Unsevered

\* The structure holds with any number of tabs.
LEMMA ClientStructure == ClientSpec => [](Structure /\ RowsKept)
<1>1. ClientInit => Structure /\ RowsKept
  BY InitClient DEF Structure
<1>2. Structure /\ RowsKept /\ [ClientNext]_allVars => (Structure /\ RowsKept)'
  <2> SUFFICES ASSUME Structure, RowsKept, [ClientNext]_allVars PROVE Structure' /\ RowsKept'
    OBVIOUS
  <2>1. Types'
    BY ClientStepOfServer, NextTypes DEF Structure
  <2>2. ClientTypes'
    BY <2>1, NextClientTypes DEF Structure
  <2>3. Slots'
    BY <2>1, <2>2, NextSlots DEF Structure
  <2>4. Promises'
    BY <2>2, NextPromises DEF Structure
  <2> QED BY <2>1, <2>2, <2>3, <2>4, NextRowsKept DEF Structure
<1> QED BY <1>1, <1>2, PTL DEF ClientSpec

\* refreshInFlight in apiClient.ts is set exactly while a rotation of the tab is under
\* way, and a call that waits for a refresh waits for that one: with any number of
\* tabs and calls, when pages are left, handlers die and requests get lost.
THEOREM WaitersNeverLeftBehind == ClientSpec => []WaitersAreServed
<1>1. Structure => WaitersAreServed
  BY DEF Structure, Promises
<1> QED BY <1>1, ClientStructure, PTL

LEMMA OneTabUnsevered == ASSUME OneTab PROVE ClientSpec => []Unsevered
<1>1. ClientInit => Unsevered
  BY InitClient
<1>2. Structure /\ Structure' /\ Unsevered /\ [ClientNext]_allVars => Unsevered'
  BY NextUnsevered DEF Structure
<1>3. ClientSpec => []Structure
  BY ClientStructure, PTL
<1> QED BY <1>1, <1>2, <1>3, PTL DEF ClientSpec

\* A browser with one tab never shows the server a token twice, whatever it sends and
\* whatever is lost: as long as each rotation is seen through, rotate_refresh_token
\* never takes it for a thief.
THEOREM OneTabRaisesNoAlarm == ASSUME OneTab PROVE ClientSpec => []AlarmOnlyIfSevered
<1>1. Unsevered => AlarmOnlyIfSevered
  BY DEF Unsevered, Sound, NoAlarm, AlarmOnlyIfSevered
<1> QED BY <1>1, OneTabUnsevered, PTL

\* Under the same condition its session lasts until it expires or is logged out: with
\* nothing under way the cookie is the token the server would rotate.
THEOREM OneTabKeepsItsSession == ASSUME OneTab PROVE ClientSpec => []KeepsSession
<1>1. Structure /\ RowsKept /\ Unsevered => KeepsSession
  <2> SUFFICES ASSUME Structure, RowsKept, Unsevered, ~severed,
                      \A r \in Requests : req[r] = Free,
                      cookie \notin expired \union {NoToken}, family[cookie] \notin loggedOut
               PROVE  Usable(cookie)
    BY DEF KeepsSession
  <2>0. Sound
    BY DEF Unsevered
  <2>1. cookie \in issued /\ cookie \in rows
    BY <2>0 DEF Structure, Types, TypeOK, TokensKnown, Sound, HandedOut, RowsKept
  <2>2. cookie \notin rotated
    BY <2>0, FreeIs, SoundMeaning DEF Sound, Succession
  <2>3. cookie \notin revoked
    BY <2>0 DEF Sound, NoAlarm, RowsKept
  <2> QED BY <2>1, <2>2, <2>3 DEF Usable
<1> QED BY <1>1, ClientStructure, OneTabUnsevered, PTL
=============================================================================
