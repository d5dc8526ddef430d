------------------------------ MODULE AroClient ------------------------------
(***************************************************************************)
(* The ARO browser client in front of the token server:                    *)
(*   frontend/aro/src/lib/apiClient.ts        authFetch, refreshAccessToken*)
(*   frontend/aro/src/hooks/useAuthMutations.ts       postLogin, postLogout*)
(*   frontend/aro/src/hooks/useAuthStatus.ts          fetchCurrentUser     *)
(*   backend/app/api/aro/routes/auth.py               the cookie it sets   *)
(*                                                                         *)
(* The server is RefreshTokens, one transaction at a time.  A request of a *)
(* client occupies one of its slots from the moment it is sent, with the   *)
(* cookie of that moment, until JavaScript has read the body of the        *)
(* response.  Tabs of one browser share the cookie and nothing else.  A    *)
(* step of a client is a stretch of JavaScript without an await.           *)
(***************************************************************************)
EXTENDS RefreshTokens

CONSTANTS Tabs,   \* the tabs, each with its own module state
          Calls,  \* the authFetch calls a tab can have open
          NoTab,  \* the page that sent the request is gone
          Faults  \* what may go wrong in this instance, of Kinds

Kinds == {"crash",   \* a handler dies between two transactions
          "unload",  \* the user leaves the page or loads it again
          "expiry"}  \* a refresh token expires

ASSUME ClientAssumption == NoTab \notin Tabs /\ Faults \subseteq Kinds

VARIABLES
  cookie,  \* the refresh_token cookie of the browser
  store,   \* store[p]: the access token in memory, named by the refresh token
           \* it was issued with
  req,     \* req[r]: the request in slot r
  refreshInFlight,  \* refreshInFlight[p]: the promise of tab p is set
  call,    \* call[<<p, c>>]: where authFetch call c of tab p is, and what it sent
  lapsed,  \* access tokens past their exp
  severed  \* history: a rotation lost its page, or its page the new cookie

client == <<cookie, store, req, refreshInFlight, call, lapsed, severed>>
allVars == <<vars, client>>

Free == [kind |-> "none", tab |-> NoTab, at |-> "free", ok |-> FALSE, token |-> NoToken]
Idle == [at |-> "idle", sent |-> NoToken]

ClientInit == /\ Init
              /\ cookie = NoToken
              /\ store = [p \in Tabs |-> NoToken]
              /\ req = [r \in Requests |-> Free]
              /\ refreshInFlight = [p \in Tabs |-> FALSE]
              /\ call = [q \in Tabs \X Calls |-> Idle]
              /\ lapsed = {}
              /\ severed = FALSE

-----------------------------------------------------------------------------
(* Requests *)

Send(r, k, p) ==
    /\ req[r] = Free
    /\ req' = [req EXCEPT ![r] = [kind |-> k, tab |-> p, at |-> "sent",
                                  ok |-> FALSE, token |-> cookie]]

\* req with slot r answered: a success may carry a new token, a failure is an
\* error status or a broken connection, and its headers change nothing.
Answered(r, ok, t) == [req EXCEPT ![r].at = IF ok THEN "answered" ELSE "body",
                                  ![r].ok = ok, ![r].token = t]

SendRotation(p) == /\ \E r \in Requests : Send(r, "rotate", p)
                   /\ refreshInFlight' = [refreshInFlight EXCEPT ![p] = TRUE]

\* Mutant: every caller sends a rotation of its own.
JoinRefreshAlone(p) == SendRotation(p)

\* refreshAccessToken: share the rotation under way or send one.
JoinRefresh(p) == IF refreshInFlight[p] THEN UNCHANGED <<req, refreshInFlight>>
                  ELSE SendRotation(p)

-----------------------------------------------------------------------------
(* The server, seen from the network *)

\* The request reaches its handler, which runs up to its first transaction.
Serve(r) ==
    /\ req[r].at = "sent"
    /\ LET t == req[r].token IN
       \/ /\ req[r].kind = "login"
          /\ \E u \in Users : Authenticate(r, u)
          /\ req' = [req EXCEPT ![r].at = "serving"]
       \/ /\ req[r].kind = "rotate" /\ t # NoToken
          /\ RotateRead(r, t)
          /\ req' = IF pc'[r] = "idle" THEN Answered(r, FALSE, NoToken)
                    ELSE [req EXCEPT ![r].at = "serving"]
       \/ /\ req[r].kind = "logout" /\ t # NoToken
          /\ LogoutRead(r, t)
          /\ req' = [req EXCEPT ![r].at = "serving"]
       \/ /\ \/ req[r].kind = "rotate" /\ t = NoToken
             \/ req[r].kind = "logout" /\ t \notin rows
          /\ req' = Answered(r, req[r].kind = "logout", NoToken)
          /\ UNCHANGED vars
    /\ UNCHANGED <<cookie, store, refreshInFlight, call, lapsed, severed>>

\* The handler runs its next transaction.  A token newly held is one that was
\* put into the response; a rotation that claimed its row and ends without one
\* is severed.
Work(r) ==
    /\ req[r].at = "serving"
    /\ \/ /\ LoginIssue(r) \/ RotateClaim(r) \/ RotateIssue(r) \/ RotateUser(r)
          /\ req' = IF pc'[r] # "idle" THEN req
                    ELSE IF held' = held THEN Answered(r, FALSE, NoToken)
                    ELSE Answered(r, TRUE, CHOOSE t \in held' \ held : TRUE)
       \/ /\ RevokeFamily(r)
          /\ req' = Answered(r, req[r].kind = "logout", NoToken)
       \/ /\ "crash" \in Faults
          /\ Abort(r)
          /\ req' = Answered(r, FALSE, NoToken)
    /\ severed' = (severed \/ /\ pc[r] \in {"rotate_issue", "rotate_user"}
                              /\ pc'[r] = "idle" /\ held' = held)
    /\ UNCHANGED <<cookie, store, refreshInFlight, call, lapsed>>

\* The request, or the answer to a logout, is lost on the way.
Lose(r) ==
    /\ \/ req[r].at = "sent"
       \/ req[r].at = "answered" /\ req[r].kind = "logout"
    /\ req' = Answered(r, FALSE, NoToken)
    /\ UNCHANGED <<vars, cookie, store, refreshInFlight, call, lapsed, severed>>

-----------------------------------------------------------------------------
(* The browser *)

\* Mutant: rotate_tokens does not set the cookie.
HeadersKeepCookie(r) ==
    /\ req[r].at = "answered"
    /\ req' = [req EXCEPT ![r].at = "body"]
    /\ cookie' = IF req[r].kind = "rotate" THEN cookie ELSE req[r].token
    /\ UNCHANGED <<vars, store, refreshInFlight, call, lapsed, severed>>

\* The headers of a success set or delete the cookie; when the page that sent
\* the request is gone the browser may as well not look at them.
Headers(r) ==
    /\ req[r].at = "answered"
    /\ req' = [req EXCEPT ![r].at = "body"]
    /\ \/ cookie' = req[r].token
       \/ req[r].tab = NoTab /\ UNCHANGED cookie
    /\ UNCHANGED <<vars, store, refreshInFlight, call, lapsed, severed>>

\* The page is left or loaded again: its memory is gone, and the requests it
\* sent go on without it.
Unload(p) ==
    /\ store' = [store EXCEPT ![p] = NoToken]
    /\ call' = [q \in Tabs \X Calls |-> IF q[1] = p THEN Idle ELSE call[q]]
    /\ req' = [r \in Requests |-> IF req[r].tab = p THEN [req[r] EXCEPT !.tab = NoTab]
                                  ELSE req[r]]
    /\ refreshInFlight' = [refreshInFlight EXCEPT ![p] = FALSE]
    /\ severed' = (severed \/ \E r \in Requests : /\ req[r].kind = "rotate"
                                                  /\ req[r].tab = p
                                                  /\ req[r].at # "body")
    /\ UNCHANGED <<vars, cookie, lapsed>>

-----------------------------------------------------------------------------
(* postLogin and postLogout *)

\* Model bound: the user of a tab sends one of these at a time, and leaves a slot
\* for a refresh.
MaySend(p) ==
    LET open == {r \in Requests : req[r] # Free}
    IN /\ \A r \in open : req[r].tab = p => req[r].kind = "rotate"
       /\ Cardinality(open) + (IF refreshInFlight[p] THEN 0 ELSE 1) < Cardinality(Requests)

Login(p) == /\ MaySend(p)
            /\ \E r \in Requests : Send(r, "login", p)
            /\ UNCHANGED <<vars, cookie, store, refreshInFlight, call, lapsed, severed>>

Logout(p) == /\ MaySend(p)
             /\ \E r \in Requests : Send(r, "logout", p)
             /\ UNCHANGED <<vars, cookie, store, refreshInFlight, call, lapsed, severed>>

-----------------------------------------------------------------------------
(* authFetch and fetchCurrentUser *)

\* With a token in memory the call goes out at once.  Otherwise it waits for a
\* refresh: restoring in authFetch, which then sends in any case, checking in
\* fetchCurrentUser, which gives up when the refresh fails.
Fetch(p, c) ==
    /\ call[<<p, c>>] = Idle
    /\ \/ /\ store[p] # NoToken
          /\ call' = [call EXCEPT ![<<p, c>>] = [at |-> "out", sent |-> store[p]]]
          /\ UNCHANGED <<req, refreshInFlight>>
       \/ /\ store[p] = NoToken
          /\ JoinRefresh(p)
          /\ \E a \in {"restoring", "checking"} : call' = [call EXCEPT ![<<p, c>>].at = a]
    /\ UNCHANGED <<vars, cookie, store, lapsed, severed>>

\* The API answers: fine (or the network fails, and the call throws), or 401.
\* A first 401 is retried, with the token another call got meanwhile if there
\* is one, else after a refresh; the 401 of a retry goes to the caller.
Answer(p, c) ==
    /\ call[<<p, c>>].at \in {"out", "last"}
    /\ LET sent == call[<<p, c>>].sent IN
       \/ /\ call' = [call EXCEPT ![<<p, c>>] = Idle]
          /\ UNCHANGED <<req, refreshInFlight>>
       \/ /\ sent \in lapsed \union {NoToken}
          /\ IF call[<<p, c>>].at = "last"
             THEN /\ call' = [call EXCEPT ![<<p, c>>].at = "denied"]
                  /\ UNCHANGED <<req, refreshInFlight>>
             ELSE IF store[p] \notin {NoToken, sent}
             THEN /\ call' = [call EXCEPT ![<<p, c>>] = [at |-> "last", sent |-> store[p]]]
                  /\ UNCHANGED <<req, refreshInFlight>>
             ELSE /\ call' = [call EXCEPT ![<<p, c>>].at = "renewing"]
                  /\ JoinRefresh(p)
    /\ UNCHANGED <<vars, cookie, store, lapsed, severed>>

\* The 401 reaches the caller: fetchCurrentUser answers null, the others go
\* through parseOrThrow, which sends the window to the login page.
Denied(p, c) ==
    /\ call[<<p, c>>].at = "denied"
    /\ \/ /\ call' = [call EXCEPT ![<<p, c>>] = Idle]
          /\ UNCHANGED <<vars, cookie, store, req, refreshInFlight, lapsed, severed>>
       \/ Unload(p)

\* Where a call goes on when the refresh it waited for has ended.
Resumed(k, ok, t) ==
    CASE k.at = "restoring" -> [at |-> "last", sent |-> t]
      [] k.at = "renewing" -> [at |-> IF ok THEN "last" ELSE "denied", sent |-> t]
      [] k.at = "checking" -> IF ok THEN [at |-> "out", sent |-> t] ELSE Idle
      [] OTHER -> k

\* Mutant: only one of the waiting calls is woken.
SettleRotationWakesOne(p, ok, t) ==
    /\ store' = [store EXCEPT ![p] = IF ok THEN t ELSE NoToken]
    /\ refreshInFlight' = [refreshInFlight EXCEPT ![p] = FALSE]
    /\ LET waiting == {c \in Calls : call[<<p, c>>].at \in {"restoring", "renewing", "checking"}}
       IN IF waiting = {} THEN UNCHANGED call
          ELSE \E c \in waiting : call' = [call EXCEPT ![<<p, c>>] = Resumed(@, ok, store'[p])]

\* Mutant: the promise is not reset.
SettleRotationKeepsPromise(p, ok, t) ==
    /\ store' = [store EXCEPT ![p] = IF ok THEN t ELSE NoToken]
    /\ call' = [q \in Tabs \X Calls |-> IF q[1] = p THEN Resumed(call[q], ok, store'[p])
                                        ELSE call[q]]
    /\ UNCHANGED refreshInFlight

\* rotateTokens returns: the token is stored or dropped, the promise is reset,
\* and every call of the tab that shares it goes on.
SettleRotation(p, ok, t) ==
    /\ store' = [store EXCEPT ![p] = IF ok THEN t ELSE NoToken]
    /\ refreshInFlight' = [refreshInFlight EXCEPT ![p] = FALSE]
    /\ call' = [q \in Tabs \X Calls |-> IF q[1] = p THEN Resumed(call[q], ok, store'[p])
                                        ELSE call[q]]

\* The page reads the body, the request is over.  A page that is gone does
\* nothing with it.
Settle(r) ==
    /\ req[r].at = "body"
    /\ req' = [req EXCEPT ![r] = Free]
    /\ LET p == req[r].tab
           k == req[r].kind
           ok == req[r].ok IN
       \/ p # NoTab /\ k = "rotate" /\ SettleRotation(p, ok, req[r].token)
       \/ /\ p # NoTab /\ k = "login"
          /\ store' = [store EXCEPT ![p] = IF ok THEN req[r].token ELSE @]
          /\ UNCHANGED <<refreshInFlight, call>>
       \/ /\ p # NoTab /\ k = "logout"
          /\ store' = [store EXCEPT ![p] = NoToken]
          /\ UNCHANGED <<refreshInFlight, call>>
       \/ p = NoTab /\ UNCHANGED <<store, refreshInFlight, call>>
    /\ UNCHANGED <<vars, cookie, lapsed, severed>>

-----------------------------------------------------------------------------

\* An access token or a refresh token expires.
Lapse(t) == /\ t \in issued \ lapsed
            /\ lapsed' = lapsed \union {t}
            /\ UNCHANGED <<vars, cookie, store, req, refreshInFlight, call, severed>>

ExpireRow(t) == "expiry" \in Faults /\ Expire(t) /\ UNCHANGED client

Leave(p) == "unload" \in Faults /\ Unload(p)

Arrive(r) == Serve(r) \/ Lose(r)
Tick(p, c) == Answer(p, c) \/ Denied(p, c)

ClientNext ==
    \/ \E r \in Requests : Arrive(r) \/ Work(r) \/ Headers(r) \/ Settle(r)
    \/ \E p \in Tabs : Login(p) \/ Logout(p) \/ Leave(p)
    \/ \E p \in Tabs, c \in Calls : Fetch(p, c) \/ Tick(p, c)
    \/ \E t \in Tokens : Lapse(t) \/ ExpireRow(t)

ClientSpec == ClientInit /\ [][ClientNext]_allVars

\* A request arrives or its loss is noticed, a handler goes on or dies, and the
\* event loop of the page runs what is ready.
Fairness ==
    /\ \A r \in Requests : /\ WF_allVars(Arrive(r)) /\ WF_allVars(Work(r))
                           /\ WF_allVars(Headers(r)) /\ WF_allVars(Settle(r))
    /\ \A p \in Tabs, c \in Calls : WF_allVars(Tick(p, c))

FairClientSpec == ClientSpec /\ Fairness

-----------------------------------------------------------------------------
(* Properties *)

\* One tab never raises the reuse alarm against itself, whatever calls, logins
\* and logouts overlap, as long as every rotation is seen through: no page is
\* left while its rotation runs and no new cookie is lost.
AlarmOnlyIfSevered == alarmed # {} => severed

\* Under the same condition the session of one tab lasts: when nothing is under
\* way the cookie can be rotated, unless its session expired or was logged out.
KeepsSession ==
    \/ severed
    \/ \E r \in Requests : req[r] # Free
    \/ cookie \in expired \union {NoToken} \/ family[cookie] \in loggedOut
    \/ Usable(cookie)

\* The shared promise of a tab is set exactly while a rotation of it is under way,
\* and a call waits only under a promise: nobody is left behind when it settles.
WaitersAreServed ==
    /\ \A p \in Tabs : refreshInFlight[p] <=>
          \E r \in Requests : req[r].kind = "rotate" /\ req[r].tab = p
    /\ \A q \in Tabs \X Calls :
          call[q].at \in {"restoring", "renewing", "checking"} => refreshInFlight[q[1]]

\* Every authFetch call comes to an end, whatever the network, the server and
\* the user do meanwhile.
CallsSettle == \A q \in Tabs \X Calls : call[q].at # "idle" ~> call[q].at = "idle"
=============================================================================
