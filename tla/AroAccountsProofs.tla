------------------------- MODULE AroAccountsProofs -------------------------
(***************************************************************************)
(* The safety invariants of AroAccounts, for any number of accounts,       *)
(* addresses and requests.  The inductive invariant adds to them that an   *)
(* id is used once, that an address has one row, and what a request holds  *)
(* that has come past its reads: an id that was used, and, to verify, a    *)
(* token of that id whose address is still the one of the row, if the row  *)
(* is still there.                                                         *)
(***************************************************************************)
EXTENDS AroAccounts, TLAPS

Slots == [step : Steps, op : Ops \union {"none", "delete"}, id : Ids \union {NoId},
          email : Emails \union {NoEmail}, hash : 0 .. MaxHash]
Used(i) == i \in Ids /\ origin[i] # "unused"

\* What the request s holds fits what it will do next.
SlotOK(s) ==
    /\ s.op \in ByEmail => s.email \in Emails
    /\ s.op = "reset" => s.id \in Ids /\ s.hash \in 1 .. MaxHash
    /\ s.step \in {"load_login", "act", "insert_login", "delete_logins", "delete_user"} => Used(s.id)
    /\ s.step \in {"insert_user", "insert_login"} => s.op = "register"
    /\ s.step \in {"load_user", "load_login"} => s.op \in Ops
    /\ s.step = "act" => s.op \in Ops \ {"register"} /\ (s.op = "forgot" => s.hash \in 1 .. MaxHash)
    /\ s.op = "verify" /\ s.step # "idle" => s.id \in Ids /\ <<s.id, s.email>> \in verifyMail
    /\ s.op = "verify" /\ s.step \in {"load_login", "act"} => users[s.id] \in {s.email, NoEmail}
    /\ s.step = "delete_user" => s.id \in doomed

SlotInv == \A r \in Requests : SlotOK(slot[r])
FreshInv == \A i \in Ids : origin[i] = "unused" => users[i] = NoEmail
UniqueInv == \A i, j \in Ids : users[i] = users[j] /\ users[i] # NoEmail => i = j

IInv == TypeOK /\ SlotInv /\ FreshInv /\ UniqueInv
        /\ RegistrationTakes /\ StrandedHasCause /\ VerifiedOwnsMail

-----------------------------------------------------------------------------
(* Slots. *)

\* Ids are never given back, mails are never called back, and a row that is in
\* use keeps its address or goes.
Grows == /\ \A i \in Ids : origin[i] # "unused" =>
               /\ origin'[i] # "unused"
               /\ users'[i] \in {users[i], NoEmail}
         /\ doomed \subseteq doomed'
         /\ verifyMail \subseteq verifyMail'

LEMMA SlotStaysOK ==
    ASSUME NEW s, SlotOK(s), Grows
    PROVE  SlotOK(s)'
BY DEF SlotOK, Grows, Used

\* One request takes its next step and the others keep theirs.
LEMMA SlotsStayOK ==
    ASSUME TypeOK, SlotInv, Grows, NEW r \in Requests, NEW s \in Slots,
           slot' = [slot EXCEPT ![r] = s], SlotOK(s)'
    PROVE  SlotInv' /\ slot' \in [Requests -> Slots]
<1>1. slot' \in [Requests -> Slots] /\ slot'[r] = s
  BY DEF TypeOK, Slots
<1>2. ASSUME NEW q \in Requests PROVE SlotOK(slot[q])'
  <2>1. PICK t : t = slot'[q]
    OBVIOUS
  <2>2. CASE q = r
    <3>1. t = s
      BY <1>1, <2>1, <2>2
    <3>2. SlotOK(t)'
      BY <3>1
    <3> QED BY <2>1, <3>2
  <2>3. CASE q # r
    <3>1. t = slot[q]
      BY <2>1, <2>3 DEF TypeOK
    <3>2. SlotOK(t)
      BY <3>1 DEF SlotInv
    <3>3. SlotOK(t)'
      BY <3>2, SlotStaysOK
    <3> QED BY <2>1, <3>3
  <2> QED BY <2>2, <2>3
<1> QED BY <1>1, <1>2 DEF SlotInv

LEMMA IdleIsOK == Idle \in Slots /\ SlotOK(Idle)
BY AccountsAssumption DEF Idle, Slots, SlotOK, Steps, Ops, ByEmail

\* A step of a request that only reads.
LEMMA ReadPreserves ==
    ASSUME IInv, NEW r \in Requests, NEW s \in Slots, slot' = [slot EXCEPT ![r] = s],
           slot[r].step # "insert_login", SlotOK(s), UNCHANGED <<rows, mails, history>>
    PROVE  IInv'
<1> USE DEF rows, mails, history
<1>1. Grows
  BY DEF Grows, IInv, TypeOK
<1>2. SlotOK(s)'
  BY <1>1, SlotStaysOK
<1>3. SlotInv' /\ slot' \in [Requests -> Slots]
  BY <1>1, <1>2, SlotsStayOK DEF IInv
<1>4. TypeOK'
  BY <1>3 DEF IInv, TypeOK, Slots
<1>5. StrandedHasCause'
  <2>1. \A q \in Requests : slot[q].step = "insert_login" => slot'[q] = slot[q]
    BY DEF IInv, TypeOK
  <2> QED BY <2>1 DEF IInv, StrandedHasCause
<1>6. /\ FreshInv' /\ UniqueInv' /\ VerifiedOwnsMail'
  BY DEF IInv, FreshInv, UniqueInv, VerifiedOwnsMail
<1>7. RegistrationTakes'
  BY DEF IInv, RegistrationTakes, Holder
<1> QED BY <1>3, <1>4, <1>5, <1>6, <1>7 DEF IInv

-----------------------------------------------------------------------------
(* The steps that only read. *)

LEMMA InitInv == Init => IInv
<1> SUFFICES ASSUME Init PROVE IInv
  OBVIOUS
<1>1. TypeOK
  BY AccountsAssumption, IdleIsOK DEF Init, TypeOK, Slots
<1>2. SlotInv
  BY IdleIsOK DEF Init, SlotInv
<1>3. FreshInv /\ UniqueInv /\ RegistrationTakes /\ StrandedHasCause /\ VerifiedOwnsMail
  BY DEF Init, FreshInv, UniqueInv, RegistrationTakes, StrandedHasCause, VerifiedOwnsMail
<1> QED BY <1>1, <1>2, <1>3 DEF IInv

LEMMA ReceivePreserves ==
    ASSUME IInv, NEW r \in Requests, Receive(r)
    PROVE  IInv'
<1> USE AccountsAssumption DEF Slots, Steps, Ops, ByEmail, Idle
<1>1. slot[r].step = "idle" /\ UNCHANGED <<rows, mails, history>>
  BY DEF Receive, Begin
<1>2. ASSUME NEW e \in Emails, NEW op \in {"register", "forgot", "request_verify"},
             Begin(r, [Idle EXCEPT !.step = "load_user", !.op = op, !.email = e])
      PROVE  IInv'
  <2>1. PICK n : n = [Idle EXCEPT !.step = "load_user", !.op = op, !.email = e]
    OBVIOUS
  <2>2. n = [step |-> "load_user", op |-> op, id |-> NoId, email |-> e, hash |-> 0]
    BY <2>1
  <2>3. n \in Slots
    BY <2>2
  <2>4. SlotOK(n)
    BY <2>2 DEF SlotOK
  <2> QED BY <1>1, <1>2, <2>1, <2>3, <2>4, ReadPreserves DEF Begin
<1>3. ASSUME NEW t \in verifyMail,
             Begin(r, [step |-> "load_user", op |-> "verify", id |-> t[1], email |-> t[2], hash |-> 0])
      PROVE  IInv'
  <2>1. PICK n : n = [step |-> "load_user", op |-> "verify", id |-> t[1], email |-> t[2], hash |-> 0]
    OBVIOUS
  <2>2. t[1] \in Ids /\ t[2] \in Emails /\ t = <<t[1], t[2]>>
    BY DEF IInv, TypeOK
  <2>3. n \in Slots
    BY <2>1, <2>2
  <2>4. SlotOK(n)
    BY <2>1, <2>2 DEF SlotOK
  <2> QED BY <1>1, <1>3, <2>1, <2>3, <2>4, ReadPreserves DEF Begin
<1>4. ASSUME NEW t \in resetMail,
             Begin(r, [Idle EXCEPT !.step = "load_user", !.op = "reset", !.id = t[1], !.hash = t[2]])
      PROVE  IInv'
  <2>1. PICK n : n = [Idle EXCEPT !.step = "load_user", !.op = "reset", !.id = t[1], !.hash = t[2]]
    OBVIOUS
  <2>2. t[1] \in Ids /\ t[2] \in 1 .. MaxHash
    BY DEF IInv, TypeOK
  <2>3. n = [step |-> "load_user", op |-> "reset", id |-> t[1], email |-> NoEmail, hash |-> t[2]]
    BY <2>1
  <2>4. n \in Slots
    BY <2>2, <2>3
  <2>5. SlotOK(n)
    BY <2>2, <2>3 DEF SlotOK
  <2> QED BY <1>1, <1>4, <2>1, <2>4, <2>5, ReadPreserves DEF Begin
<1> QED BY <1>2, <1>3, <1>4 DEF Receive

LEMMA LoadUserPreserves ==
    ASSUME IInv, NEW r \in Requests, LoadUser(r)
    PROVE  IInv'
<1> USE AccountsAssumption DEF Slots, Steps, Ops, ByEmail
<1> DEFINE s == slot[r]
           found == IF s.op = "reset" THEN {i \in {s.id} : users[i] # NoEmail} ELSE Holder(s.email)
<1>1. s.step = "load_user" /\ s \in Slots /\ SlotOK(s) /\ s.op \in Ops
  BY DEF LoadUser, IInv, TypeOK, SlotInv, SlotOK
<1>2. UNCHANGED <<rows, mails, history>>
  BY DEF LoadUser
<1>3. CASE Finish(r)
  BY <1>1, <1>2, <1>3, IdleIsOK, ReadPreserves DEF Finish
<1>4. CASE s.op = "register" /\ Goto(r, [s EXCEPT !.step = "insert_user"])
  <2>1. PICK n \in Slots : n = [s EXCEPT !.step = "insert_user"]
    BY <1>1
  <2>2. SlotOK(n)
    BY <1>1, <1>4, <2>1 DEF SlotOK
  <2> QED BY <1>1, <1>2, <1>4, <2>1, <2>2, ReadPreserves DEF Goto
<1>5. ASSUME NEW i \in found, ~Refuses(s, i), Goto(r, [s EXCEPT !.step = "load_login", !.id = i])
      PROVE  IInv'
  <2>1. i \in Ids /\ users[i] # NoEmail /\ (s.op # "reset" => users[i] = s.email)
    BY <1>1, <1>5 DEF Holder, SlotOK
  <2>2. Used(i)
    BY <2>1 DEF IInv, FreshInv, Used
  <2>3. s.op = "verify" => i = s.id
    BY <1>5 DEF Refuses
  <2>4. s.op = "reset" => i = s.id
    BY <1>5
  <2>5. PICK n \in Slots : n = [s EXCEPT !.step = "load_login", !.id = i]
    BY <1>1, <2>1
  <2>6. SlotOK(n)
    BY <1>1, <2>1, <2>2, <2>3, <2>4, <2>5 DEF SlotOK
  <2> QED BY <1>1, <1>2, <1>5, <2>5, <2>6, ReadPreserves DEF Goto
<1> QED BY <1>3, <1>4, <1>5 DEF LoadUser

LEMMA LoadLoginPreserves ==
    ASSUME IInv, NEW r \in Requests, LoadLogin(r)
    PROVE  IInv'
<1> USE AccountsAssumption DEF Slots, Steps, Ops, ByEmail
<1> DEFINE s == slot[r]
<1>1. s.step = "load_login" /\ s \in Slots /\ SlotOK(s) /\ s.op \in Ops
  BY DEF LoadLogin, IInv, TypeOK, SlotInv, SlotOK
<1>2. UNCHANGED <<rows, mails, history>>
  BY DEF LoadLogin
<1>3. CASE Finish(r)
  BY <1>1, <1>2, <1>3, IdleIsOK, ReadPreserves DEF Finish
<1>4. CASE s.op = "register" /\ Goto(r, [s EXCEPT !.step = "insert_user", !.id = NoId])
  <2>1. PICK n \in Slots : n = [s EXCEPT !.step = "insert_user", !.id = NoId]
    BY <1>1
  <2>2. SlotOK(n)
    BY <1>1, <1>4, <2>1 DEF SlotOK
  <2> QED BY <1>1, <1>2, <1>4, <2>1, <2>2, ReadPreserves DEF Goto
<1>5. CASE /\ s.op # "register" /\ login[s.id] # 0
           /\ Goto(r, [s EXCEPT !.step = "act", !.hash = IF s.op = "forgot" THEN login[s.id] ELSE @])
  <2>1. login[s.id] \in 1 .. MaxHash
    BY <1>1, <1>5 DEF IInv, TypeOK, SlotOK, Used
  <2>2. PICK n : n = [s EXCEPT !.step = "act", !.hash = IF s.op = "forgot" THEN login[s.id] ELSE s.hash]
    OBVIOUS
  <2>3. n = [step |-> "act", op |-> s.op, id |-> s.id, email |-> s.email,
             hash |-> IF s.op = "forgot" THEN login[s.id] ELSE s.hash]
    BY <1>1, <2>2
  <2>4. n \in Slots
    BY <1>1, <2>1, <2>3
  <2>5. SlotOK(n)
    BY <1>1, <1>5, <2>1, <2>3 DEF SlotOK
  <2> QED BY <1>1, <1>2, <1>5, <2>2, <2>4, <2>5, ReadPreserves DEF Goto
<1> QED BY <1>3, <1>4, <1>5 DEF LoadLogin

LEMMA DeleteTokensPreserves ==
    ASSUME IInv, NEW r \in Requests, NEW i \in Ids, DeleteTokens(r, i)
    PROVE  IInv'
<1>1. PICK n \in Slots : n = [Idle EXCEPT !.step = "delete_logins", !.op = "delete", !.id = i]
  BY IdleIsOK DEF Slots, Steps, Idle
<1>2. Used(i)
  BY DEF DeleteTokens, IInv, FreshInv, Used
<1>3. SlotOK(n)
  BY <1>1, <1>2 DEF SlotOK, Idle, Ops, ByEmail
<1> QED BY <1>1, <1>3, ReadPreserves DEF DeleteTokens, Begin

-----------------------------------------------------------------------------
(* The steps that write. *)

\* A row for an id never used and an address no row has.
LEMMA NewRowPreserves ==
    ASSUME IInv, NEW i \in Fresh, NEW e \in Emails, InsertUserRow(i, e), Grows,
           NEW o \in {"registering", "created"}, origin' = [origin EXCEPT ![i] = o],
           UNCHANGED <<login, verified, orders, mails, doomed, spent, pinned>>,
           slot' \in [Requests -> Slots], SlotInv',
           o = "created" \/ \E r \in Requests : slot'[r].step = "insert_login" /\ slot'[r].id = i,
           \A r \in Requests : slot[r].step = "insert_login" => slot'[r] = slot[r]
    PROVE  IInv'
<1> USE AccountsAssumption DEF mails
<1>1. /\ i \in Ids /\ origin[i] = "unused" /\ users[i] = NoEmail /\ login[i] = 0
      /\ i \notin verified /\ i \notin orders
  BY DEF Fresh, IInv, FreshInv, TypeOK
<1>2. users' = [users EXCEPT ![i] = e] /\ \A j \in Ids : users[j] # e
  BY DEF InsertUserRow, Holder
<1>3. TypeOK'
  BY <1>1, <1>2 DEF IInv, TypeOK, Slots
<1>4. FreshInv' /\ UniqueInv'
  BY <1>1, <1>2 DEF IInv, TypeOK, FreshInv, UniqueInv
<1>5. RegistrationTakes'
  <2> SUFFICES ASSUME NEW j \in Ids \ doomed', origin'[j] = "answered"
               PROVE  login'[j] # 0 /\ Holder(users[j])' = {j}
    BY DEF RegistrationTakes
  <2>1. j # i /\ origin[j] = "answered" /\ j \notin doomed
    BY DEF IInv, TypeOK
  <2>2. login[j] # 0 /\ Holder(users[j]) = {j}
    BY <2>1 DEF IInv, RegistrationTakes
  <2>3. users[j] # NoEmail /\ users'[j] = users[j]
    BY <1>2, <2>1, <2>2 DEF IInv, TypeOK
  <2>4. \A k \in Ids : users'[k] = users'[j] => k = j
    BY <2>3, <1>4 DEF UniqueInv
  <2> QED BY <2>2, <2>3, <2>4 DEF Holder
<1>6. StrandedHasCause'
  BY <1>1, <1>2 DEF IInv, TypeOK, StrandedHasCause
<1>7. VerifiedOwnsMail'
  BY <1>1, <1>2 DEF IInv, TypeOK, VerifiedOwnsMail
<1> QED BY <1>3, <1>4, <1>5, <1>6, <1>7 DEF IInv

LEMMA InsertUserPreserves ==
    ASSUME IInv, NEW r \in Requests, InsertUser(r)
    PROVE  IInv'
<1> USE AccountsAssumption DEF Slots, Steps, Ops, ByEmail
<1> DEFINE s == slot[r]
<1>1. s.step = "insert_user" /\ s \in Slots /\ s.op = "register" /\ s.email \in Emails
  BY DEF InsertUser, IInv, TypeOK, SlotInv, SlotOK
<1>2. CASE Finish(r) /\ UNCHANGED <<users, origin>>
  BY <1>1, <1>2, IdleIsOK, ReadPreserves DEF InsertUser, Finish, rows, mails, history
<1>3. ASSUME NEW i \in Fresh, InsertUserRow(i, s.email), origin' = [origin EXCEPT ![i] = "registering"],
             Goto(r, [s EXCEPT !.step = "insert_login", !.id = i])
      PROVE  IInv'
  <2>1. i \in Ids /\ origin[i] = "unused"
    BY DEF Fresh
  <2>2. UNCHANGED <<login, verified, orders, mails, doomed, spent, pinned>>
    BY DEF InsertUser
  <2>3. Grows
    BY <1>3, <2>1, <2>2 DEF Grows, InsertUserRow, mails, IInv, TypeOK
  <2>4. PICK n : n = [s EXCEPT !.step = "insert_login", !.id = i]
    OBVIOUS
  <2>5. n = [step |-> "insert_login", op |-> "register", id |-> i, email |-> s.email, hash |-> s.hash]
    BY <1>1, <2>4
  <2>6. n \in Slots
    BY <1>1, <2>1, <2>5
  <2>7. SlotOK(n)'
    <3>1. origin'[i] = "registering"
      BY <1>3, <2>1 DEF IInv, TypeOK
    <3> QED BY <1>1, <2>1, <2>5, <3>1 DEF SlotOK, Used
  <2>8. SlotInv' /\ slot' \in [Requests -> Slots]
    BY <1>3, <2>3, <2>4, <2>6, <2>7, SlotsStayOK DEF IInv, Goto
  <2>9. slot'[r] = n /\ \A q \in Requests : slot[q].step = "insert_login" => slot'[q] = slot[q]
    BY <1>1, <1>3, <2>4 DEF Goto, IInv, TypeOK
  <2>10. \E q \in Requests : slot'[q].step = "insert_login" /\ slot'[q].id = i
    BY <2>5, <2>9
  <2>11. PICK e \in Emails : e = s.email
    BY <1>1
  <2>12. InsertUserRow(i, e)
    BY <1>3, <2>11
  <2> QED BY <1>3, <2>2, <2>3, <2>8, <2>9, <2>10, <2>12, NewRowPreserves
<1> QED BY <1>1, <1>2, <1>3 DEF InsertUser

LEMMA CreateUserPreserves ==
    ASSUME IInv, CreateUser
    PROVE  IInv'
<1>1. PICK i \in Fresh, e \in Emails :
        InsertUserRow(i, e) /\ origin' = [origin EXCEPT ![i] = "created"]
  BY DEF CreateUser
<1>2. UNCHANGED <<login, verified, orders, slot, mails, doomed, spent, pinned>>
  BY DEF CreateUser
<1>3. i \in Ids /\ origin[i] = "unused"
  BY DEF Fresh
<1>4. Grows
  BY <1>1, <1>2, <1>3 DEF Grows, InsertUserRow, mails, IInv, TypeOK
<1>5. SlotInv' /\ slot' \in [Requests -> Slots]
  <2>1. slot' \in [Requests -> Slots]
    BY <1>2 DEF IInv, TypeOK, Slots
  <2>2. ASSUME NEW q \in Requests PROVE SlotOK(slot[q])'
    <3>1. PICK t : t = slot[q] /\ t = slot'[q]
      BY <1>2
    <3>2. SlotOK(t)'
      BY <3>1, <1>4, SlotStaysOK DEF IInv, SlotInv
    <3> QED BY <3>1, <3>2
  <2> QED BY <2>1, <2>2 DEF SlotInv
<1> QED BY <1>1, <1>2, <1>4, <1>5, NewRowPreserves

LEMMA FinishKeepsSlots ==
    ASSUME TypeOK, SlotInv, Grows, NEW r \in Requests, Finish(r)
    PROVE  /\ SlotInv' /\ slot' \in [Requests -> Slots]
           /\ \A q \in Requests : slot'[q] = IF q = r THEN Idle ELSE slot[q]
<1>1. SlotOK(Idle)'
  BY IdleIsOK, SlotStaysOK
<1>2. SlotInv' /\ slot' \in [Requests -> Slots]
  BY <1>1, IdleIsOK, SlotsStayOK DEF Finish
<1> QED BY <1>2 DEF Finish, TypeOK

LEMMA InsertLoginPreserves ==
    ASSUME IInv, NEW r \in Requests, InsertLogin(r)
    PROVE  IInv'
<1> USE AccountsAssumption DEF mails
<1> DEFINE i == slot[r].id
<1>1. /\ slot[r].step = "insert_login" /\ i \in Ids /\ origin[i] # "unused" /\ Finish(r)
      /\ UNCHANGED <<users, verified, orders, mails, doomed, spent, pinned>>
  BY DEF InsertLogin, IInv, SlotInv, SlotOK, Used
<1>2. \/ /\ users[i] # NoEmail /\ login' = [login EXCEPT ![i] = 1]
         /\ origin' = [origin EXCEPT ![i] = "answered"]
      \/ users[i] = NoEmail /\ UNCHANGED <<login, origin>>
  BY DEF InsertLogin
<1>3. Grows
  BY <1>1, <1>2 DEF Grows, IInv, TypeOK
<1>4. /\ SlotInv' /\ slot' \in [Requests -> Slots]
      /\ \A q \in Requests : slot'[q] = IF q = r THEN Idle ELSE slot[q]
  BY <1>1, <1>3, FinishKeepsSlots DEF IInv
<1>5. TypeOK'
  BY <1>1, <1>2, <1>4, SMTT(30) DEF IInv, TypeOK, Slots
<1>6. FreshInv' /\ UniqueInv' /\ VerifiedOwnsMail'
  BY <1>1, <1>2 DEF IInv, TypeOK, FreshInv, UniqueInv, VerifiedOwnsMail
<1>7. RegistrationTakes'
  <2> SUFFICES ASSUME NEW j \in Ids \ doomed, origin'[j] = "answered"
               PROVE  login'[j] # 0 /\ Holder(users[j]) = {j}
    BY <1>1 DEF RegistrationTakes, Holder
  <2>1. CASE j # i \/ users[i] = NoEmail
    BY <1>2, <2>1 DEF IInv, TypeOK, RegistrationTakes
  <2>2. CASE j = i /\ users[i] # NoEmail
    BY <1>1, <1>2, <2>2 DEF IInv, TypeOK, UniqueInv, Holder
  <2> QED BY <2>1, <2>2
<1>8. StrandedHasCause'
  <2> SUFFICES ASSUME NEW j \in Ids, users[j] # NoEmail, login'[j] = 0, j \notin doomed,
                      origin'[j] \notin {"cut", "created"}
               PROVE  \E q \in Requests : slot'[q].step = "insert_login" /\ slot'[q].id = j
    BY <1>1 DEF StrandedHasCause
  <2>1. j # i /\ login[j] = 0 /\ origin[j] = origin'[j]
    BY <1>1, <1>2 DEF IInv, TypeOK
  <2> QED BY <1>4, <2>1 DEF IInv, StrandedHasCause
<1> QED BY <1>4, <1>5, <1>6, <1>7, <1>8 DEF IInv

LEMMA SendTokenPreserves ==
    ASSUME IInv, NEW r \in Requests, SendToken(r)
    PROVE  IInv'
<1> USE AccountsAssumption DEF rows, history
<1>1. /\ slot[r].step = "act" /\ Finish(r) /\ UNCHANGED <<rows, history>>
      /\ slot[r].op \in {"forgot", "request_verify"} /\ slot[r].id \in Ids
      /\ slot[r].op = "forgot" => slot[r].hash \in 1 .. MaxHash
      /\ slot[r].op = "request_verify" => slot[r].email \in Emails
  BY DEF SendToken, SendReset, SendVerification, Mailed, IInv, SlotInv, SlotOK, Used, ByEmail
<1>2. /\ resetMail \subseteq resetMail' /\ resetMail' \subseteq Ids \X (1 .. MaxHash)
      /\ verifyMail \subseteq verifyMail' /\ verifyMail' \subseteq Ids \X Emails
  BY <1>1 DEF SendToken, SendReset, SendVerification, Mailed, IInv, TypeOK
<1>3. Grows
  BY <1>1, <1>2 DEF Grows, IInv, TypeOK
<1>4. /\ SlotInv' /\ slot' \in [Requests -> Slots]
      /\ \A q \in Requests : slot'[q] = IF q = r THEN Idle ELSE slot[q]
  BY <1>1, <1>3, FinishKeepsSlots DEF IInv
<1>5. TypeOK'
  BY <1>1, <1>2, <1>4 DEF IInv, TypeOK, Slots
<1>6. FreshInv' /\ UniqueInv' /\ VerifiedOwnsMail'
  BY <1>1, <1>2 DEF IInv, FreshInv, UniqueInv, VerifiedOwnsMail
<1>7. RegistrationTakes'
  BY <1>1 DEF IInv, RegistrationTakes, Holder
<1>8. StrandedHasCause'
  BY <1>1, <1>4 DEF IInv, StrandedHasCause
<1> QED BY <1>4, <1>5, <1>6, <1>7, <1>8 DEF IInv

LEMMA UpdatePreserves ==
    ASSUME IInv, NEW r \in Requests, Update(r)
    PROVE  IInv'
<1> USE AccountsAssumption DEF mails
<1> DEFINE s == slot[r]
<1>1. /\ s.step = "act" /\ Finish(r) /\ s.id \in Ids /\ s.op \in {"reset", "verify"}
      /\ UNCHANGED <<users, orders, mails, origin, doomed, pinned>>
      /\ s.op = "reset" => s.hash \in 1 .. MaxHash
      /\ s.op = "verify" => <<s.id, s.email>> \in verifyMail /\ users[s.id] \in {s.email, NoEmail}
  BY DEF Update, IInv, SlotInv, SlotOK, Used
<1>2. /\ login' = login \/ (/\ login[s.id] # 0 /\ login[s.id] < MaxHash
                            /\ login' = [login EXCEPT ![s.id] = @ + 1])
      /\ spent' \in {spent, spent \union {<<s.id, s.hash>>}}
      /\ spent' # spent => s.op = "reset"
  BY DEF Update
<1>3. \/ verified' = verified
      \/ s.op = "verify" /\ users[s.id] # NoEmail /\ verified' = verified \union {s.id}
  BY DEF Update
<1>4. Grows
  BY <1>1 DEF Grows, IInv, TypeOK
<1>5. /\ SlotInv' /\ slot' \in [Requests -> Slots]
      /\ \A q \in Requests : slot'[q] = IF q = r THEN Idle ELSE slot[q]
  BY <1>1, <1>4, FinishKeepsSlots DEF IInv
<1>6. /\ login' \in [Ids -> 0 .. MaxHash]
      /\ \A i \in Ids : login'[i] = 0 <=> login[i] = 0
  BY <1>1, <1>2 DEF IInv, TypeOK
<1>7. spent' \subseteq Ids \X (1 .. MaxHash)
  BY <1>1, <1>2 DEF IInv, TypeOK
<1>8. TypeOK'
  BY <1>1, <1>3, <1>5, <1>6, <1>7 DEF IInv, TypeOK, Slots
<1>9. FreshInv' /\ UniqueInv'
  BY <1>1 DEF IInv, FreshInv, UniqueInv
<1>10. VerifiedOwnsMail'
  BY <1>1, <1>3 DEF IInv, VerifiedOwnsMail
<1>11. RegistrationTakes'
  BY <1>1, <1>6 DEF IInv, RegistrationTakes, Holder
<1>12. StrandedHasCause'
  BY <1>1, <1>5, <1>6 DEF IInv, StrandedHasCause
<1> QED BY <1>5, <1>8, <1>9, <1>10, <1>11, <1>12 DEF IInv

LEMMA DeleteLoginsPreserves ==
    ASSUME IInv, NEW r \in Requests, DeleteLogins(r)
    PROVE  IInv'
<1> USE AccountsAssumption DEF mails
<1> DEFINE i == slot[r].id
<1>1. /\ slot[r].step = "delete_logins" /\ i \in Ids /\ Used(i) /\ slot[r] \in Slots /\ SlotOK(slot[r])
      /\ login' = [login EXCEPT ![i] = 0] /\ doomed' = doomed \union {i}
      /\ UNCHANGED <<users, verified, orders, mails, origin, spent, pinned>>
  BY DEF DeleteLogins, IInv, SlotInv, SlotOK, Used, TypeOK, Slots
<1>2. Grows
  BY <1>1 DEF Grows, IInv, TypeOK
<1>3. PICK n : n = [slot[r] EXCEPT !.step = "delete_user"]
  OBVIOUS
<1>4. n = [step |-> "delete_user", op |-> slot[r].op, id |-> i, email |-> slot[r].email, hash |-> slot[r].hash]
  BY <1>1, <1>3 DEF Slots
<1>5. n \in Slots
  BY <1>1, <1>4 DEF Slots, Steps
<1>6. SlotOK(n)'
  <2>1. n.id \in doomed' /\ origin'[n.id] # "unused" /\ n.id \in Ids
    BY <1>1, <1>4 DEF Used
  <2>2. n.op = "verify" => <<n.id, n.email>> \in verifyMail'
    BY <1>1, <1>4 DEF SlotOK
  <2>3. (n.op \in ByEmail => n.email \in Emails) /\ (n.op = "reset" => n.hash \in 1 .. MaxHash)
    BY <1>1, <1>4 DEF SlotOK
  <2> QED BY <1>4, <2>1, <2>2, <2>3 DEF SlotOK, Used
<1>7. SlotInv' /\ slot' \in [Requests -> Slots]
  BY <1>2, <1>3, <1>5, <1>6, SlotsStayOK DEF IInv, DeleteLogins, Goto
<1>8. \A q \in Requests : slot[q].step = "insert_login" => slot'[q] = slot[q]
  BY <1>1 DEF IInv, TypeOK, DeleteLogins, Goto
<1>9. TypeOK'
  BY <1>1, <1>7 DEF IInv, TypeOK, Slots
<1>10. FreshInv' /\ UniqueInv' /\ VerifiedOwnsMail'
  BY <1>1 DEF IInv, FreshInv, UniqueInv, VerifiedOwnsMail
<1>11. RegistrationTakes'
  BY <1>1 DEF IInv, TypeOK, RegistrationTakes, Holder
<1>12. StrandedHasCause'
  BY <1>1, <1>8 DEF IInv, TypeOK, StrandedHasCause
<1> QED BY <1>7, <1>9, <1>10, <1>11, <1>12 DEF IInv

LEMMA DeleteUserPreserves ==
    ASSUME IInv, NEW r \in Requests, DeleteUser(r)
    PROVE  IInv'
<1> USE AccountsAssumption DEF mails
<1> DEFINE i == slot[r].id
<1>1. /\ slot[r].step = "delete_user" /\ i \in Ids /\ i \in doomed /\ Finish(r)
      /\ UNCHANGED <<login, orders, mails, origin, doomed, spent>>
      /\ pinned' = IF i \in orders THEN pinned \union {i} ELSE pinned
  BY DEF DeleteUser, Ordered, IInv, SlotInv, SlotOK, Used
<1>2. \/ UNCHANGED <<users, verified>>
      \/ /\ login[i] = 0 /\ i \notin orders
         /\ users' = [users EXCEPT ![i] = NoEmail] /\ verified' = verified \ {i}
  BY DEF DeleteUser, Ordered
<1>3. Grows
  BY <1>1, <1>2 DEF Grows, IInv, TypeOK
<1>4. /\ SlotInv' /\ slot' \in [Requests -> Slots]
      /\ \A q \in Requests : slot'[q] = IF q = r THEN Idle ELSE slot[q]
  BY <1>1, <1>3, FinishKeepsSlots DEF IInv
<1>5. TypeOK'
  BY <1>1, <1>2, <1>4 DEF IInv, TypeOK, Slots
<1>6. FreshInv' /\ UniqueInv' /\ VerifiedOwnsMail'
  BY <1>1, <1>2 DEF IInv, TypeOK, FreshInv, UniqueInv, VerifiedOwnsMail
<1>7. RegistrationTakes'
  <2> SUFFICES ASSUME NEW j \in Ids \ doomed, origin[j] = "answered"
               PROVE  login[j] # 0 /\ Holder(users[j])' = {j}
    BY <1>1 DEF RegistrationTakes
  <2>1. j # i /\ login[j] # 0 /\ Holder(users[j]) = {j}
    BY <1>1 DEF IInv, RegistrationTakes
  <2>2. users'[j] = users[j] /\ users[j] # NoEmail
    BY <1>2, <2>1 DEF IInv, TypeOK
  <2> QED BY <1>2, <2>1, <2>2 DEF IInv, TypeOK, Holder
<1>8. StrandedHasCause'
  BY <1>1, <1>2, <1>4 DEF IInv, TypeOK, StrandedHasCause
<1> QED BY <1>4, <1>5, <1>6, <1>7, <1>8 DEF IInv

\* A picture request comes or goes.
LEMMA OrdersPreserve ==
    ASSUME IInv, NEW i \in Ids, Order(i) \/ Withdraw(i)
    PROVE  IInv'
<1> USE DEF mails, history
<1>1. /\ users[i] # NoEmail /\ orders' \in {orders \union {i}, orders \ {i}}
      /\ UNCHANGED <<users, login, verified, slot, mails, history>>
  BY DEF Order, Withdraw, GetUserByToken
<1>2. TypeOK'
  BY <1>1 DEF IInv, TypeOK
<1>3. SlotInv'
  BY <1>1 DEF IInv, SlotInv, SlotOK, Used
<1>4. FreshInv' /\ UniqueInv' /\ VerifiedOwnsMail' /\ StrandedHasCause'
  BY <1>1 DEF IInv, FreshInv, UniqueInv, VerifiedOwnsMail, StrandedHasCause
<1>5. RegistrationTakes'
  BY <1>1 DEF IInv, RegistrationTakes, Holder
<1> QED BY <1>2, <1>3, <1>4, <1>5 DEF IInv

LEMMA AbortPreserves ==
    ASSUME IInv, NEW r \in Requests, Abort(r)
    PROVE  IInv'
<1> USE DEF rows, mails
<1> DEFINE i == slot[r].id
<1>1. /\ Finish(r) /\ UNCHANGED <<rows, mails, doomed, spent, pinned>>
      /\ origin' = IF slot[r].step = "insert_login" THEN [origin EXCEPT ![i] = "cut"] ELSE origin
      /\ slot[r].step = "insert_login" => Used(i)
  BY DEF Abort, IInv, SlotInv, SlotOK
<1>2. Grows
  BY <1>1 DEF Grows, IInv, TypeOK
<1>3. /\ SlotInv' /\ slot' \in [Requests -> Slots]
      /\ \A q \in Requests : slot'[q] = IF q = r THEN Idle ELSE slot[q]
  BY <1>1, <1>2, FinishKeepsSlots DEF IInv
<1>4. TypeOK'
  BY <1>1, <1>3 DEF IInv, TypeOK, Slots, Used
<1>5. FreshInv' /\ UniqueInv' /\ VerifiedOwnsMail'
  BY <1>1 DEF IInv, TypeOK, FreshInv, UniqueInv, VerifiedOwnsMail, Used
<1>6. RegistrationTakes'
  BY <1>1 DEF IInv, TypeOK, RegistrationTakes, Holder, Used
<1>7. StrandedHasCause'
  <2> SUFFICES ASSUME NEW j \in Ids, users[j] # NoEmail, login[j] = 0, j \notin doomed,
                      origin'[j] \notin {"cut", "created"}
               PROVE  \E q \in Requests : slot'[q].step = "insert_login" /\ slot'[q].id = j
    BY <1>1 DEF StrandedHasCause
  <2>1. origin'[j] = origin[j] /\ (slot[r].step = "insert_login" => j # i)
    BY <1>1 DEF IInv, TypeOK
  <2>2. PICK q \in Requests : slot[q].step = "insert_login" /\ slot[q].id = j
    BY <2>1 DEF IInv, StrandedHasCause
  <2>3. q # r
    BY <2>1, <2>2
  <2> QED BY <1>3, <2>2, <2>3
<1> QED BY <1>3, <1>4, <1>5, <1>6, <1>7 DEF IInv

-----------------------------------------------------------------------------

LEMMA IInvInductive == Spec => []IInv
<1>1. IInv /\ [Next]_vars => IInv'
  <2> SUFFICES ASSUME IInv, [Next]_vars PROVE IInv'
    OBVIOUS
  <2>1. ASSUME NEW r \in Requests, Handle(r) PROVE IInv'
    <3>1. CASE Receive(r) \/ LoadUser(r) \/ LoadLogin(r)
      BY <3>1, ReceivePreserves, LoadUserPreserves, LoadLoginPreserves
    <3>2. CASE InsertUser(r) \/ InsertLogin(r)
      BY <3>2, InsertUserPreserves, InsertLoginPreserves
    <3>3. CASE SendToken(r) \/ Update(r)
      BY <3>3, SendTokenPreserves, UpdatePreserves
    <3>4. CASE DeleteLogins(r) \/ DeleteUser(r) \/ Abort(r)
      BY <3>4, DeleteLoginsPreserves, DeleteUserPreserves, AbortPreserves
    <3> QED BY <2>1, <3>1, <3>2, <3>3, <3>4 DEF Handle
  <2>2. ASSUME NEW r \in Requests, NEW i \in Ids, DeleteTokens(r, i) PROVE IInv'
    BY <2>2, DeleteTokensPreserves
  <2>3. ASSUME NEW i \in Ids, Order(i) \/ Withdraw(i) PROVE IInv'
    BY <2>3, OrdersPreserve
  <2>4. CASE CreateUser
    BY <2>4, CreateUserPreserves
  <2>5. CASE UNCHANGED vars
    <3>1. UNCHANGED <<users, login, verified, orders, slot, resetMail, verifyMail>>
      BY <2>5 DEF vars
    <3>2. UNCHANGED <<origin, doomed, spent, pinned>>
      BY <2>5 DEF vars
    <3>3. TypeOK' /\ FreshInv' /\ UniqueInv'
      BY <3>1, <3>2 DEF IInv, TypeOK, FreshInv, UniqueInv
    <3>4. SlotInv'
      BY <3>1, <3>2 DEF IInv, SlotInv, SlotOK, Used
    <3>5. RegistrationTakes' /\ StrandedHasCause' /\ VerifiedOwnsMail'
      BY <3>1, <3>2 DEF IInv, RegistrationTakes, Holder, StrandedHasCause, VerifiedOwnsMail
    <3> QED BY <3>3, <3>4, <3>5 DEF IInv
  <2> QED BY <2>1, <2>2, <2>3, <2>4, <2>5 DEF Next
<1> QED BY <1>1, InitInv, PTL DEF Spec

\* The tables and the requests keep their types, and no row outlives its user.
THEOREM TypeCorrect == Spec => []TypeOK
<1>1. IInv => TypeOK
  BY DEF IInv
<1> QED BY <1>1, IInvInductive, PTL

\* A registration that was answered made an account that works and that alone has
\* its address, until its deletion begins.
THEOREM RegistrationsTake == Spec => []RegistrationTakes
<1>1. IInv => RegistrationTakes
  BY DEF IInv
<1> QED BY <1>1, IInvInductive, PTL

\* An account without a password is being registered, was cut off, was created by
\* a superuser, or is half deleted.
THEOREM StrandedAccountsHaveCause == Spec => []StrandedHasCause
<1>1. IInv => StrandedHasCause
  BY DEF IInv
<1> QED BY <1>1, IInvInductive, PTL

\* A verified account has been sent the token itself, to its own address.
THEOREM VerifiedAccountsOwnMail == Spec => []VerifiedOwnsMail
<1>1. IInv => VerifiedOwnsMail
  BY DEF IInv
<1> QED BY <1>1, IInvInductive, PTL

-----------------------------------------------------------------------------
(* Reset tokens.  A login row is inserted once for an id, so a hash that was *)
(* replaced never comes back: it is smaller than the one that is there.      *)

OneInsert ==
    \A r \in Requests : slot[r].step = "insert_login" =>
        /\ origin[slot[r].id] = "registering"
        /\ \A q \in Requests : slot[q].step = "insert_login" /\ slot[q].id = slot[r].id => q = r

HashInv ==
    /\ \A i \in Ids : login[i] # 0 => origin[i] = "answered"
    /\ \A i \in Ids, n \in 1 .. MaxHash :
          <<i, n>> \in spent => origin[i] = "answered" /\ (login[i] = 0 \/ login[i] > n)
    /\ \A r \in Requests : slot[r].op = "reset" /\ slot[r].step = "act" =>
          /\ origin[slot[r].id] = "answered"
          /\ login[slot[r].id] = 0 \/ login[slot[r].id] >= slot[r].hash

ResetInv == OneInsert /\ HashInv

LEMMA WhatIsHeld ==
    ASSUME IInv, NEW q \in Requests
    PROVE  /\ slot[q].step \in {"insert_login", "act"} => slot[q].id \in Ids
           /\ slot[q].op = "reset" => slot[q].hash \in 1 .. MaxHash
BY DEF IInv, SlotInv, SlotOK, Used

LEMMA IdleIsQuiet == Idle.step \notin {"insert_login", "act"}
BY DEF Idle

\* A request goes on, and neither hashes nor origins change.
LEMMA QuietPreserves ==
    ASSUME IInv, ResetInv, NEW r \in Requests, NEW n, slot' = [slot EXCEPT ![r] = n],
           n.step # "insert_login", UNCHANGED <<login, origin, spent>>,
           n.op = "reset" /\ n.step = "act" =>
             n.id \in Ids /\ login[n.id] # 0 /\ login[n.id] = n.hash
    PROVE  ResetInv'
<1>1. \A q \in Requests : slot'[q] = IF q = r THEN n ELSE slot[q]
  BY DEF IInv, TypeOK
<1>2. OneInsert'
  BY <1>1 DEF ResetInv, OneInsert
<1>3. n.op = "reset" /\ n.step = "act" => origin[n.id] = "answered" /\ login[n.id] >= n.hash
  BY DEF ResetInv, HashInv, IInv, TypeOK
<1>4. HashInv'
  BY <1>1, <1>3 DEF ResetInv, HashInv
<1> QED BY <1>2, <1>4 DEF ResetInv

LEMMA FinishQuietly ==
    ASSUME IInv, ResetInv, NEW r \in Requests, Finish(r), UNCHANGED <<login, origin, spent>>
    PROVE  ResetInv'
<1>1. PICK n : n = Idle
  OBVIOUS
<1>2. n.step # "insert_login" /\ ~(n.op = "reset" /\ n.step = "act")
  BY <1>1 DEF Idle
<1>3. slot' = [slot EXCEPT ![r] = n]
  BY <1>1 DEF Finish
<1> QED BY <1>2, <1>3, QuietPreserves

LEMMA ReadsAreQuiet ==
    ASSUME IInv, ResetInv, NEW r \in Requests,
           Receive(r) \/ LoadUser(r) \/ LoadLogin(r) \/ \E i \in Ids : DeleteTokens(r, i)
    PROVE  ResetInv'
<1>1. UNCHANGED <<login, origin, spent>> /\ slot[r].step # "insert_login"
  BY DEF Receive, LoadUser, LoadLogin, DeleteTokens, Begin, rows, history
<1>2. CASE LoadLogin(r) /\ ~Finish(r) /\ slot[r].op # "register"
  <2> DEFINE s == slot[r]
  <2>1. PICK n : n = [s EXCEPT !.step = "act", !.hash = IF s.op = "forgot" THEN login[s.id] ELSE s.hash]
    OBVIOUS
  <2>2. slot' = [slot EXCEPT ![r] = n] /\ login[s.id] # 0 /\ (s.op = "reset" => login[s.id] = s.hash)
    BY <1>2, <2>1 DEF LoadLogin, Goto
  <2>3. s \in Slots /\ s.id \in Ids
    BY <1>2 DEF LoadLogin, IInv, TypeOK, Slots, SlotInv, SlotOK, Used
  <2>4. n = [step |-> "act", op |-> s.op, id |-> s.id, email |-> s.email,
             hash |-> IF s.op = "forgot" THEN login[s.id] ELSE s.hash]
    BY <2>1, <2>3 DEF Slots
  <2>5. n.step # "insert_login" /\ n.op = s.op /\ n.id = s.id /\ (n.op = "reset" => n.hash = s.hash)
    BY <2>4
  <2>6. n.op = "reset" /\ n.step = "act" => n.id \in Ids /\ login[n.id] # 0 /\ login[n.id] = n.hash
    BY <2>2, <2>3, <2>5
  <2> QED BY <1>1, <2>2, <2>5, <2>6, QuietPreserves
<1>3. CASE Finish(r)
  BY <1>1, <1>3, FinishQuietly
<1>4. ASSUME NEW n, slot' = [slot EXCEPT ![r] = n], n.step \in Steps \ {"insert_login", "act"}
      PROVE  ResetInv'
  BY <1>1, <1>4, QuietPreserves
<1>5. CASE LoadLogin(r) /\ slot[r].op = "register" /\ ~Finish(r)
  <2>1. slot[r] \in Slots
    BY DEF IInv, TypeOK, Slots
  <2> QED BY <1>4, <1>5, <2>1 DEF LoadLogin, Goto, Slots, Steps
<1>6. CASE Receive(r)
  BY <1>4, <1>6 DEF Receive, Begin, Idle, Steps
<1>7. CASE LoadUser(r) /\ ~Finish(r)
  <2>1. slot[r] \in Slots
    BY DEF IInv, TypeOK, Slots
  <2> QED BY <1>4, <1>7, <2>1 DEF LoadUser, Goto, Slots, Steps
<1>8. CASE \E i \in Ids : DeleteTokens(r, i)
  BY <1>4, <1>8 DEF DeleteTokens, Begin, Idle, Steps
<1> QED BY <1>2, <1>3, <1>5, <1>6, <1>7, <1>8

\* Registering and creating give an id its origin, which it did not have.
LEMMA InsertsPreserveReset ==
    ASSUME IInv, ResetInv, CreateUser \/ \E r \in Requests : InsertUser(r)
    PROVE  ResetInv'
<1>1. UNCHANGED <<login, spent>>
  BY DEF CreateUser, InsertUser
<1>2. \A i \in Fresh : i \in Ids /\ origin[i] = "unused"
  BY DEF Fresh
<1>3. CASE CreateUser
  <2>1. PICK i \in Fresh : origin' = [origin EXCEPT ![i] = "created"]
    BY <1>3 DEF CreateUser
  <2>2. slot' = slot /\ \A j \in Ids : origin[j] # "unused" => origin'[j] = origin[j]
    BY <1>2, <1>3, <2>1 DEF CreateUser, IInv, TypeOK
  <2>3. \A r \in Requests : slot[r].step \in {"insert_login", "act"} => slot[r].id \in Ids
    BY DEF IInv, SlotInv, SlotOK, Used
  <2>4. OneInsert'
    BY <2>2, <2>3 DEF ResetInv, OneInsert
  <2>5. HashInv'
    BY <1>1, <2>2, <2>3 DEF ResetInv, HashInv
  <2> QED BY <2>4, <2>5 DEF ResetInv
<1>4. ASSUME NEW r \in Requests, Finish(r), UNCHANGED origin PROVE ResetInv'
  BY <1>1, <1>4, FinishQuietly
<1>5. ASSUME NEW r \in Requests, NEW i \in Fresh, origin' = [origin EXCEPT ![i] = "registering"],
             Goto(r, [slot[r] EXCEPT !.step = "insert_login", !.id = i])
      PROVE  ResetInv'
  <2>1. slot'[r].step = "insert_login" /\ slot'[r].id = i
    <3>1. slot[r] \in Slots
      BY DEF IInv, TypeOK, Slots
    <3> QED BY <1>5, <3>1 DEF Goto, IInv, TypeOK, Slots
  <2>2. \A q \in Requests \ {r} : slot'[q] = slot[q]
    BY <1>5 DEF Goto, IInv, TypeOK
  <2>3. origin'[i] = "registering" /\ \A j \in Ids \ {i} : origin'[j] = origin[j]
    BY <1>2, <1>5 DEF IInv, TypeOK
  <2>4. \A q \in Requests : slot[q].step \in {"insert_login", "act"} =>
            slot[q].id \in Ids \ {i}
    BY <1>2 DEF IInv, SlotInv, SlotOK, Used
  <2>5. OneInsert'
    BY <2>1, <2>2, <2>3, <2>4 DEF ResetInv, OneInsert
  <2>6. HashInv'
    BY <1>1, <1>2, <2>1, <2>2, <2>3, <2>4 DEF ResetInv, HashInv
  <2> QED BY <2>5, <2>6 DEF ResetInv
<1> QED BY <1>3, <1>4, <1>5 DEF InsertUser

LEMMA InsertLoginPreservesReset ==
    ASSUME IInv, ResetInv, NEW r \in Requests, InsertLogin(r)
    PROVE  ResetInv'
<1> DEFINE i == slot[r].id
<1>1. /\ slot[r].step = "insert_login" /\ Finish(r) /\ spent' = spent
      /\ i \in Ids /\ origin[i] = "registering"
  BY DEF InsertLogin, IInv, SlotInv, SlotOK, Used, ResetInv, OneInsert
<1>2. CASE UNCHANGED <<login, origin>>
  BY <1>1, <1>2, FinishQuietly
<1>3. CASE login' = [login EXCEPT ![i] = 1] /\ origin' = [origin EXCEPT ![i] = "answered"]
  <2>1. \A q \in Requests : slot'[q] = IF q = r THEN Idle ELSE slot[q]
    BY <1>1 DEF Finish, IInv, TypeOK
  <2>2. origin'[i] = "answered" /\ \A j \in Ids \ {i} : origin'[j] = origin[j] /\ login'[j] = login[j]
    BY <1>1, <1>3 DEF IInv, TypeOK
  <2>3. \A q \in Requests : slot'[q].step = "insert_login" =>
            q # r /\ slot'[q] = slot[q] /\ slot[q].id \in Ids \ {i}
    BY <1>1, <2>1, WhatIsHeld, IdleIsQuiet DEF ResetInv, OneInsert
  <2>4. OneInsert'
    BY <2>2, <2>3 DEF ResetInv, OneInsert
  <2>5. \A q \in Requests : slot'[q].step = "act" => slot'[q] = slot[q] /\ slot[q].id \in Ids
    BY <2>1, WhatIsHeld, IdleIsQuiet
  <2>6. HashInv'
    BY <1>1, <2>2, <2>5 DEF ResetInv, HashInv
  <2> QED BY <2>4, <2>6 DEF ResetInv
<1> QED BY <1>2, <1>3 DEF InsertLogin

LEMMA UpdatePreservesReset ==
    ASSUME IInv, ResetInv, NEW r \in Requests, Update(r)
    PROVE  ResetInv'
<1> USE AccountsAssumption
<1> DEFINE s == slot[r]
<1>1. s.step = "act" /\ Finish(r) /\ origin' = origin /\ s.id \in Ids
  BY DEF Update, IInv, SlotInv, SlotOK, Used
<1>2. CASE UNCHANGED <<login, spent>>
  BY <1>1, <1>2, FinishQuietly
<1>3. CASE /\ s.op = "reset" /\ login[s.id] # 0
           /\ login' = [login EXCEPT ![s.id] = @ + 1]
           /\ spent' = spent \union {<<s.id, s.hash>>}
  <2>1. /\ s.hash \in 1 .. MaxHash /\ login[s.id] >= s.hash /\ origin[s.id] = "answered"
        /\ login \in [Ids -> 0 .. MaxHash]
    BY <1>1, <1>3 DEF ResetInv, HashInv, IInv, TypeOK, SlotInv, SlotOK
  <2>2. login'[s.id] = login[s.id] + 1 /\ \A j \in Ids \ {s.id} : login'[j] = login[j]
    BY <1>1, <1>3, <2>1
  <2>3. \A q \in Requests : slot'[q] = IF q = r THEN Idle ELSE slot[q]
    BY <1>1 DEF Finish, IInv, TypeOK
  <2>4. OneInsert'
    BY <1>1, <2>3 DEF ResetInv, OneInsert, Idle
  <2>5. \A i \in Ids : login'[i] # 0 => origin'[i] = "answered"
    BY <1>1, <2>1, <2>2 DEF ResetInv, HashInv
  <2>6. \A i \in Ids, n \in 1 .. MaxHash : <<i, n>> \in spent' =>
            origin'[i] = "answered" /\ (login'[i] = 0 \/ login'[i] > n)
    <3> SUFFICES ASSUME NEW i \in Ids, NEW n \in 1 .. MaxHash, <<i, n>> \in spent'
                 PROVE  origin'[i] = "answered" /\ (login'[i] = 0 \/ login'[i] > n)
      OBVIOUS
    <3>1. CASE <<i, n>> = <<s.id, s.hash>>
      BY <1>1, <2>1, <2>2, <3>1
    <3>2. CASE <<i, n>> \in spent
      <4>1. origin[i] = "answered" /\ (login[i] = 0 \/ login[i] > n)
        BY <3>2 DEF ResetInv, HashInv
      <4>2. CASE i = s.id
        BY <1>1, <1>3, <2>1, <2>2, <4>1, <4>2
      <4>3. CASE i # s.id
        BY <1>1, <2>2, <4>1, <4>3
      <4> QED BY <4>2, <4>3
    <3> QED BY <1>3, <3>1, <3>2
  <2>7. ASSUME NEW q \in Requests, slot'[q].op = "reset", slot'[q].step = "act"
        PROVE  /\ origin'[slot'[q].id] = "answered"
               /\ login'[slot'[q].id] = 0 \/ login'[slot'[q].id] >= slot'[q].hash
    <3>1. slot'[q] = slot[q] /\ slot[q].id \in Ids /\ slot[q].hash \in 1 .. MaxHash
      BY <2>3, <2>7, WhatIsHeld, IdleIsQuiet
    <3>2. origin[slot[q].id] = "answered" /\ (login[slot[q].id] = 0 \/ login[slot[q].id] >= slot[q].hash)
      BY <2>7, <3>1 DEF ResetInv, HashInv
    <3>3. CASE slot[q].id = s.id
      BY <1>1, <1>3, <2>1, <2>2, <3>1, <3>2, <3>3
    <3>4. CASE slot[q].id # s.id
      BY <1>1, <2>2, <3>1, <3>2, <3>4
    <3> QED BY <3>3, <3>4
  <2> QED BY <2>4, <2>5, <2>6, <2>7 DEF ResetInv, HashInv
<1> QED BY <1>2, <1>3 DEF Update

LEMMA DeleteLoginsPreservesReset ==
    ASSUME IInv, ResetInv, NEW r \in Requests, DeleteLogins(r)
    PROVE  ResetInv'
<1>1. /\ login' = [login EXCEPT ![slot[r].id] = 0] /\ UNCHANGED <<origin, spent>>
      /\ slot[r] \in Slots /\ slot[r].id \in Ids
  BY DEF DeleteLogins, IInv, TypeOK, Slots, SlotInv, SlotOK, Used
<1>2. /\ slot'[r].step = "delete_user"
      /\ \A q \in Requests \ {r} : slot'[q] = slot[q]
  BY <1>1 DEF DeleteLogins, Goto, IInv, TypeOK, Slots
<1>3. \A i \in Ids : login'[i] \in {0, login[i]}
  BY <1>1 DEF IInv, TypeOK
<1>4. \A q \in Requests : slot[q].step = "act" => slot[q].id \in Ids
  BY DEF IInv, SlotInv, SlotOK, Used
<1>5. OneInsert'
  BY <1>1, <1>2 DEF ResetInv, OneInsert
<1>6. HashInv'
  BY <1>1, <1>2, <1>3, <1>4 DEF ResetInv, HashInv
<1> QED BY <1>5, <1>6 DEF ResetInv

LEMMA AbortPreservesReset ==
    ASSUME IInv, ResetInv, NEW r \in Requests, Abort(r)
    PROVE  ResetInv'
<1> DEFINE i == slot[r].id
<1>1. Finish(r) /\ UNCHANGED <<login, spent>>
  BY DEF Abort, rows
<1>2. CASE slot[r].step # "insert_login"
  BY <1>1, <1>2, FinishQuietly DEF Abort
<1>3. CASE slot[r].step = "insert_login"
  <2>1. origin[i] = "registering" /\ i \in Ids /\ origin' = [origin EXCEPT ![i] = "cut"]
    BY <1>3 DEF Abort, ResetInv, OneInsert, IInv, SlotInv, SlotOK, Used
  <2>2. \A j \in Ids \ {i} : origin'[j] = origin[j]
    BY <2>1 DEF IInv, TypeOK
  <2>3. \A q \in Requests : slot'[q] = IF q = r THEN Idle ELSE slot[q]
    BY <1>1 DEF Finish, IInv, TypeOK
  <2>4. \A q \in Requests : slot'[q].step = "insert_login" =>
            q # r /\ slot'[q] = slot[q] /\ slot[q].id \in Ids \ {i}
    BY <1>3, <2>3, WhatIsHeld, IdleIsQuiet DEF ResetInv, OneInsert
  <2>5. OneInsert'
    BY <2>2, <2>4 DEF ResetInv, OneInsert
  <2>6. \A q \in Requests : slot'[q].step = "act" => slot'[q] = slot[q] /\ slot[q].id \in Ids
    BY <2>3, WhatIsHeld, IdleIsQuiet
  <2>7. HashInv'
    BY <1>1, <2>1, <2>2, <2>6 DEF ResetInv, HashInv
  <2> QED BY <2>5, <2>7 DEF ResetInv
<1> QED BY <1>2, <1>3

LEMMA ResetInvInductive == Spec => []ResetInv
<1>1. Init => ResetInv
  BY DEF Init, ResetInv, OneInsert, HashInv, Idle
<1>2. IInv /\ ResetInv /\ [Next]_vars => ResetInv'
  <2> SUFFICES ASSUME IInv, ResetInv, [Next]_vars PROVE ResetInv'
    OBVIOUS
  <2>1. ASSUME NEW r \in Requests, Handle(r) PROVE ResetInv'
    <3>1. CASE Receive(r) \/ LoadUser(r) \/ LoadLogin(r)
      BY <3>1, ReadsAreQuiet
    <3>2. CASE InsertUser(r) \/ InsertLogin(r)
      BY <3>2, InsertsPreserveReset, InsertLoginPreservesReset
    <3>3. CASE SendToken(r) \/ DeleteUser(r)
      BY <3>3, FinishQuietly DEF SendToken, SendReset, SendVerification, DeleteUser, Ordered, rows, history
    <3>4. CASE Update(r) \/ DeleteLogins(r) \/ Abort(r)
      BY <3>4, UpdatePreservesReset, DeleteLoginsPreservesReset, AbortPreservesReset
    <3> QED BY <2>1, <3>1, <3>2, <3>3, <3>4 DEF Handle
  <2>2. ASSUME NEW r \in Requests, NEW i \in Ids, DeleteTokens(r, i) PROVE ResetInv'
    BY <2>2, ReadsAreQuiet
  <2>3. ASSUME NEW i \in Ids, Order(i) \/ Withdraw(i) PROVE ResetInv'
    BY <2>3 DEF Order, Withdraw, history, ResetInv, OneInsert, HashInv
  <2>4. CASE CreateUser
    BY <2>4, InsertsPreserveReset
  <2>5. CASE UNCHANGED vars
    BY <2>5 DEF vars, ResetInv, OneInsert, HashInv
  <2> QED BY <2>1, <2>2, <2>3, <2>4, <2>5 DEF Next
<1> QED BY <1>1, <1>2, IInvInductive, PTL DEF Spec

\* A request comes to its act only from the check of its login row.
LEMMA OnlyLoadLoginActs ==
    ASSUME IInv, [Next]_vars, NEW r \in Requests, slot[r].step # "act", slot'[r].step = "act"
    PROVE  LoadLogin(r) /\ ~Finish(r)
<1> USE DEF Slots
<1>1. \A q \in Requests : slot[q] \in Slots
  BY DEF IInv, TypeOK
<1>2. ASSUME NEW q \in Requests, NEW n, slot' = [slot EXCEPT ![q] = n], n.step # "act" PROVE FALSE
  BY <1>2 DEF IInv, TypeOK
<1>3. ASSUME NEW q \in Requests, Finish(q) PROVE FALSE
  <2>1. PICK n : n = Idle
    OBVIOUS
  <2> QED BY <1>2, <1>3, <2>1, IdleIsQuiet DEF Finish
<1>4. slot' # slot
  OBVIOUS
<1>5. PICK q \in Requests : Handle(q) \/ \E i \in Ids : DeleteTokens(q, i)
  BY <1>4 DEF Next, vars, Order, Withdraw, CreateUser
<1>6. ~Receive(q)
  <2>1. ASSUME NEW n, Begin(q, n), n.step = "load_user" PROVE FALSE
    BY <1>2, <2>1 DEF Begin
  <2>2. \A e, op : [Idle EXCEPT !.step = "load_user", !.op = op, !.email = e].step = "load_user"
    BY DEF Idle
  <2>3. \A i, h : [Idle EXCEPT !.step = "load_user", !.op = "reset", !.id = i, !.hash = h].step = "load_user"
    BY DEF Idle
  <2> QED BY <2>1, <2>2, <2>3 DEF Receive
<1>7. ASSUME NEW n, Goto(q, n), n.step # "act" PROVE FALSE
  BY <1>2, <1>7 DEF Goto
<1>8. ~LoadUser(q) /\ ~InsertUser(q) /\ ~DeleteLogins(q)
  <2>1. [slot[q] EXCEPT !.step = "insert_user"].step = "insert_user"
    BY <1>1
  <2>2. \A i : [slot[q] EXCEPT !.step = "load_login", !.id = i].step = "load_login"
    BY <1>1
  <2>3. \A i : [slot[q] EXCEPT !.step = "insert_login", !.id = i].step = "insert_login"
    BY <1>1
  <2>4. [slot[q] EXCEPT !.step = "delete_user"].step = "delete_user"
    BY <1>1
  <2>5. ~LoadUser(q)
    BY <1>3, <1>7, <2>1, <2>2 DEF LoadUser
  <2>6. ~InsertUser(q)
    BY <1>3, <1>7, <2>3 DEF InsertUser
  <2>7. ~DeleteLogins(q)
    BY <1>7, <2>4 DEF DeleteLogins
  <2> QED BY <2>5, <2>6, <2>7
<1>9. ~InsertLogin(q) /\ ~SendToken(q) /\ ~Update(q) /\ ~DeleteUser(q) /\ ~Abort(q)
  BY <1>3 DEF InsertLogin, SendToken, SendReset, SendVerification, Update, DeleteUser, Abort
<1>10. ASSUME NEW i \in Ids, DeleteTokens(q, i) PROVE FALSE
  BY <1>2, <1>10 DEF DeleteTokens, Begin, Idle
<1>11. LoadLogin(q)
  BY <1>5, <1>6, <1>8, <1>9, <1>10 DEF Handle
<1>12. q = r
  <2>1. PICK n : slot' = [slot EXCEPT ![q] = n]
    BY <1>11 DEF LoadLogin, Goto, Finish
  <2> QED BY <2>1 DEF IInv, TypeOK
<1> QED BY <1>3, <1>11, <1>12

\* A reset token is not accepted once a password was set with it, however the
\* requests that hold it interleave.
THEOREM ResetTokensAreSpent == Spec => ResetTokenIsSpent
<1> DEFINE Check == \A r \in Requests :
             slot[r].op = "reset" /\ slot[r].step # "act" /\ slot'[r].step = "act"
               => <<slot[r].id, slot[r].hash>> \notin spent
<1>1. IInv /\ ResetInv /\ [Next]_vars => Check
  <2> SUFFICES ASSUME IInv, ResetInv, [Next]_vars, NEW r \in Requests,
                      slot[r].op = "reset", slot[r].step # "act", slot'[r].step = "act"
               PROVE  <<slot[r].id, slot[r].hash>> \notin spent
    OBVIOUS
  <2>1. LoadLogin(r) /\ ~Finish(r)
    BY OnlyLoadLoginActs
  <2>2. login[slot[r].id] = slot[r].hash /\ slot[r].hash \in 1 .. MaxHash /\ slot[r].id \in Ids
    BY <2>1 DEF LoadLogin, IInv, SlotInv, SlotOK, Used
  <2> QED BY <2>2 DEF ResetInv, HashInv
<1>2. [][Check]_vars => ResetTokenIsSpent
  BY DEF ResetTokenIsSpent
<1> QED BY <1>1, <1>2, IInvInductive, ResetInvInductive, PTL DEF Spec
=============================================================================
