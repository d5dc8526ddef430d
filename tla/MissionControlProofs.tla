------------------------ MODULE MissionControlProofs ------------------------
(***************************************************************************)
(* Proofs about mission control's users, for any number of users, admins,  *)
(* requests and updates at a time, any values and any failures: first the  *)
(* admission and deletion of users (MccAdmin), then the profile of one     *)
(* (MccProfile), then the two side by side (MissionControl).               *)
(***************************************************************************)
EXTENDS MissionControl, TLAPS

USE DEF directory, slots, Row

-----------------------------------------------------------------------------
(* Types *)

LEMMA InitTypes == Init => TypeOK
BY AdminAssumption DEF Init, TypeOK, Steps, Statuses, Choices

LEMMA NextTypes == TypeOK /\ [Next]_vars => TypeOK'
<1> SUFFICES ASSUME TypeOK, [Next]_vars PROVE TypeOK'
  OBVIOUS
<1> USE AdminAssumption DEF TypeOK, Steps, Statuses, Decisions, Roles, Choices
<1>1. ASSUME NEW r \in Requests, NEW u \in Users, Exchange(r, u) PROVE TypeOK'
  BY <1>1 DEF Exchange, Begin
<1>2. ASSUME NEW r \in Requests, NEW u \in Users, RequestRead(r, u) PROVE TypeOK'
  BY <1>2 DEF RequestRead, Begin
<1>3. ASSUME NEW r \in Requests, NEW u \in Users, DeleteBegin(r, u) PROVE TypeOK'
  BY <1>3 DEF DeleteBegin, Begin
<1>4. ASSUME NEW r \in Requests, NEW u \in Users, NEW d \in Decisions,
             DecideAuthorise(r, u, d) PROVE TypeOK'
  BY <1>4 DEF DecideAuthorise, Begin
<1>5. ASSUME NEW r \in Requests, Provision(r) PROVE TypeOK'
  BY <1>5 DEF Provision, Finish
<1>6. ASSUME NEW r \in Requests, RequestWrite(r) PROVE TypeOK'
  BY <1>6 DEF RequestWrite, Finish
<1>7. ASSUME NEW r \in Requests, DecideRead(r) PROVE TypeOK'
  BY <1>7 DEF DecideRead, Finish, Goto
<1>8. ASSUME NEW r \in Requests, Grant(r) PROVE TypeOK'
  BY <1>8 DEF Grant, Finish, Goto
<1>9. ASSUME NEW r \in Requests, Record(r) PROVE TypeOK'
  BY <1>9 DEF Record, Finish
<1>10. ASSUME NEW r \in Requests, DeleteRow(r) PROVE TypeOK'
  BY <1>10 DEF DeleteRow, Finish, Goto
<1>11. ASSUME NEW r \in Requests, DeleteSync(r) PROVE TypeOK'
  BY <1>11 DEF DeleteSync, Finish
<1>12. ASSUME NEW r \in Requests, Abort(r) PROVE TypeOK'
  BY <1>12 DEF Abort, Finish
<1>13. ASSUME NEW t \in tokens, Forget(t) PROVE TypeOK'
  BY <1>13 DEF Forget
<1>14. CASE UNCHANGED vars
  BY <1>14 DEF vars
<1> QED
  BY <1>1, <1>2, <1>3, <1>4, <1>5, <1>6, <1>7, <1>8, <1>9,
     <1>10, <1>11, <1>12, <1>13, <1>14 DEF Next, Step

\* The variables stay in their ranges, and every request carries what its next
\* step needs.
THEOREM TypeCorrect == Spec => []TypeOK
BY InitTypes, NextTypes, PTL DEF Spec

-----------------------------------------------------------------------------
(* The role *)

\* An approval about to be recorded was granted, unless the account went since.
GrantedFirst ==
    \A r \in Requests : pc[r] = "record" /\ choice[r] = "approved"
                        => subject[r] \in group \/ subject[r] \notin accounts

\* Whoever is pending asked, and so did whoever is about to be granted.
PendingAsked ==
    /\ \A u \in Users : status[u] = "pending" => u \in asked
    /\ \A r \in Requests : pc[r] = "grant" => subject[r] \in asked

RoleInv == ApprovedIsAdmin /\ GrantedFirst /\ Solicited /\ PendingAsked

LEMMA InitRole == Init => RoleInv
BY DEF Init, RoleInv, ApprovedIsAdmin, GrantedFirst, Solicited, PendingAsked

LEMMA NextRole == TypeOK /\ RoleInv /\ [Next]_vars => RoleInv'
<1> SUFFICES ASSUME TypeOK, RoleInv, [Next]_vars PROVE RoleInv'
  OBVIOUS
<1> USE AdminAssumption DEF RoleInv, ApprovedIsAdmin, GrantedFirst, Solicited, PendingAsked
<1>t. TypeOK'
  BY NextTypes
\* A request that only begins, and does not begin with a grant or a record.
<1>a. ASSUME NEW r \in Requests, NEW s \in {"provision", "request", "delete", "decide"},
             NEW u, NEW c, Begin(r, s, u, c), UNCHANGED <<status, directory, asked>>
      PROVE RoleInv'
  BY <1>a DEF Begin, TypeOK
<1>1. ASSUME NEW r \in Requests, NEW u \in Users,
             \/ Exchange(r, u) \/ RequestRead(r, u) \/ DeleteBegin(r, u)
             \/ \E d \in Decisions : DecideAuthorise(r, u, d)
      PROVE RoleInv'
  BY <1>1, <1>a DEF Exchange, RequestRead, DeleteBegin, DecideAuthorise
<1>2. ASSUME NEW r \in Requests, Provision(r) PROVE RoleInv'
  BY <1>2 DEF Provision, Finish, TypeOK
<1>3. ASSUME NEW r \in Requests, RequestWrite(r) PROVE RoleInv'
  BY <1>3 DEF RequestWrite, Finish, TypeOK
<1>4. ASSUME NEW r \in Requests, DecideRead(r) PROVE RoleInv'
  BY <1>4 DEF DecideRead, Finish, Goto, TypeOK
<1>5. ASSUME NEW r \in Requests, Grant(r) PROVE RoleInv'
  BY <1>5 DEF Grant, Finish, Goto, TypeOK
<1>6. ASSUME NEW r \in Requests, Record(r) PROVE RoleInv'
  BY <1>6 DEF Record, Finish, TypeOK, Decisions
<1>7. ASSUME NEW r \in Requests, DeleteRow(r) PROVE RoleInv'
  BY <1>7 DEF DeleteRow, Finish, Goto, TypeOK
<1>8. ASSUME NEW r \in Requests, DeleteSync(r) PROVE RoleInv'
  BY <1>8 DEF DeleteSync, Finish, TypeOK
<1>9. ASSUME NEW r \in Requests, Abort(r) PROVE RoleInv'
  BY <1>9 DEF Abort, Finish, TypeOK
<1>10. ASSUME NEW t \in tokens, Forget(t) PROVE RoleInv'
  BY <1>10 DEF Forget
<1>11. CASE UNCHANGED vars
  BY <1>11 DEF vars
<1> QED
  BY <1>1, <1>2, <1>3, <1>4, <1>5, <1>6, <1>7, <1>8, <1>9, <1>10,
     <1>11 DEF Next, Step

LEMMA RoleCorrect == Spec => [](TypeOK /\ RoleInv)
BY InitTypes, NextTypes, InitRole, NextRole, PTL DEF Spec

\* Whoever is marked approved and has an account has the role, although row and
\* role are in stores that fail apart.
THEOREM ApprovedHasRole == Spec => []ApprovedIsAdmin
<1>1. RoleInv => ApprovedIsAdmin
  BY DEF RoleInv
<1> QED
  BY <1>1, RoleCorrect, PTL

\* The role goes only to those an operator put in the group and those who asked.
THEOREM RoleWasAsked == Spec => []Solicited
<1>1. RoleInv => Solicited
  BY DEF RoleInv
<1> QED
  BY <1>1, RoleCorrect, PTL

-----------------------------------------------------------------------------
(* Deletion *)

\* A row comes into being only through a login of its user.
LEMMA RowsComeFromLogins ==
    ASSUME TypeOK, [Next]_vars, NEW u \in Users, ~Row(u), Row(u)'
    PROVE  \E r \in Requests : pc[r] = "provision" /\ subject[r] = u
<1>1. PICK r \in Requests : Provision(r) /\ subject[r] = u
  <2>1. CASE UNCHANGED vars
    BY <2>1 DEF vars
  <2>2. CASE \E t \in tokens : Forget(t)
    BY <2>2 DEF Forget
  <2>3. CASE \E r \in Requests, v \in Users :
                \/ Exchange(r, v) \/ RequestRead(r, v) \/ DeleteBegin(r, v)
                \/ \E d \in Decisions : DecideAuthorise(r, v, d)
    BY <2>3 DEF Exchange, RequestRead, DeleteBegin, DecideAuthorise
  <2>4. CASE \E r \in Requests : Step(r)
    <3>1. PICK r \in Requests : Step(r)
      BY <2>4
    <3>2. CASE Provision(r)
      BY <3>2 DEF Provision, TypeOK
    <3>3. CASE RequestWrite(r)
      BY <3>3 DEF RequestWrite, TypeOK
    <3>4. CASE Record(r)
      BY <3>4 DEF Record, TypeOK
    <3>5. CASE DeleteRow(r)
      BY <3>5 DEF DeleteRow, TypeOK
    <3>6. CASE DecideRead(r) \/ Grant(r) \/ DeleteSync(r) \/ Abort(r)
      BY <3>6 DEF DecideRead, Grant, DeleteSync, Abort
    <3> QED
      BY <3>1, <3>2, <3>3, <3>4, <3>5, <3>6 DEF Step
  <2> QED
    BY <2>1, <2>2, <2>3, <2>4 DEF Next
<1> QED
  BY <1>1 DEF Provision

\* A deletion is final: no request that is still running brings the row back.
THEOREM DeletedStaysDeleted == Spec => DeletionIsFinal
<1> DEFINE Kept == \A u \in Users : /\ u \notin accounts /\ ~Row(u)
                                    /\ \A r \in Requests : pc[r] = "provision" => subject[r] # u
                                    => ~Row(u)'
<1>1. TypeOK /\ [Next]_vars => Kept
  BY RowsComeFromLogins
<1>2. TypeOK /\ [Next]_vars => [Kept]_vars
  BY <1>1
<1> QED
  BY <1>2, TypeCorrect, PTL DEF Spec, DeletionIsFinal

-----------------------------------------------------------------------------
(* StoresAgree.  The inductive invariant adds what an update between its   *)
(* writes relies on: unless it is marked as mixed it is the only one there,*)
(* and the row is what it is about to send to Keycloak.                    *)

ProfileType ==
    /\ row \in Profiles /\ account \in Profiles
    /\ update \in [Updates -> [step : {"idle", "write", "sync"}, data : Partial]]
    /\ mixed \subseteq Written
    /\ astray \in BOOLEAN

\* An update that is not mixed has the time between its writes to itself.
AloneInv == \A r \in Written \ mixed : Written = {r} /\ row = update[r].data

ProfileInv == ProfileType /\ AloneInv /\ StoresAgree

LEMMA ProfileInvInit == ProfileInit => ProfileInv
<1> SUFFICES ASSUME ProfileInit PROVE ProfileInv
  OBVIOUS
<1>1. row \in Profiles /\ account \in Profiles
  BY DEF ProfileInit, Profiles
<1>2. update \in [Updates -> [step : {"idle", "write", "sync"}, data : Partial]]
  BY DEF ProfileInit, NoUpdate, Partial
<1>3. Written = {} /\ mixed = {} /\ astray = FALSE
  BY DEF ProfileInit, NoUpdate, Written
<1>4. row.email = account.email /\ row.name = None
  BY DEF ProfileInit
<1> QED BY <1>1, <1>2, <1>3, <1>4 DEF ProfileInv, ProfileType, AloneInv, StoresAgree

\* The end of an update takes it, and no other, out of the ones being handled.
LEMMA EndOfUpdate ==
    ASSUME ProfileType, NEW r \in Updates, EndUpdate(r)
    PROVE  /\ update' \in [Updates -> [step : {"idle", "write", "sync"}, data : Partial]]
           /\ Written' = Written \ {r}
           /\ \A q \in Updates \ {r} : update'[q] = update[q]
           /\ mixed' = mixed \ {r}
BY DEF ProfileType, EndUpdate, NoUpdate, Written, Partial

LEMMA UpdateBeginPreserves ==
    ASSUME ProfileInv, NEW r \in Updates, NEW data \in Partial, UpdateBegin(r, data)
    PROVE  ProfileInv'
<1>1. /\ update' = [update EXCEPT ![r] = [step |-> "write", data |-> data]]
      /\ update[r].step = "idle" /\ UNCHANGED <<row, account, mixed, astray>>
  BY DEF UpdateBegin
<1>2. Written' = Written
  BY <1>1 DEF ProfileInv, ProfileType, Written
<1>3. ProfileType'
  BY <1>1, <1>2 DEF ProfileInv, ProfileType
<1>4. AloneInv'
  BY <1>1, <1>2 DEF ProfileInv, ProfileType, AloneInv, Written
<1> QED BY <1>1, <1>2, <1>3, <1>4 DEF ProfileInv, StoresAgree

LEMMA UpdateRowPreserves ==
    ASSUME ProfileInv, NEW r \in Updates, UpdateRow(r)
    PROVE  ProfileInv'
<1>1. update[r].step = "write" /\ UNCHANGED <<account, astray>> /\ r \notin Written
  BY DEF UpdateRow, Written
<1>2. CASE update[r].data.email = None
  <2>1. EndUpdate(r) /\ UNCHANGED row
    BY <1>2 DEF UpdateRow
  <2>2. Written' = Written /\ mixed' = mixed
    <3>1. ProfileType /\ mixed \subseteq Written
      BY DEF ProfileInv, ProfileType
    <3>2. Written' = Written \ {r} /\ mixed' = mixed \ {r}
      BY <2>1, <3>1, EndOfUpdate
    <3> QED BY <1>1, <3>1, <3>2
  <2>3. ProfileType'
    BY <1>1, <2>1, <2>2, EndOfUpdate DEF ProfileInv, ProfileType
  <2>4. AloneInv'
    BY <1>1, <2>1, <2>2, EndOfUpdate DEF ProfileInv, AloneInv, Written
  <2> QED BY <1>1, <2>1, <2>2, <2>3, <2>4 DEF ProfileInv, StoresAgree
<1>3. CASE update[r].data.email # None
  <2>1. /\ row' = update[r].data
        /\ update' = [update EXCEPT ![r].step = "sync"]
        /\ mixed' = IF Written = {} THEN mixed ELSE mixed \union Written \union {r}
    BY <1>3 DEF UpdateRow
  <2>2. row' \in Profiles
    BY <1>3, <2>1 DEF ProfileInv, ProfileType, Partial, Profiles
  <2>3. Written' = Written \union {r} /\ update'[r].data = update[r].data
    BY <2>1 DEF ProfileInv, ProfileType, Written
  <2>4. ProfileType'
    BY <1>1, <2>1, <2>2, <2>3 DEF ProfileInv, ProfileType
  <2>5. AloneInv'
    BY <2>1, <2>3 DEF AloneInv
  <2> QED BY <2>3, <2>4, <2>5 DEF ProfileInv, StoresAgree
<1> QED BY <1>2, <1>3

\* What is left once r is through, whatever became of its second write.
LEMMA AloneAfterEnd ==
    ASSUME ProfileInv, NEW r \in Updates, EndUpdate(r),
           row' = row, account' \in Profiles, astray' \in BOOLEAN
    PROVE  ProfileType' /\ AloneInv'
<1>1. ProfileType'
  BY EndOfUpdate DEF ProfileInv, ProfileType
<1>2. AloneInv'
  BY EndOfUpdate DEF ProfileInv, AloneInv, Written
<1> QED BY <1>1, <1>2

LEMMA UpdateSyncPreserves ==
    ASSUME ProfileInv, NEW r \in Updates, UpdateSync(r)
    PROVE  ProfileInv'
<1>1. r \in Written /\ EndUpdate(r) /\ row' = row
  BY DEF UpdateSync, Written
<1>2. account' \in Profiles
  BY DEF UpdateSync, Synced, ProfileInv, ProfileType
<1>3. astray' \in BOOLEAN
  <2>1. (r \in mixed) \in BOOLEAN
    OBVIOUS
  <2> QED BY <2>1, Zenon DEF UpdateSync
<1>4. StoresAgree'
  <2>1. CASE account' \in Synced(update[r].data) /\ astray' = (r \in mixed)
    <3>1. CASE r \in mixed
      BY <2>1, <3>1 DEF StoresAgree
    <3>2. CASE r \notin mixed
      <4>1. row = update[r].data
        BY <1>1, <3>2 DEF ProfileInv, AloneInv
      <4> QED BY <1>1, <2>1, <4>1 DEF Synced, StoresAgree
    <3> QED BY <3>1, <3>2
  <2>2. CASE astray' = TRUE
    BY <2>2 DEF StoresAgree
  <2> QED BY <2>1, <2>2 DEF UpdateSync
<1> QED BY <1>1, <1>2, <1>3, <1>4, AloneAfterEnd DEF ProfileInv

LEMMA UpdateAbortPreserves ==
    ASSUME ProfileInv, NEW r \in Updates, UpdateAbort(r)
    PROVE  ProfileInv'
<1>1. EndUpdate(r) /\ UNCHANGED <<row, account>> /\ astray' = (astray \/ r \in Written)
  BY DEF UpdateAbort
<1>2. ProfileType' /\ AloneInv'
  BY <1>1, AloneAfterEnd DEF ProfileInv, ProfileType
<1>3. StoresAgree'
  <2>1. Written' = Written \ {r}
    BY <1>1, EndOfUpdate DEF ProfileInv
  <2>2. ~astray' => ~astray /\ r \notin Written
    BY <1>1
  <2> QED BY <1>1, <2>1, <2>2 DEF ProfileInv, StoresAgree
<1> QED BY <1>2, <1>3 DEF ProfileInv

LEMMA ProfileInvInductive == ProfileSpec => []ProfileInv
<1>1. ProfileInv /\ [ProfileNext]_profileVars => ProfileInv'
  <2> SUFFICES ASSUME ProfileInv, [ProfileNext]_profileVars PROVE ProfileInv'
    OBVIOUS
  <2>1. ASSUME NEW r \in Updates, NEW data \in Partial, UpdateBegin(r, data) PROVE ProfileInv'
    BY <2>1, UpdateBeginPreserves
  <2>2. ASSUME NEW r \in Updates, UpdateRow(r) PROVE ProfileInv'
    BY <2>2, UpdateRowPreserves
  <2>3. ASSUME NEW r \in Updates, UpdateSync(r) PROVE ProfileInv'
    BY <2>3, UpdateSyncPreserves
  <2>4. ASSUME NEW r \in Updates, UpdateAbort(r) PROVE ProfileInv'
    BY <2>4, UpdateAbortPreserves
  <2>5. CASE UNCHANGED profileVars
    BY <2>5 DEF profileVars, ProfileInv, ProfileType, AloneInv, StoresAgree, Written
  <2> QED BY <2>1, <2>2, <2>3, <2>4, <2>5 DEF ProfileNext
<1> QED BY <1>1, ProfileInvInit, PTL DEF ProfileSpec

\* The row and the account in Keycloak agree between updates, unless one failed
\* half way or overlapped another and none has gone through by itself since.
THEOREM StoresStayTogether == ProfileSpec => []StoresAgree
<1>1. ProfileInv => StoresAgree
  BY DEF ProfileInv
<1> QED BY <1>1, ProfileInvInductive, PTL

-----------------------------------------------------------------------------
(* The composition. *)

\* Side by side, each of the two behaves as it does by itself.
THEOREM MissionImplementsItsParts == MissionSpec => Spec /\ ProfileSpec
<1>1. MissionInit => Init /\ ProfileInit
  BY DEF MissionInit
<1>2. [MissionNext]_<<vars, profileVars>> => [Next]_vars /\ [ProfileNext]_profileVars
  BY DEF MissionNext
<1> QED BY <1>1, <1>2, PTL DEF MissionSpec, Spec, ProfileSpec

\* Whatever the two do in between, all that was shown of each holds of both.
THEOREM MissionKeepsItsUsers ==
    MissionSpec => [](ApprovedIsAdmin /\ Solicited /\ StoresAgree) /\ DeletionIsFinal
BY MissionImplementsItsParts, ApprovedHasRole, RoleWasAsked, StoresStayTogether,
   DeletedStaysDeleted, PTL
=============================================================================
