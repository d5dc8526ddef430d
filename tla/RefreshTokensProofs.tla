------------------------ MODULE RefreshTokensProofs ------------------------
(***************************************************************************)
(* Proofs about RefreshTokens, for any number of users, families, tokens   *)
(* and concurrent requests.  The order is: types, the foreign keys, the    *)
(* chain invariant with NoFork and OneUnrotated as its consequences, the   *)
(* ownership of families, the justification of the reuse alarm, and the    *)
(* refinement of AuthSession.                                              *)
(***************************************************************************)
EXTENDS RefreshTokens, TLAPS

\* What every action is built from, expanded wherever an action is.
USE DEF users, columns, marks, local, history

-----------------------------------------------------------------------------
(* Types *)

\* The types hold together with what the requests under way refer to.
Types == TypeOK /\ TokensKnown

LEMMA InitTypes == Init => Types
BY DEF Init, Types, TypeOK, TokensKnown, Steps

LEMMA NextTypes == Types /\ [Next]_vars => Types'
<1> SUFFICES ASSUME Types, [Next]_vars PROVE Types'
  OBVIOUS
<1> USE NullAssumption DEF Types, TypeOK, TokensKnown, Steps
<1>1. ASSUME NEW r \in Requests, NEW u \in Users, Authenticate(r, u) PROVE Types'
  BY <1>1 DEF Authenticate, Begin
<1>2. ASSUME NEW r \in Requests, NEW u \in Users, DeleteTokens(r, u) PROVE Types'
  BY <1>2 DEF DeleteTokens, Begin
<1>3. ASSUME NEW r \in Requests, NEW t \in Tokens, RotateRead(r, t) PROVE Types'
  BY <1>3 DEF RotateRead, Usable, Begin, Shown
<1>4. ASSUME NEW r \in Requests, NEW t \in Tokens, LogoutRead(r, t) PROVE Types'
  BY <1>4 DEF LogoutRead, Begin
<1>5. ASSUME NEW r \in Requests, LoginIssue(r) PROVE Types'
  BY <1>5 DEF LoginIssue, InsertRow, Finish
<1>6. ASSUME NEW r \in Requests, RotateClaim(r) PROVE Types'
  BY <1>6 DEF RotateClaim, Goto, Finish
<1>7. ASSUME NEW r \in Requests, RotateIssue(r) PROVE Types'
  BY <1>7 DEF RotateIssue, InsertRow, Goto, Finish
<1>8. ASSUME NEW r \in Requests, RotateUser(r) PROVE Types'
  BY <1>8 DEF RotateUser, Finish
<1>9. ASSUME NEW r \in Requests, RevokeFamily(r) PROVE Types'
  BY <1>9 DEF RevokeFamily, RowsOf, Finish
<1>10. ASSUME NEW r \in Requests, DeleteLogins(r) PROVE Types'
  BY <1>10 DEF DeleteLogins, Goto
<1>11. ASSUME NEW r \in Requests, DeleteUser(r) PROVE Types'
  BY <1>11 DEF DeleteUser, Finish
<1>12. ASSUME NEW r \in Requests, Abort(r) PROVE Types'
  BY <1>12 DEF Abort, Finish
<1>13. ASSUME NEW t \in Tokens, Expire(t) PROVE Types'
  BY <1>13 DEF Expire
<1>14. CASE UNCHANGED vars
  BY <1>14 DEF vars
<1> QED
  BY <1>1, <1>2, <1>3, <1>4, <1>5, <1>6, <1>7, <1>8, <1>9, <1>10, <1>11, <1>12,
     <1>13, <1>14 DEF Next

\* The variables keep their types, and no statement marks a row that is gone.
THEOREM TypeCorrect == Spec => []TypeOK
<1>1. Types => TypeOK
  BY DEF Types
<1> QED
  BY <1>1, InitTypes, NextTypes, PTL DEF Spec

-----------------------------------------------------------------------------
(* Sessions are chains *)

LEMMA InitChain == Init => ChainInv
BY DEF Init, ChainInv, NoFork, OneUnrotated, RowsOf, TokensKnown, ParentsIssued,
       UnspentChildless, OneRotation

\* A step that inserts no row, claims no rotation and lets no request enter
\* the stretch between claim and insert can only make the chain shorter.
LEMMA ChainShrinks ==
    ASSUME Types, Types', ChainInv,
           UNCHANGED <<family, parent, issued>>,
           rows' \ rotated' \subseteq rows \ rotated,
           rows' \subseteq rows,
           \A r \in Requests : pc'[r] = "rotate_issue" =>
               pc[r] = "rotate_issue" /\ tok'[r] = tok[r]
    PROVE  ChainInv'
BY DEF Types, TypeOK, ChainInv, NoFork, OneUnrotated, RowsOf, TokensKnown,
       ParentsIssued, UnspentChildless, OneRotation

\* A login starts a chain in a family nothing refers to.
LEMMA ChainLogin ==
    ASSUME Types, Types', ChainInv, NEW r \in Requests, LoginIssue(r)
    PROVE  ChainInv'
<1> USE NullAssumption DEF Types, TypeOK, TokensKnown
<1>1. CASE usr[r] \notin accounts
  BY <1>1, ChainShrinks DEF LoginIssue, Finish
<1>2. CASE usr[r] \in accounts
  <2>1. PICK t \in Tokens, f \in Families \ FamiliesUsed :
            InsertRow(t, usr[r], f, NoToken)
    BY <1>2 DEF LoginIssue
  <2>2. \A x \in issued : family[x] # f /\ family'[x] = family[x] /\ parent'[x] = parent[x]
    BY <2>1 DEF InsertRow, FamiliesUsed
  <2>3. /\ t \notin issued /\ issued' = issued \union {t} /\ rows' = rows \union {t}
        /\ family'[t] = f /\ parent'[t] = NoToken /\ rotated' = rotated
    BY <2>1 DEF InsertRow, LoginIssue
  <2>4. \A q \in Requests : pc'[q] = "rotate_issue" =>
            pc[q] = "rotate_issue" /\ tok'[q] = tok[q] /\ tok[q] \in issued
    BY DEF LoginIssue, Finish
  <2>5. NoFork'
    BY <2>2, <2>3 DEF ChainInv, NoFork
  <2>6. OneUnrotated'
    BY <2>2, <2>3, <2>4 DEF ChainInv, OneUnrotated, RowsOf
  <2>7. ParentsIssued'
    BY <2>2, <2>3 DEF ChainInv, ParentsIssued
  <2>8. UnspentChildless'
    BY <2>2, <2>3, <2>4 DEF ChainInv, ParentsIssued, UnspentChildless
  <2>9. OneRotation'
    BY <2>2, <2>4 DEF ChainInv, OneRotation
  <2> QED
    BY <2>5, <2>6, <2>7, <2>8, <2>9 DEF ChainInv
<1> QED
  BY <1>1, <1>2

\* A claim rotates the one unrotated row of its family, if it succeeds.
LEMMA ChainClaim ==
    ASSUME Types, Types', ChainInv, NEW r \in Requests, RotateClaim(r)
    PROVE  ChainInv'
<1> USE DEF Types, TypeOK, TokensKnown
<1>1. CASE tok[r] \notin rows \ rotated
  BY <1>1, ChainShrinks DEF RotateClaim, Finish
<1>2. CASE tok[r] \in rows \ rotated
  <2>1. /\ rotated' = rotated \union {tok[r]}
        /\ pc' = [pc EXCEPT ![r] = "rotate_issue"]
        /\ UNCHANGED <<rows, family, parent, issued, tok>>
    BY <1>2 DEF RotateClaim, Goto
  <2>2. tok[r] \in issued
    BY <1>2
  <2>3. \A q \in Requests : pc[q] = "rotate_issue" => family[tok[q]] # family[tok[r]]
    BY <1>2 DEF ChainInv, OneUnrotated, RowsOf
  <2>4. NoFork'
    BY <2>1 DEF ChainInv, NoFork
  <2>5. OneUnrotated'
    BY <1>2, <2>1 DEF ChainInv, OneUnrotated, RowsOf
  <2>6. ParentsIssued'
    BY <2>1 DEF ChainInv, ParentsIssued
  <2>7. UnspentChildless'
    BY <1>2, <2>1 DEF ChainInv, UnspentChildless
  <2>8. OneRotation'
    BY <2>1, <2>3 DEF ChainInv, OneRotation
  <2> QED
    BY <2>4, <2>5, <2>6, <2>7, <2>8 DEF ChainInv
<1> QED
  BY <1>1, <1>2

\* The insert after a claim adds the one successor, into a family all of whose
\* rows are rotated.
LEMMA ChainIssue ==
    ASSUME Types, Types', ChainInv, NEW r \in Requests, RotateIssue(r)
    PROVE  ChainInv'
<1> USE NullAssumption DEF Types, TypeOK, TokensKnown
<1>1. CASE owner[tok[r]] \notin accounts
  BY <1>1, ChainShrinks DEF RotateIssue, Finish
<1>2. CASE owner[tok[r]] \in accounts
  <2> DEFINE p == tok[r]
  <2>1. PICK t \in Tokens : /\ InsertRow(t, owner[p], family[p], p)
                            /\ tok' = [tok EXCEPT ![r] = t]
    BY <1>2 DEF RotateIssue
  <2>2. /\ pc[r] = "rotate_issue" /\ p \in issued
        /\ pc' = [pc EXCEPT ![r] = "rotate_user"] /\ rotated' = rotated
    BY <1>2 DEF RotateIssue, Goto
  <2>3. /\ t \notin issued /\ issued' = issued \union {t} /\ rows' = rows \union {t}
        /\ family'[t] = family[p] /\ parent'[t] = p
        /\ \A x \in issued : family'[x] = family[x] /\ parent'[x] = parent[x]
    BY <2>1 DEF InsertRow
  <2>4. \A q \in Requests : pc'[q] = "rotate_issue" =>
            /\ q # r /\ pc[q] = "rotate_issue" /\ tok'[q] = tok[q] /\ tok[q] \in issued
            /\ family[tok[q]] # family[p]
    BY <2>1, <2>2 DEF ChainInv, OneRotation
  <2>5. \A x \in issued : parent[x] # p
    BY <2>2 DEF ChainInv, UnspentChildless
  <2>6. \A x \in rows \ rotated : family[x] # family[p]
    BY <2>2 DEF ChainInv, OneUnrotated, RowsOf
  <2>7. NoFork'
    BY <2>3, <2>5 DEF ChainInv, NoFork
  <2>8. OneUnrotated'
    <3>1. \A t1, t2 \in rows' \ rotated' : family'[t1] = family'[t2] => t1 = t2
      BY <2>2, <2>3, <2>6 DEF ChainInv, OneUnrotated
    <3>2. \A q \in Requests : pc'[q] = "rotate_issue" =>
              \A x \in rows' : family'[x] = family'[tok'[q]] => x \in rotated'
      BY <2>2, <2>3, <2>4 DEF ChainInv, OneUnrotated, RowsOf
    <3> QED
      BY <3>1, <3>2 DEF OneUnrotated, RowsOf
  <2>9. ParentsIssued'
    BY <2>2, <2>3 DEF ChainInv, ParentsIssued
  <2>10. UnspentChildless'
    <3>1. \A c \in issued' : parent'[c] \notin rows' \ rotated'
      BY <2>2, <2>3, <2>6 DEF ChainInv, ParentsIssued, UnspentChildless
    <3>2. \A c \in issued', q \in Requests : pc'[q] = "rotate_issue" => parent'[c] # tok'[q]
      BY <2>3, <2>4 DEF ChainInv, UnspentChildless
    <3> QED
      BY <3>1, <3>2 DEF UnspentChildless
  <2>11. OneRotation'
    BY <2>3, <2>4 DEF ChainInv, OneRotation
  <2> QED
    BY <2>7, <2>8, <2>9, <2>10, <2>11 DEF ChainInv
<1> QED
  BY <1>1, <1>2

LEMMA NextChain == Types /\ Types' /\ ChainInv /\ [Next]_vars => ChainInv'
<1> SUFFICES ASSUME Types, Types', ChainInv, [Next]_vars PROVE ChainInv'
  OBVIOUS
<1> USE DEF Types, TypeOK
<1>1. ASSUME NEW r \in Requests, NEW u \in Users, Authenticate(r, u) PROVE ChainInv'
  BY <1>1, ChainShrinks DEF Authenticate, Begin
<1>2. ASSUME NEW r \in Requests, NEW u \in Users, DeleteTokens(r, u) PROVE ChainInv'
  BY <1>2, ChainShrinks DEF DeleteTokens, Begin
<1>3. ASSUME NEW r \in Requests, NEW t \in Tokens, RotateRead(r, t) PROVE ChainInv'
  BY <1>3, ChainShrinks DEF RotateRead, Begin
<1>4. ASSUME NEW r \in Requests, NEW t \in Tokens, LogoutRead(r, t) PROVE ChainInv'
  BY <1>4, ChainShrinks DEF LogoutRead, Begin
<1>5. ASSUME NEW r \in Requests, LoginIssue(r) PROVE ChainInv'
  BY <1>5, ChainLogin
<1>6. ASSUME NEW r \in Requests, RotateClaim(r) PROVE ChainInv'
  BY <1>6, ChainClaim
<1>7. ASSUME NEW r \in Requests, RotateIssue(r) PROVE ChainInv'
  BY <1>7, ChainIssue
<1>8. ASSUME NEW r \in Requests, RotateUser(r) PROVE ChainInv'
  BY <1>8, ChainShrinks DEF RotateUser, Finish
<1>9. ASSUME NEW r \in Requests, RevokeFamily(r) PROVE ChainInv'
  BY <1>9, ChainShrinks DEF RevokeFamily, Finish
<1>10. ASSUME NEW r \in Requests, DeleteLogins(r) PROVE ChainInv'
  BY <1>10, ChainShrinks DEF DeleteLogins, Goto
<1>11. ASSUME NEW r \in Requests, DeleteUser(r) PROVE ChainInv'
  BY <1>11, ChainShrinks DEF DeleteUser, Finish
<1>12. ASSUME NEW r \in Requests, Abort(r) PROVE ChainInv'
  BY <1>12, ChainShrinks DEF Abort, Finish
<1>13. ASSUME NEW t \in Tokens, Expire(t) PROVE ChainInv'
  BY <1>13, ChainShrinks DEF Expire
<1>14. CASE UNCHANGED vars
  BY <1>14, ChainShrinks DEF vars
<1> QED
  BY <1>1, <1>2, <1>3, <1>4, <1>5, <1>6, <1>7, <1>8, <1>9, <1>10, <1>11, <1>12,
     <1>13, <1>14 DEF Next

\* The chain invariant holds in every reachable state.
THEOREM ChainCorrect == Spec => []ChainInv
BY InitTypes, NextTypes, InitChain, NextChain, PTL DEF Spec

\* However many requests present a token at the same time, it gets at most one
\* successor.
THEOREM SessionsDoNotFork == Spec => []NoFork
<1>1. ChainInv => NoFork
  BY DEF ChainInv
<1> QED
  BY <1>1, ChainCorrect, PTL

\* A family has at most one unrotated row, and none while a claimed rotation of
\* it is under way.
THEOREM OneUnrotatedRow == Spec => []OneUnrotated
<1>1. ChainInv => OneUnrotated
  BY DEF ChainInv
<1> QED
  BY <1>1, ChainCorrect, PTL

-----------------------------------------------------------------------------
(* Owners, orphans and the reuse alarm *)

LEMMA NextOneOwner == Types /\ OneOwner /\ [Next]_vars => OneOwner'
<1> SUFFICES ASSUME Types, OneOwner, [Next]_vars PROVE OneOwner'
  OBVIOUS
<1> USE NullAssumption DEF Types, TypeOK, TokensKnown, OneOwner
<1>1. ASSUME NEW r \in Requests, NEW u \in Users, Authenticate(r, u) PROVE OneOwner'
  BY <1>1 DEF Authenticate, Begin
<1>2. ASSUME NEW r \in Requests, NEW u \in Users, DeleteTokens(r, u) PROVE OneOwner'
  BY <1>2 DEF DeleteTokens, Begin
<1>3. ASSUME NEW r \in Requests, NEW t \in Tokens, RotateRead(r, t) PROVE OneOwner'
  BY <1>3 DEF RotateRead, Usable, Begin, Shown
<1>4. ASSUME NEW r \in Requests, NEW t \in Tokens, LogoutRead(r, t) PROVE OneOwner'
  BY <1>4 DEF LogoutRead, Begin
<1>5. ASSUME NEW r \in Requests, LoginIssue(r) PROVE OneOwner'
  BY <1>5 DEF LoginIssue, InsertRow, Finish, FamiliesUsed
<1>6. ASSUME NEW r \in Requests, RotateClaim(r) PROVE OneOwner'
  BY <1>6 DEF RotateClaim, Goto, Finish
<1>7. ASSUME NEW r \in Requests, RotateIssue(r) PROVE OneOwner'
  BY <1>7 DEF RotateIssue, InsertRow, Goto, Finish
<1>8. ASSUME NEW r \in Requests, RotateUser(r) PROVE OneOwner'
  BY <1>8 DEF RotateUser, Finish
<1>9. ASSUME NEW r \in Requests, RevokeFamily(r) PROVE OneOwner'
  BY <1>9 DEF RevokeFamily, RowsOf, Finish
<1>10. ASSUME NEW r \in Requests, DeleteLogins(r) PROVE OneOwner'
  BY <1>10 DEF DeleteLogins, Goto
<1>11. ASSUME NEW r \in Requests, DeleteUser(r) PROVE OneOwner'
  BY <1>11 DEF DeleteUser, RowsOwnedBy, Finish
<1>12. ASSUME NEW r \in Requests, Abort(r) PROVE OneOwner'
  BY <1>12 DEF Abort, Finish
<1>13. ASSUME NEW t \in Tokens, Expire(t) PROVE OneOwner'
  BY <1>13 DEF Expire
<1>14. CASE UNCHANGED vars
  BY <1>14 DEF vars
<1> QED
  BY <1>1, <1>2, <1>3, <1>4, <1>5, <1>6, <1>7, <1>8, <1>9, <1>10, <1>11, <1>12,
     <1>13, <1>14 DEF Next

\* Every token of a family belongs to the user who logged in.
THEOREM FamilyHasOneOwner == Spec => []OneOwner
<1>1. Init => OneOwner
  BY DEF Init, OneOwner
<1> QED
  BY <1>1, InitTypes, NextTypes, NextOneOwner, PTL DEF Spec

LEMMA NextNoOrphans == Types /\ NoOrphans /\ [Next]_vars => NoOrphans'
<1> SUFFICES ASSUME Types, NoOrphans, [Next]_vars PROVE NoOrphans'
  OBVIOUS
<1> USE NullAssumption DEF Types, TypeOK, TokensKnown, NoOrphans, RowsOwnedBy
<1>1. ASSUME NEW r \in Requests, NEW u \in Users, Authenticate(r, u) PROVE NoOrphans'
  BY <1>1 DEF Authenticate, Begin
<1>2. ASSUME NEW r \in Requests, NEW u \in Users, DeleteTokens(r, u) PROVE NoOrphans'
  BY <1>2 DEF DeleteTokens, Begin
<1>3. ASSUME NEW r \in Requests, NEW t \in Tokens, RotateRead(r, t) PROVE NoOrphans'
  BY <1>3 DEF RotateRead, Usable, Begin, Shown
<1>4. ASSUME NEW r \in Requests, NEW t \in Tokens, LogoutRead(r, t) PROVE NoOrphans'
  BY <1>4 DEF LogoutRead, Begin
<1>5. ASSUME NEW r \in Requests, LoginIssue(r) PROVE NoOrphans'
  BY <1>5 DEF LoginIssue, InsertRow, Finish
<1>6. ASSUME NEW r \in Requests, RotateClaim(r) PROVE NoOrphans'
  BY <1>6 DEF RotateClaim, Goto, Finish
<1>7. ASSUME NEW r \in Requests, RotateIssue(r) PROVE NoOrphans'
  BY <1>7 DEF RotateIssue, InsertRow, Goto, Finish
<1>8. ASSUME NEW r \in Requests, RotateUser(r) PROVE NoOrphans'
  BY <1>8 DEF RotateUser, Finish
<1>9. ASSUME NEW r \in Requests, RevokeFamily(r) PROVE NoOrphans'
  BY <1>9 DEF RevokeFamily, RowsOf, Finish
<1>10. ASSUME NEW r \in Requests, DeleteLogins(r) PROVE NoOrphans'
  BY <1>10 DEF DeleteLogins, Goto
<1>11. ASSUME NEW r \in Requests, DeleteUser(r) PROVE NoOrphans'
  BY <1>11 DEF DeleteUser, RowsOwnedBy, Finish
<1>12. ASSUME NEW r \in Requests, Abort(r) PROVE NoOrphans'
  BY <1>12 DEF Abort, Finish
<1>13. ASSUME NEW t \in Tokens, Expire(t) PROVE NoOrphans'
  BY <1>13 DEF Expire
<1>14. CASE UNCHANGED vars
  BY <1>14 DEF vars
<1> QED
  BY <1>1, <1>2, <1>3, <1>4, <1>5, <1>6, <1>7, <1>8, <1>9, <1>10, <1>11, <1>12,
     <1>13, <1>14 DEF Next

\* The foreign keys hold through the three transactions of a deletion and any
\* login or rotation that runs between them.
THEOREM NoOrphanRows == Spec => []NoOrphans
<1>1. Init => NoOrphans
  BY DEF Init, NoOrphans
<1> QED
  BY <1>1, InitTypes, NextTypes, NextNoOrphans, PTL DEF Spec

LEMMA NextAlarmInv == Types /\ AlarmInv /\ [Next]_vars => AlarmInv'
<1> SUFFICES ASSUME Types, AlarmInv, [Next]_vars PROVE AlarmInv'
  OBVIOUS
<1> USE NullAssumption DEF Types, TypeOK, TokensKnown, AlarmInv, NoFalseAlarm
<1>1. ASSUME NEW r \in Requests, NEW u \in Users, Authenticate(r, u) PROVE AlarmInv'
  BY <1>1 DEF Authenticate, Begin
<1>2. ASSUME NEW r \in Requests, NEW u \in Users, DeleteTokens(r, u) PROVE AlarmInv'
  BY <1>2 DEF DeleteTokens, Begin
<1>3. ASSUME NEW r \in Requests, NEW t \in Tokens, RotateRead(r, t) PROVE AlarmInv'
  BY <1>3 DEF RotateRead, Usable, Begin, Shown
<1>4. ASSUME NEW r \in Requests, NEW t \in Tokens, LogoutRead(r, t) PROVE AlarmInv'
  BY <1>4 DEF LogoutRead, Begin
<1>5. ASSUME NEW r \in Requests, LoginIssue(r) PROVE AlarmInv'
  BY <1>5 DEF LoginIssue, InsertRow, Finish
<1>6. ASSUME NEW r \in Requests, RotateClaim(r) PROVE AlarmInv'
  BY <1>6 DEF RotateClaim, Goto, Finish
<1>7. ASSUME NEW r \in Requests, RotateIssue(r) PROVE AlarmInv'
  BY <1>7 DEF RotateIssue, InsertRow, Goto, Finish
<1>8. ASSUME NEW r \in Requests, RotateUser(r) PROVE AlarmInv'
  BY <1>8 DEF RotateUser, Finish
<1>9. ASSUME NEW r \in Requests, RevokeFamily(r) PROVE AlarmInv'
  BY <1>9 DEF RevokeFamily, RowsOf, Finish
<1>10. ASSUME NEW r \in Requests, DeleteLogins(r) PROVE AlarmInv'
  BY <1>10 DEF DeleteLogins, Goto
<1>11. ASSUME NEW r \in Requests, DeleteUser(r) PROVE AlarmInv'
  BY <1>11 DEF DeleteUser, RowsOwnedBy, Finish
<1>12. ASSUME NEW r \in Requests, Abort(r) PROVE AlarmInv'
  BY <1>12 DEF Abort, Finish
<1>13. ASSUME NEW t \in Tokens, Expire(t) PROVE AlarmInv'
  BY <1>13 DEF Expire
<1>14. CASE UNCHANGED vars
  BY <1>14 DEF vars
<1> QED
  BY <1>1, <1>2, <1>3, <1>4, <1>5, <1>6, <1>7, <1>8, <1>9, <1>10, <1>11, <1>12,
     <1>13, <1>14 DEF Next

\* A family is revoked as stolen only if one of its tokens was presented twice.
THEOREM AlarmIsJustified == Spec => []NoFalseAlarm
<1>1. Init => AlarmInv
  BY DEF Init, AlarmInv, NoFalseAlarm
<1>2. AlarmInv => NoFalseAlarm
  BY DEF AlarmInv
<1> QED
  BY <1>1, <1>2, InitTypes, NextTypes, NextAlarmInv, PTL DEF Spec

-----------------------------------------------------------------------------
(* The table implements AuthSession *)

Phase == [f \in Families |-> PhaseOf(f)]

TheTokenOf(ts) == IF ts = {} THEN NoToken ELSE CHOOSE t \in ts : TRUE
Current == [f \in Families |-> TheTokenOf(UsableIn(f))]

\* An issue of the token t in family f.
SessionHandOut(f, t) ==
    /\ Phase[f] \in {"unborn", "renewing"} /\ t \notin issued
    /\ Phase' = [Phase EXCEPT ![f] = "open"]
    /\ Current' = [Current EXCEPT ![f] = t]
    /\ issued' = issued \union {t}

SessionWithdraw(renewing, dead) ==
    /\ renewing \subseteq {f \in Families : Phase[f] = "open"}
    /\ dead \subseteq {f \in Families : Phase[f] \in {"open", "renewing"}} \ renewing
    /\ Phase' = [f \in Families |-> CASE f \in renewing -> "renewing"
                                      [] f \in dead -> "dead"
                                      [] OTHER -> Phase[f]]
    /\ Current' = [f \in Families |-> IF f \in renewing \union dead THEN NoToken ELSE Current[f]]
    /\ UNCHANGED issued

LEMMA SessionSteps ==
    /\ \A f \in Families, t \in Tokens : SessionHandOut(f, t) => Session!SessionNext
    /\ \A renewing, dead \in SUBSET Families : SessionWithdraw(renewing, dead) => Session!SessionNext
BY DEF SessionHandOut, SessionWithdraw, Phase, Current, TheTokenOf,
       Session!SessionNext, Session!HandOut, Session!Withdraw

\* A family has one usable token or none, and none while a claimed rotation of it
\* is under way or before its login.
LEMMA UsableOfFamily ==
    ASSUME Types, ChainInv, NEW f \in Families
    PROVE  /\ \A t1, t2 \in UsableIn(f) : t1 = t2
           /\ f \notin FamiliesUsed => UsableIn(f) = {} /\ ~Rotating(f)
           /\ \A r \in Requests : pc[r] = "rotate_issue" /\ family[tok[r]] = f => UsableIn(f) = {}
BY DEF Types, TypeOK, TokensKnown, ChainInv, OneUnrotated, UsableIn, RowsOf, Usable,
       FamiliesUsed, Rotating

\* A step that issues nothing withdraws tokens or does nothing to the sessions, if
\* rotations begin only where there is a usable token.
LEMMA Withdraws ==
    ASSUME Types, Types', ChainInv, UNCHANGED <<issued, family>>,
           \A f \in Families : UsableIn(f)' \subseteq UsableIn(f),
           \A f \in Families : Rotating(f)' => Rotating(f) \/ UsableIn(f) # {}
    PROVE  Session!SessionNext
<1> DEFINE renewing == {f \in Families : Phase[f] = "open" /\ Phase'[f] = "renewing"}
           dead == {f \in Families : Phase[f] \in {"open", "renewing"} /\ Phase'[f] = "dead"}
<1>1. FamiliesUsed' = FamiliesUsed
  BY DEF FamiliesUsed
<1>2. ASSUME NEW f \in Families
      PROVE  /\ Phase'[f] = CASE f \in renewing -> "renewing" [] f \in dead -> "dead" [] OTHER -> Phase[f]
             /\ Current'[f] = IF f \in renewing \union dead THEN NoToken ELSE Current[f]
  <2>1. Phase[f] = PhaseOf(f) /\ Phase'[f] = PhaseOf(f)'
    BY DEF Phase
  <2>2. Current[f] = TheTokenOf(UsableIn(f)) /\ Current'[f] = TheTokenOf(UsableIn(f)')
    BY DEF Current
  <2>3. /\ \A t1, t2 \in UsableIn(f) : t1 = t2
        /\ f \notin FamiliesUsed => UsableIn(f) = {} /\ ~Rotating(f)
    BY UsableOfFamily
  <2>4. CASE f \notin FamiliesUsed
    <3>1. Phase[f] = "unborn" /\ Phase'[f] = "unborn" /\ UsableIn(f) = {} /\ UsableIn(f)' = {}
      BY <1>1, <2>1, <2>3, <2>4 DEF PhaseOf
    <3> QED BY <2>2, <3>1
  <2>5. CASE f \in FamiliesUsed /\ UsableIn(f)' # {}
    <3>1. UsableIn(f)' = UsableIn(f)
      BY <2>3, <2>5
    <3>2. Phase[f] = "open" /\ Phase'[f] = "open"
      BY <1>1, <2>1, <2>5, <3>1 DEF PhaseOf
    <3> QED BY <2>2, <3>1, <3>2
  <2>6. CASE f \in FamiliesUsed /\ UsableIn(f)' = {}
    <3>1. Phase'[f] \in {"renewing", "dead"} /\ Current'[f] = NoToken
      BY <1>1, <2>1, <2>2, <2>6 DEF PhaseOf, TheTokenOf
    <3>2. Phase'[f] = "renewing" => Rotating(f)'
      BY <1>1, <2>1, <2>6 DEF PhaseOf
    <3>3. Phase[f] \in {"open", "renewing", "dead"}
      BY <2>1, <2>6 DEF PhaseOf
    <3>4. Phase[f] = "dead" => ~Rotating(f) /\ UsableIn(f) = {}
      BY <2>1, <2>6 DEF PhaseOf
    <3>5. Phase[f] # "open" => Current[f] = NoToken
      BY <2>1, <2>2, <2>6 DEF PhaseOf, TheTokenOf
    <3> QED BY <3>1, <3>2, <3>3, <3>4, <3>5
  <2> QED BY <2>4, <2>5, <2>6
<1>3. /\ Phase' = [f \in Families |-> Phase'[f]]
      /\ Current' = [f \in Families |-> Current'[f]]
  BY DEF Phase, Current
<1>4. SessionWithdraw(renewing, dead)
  <2> HIDE DEF renewing, dead
  <2>1. Phase' = [f \in Families |-> CASE f \in renewing -> "renewing"
                                       [] f \in dead -> "dead" [] OTHER -> Phase[f]]
    BY <1>2, <1>3
  <2>2. Current' = [f \in Families |-> IF f \in renewing \union dead THEN NoToken ELSE Current[f]]
    BY <1>2, <1>3
  <2> QED BY <2>1, <2>2 DEF SessionWithdraw, renewing, dead
<1> QED BY <1>4, SessionSteps

\* The insert of a token into a family that has no usable one, and may have one,
\* hands it out.
LEMMA HandsOut ==
    ASSUME Types, Types', ChainInv, NEW f \in Families, NEW t \in Tokens \ issued,
           issued' = issued \union {t}, rows' = rows \union {t},
           family' = [family EXCEPT ![t] = f], UNCHANGED <<rotated, revoked, expired>>,
           PhaseOf(f) \in {"unborn", "renewing"},
           \A g \in Families \ {f} : Rotating(g)' = Rotating(g)
    PROVE  Session!SessionNext
<1> USE DEF Types, TypeOK
<1>1. /\ family'[t] = f /\ \A x \in issued : family'[x] = family[x]
      /\ t \notin rows /\ t \notin rotated /\ t \notin revoked /\ t \notin expired
  OBVIOUS
<1>2. FamiliesUsed' = FamiliesUsed \union {f}
  BY <1>1 DEF FamiliesUsed
<1>3. ASSUME NEW g \in Families \ {f} PROVE UsableIn(g)' = UsableIn(g)
  BY <1>1 DEF UsableIn, RowsOf, Usable
<1>4. UsableIn(f) = {}
  BY UsableOfFamily DEF PhaseOf
<1>5. UsableIn(f)' = {t}
  <2>1. ASSUME NEW x \in issued PROVE x \in UsableIn(f)' <=> x \in UsableIn(f)
    BY <1>1 DEF UsableIn, RowsOf, Usable
  <2>2. t \in UsableIn(f)' /\ UsableIn(f)' \subseteq issued'
    BY <1>1 DEF UsableIn, RowsOf, Usable
  <2> QED BY <1>4, <2>1, <2>2
<1>6. Phase' = [Phase EXCEPT ![f] = "open"]
  <2>1. PhaseOf(f)' = "open"
    BY <1>2, <1>5 DEF PhaseOf
  <2>2. ASSUME NEW g \in Families \ {f} PROVE PhaseOf(g)' = PhaseOf(g)
    BY <1>2, <1>3 DEF PhaseOf
  <2> QED BY <2>1, <2>2 DEF Phase
<1>7. Current' = [Current EXCEPT ![f] = t]
  <2>1. TheTokenOf(UsableIn(f)') = t
    BY <1>5 DEF TheTokenOf
  <2>2. ASSUME NEW g \in Families \ {f} PROVE TheTokenOf(UsableIn(g)') = TheTokenOf(UsableIn(g))
    BY <1>3
  <2> QED BY <2>1, <2>2 DEF Current
<1>8. Phase[f] \in {"unborn", "renewing"}
  BY DEF Phase
<1>9. SessionHandOut(f, t)
  BY <1>6, <1>7, <1>8 DEF SessionHandOut
<1> QED BY <1>9, SessionSteps

LEMMA LoginIsSessionStep ==
    ASSUME Types, Types', ChainInv, NEW r \in Requests, LoginIssue(r)
    PROVE  Session!SessionNext
<1> USE DEF Types, TypeOK, TokensKnown
<1>1. \A g \in Families : Rotating(g)' = Rotating(g)
  <2>1. ASSUME NEW q \in Requests, pc[q] \in {"claim", "rotate_issue"} \/ pc'[q] \in {"claim", "rotate_issue"}
        PROVE  /\ pc'[q] = pc[q] /\ tok'[q] = tok[q] /\ family'[tok[q]] = family[tok[q]]
    <3>1. q # r /\ pc'[q] = pc[q] /\ tok'[q] = tok[q]
      BY <2>1 DEF LoginIssue, Finish
    <3>2. tok[q] \in issued
      BY <2>1, <3>1
    <3> QED BY <3>1, <3>2 DEF LoginIssue, InsertRow
  <2> QED BY <2>1 DEF Rotating
<1>2. CASE usr[r] \notin accounts
  <2>1. UNCHANGED <<issued, family, rows, rotated, revoked, expired>>
    BY <1>2 DEF LoginIssue
  <2> QED BY <1>1, <2>1, Withdraws DEF UsableIn, RowsOf, Usable
<1>3. CASE usr[r] \in accounts
  <2>1. PICK t \in Tokens, f \in Families \ FamiliesUsed : InsertRow(t, usr[r], f, NoToken)
    BY <1>3 DEF LoginIssue
  <2>2. PhaseOf(f) = "unborn"
    BY UsableOfFamily DEF PhaseOf
  <2>3. /\ t \in Tokens \ issued /\ issued' = issued \union {t} /\ rows' = rows \union {t}
        /\ family' = [family EXCEPT ![t] = f] /\ UNCHANGED <<rotated, revoked, expired>>
    BY <2>1 DEF InsertRow, LoginIssue
  <2> QED BY <1>1, <2>2, <2>3, HandsOut
<1> QED BY <1>2, <1>3

LEMMA RotationIsSessionStep ==
    ASSUME Types, Types', ChainInv, NEW r \in Requests, RotateIssue(r)
    PROVE  Session!SessionNext
<1> USE DEF Types, TypeOK, TokensKnown
<1> DEFINE f == family[tok[r]]
<1>1. pc[r] = "rotate_issue" /\ tok[r] \in issued /\ f \in Families
  BY DEF RotateIssue
<1>2. ASSUME NEW q \in Requests \ {r}
      PROVE  /\ pc'[q] = pc[q] /\ tok'[q] = tok[q]
             /\ pc[q] \in {"claim", "rotate_issue"} => family'[tok[q]] = family[tok[q]]
  BY DEF RotateIssue, Goto, Finish, InsertRow
<1>3. pc'[r] \notin {"claim", "rotate_issue"}
  BY DEF RotateIssue, Goto, Finish
<1>4. \A g \in Families : Rotating(g)' => Rotating(g)
  BY <1>2, <1>3 DEF Rotating
<1>5. \A g \in Families \ {f} : Rotating(g) => Rotating(g)'
  BY <1>2 DEF Rotating
<1>6. CASE owner[tok[r]] \notin accounts
  <2>1. UNCHANGED <<issued, family, rows, rotated, revoked, expired>>
    BY <1>6 DEF RotateIssue
  <2> QED BY <1>4, <2>1, Withdraws DEF UsableIn, RowsOf, Usable
<1>7. CASE owner[tok[r]] \in accounts
  <2>1. PICK t \in Tokens : InsertRow(t, owner[tok[r]], family[tok[r]], tok[r])
    BY <1>7 DEF RotateIssue
  <2>2. PhaseOf(f) = "renewing"
    <3>1. f \in FamiliesUsed
      BY <1>1 DEF FamiliesUsed
    <3>2. UsableIn(f) = {}
      BY <1>1, UsableOfFamily
    <3>3. Rotating(f)
      BY <1>1 DEF Rotating
    <3> QED BY <3>1, <3>2, <3>3 DEF PhaseOf
  <2>3. \A g \in Families \ {f} : Rotating(g)' = Rotating(g)
    BY <1>4, <1>5 DEF Rotating
  <2>4. /\ t \in Tokens \ issued /\ issued' = issued \union {t} /\ rows' = rows \union {t}
        /\ family' = [family EXCEPT ![t] = f] /\ UNCHANGED <<rotated, revoked, expired>>
    BY <2>1 DEF InsertRow, RotateIssue
  <2> HIDE DEF f
  <2> QED BY <1>1, <2>2, <2>3, <2>4, HandsOut
<1> QED BY <1>6, <1>7

\* Every other statement and every end of a request withdraws or changes nothing.
LEMMA StepOfSession ==
    Types /\ Types' /\ ChainInv /\ [Next]_vars => [Session!SessionNext]_<<Phase, Current, issued>>
<1> SUFFICES ASSUME Types, Types', ChainInv, [Next]_vars PROVE Session!SessionNext
  OBVIOUS
<1> USE DEF UsableIn, RowsOf, Usable, Rotating
<1>1. ASSUME NEW r \in Requests, NEW u \in Users, Authenticate(r, u) PROVE Session!SessionNext
  BY <1>1, Withdraws DEF Authenticate, Begin, Types, TypeOK
<1>2. ASSUME NEW r \in Requests, NEW u \in Users, DeleteTokens(r, u) PROVE Session!SessionNext
  BY <1>2, Withdraws DEF DeleteTokens, Begin, Types, TypeOK
<1>3. ASSUME NEW r \in Requests, NEW t \in Tokens, RotateRead(r, t) PROVE Session!SessionNext
  BY <1>3, Withdraws DEF RotateRead, Begin, Types, TypeOK
<1>4. ASSUME NEW r \in Requests, NEW t \in Tokens, LogoutRead(r, t) PROVE Session!SessionNext
  BY <1>4, Withdraws DEF LogoutRead, Begin, Types, TypeOK
<1>5. ASSUME NEW r \in Requests, RotateClaim(r) PROVE Session!SessionNext
  BY <1>5, Withdraws DEF RotateClaim, Goto, Finish, Types, TypeOK
<1>6. ASSUME NEW r \in Requests, RotateUser(r) PROVE Session!SessionNext
  BY <1>6, Withdraws DEF RotateUser, Finish, Types, TypeOK
<1>7. ASSUME NEW r \in Requests, RevokeFamily(r) PROVE Session!SessionNext
  BY <1>7, Withdraws DEF RevokeFamily, Finish, Types, TypeOK
<1>8. ASSUME NEW r \in Requests, DeleteLogins(r) PROVE Session!SessionNext
  BY <1>8, Withdraws DEF DeleteLogins, Goto, Types, TypeOK
<1>9. ASSUME NEW r \in Requests, DeleteUser(r) PROVE Session!SessionNext
  BY <1>9, Withdraws DEF DeleteUser, Finish, Types, TypeOK
<1>10. ASSUME NEW r \in Requests, Abort(r) PROVE Session!SessionNext
  BY <1>10, Withdraws DEF Abort, Finish, Types, TypeOK
<1>11. ASSUME NEW t \in Tokens, Expire(t) PROVE Session!SessionNext
  BY <1>11, Withdraws DEF Expire
<1>12. CASE UNCHANGED vars
  BY <1>12, Withdraws DEF vars
<1> QED
  BY <1>1, <1>2, <1>3, <1>4, <1>5, <1>6, <1>7, <1>8, <1>9, <1>10, <1>11, <1>12,
     LoginIsSessionStep, RotationIsSessionStep DEF Next

\* Every login behaves as an AuthSession: one usable token at a time, each of them
\* new, and no way back for a session that has none and no rotation under way.
THEOREM TableImplementsSession == Spec => ImplementsSession
<1>1. Init => Session!SessionInit
  BY DEF Init, Session!SessionInit, PhaseOf, UsableIn, RowsOf, FamiliesUsed, Rotating
<1>2. Types /\ Types' /\ ChainInv /\ [Next]_vars => [Session!SessionNext]_(Session!sessionVars)
  BY StepOfSession DEF Session!sessionVars, Phase, Current, TheTokenOf
<1>3. Spec => []Types
  BY InitTypes, NextTypes, PTL DEF Spec
<1> QED BY <1>1, <1>2, <1>3, ChainCorrect, PTL DEF Spec, ImplementsSession, Session!SessionSpec
=============================================================================
