----------------------- MODULE CommandSchedulingProofs -----------------------
(***************************************************************************)
(* What the lockout guarantees, for any sessions, commands and concurrent  *)
(* requests, any start times and any length of the lockout.                *)
(***************************************************************************)
EXTENDS CommandScheduling, TLAPS

USE DEF table, slots, Row

-----------------------------------------------------------------------------
(* Types *)

LEMMA InitTypes == Init => TypeOK
BY SchedulingAssumption DEF Init, TypeOK, Statuses

LEMMA NextTypes == TypeOK /\ [Next]_vars => TypeOK'
<1> SUFFICES ASSUME TypeOK, [Next]_vars PROVE TypeOK'
  OBVIOUS
<1> USE SchedulingAssumption DEF TypeOK, Statuses, Changes
<1>1. ASSUME NEW r \in Requests, NEW s \in Sessions, NEW v \in Contents, CreateCheck(r, s, v)
      PROVE TypeOK'
  BY <1>1 DEF CreateCheck
<1>2. ASSUME NEW r \in Requests, NEW c \in Commands, CreateWrite(r, c) PROVE TypeOK'
  BY <1>2 DEF CreateWrite, Finish
<1>3. ASSUME NEW r \in Requests, NEW c \in Commands, NEW v \in Changes, ChangeRead(r, c, v)
      PROVE TypeOK'
  BY <1>3 DEF ChangeRead
<1>4. ASSUME NEW r \in Requests, ChangeCheck(r) PROVE TypeOK'
  BY <1>4 DEF ChangeCheck, Finish
<1>5. ASSUME NEW r \in Requests, ChangeWrite(r) PROVE TypeOK'
  BY <1>5 DEF ChangeWrite, Finish
<1>6. ASSUME NEW r \in Requests, Abort(r) PROVE TypeOK'
  BY <1>6 DEF Abort, Finish
<1>7. CASE StateManager
  BY <1>7 DEF StateManager, UpdateCommandStatus
<1>8. CASE Tick
  BY <1>8 DEF Tick
<1>9. CASE UNCHANGED vars
  BY <1>9 DEF vars
<1> QED
  BY <1>1, <1>2, <1>3, <1>4, <1>5, <1>6, <1>7, <1>8, <1>9 DEF Next, Web

\* The variables stay in their ranges, and a request that passed its check knows
\* what it writes and in which session.
THEOREM TypeCorrect == Spec => []TypeOK
BY InitTypes, NextTypes, PTL DEF Spec

-----------------------------------------------------------------------------
(* The lockout *)

\* A command belongs to one session as long as it lives, and a deleted one does
\* not come back: what a request was checked for is what it will write.
Belongs ==
    \A r \in Requests : pc[r] \in {"check", "write"}
                        => session[target[r]] \in {place[r], NoSession}

LEMMA NextBelongs == TypeOK /\ Belongs /\ [Next]_vars => Belongs'
<1> SUFFICES ASSUME TypeOK, Belongs, [Next]_vars PROVE Belongs'
  OBVIOUS
<1> USE SchedulingAssumption DEF TypeOK, Belongs
<1>1. ASSUME NEW r \in Requests, NEW s \in Sessions, NEW v \in Contents, CreateCheck(r, s, v)
      PROVE Belongs'
  BY <1>1 DEF CreateCheck
<1>2. ASSUME NEW r \in Requests, NEW c \in Commands, CreateWrite(r, c) PROVE Belongs'
  BY <1>2 DEF CreateWrite, Finish
<1>3. ASSUME NEW r \in Requests, NEW c \in Commands, NEW v \in Changes, ChangeRead(r, c, v)
      PROVE Belongs'
  BY <1>3 DEF ChangeRead
<1>4. ASSUME NEW r \in Requests, ChangeCheck(r) PROVE Belongs'
  BY <1>4 DEF ChangeCheck, Finish
<1>5. ASSUME NEW r \in Requests, ChangeWrite(r) PROVE Belongs'
  BY <1>5 DEF ChangeWrite, Finish
<1>6. ASSUME NEW r \in Requests, Abort(r) PROVE Belongs'
  BY <1>6 DEF Abort, Finish
<1>7. CASE StateManager
  BY <1>7 DEF StateManager, UpdateCommandStatus
<1>8. CASE Tick
  BY <1>8 DEF Tick
<1>9. CASE UNCHANGED vars
  BY <1>9 DEF vars
<1> QED
  BY <1>1, <1>2, <1>3, <1>4, <1>5, <1>6, <1>7, <1>8, <1>9 DEF Next, Web

\* The plan of a session depends on its commands and their contents only.
LEMMA PlanKept ==
    ASSUME NEW s \in Sessions,
           \A c \in Commands : /\ session[c] = s <=> session'[c] = s
                               /\ session[c] = s => content'[c] = content[c]
    PROVE  Plan(s)' = Plan(s)
BY DEF Plan

LEMMA LockoutIsLockout ==
    ASSUME TypeOK, NEW s \in Sessions PROVE InLockout(s) <=> IsLockedOut(s)
<1>1. now \in Int /\ Start[s] \in Int /\ Lockout \in Int
  BY SchedulingAssumption DEF TypeOK
<1> QED
  BY <1>1 DEF InLockout, IsLockedOut

Drained(s) ==
    /\ Plan(s)' = Plan(s) /\ ~Pending(s)'
    /\ slots' # slots => \A c \in Commands : session[c] = s => status'[c] = status[c]

LEMMA DrainedStep ==
    ASSUME TypeOK, Belongs, [Next]_vars, NEW s \in Sessions, InLockout(s), ~Pending(s)
    PROVE  Drained(s)
<1> USE SchedulingAssumption DEF TypeOK, Pending
<1>l. IsLockedOut(s)
  BY LockoutIsLockout
\* A step that leaves the table alone and lets no request pass its check for s.
<1>t. ASSUME UNCHANGED table, ~Pending(s)' PROVE Drained(s)
  BY <1>t, PlanKept DEF Drained
<1>1. ASSUME NEW r \in Requests, NEW z \in Sessions, NEW v \in Contents, CreateCheck(r, z, v)
      PROVE Drained(s)
  <2>1. z # s
    BY <1>1, <1>l DEF CreateCheck
  <2> QED
    BY <2>1, <1>1, <1>t DEF CreateCheck
<1>2. ASSUME NEW r \in Requests, NEW c \in Commands, CreateWrite(r, c) PROVE Drained(s)
  <2>1. place[r] # s /\ session[c] # s
    BY <1>2 DEF CreateWrite
  <2>2. Plan(s)' = Plan(s)
    BY <2>1, <1>2, PlanKept DEF CreateWrite
  <2> QED
    BY <2>1, <2>2, <1>2 DEF Drained, CreateWrite, Finish
<1>3. ASSUME NEW r \in Requests, NEW c \in Commands, NEW v \in Changes, ChangeRead(r, c, v)
      PROVE Drained(s)
  BY <1>3, <1>t DEF ChangeRead
<1>4. ASSUME NEW r \in Requests, ChangeCheck(r) PROVE Drained(s)
  BY <1>4, <1>l, <1>t DEF ChangeCheck, Finish
<1>5. ASSUME NEW r \in Requests, ChangeWrite(r) PROVE Drained(s)
  <2>1. place[r] # s /\ target[r] \in Commands /\ session[target[r]] # s
    BY <1>5 DEF ChangeWrite, Belongs
  <2>2. Plan(s)' = Plan(s)
    BY <2>1, <1>5, PlanKept DEF ChangeWrite
  <2> QED
    BY <2>1, <2>2, <1>5 DEF Drained, ChangeWrite, Finish
<1>6. ASSUME NEW r \in Requests, Abort(r) PROVE Drained(s)
  BY <1>6, <1>t DEF Abort, Finish
<1>7. CASE StateManager
  <2>1. UNCHANGED <<session, content, slots>>
    BY <1>7 DEF StateManager, UpdateCommandStatus
  <2> QED
    BY <2>1, PlanKept DEF Drained
<1>8. CASE Tick
  BY <1>8, <1>t DEF Tick
<1>9. CASE UNCHANGED vars
  BY <1>9, <1>t DEF vars
<1> QED
  BY <1>1, <1>2, <1>3, <1>4, <1>5, <1>6, <1>7, <1>8, <1>9 DEF Next, Web

\* Once the lockout of a session has begun and the requests that passed their
\* check before it have ended, its plan never changes again.
THEOREM LockoutFreezes == Spec => FrozenOnceDrained
<1> DEFINE Frozen == \A s \in Sessions : InLockout(s) /\ ~Pending(s) => Drained(s)
<1>1. Init => TypeOK /\ Belongs
  BY InitTypes DEF Init, Belongs
<1>2. TypeOK /\ Belongs /\ [Next]_vars => (TypeOK /\ Belongs)'
  BY NextTypes, NextBelongs
<1>3. TypeOK /\ Belongs /\ [Next]_vars => [Frozen]_vars
  BY DrainedStep
<1>4. Frozen <=> \A s \in Sessions :
                   InLockout(s) /\ ~Pending(s)
                   => /\ Plan(s)' = Plan(s) /\ ~Pending(s)'
                      /\ slots' # slots
                         => \A c \in Commands : session[c] = s => status'[c] = status[c]
  BY DEF Drained
<1> QED
  BY <1>1, <1>2, <1>3, <1>4, PTL DEF Spec, FrozenOnceDrained
=============================================================================
