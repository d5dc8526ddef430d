------------------------- MODULE CommandScheduling -------------------------
(***************************************************************************)
(* The commands of a communication session:                                *)
(*   backend/app/api/mcc/routes/commands.py       create, update, delete   *)
(*   backend/app/api/mcc/services/scheduling.py   the lockout              *)
(*   backend/app/data/repositories                the statements they run  *)
(*   state-manager/src/database/crud.go           the state manager's side *)
(*                                                                         *)
(* A handler reads the command, reads its session and looks at the clock,  *)
(* and writes, each in a transaction of its own.  An update or a delete of *)
(* the repository loads the row and flushes the change in one transaction: *)
(* what it writes does not depend on what it loaded, so it is one step.    *)
(* An update that sets several fields stands as one of a single field: no  *)
(* property relates the two.                                               *)
(* The loop of the state manager is not written yet (main.go only sleeps), *)
(* so its functions may be called at any time and with any argument.       *)
(***************************************************************************)
EXTENDS Integers

CONSTANTS Sessions, Commands, Contents, Requests,
          Start,      \* Start[s]: start_time of session s
          Lockout,    \* SESSION_LOCKOUT_SECONDS
          Horizon,    \* model bound on the clock
          NoSession, NoCommand, NoContent

ASSUME SchedulingAssumption ==
    /\ Start \in [Sessions -> Int] /\ Lockout \in Nat /\ Horizon \in Nat
    /\ NoSession \notin Sessions /\ NoCommand \notin Commands /\ NoContent \notin Contents

VARIABLES
  now,
  session,   \* session[c]: session_id of command c, NoSession when it has no row
  content,   \* content[c]: type_ and params
  status,    \* status[c]: CommandStatus
  made,      \* history: commands that were created
  pc,        \* pc[r]: the next transaction of request r
  target,    \* target[r]: the command it is about
  place,     \* place[r]: the session it was checked for
  change     \* change[r]: what it will write, a status or a content

table == <<session, content, status, made>>
slots == <<pc, target, place, change>>
vars == <<now, session, content, status, made, pc, target, place, change>>

Statuses == {"pending", "scheduled", "ongoing", "cancelled", "failed", "completed"}
Delete == "delete"
Changes == Statuses \union Contents \union {Delete}

Init == /\ now = 0
        /\ session = [c \in Commands |-> NoSession]
        /\ content = [c \in Commands |-> NoContent]
        /\ status = [c \in Commands |-> "pending"]
        /\ made = {}
        /\ pc = [r \in Requests |-> "idle"]
        /\ target = [r \in Requests |-> NoCommand]
        /\ place = [r \in Requests |-> NoSession]
        /\ change = [r \in Requests |-> NoContent]

Finish(r) == /\ pc' = [pc EXCEPT ![r] = "idle"]
             /\ target' = [target EXCEPT ![r] = NoCommand]
             /\ place' = [place EXCEPT ![r] = NoSession]
             /\ change' = [change EXCEPT ![r] = NoContent]

Row(c) == session[c] # NoSession

\* Mutant: the lockout begins one tick late.
IsLockedOutStrict(s) == now > Start[s] - Lockout

IsLockedOut(s) == now >= Start[s] - Lockout

-----------------------------------------------------------------------------
(* POST / *)

\* The session is read and is not locked out.
CreateCheck(r, s, v) ==
    /\ pc[r] = "idle" /\ ~IsLockedOut(s)
    /\ pc' = [pc EXCEPT ![r] = "create"]
    /\ place' = [place EXCEPT ![r] = s]
    /\ change' = [change EXCEPT ![r] = v]
    /\ UNCHANGED <<now, table, target>>

\* Model bound: commands are created while the pool lasts.
CreateWrite(r, c) ==
    /\ pc[r] = "create" /\ c \notin made
    /\ session' = [session EXCEPT ![c] = place[r]]
    /\ content' = [content EXCEPT ![c] = change[r]]
    /\ status' = [status EXCEPT ![c] = "pending"]
    /\ made' = made \union {c}
    /\ Finish(r)
    /\ UNCHANGED now

-----------------------------------------------------------------------------
(* PATCH and DELETE /{command_id} *)

\* The command is read.
ChangeRead(r, c, v) ==
    /\ pc[r] = "idle" /\ Row(c)
    /\ pc' = [pc EXCEPT ![r] = "check"]
    /\ target' = [target EXCEPT ![r] = c]
    /\ place' = [place EXCEPT ![r] = session[c]]
    /\ change' = [change EXCEPT ![r] = v]
    /\ UNCHANGED <<now, table>>

\* Mutant: delete_command does not look at the lockout.
ChangeCheckDeletesAnyway(r) ==
    /\ pc[r] = "check"
    /\ IF IsLockedOut(place[r]) /\ change[r] # Delete THEN Finish(r)
       ELSE pc' = [pc EXCEPT ![r] = "write"] /\ UNCHANGED <<target, place, change>>
    /\ UNCHANGED <<now, table>>

\* Its session is read and is not locked out.
ChangeCheck(r) ==
    /\ pc[r] = "check"
    /\ IF IsLockedOut(place[r]) THEN Finish(r)
       ELSE pc' = [pc EXCEPT ![r] = "write"] /\ UNCHANGED <<target, place, change>>
    /\ UNCHANGED <<now, table>>

\* The row is deleted, or the fields of the request are set.  Without a row the
\* repository raises.
ChangeWrite(r) ==
    /\ pc[r] = "write"
    /\ LET c == target[r]
           v == change[r] IN
       IF ~Row(c) THEN UNCHANGED <<session, content, status>>
       ELSE /\ session' = [session EXCEPT ![c] = IF v = Delete THEN NoSession ELSE @]
            /\ status' = [status EXCEPT ![c] = IF v \in Statuses THEN v ELSE @]
            /\ content' = [content EXCEPT ![c] = IF v \in Contents THEN v ELSE @]
    /\ Finish(r)
    /\ UNCHANGED <<now, made>>

-----------------------------------------------------------------------------
(* The state manager and time *)

\* UpdateCommandStatus: no row is no error, and any status may follow any other.
UpdateCommandStatus(c, v) ==
    /\ status' = [status EXCEPT ![c] = IF Row(c) THEN v ELSE @]
    /\ UNCHANGED <<now, session, content, made, slots>>

Tick == /\ now < Horizon
        /\ now' = now + 1
        /\ UNCHANGED <<table, slots>>

\* A handler dies before its next transaction.
Abort(r) == /\ pc[r] # "idle"
            /\ Finish(r)
            /\ UNCHANGED <<now, table>>

Web(r) == \/ \E s \in Sessions, v \in Contents : CreateCheck(r, s, v)
          \/ \E c \in Commands : CreateWrite(r, c)
          \/ \E c \in Commands, v \in Changes : ChangeRead(r, c, v)
          \/ ChangeCheck(r) \/ ChangeWrite(r) \/ Abort(r)

StateManager == \E c \in Commands, v \in Statuses : UpdateCommandStatus(c, v)

Next == (\E r \in Requests : Web(r)) \/ StateManager \/ Tick

Spec == Init /\ [][Next]_vars

-----------------------------------------------------------------------------
(* Properties *)

\* The variables stay in their ranges, and a request that passed its check
\* knows what it writes, and in which session.
TypeOK ==
    /\ now \in Nat
    /\ session \in [Commands -> Sessions \union {NoSession}]
    /\ content \in [Commands -> Contents \union {NoContent}]
    /\ status \in [Commands -> Statuses]
    /\ made \subseteq Commands
    /\ \A c \in Commands : Row(c) => c \in made
    /\ pc \in [Requests -> {"idle", "create", "check", "write"}]
    /\ target \in [Requests -> Commands \union {NoCommand}]
    /\ place \in [Requests -> Sessions \union {NoSession}]
    /\ change \in [Requests -> Changes \union {NoContent}]
    /\ \A r \in Requests : /\ pc[r] = "create" => change[r] \in Contents
                           /\ pc[r] \in {"check", "write"} => target[r] \in made
                           /\ pc[r] # "idle" => place[r] \in Sessions

\* The commands of s as mission control scheduled them.
Plan(s) == {<<c, content[c]>> : c \in {d \in Commands : session[d] = s}}

\* The lockout window of s, by the clock.
InLockout(s) == now + Lockout >= Start[s]

\* A request that passed the check for s and has not written yet.
Pending(s) == \E r \in Requests : pc[r] \in {"create", "write"} /\ place[r] = s

\* What the lockout does guarantee: from the moment it has begun and the requests
\* that passed their check before have ended, the plan of the session never
\* changes again, and no request changes the status of a command in it.
FrozenOnceDrained ==
    [][\A s \in Sessions :
         InLockout(s) /\ ~Pending(s)
         => /\ Plan(s)' = Plan(s) /\ ~Pending(s)'
            /\ slots' # slots
               => \A c \in Commands : session[c] = s => status'[c] = status[c]]_vars
=============================================================================
