-------------------------- MODULE PictureRequests --------------------------
(***************************************************************************)
(* The picture requests of ARO users (table aro_requests):                 *)
(*   backend/app/api/aro/routes/picture_requests.py  create, list, delete, *)
(*                                                   download_packet       *)
(*   backend/app/data/repositories                   the statements they run*)
(*                                                                         *)
(* The rows are also written by whoever schedules and takes the pictures,  *)
(* which is not in the repository: a request leaves PENDING, gets a packet *)
(* and loses it with its packet, at any moment.  A user follows the "next" *)
(* links of the list from page to page (the walk) while all this happens.  *)
(***************************************************************************)
EXTENDS FiniteSets, Naturals, Sequences, SequencesExt

CONSTANTS Users, Pictures, Packets,
          Requests,  \* slots for requests being handled at the same time
          Count,     \* the page size of the walk
          NoUser, NoPicture, NoPacket

ASSUME PicturesAssumption == /\ Count \in Nat \ {0}
                             /\ NoUser \notin Users
                             /\ NoPicture \notin Pictures
                             /\ NoPacket \notin Packets

VARIABLES
  rows,     \* pictures with a row in aro_requests
  owner,    \* owner[p]: aro_id
  made,     \* every picture ever stamped, in the order of created_on
  pending,  \* pictures whose status is PENDING
  lapsed,   \* pictures whose delete_deadline has passed
  packets,  \* rows of the table packets
  packet,   \* packet[p]: packet_id
  slot,     \* slot[r]: the request r, its next step and what it holds
  walk      \* the walk through the pages and, as history, the rows that are there
            \* since it began and were not shown, and the number of rows of its
            \* user removed since

table == <<rows, owner, made, pending, lapsed, packets, packet>>
vars == <<rows, owner, made, pending, lapsed, packets, packet, slot, walk>>

Idle == [step |-> "idle", user |-> NoUser, picture |-> NoPicture, firm |-> FALSE]
NoWalk == [user |-> NoUser, offset |-> 0, more |-> FALSE, missed |-> {}, removed |-> 0]

Init == /\ rows = {}
        /\ owner = [p \in Pictures |-> NoUser]
        /\ made = <<>>
        /\ pending = {}
        /\ lapsed = {}
        /\ packets = Packets
        /\ packet = [p \in Pictures |-> NoPacket]
        /\ slot = [r \in Requests |-> Idle]
        /\ walk = NoWalk

Begin(r, s) == slot[r].step = "idle" /\ slot' = [slot EXCEPT ![r] = s]
Goto(r, s) == slot' = [slot EXCEPT ![r] = s]
Finish(r) == slot' = [slot EXCEPT ![r] = Idle]

\* Rows leave the table with all their columns; the walk counts its user's.
RemoveRows(ps) ==
    /\ rows' = rows \ ps
    /\ pending' = pending \ ps
    /\ lapsed' = lapsed \ ps
    /\ owner' = [p \in Pictures |-> IF p \in ps THEN NoUser ELSE owner[p]]
    /\ packet' = [p \in Pictures |-> IF p \in ps THEN NoPacket ELSE packet[p]]
    /\ walk' = [walk EXCEPT !.removed = @ + Cardinality({p \in ps : owner[p] = walk.user}),
                            !.missed = @ \ ps]

-----------------------------------------------------------------------------
(* POST /: created_on is stamped when the object is made, before the insert, *)
(* so rows can appear behind newer ones.                                     *)

Stamp(r, u, p) ==
    /\ p \notin ToSet(made)
    /\ made' = Append(made, p)
    /\ Begin(r, [Idle EXCEPT !.step = "insert", !.user = u, !.picture = p])
    /\ UNCHANGED <<rows, owner, pending, lapsed, packets, packet, walk>>

\* POST / in a transaction: PENDING and with a deadline in the future.
Insert(r) ==
    /\ slot[r].step = "insert"
    /\ rows' = rows \union {slot[r].picture}
    /\ owner' = [owner EXCEPT ![slot[r].picture] = slot[r].user]
    /\ pending' = pending \union {slot[r].picture}
    /\ Finish(r)
    /\ UNCHANGED <<made, lapsed, packets, packet, walk>>

-----------------------------------------------------------------------------
(* DELETE /{request_id} and GET /{request_id}/packet *)

\* Mutant: only the deadline decides.
IsDeletableLapse(p) == p \notin lapsed

IsDeletable(p) == p \in pending /\ p \notin lapsed

\* Mutant: the id alone identifies the request.
OwnedUnchecked(u, p) == p \in rows

\* _get_owned_request: somebody else's request is not found.
Owned(u, p) == p \in rows /\ owner[p] = u

\* The call arrives.  firm is history: the user could not delete the picture at
\* that moment, it not being his or not deletable.
ArriveDelete(r, u, p) ==
    /\ p \in rows
    /\ Begin(r, [step |-> "check", user |-> u, picture |-> p,
                 firm |-> owner[p] # u \/ p \notin pending \ lapsed])
    /\ UNCHANGED <<table, walk>>

CheckDelete(r) ==
    LET s == slot[r] IN
    /\ s.step = "check"
    /\ IF Owned(s.user, s.picture) /\ IsDeletable(s.picture)
       THEN Goto(r, [s EXCEPT !.step = "delete"])
       ELSE Finish(r)
    /\ UNCHANGED <<table, walk>>

\* delete_by_id, in a transaction of its own: the row as it is by now, or a
\* ValueError when it is gone.
Delete(r) ==
    /\ slot[r].step = "delete"
    /\ RemoveRows({slot[r].picture} \intersect rows)
    /\ Finish(r)
    /\ UNCHANGED <<made, packets>>

\* download_packet: the request is read and has a packet.
ReadRequest(r, u, p) ==
    /\ Owned(u, p) /\ packet[p] # NoPacket
    /\ Begin(r, [Idle EXCEPT !.step = "download", !.user = u, !.picture = p])
    /\ UNCHANGED <<table, walk>>

\* packets.get_by_id in the next transaction: a ValueError when it is gone.
Download(r) ==
    /\ slot[r].step = "download"
    /\ Finish(r)
    /\ UNCHANGED <<table, walk>>

\* The handler ends between two transactions.
Abort(r) ==
    /\ slot[r].step \in {"insert", "delete", "download"}
    /\ Finish(r)
    /\ UNCHANGED <<table, walk>>

-----------------------------------------------------------------------------
(* GET /: pages, newest first, each linked to the next. *)

Of(u) == {p \in rows : owner[p] = u}

\* created_on of p is before that of q.
Before(p, q) == \E j \in DOMAIN made : \E i \in 1 .. j - 1 : made[i] = p /\ made[j] = q

\* The rows that get_recent_by_aro lists before p.
Newer(u, p) == {q \in Of(u) : Before(p, q)}

\* Its rows from the offset on, as many as the limit.
Page(u, offset) == {p \in Of(u) : Cardinality(Newer(u, p)) \in offset .. offset + Count - 1}

\* Mutant: the link skips the row that shows whether there is more.
NextOffsetSkips(offset) == offset + Count + 1

NextOffset(offset) == offset + Count

\* list_picture_requests: the "next" link is there when the page is full.
TurnTo(u, offset, missed, removed) ==
    walk' = [user |-> u, offset |-> NextOffset(offset), more |-> Cardinality(Page(u, offset)) = Count,
             missed |-> missed \ Page(u, offset), removed |-> removed]

FirstPage(u) ==
    /\ walk = NoWalk
    /\ TurnTo(u, 0, Of(u), 0)
    /\ UNCHANGED <<table, slot>>

NextPage ==
    /\ walk.more
    /\ TurnTo(walk.user, walk.offset, walk.missed, walk.removed)
    /\ UNCHANGED <<table, slot>>

\* The list is closed.
EndWalk ==
    /\ walk # NoWalk
    /\ walk' = NoWalk
    /\ UNCHANGED <<table, slot>>

-----------------------------------------------------------------------------
(* What is outside: the clock, and whoever writes statuses and packets. *)

\* The deadline passes, or the request is scheduled, cancelled or failed.  PENDING
\* is never given back, and after one of the two the other changes nothing.
Lapse(p) ==
    /\ p \in rows \intersect (pending \ lapsed)
    /\ lapsed' = lapsed \union {p}
    /\ UNCHANGED <<rows, owner, made, pending, packets, packet, slot, walk>>

LeavePending(p) ==
    /\ p \in rows \intersect (pending \ lapsed)
    /\ pending' = pending \ {p}
    /\ UNCHANGED <<rows, owner, made, lapsed, packets, packet, slot, walk>>

AttachPacket(p, k) ==
    /\ p \in rows /\ packet[p] = NoPacket /\ k \in packets
    /\ packet' = [packet EXCEPT ![p] = k]
    /\ UNCHANGED <<rows, owner, made, pending, lapsed, packets, slot, walk>>

\* Mutant: the constraint is SET NULL as for the images.
DropPacketKeeps(k) ==
    /\ k \in packets
    /\ packets' = packets \ {k}
    /\ UNCHANGED <<rows, owner, made, pending, lapsed, packet, slot, walk>>

\* A packet is deleted, and ON DELETE CASCADE deletes the requests it is for.
DropPacket(k) ==
    /\ k \in packets
    /\ packets' = packets \ {k}
    /\ RemoveRows({p \in rows : packet[p] = k})
    /\ UNCHANGED <<made, slot>>

Next == \/ \E r \in Requests, u \in Users, p \in Pictures :
             Stamp(r, u, p) \/ ArriveDelete(r, u, p) \/ ReadRequest(r, u, p)
        \/ \E r \in Requests : \/ Insert(r) \/ CheckDelete(r) \/ Delete(r)
                               \/ Download(r) \/ Abort(r)
        \/ \E u \in Users : FirstPage(u)
        \/ NextPage \/ EndWalk
        \/ \E p \in Pictures : Lapse(p) \/ LeavePending(p)
        \/ \E p \in Pictures, k \in Packets : AttachPacket(p, k)
        \/ \E k \in Packets : DropPacket(k)

Spec == Init /\ [][Next]_vars

-----------------------------------------------------------------------------
(* Properties *)

\* A download that has found its request and then finds no packet was overtaken by
\* the end of the request itself: the answer is an error about a request that is
\* gone, never about one that is still listed with a download link.
DownloadFindsPacket ==
    \A r \in Requests : slot[r].step = "download" /\ slot[r].picture \in rows
                         => packet[slot[r].picture] \in packets

\* What a deletion removes was its user's and deletable at some moment of the
\* call: a picture that was scheduled, or whose window had closed, before the
\* call arrived is safe, and one that is scheduled during the call may not be.
OwnerDeletesOnlyOpen ==
    [][\A p \in rows \ rows' :
         \/ packet[p] \in packets \ packets'
         \/ \E r \in Requests : /\ slot[r].step = "delete" /\ slot'[r] = Idle
                                /\ slot[r].picture = p /\ owner[p] = slot[r].user
                                /\ ~slot[r].firm]_vars

\* A walk that has come to the last page has shown every row that was there all
\* the time, except for at most one for each row removed meanwhile: rows that
\* are inserted, at the front or behind newer ones, cost it nothing.
RemovalHidesOne ==
    walk # NoWalk /\ ~walk.more => Cardinality(walk.missed) <= walk.removed
=============================================================================
