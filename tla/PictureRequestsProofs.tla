----------------------- MODULE PictureRequestsProofs -----------------------
(***************************************************************************)
(* DownloadFindsPacket, OwnerDeletesOnlyOpen and RemovalHidesOne, for any  *)
(* number of users, pictures, packets and calls at a time, and for pages   *)
(* of any size.  The inductive invariant of the first two says what a call *)
(* that has read a row can still rely on when the row is there in its next *)
(* transaction, whatever happened to it meanwhile.  That rests on a picture*)
(* being inserted once: until then no other call knows it.  That of the    *)
(* third counts the rows that were missed against those that were removed. *)
(***************************************************************************)
EXTENDS PictureRequests, TLAPS, FiniteSetTheorems, WellFoundedInduction

Calls == [step : {"idle", "insert", "check", "delete", "download"},
          user : Users \union {NoUser}, picture : Pictures \union {NoPicture}, firm : BOOLEAN]

Types ==
    /\ rows \subseteq Pictures /\ packets \subseteq Packets
    /\ owner \in [Pictures -> Users \union {NoUser}]
    /\ packet \in [Pictures -> Packets \union {NoPacket}]
    /\ made \in Seq(Pictures)
    /\ slot \in [Requests -> Calls]

\* Every row, and every row a call is about, was stamped.
MadeInv == /\ rows \subseteq ToSet(made)
           /\ \A r \in Requests : slot[r].step # "idle" => slot[r].picture \in ToSet(made)

\* What is about to be inserted is known to that call only.
InsertInv == \A r \in Requests : slot[r].step = "insert" =>
                /\ slot[r].picture \notin rows
                /\ \A q \in Requests \ {r} : slot[q].picture # slot[r].picture

\* The foreign key of packet_id.
PacketInv == \A p \in Pictures : packet[p] # NoPacket => p \in rows /\ packet[p] \in packets

\* What a call knows of its row, if the row is still there.
CallOK(s) ==
    /\ IF s.step = "idle" THEN s = Idle ELSE s.picture \in Pictures
    /\ s.step = "delete" => ~s.firm
    /\ s.picture \in rows =>
          /\ s.step = "download" => packet[s.picture] # NoPacket
          /\ s.step = "check" /\ s.firm =>
                owner[s.picture] # s.user \/ s.picture \notin pending \ lapsed
          /\ s.step = "delete" => owner[s.picture] = s.user

IInv == Types /\ MadeInv /\ InsertInv /\ PacketInv /\ \A r \in Requests : CallOK(slot[r])

-----------------------------------------------------------------------------
(* Rows and calls. *)

\* A row that stays keeps its owner and its packet and does not become deletable.
Fades(p) ==
    p \in rows' =>
       /\ p \in rows /\ owner'[p] = owner[p]
       /\ packet[p] # NoPacket => packet'[p] # NoPacket
       /\ p \in pending' \ lapsed' => p \in pending \ lapsed

LEMMA CallStaysOK ==
    ASSUME NEW s, CallOK(s), Fades(s.picture)
    PROVE  CallOK(s)'
BY DEF CallOK, Fades

LEMMA IdleIsOK == Idle \in Calls /\ CallOK(Idle)' /\ Idle.picture \notin Pictures
BY PicturesAssumption DEF Idle, Calls, CallOK

\* Calls end, or take up a row that is there, and rows fade or go.
LEMMA CallsPreserve ==
    ASSUME IInv, Types', PacketInv', UNCHANGED made, \A p \in Pictures : Fades(p),
           \A q \in Requests :
              \/ slot'[q] = slot[q] \/ slot'[q] = Idle
              \/ slot'[q].step # "insert" /\ slot'[q].picture \in rows /\ CallOK(slot[q])'
    PROVE  IInv'
<1>1. rows' \subseteq rows
  BY DEF Types, Fades
<1>2. MadeInv'
  BY <1>1 DEF IInv, MadeInv, Idle
<1>3. InsertInv'
  <2> SUFFICES ASSUME NEW q \in Requests, slot'[q].step = "insert"
               PROVE  /\ slot'[q].picture \notin rows'
                      /\ \A t \in Requests \ {q} : slot'[t].picture # slot'[q].picture
    BY DEF InsertInv
  <2>1. slot'[q] = slot[q]
    BY DEF Idle
  <2>2. /\ slot[q].picture \notin rows /\ slot[q].picture \in Pictures
        /\ \A t \in Requests \ {q} : slot[t].picture # slot[q].picture
    BY <2>1 DEF IInv, InsertInv, CallOK
  <2>3. \A t \in Requests \ {q} : slot'[t].picture # slot[q].picture
    BY <2>2, IdleIsOK
  <2> QED BY <1>1, <2>1, <2>2, <2>3
<1>4. ASSUME NEW q \in Requests PROVE CallOK(slot[q])'
  <2>1. CASE slot'[q] = slot[q]
    <3>1. PICK t : t = slot[q]
      OBVIOUS
    <3>2. CallOK(t) /\ Fades(t.picture)
      BY <1>1, <3>1, IdleIsOK DEF IInv, Types, Fades, CallOK
    <3>3. CallOK(t)'
      BY <3>2, CallStaysOK
    <3> QED BY <2>1, <3>1, <3>3
  <2>2. CASE slot'[q] = Idle
    <3>1. PICK t : t = Idle
      OBVIOUS
    <3> QED BY <2>2, <3>1, IdleIsOK, <1>1 DEF CallOK, Types, Idle
  <2> QED BY <2>1, <2>2
<1> QED BY <1>2, <1>3, <1>4 DEF IInv

\* The rows that stay are as they were.
LEMMA RowsFade ==
    ASSUME IInv, NEW ps \in SUBSET rows, RemoveRows(ps)
    PROVE  /\ rows' = rows \ ps
           /\ owner' \in [Pictures -> Users \union {NoUser}]
           /\ packet' \in [Pictures -> Packets \union {NoPacket}]
           /\ \A p \in Pictures : Fades(p)
           /\ \A p \in Pictures : packet'[p] = IF p \in ps THEN NoPacket ELSE packet[p]
<1>1. /\ rows' = rows \ ps /\ pending' = pending \ ps /\ lapsed' = lapsed \ ps
      /\ owner' = [p \in Pictures |-> IF p \in ps THEN NoUser ELSE owner[p]]
      /\ packet' = [p \in Pictures |-> IF p \in ps THEN NoPacket ELSE packet[p]]
  BY DEF RemoveRows
<1> QED BY <1>1 DEF IInv, Types, Fades

-----------------------------------------------------------------------------
(* The steps. *)

LEMMA InitInv == Init => IInv
<1> SUFFICES ASSUME Init PROVE IInv
  OBVIOUS
<1>1. Types
  BY PicturesAssumption DEF Init, Types, Calls, Idle
<1> QED BY <1>1 DEF Init, IInv, MadeInv, InsertInv, PacketInv, CallOK, Idle

LEMMA StampPreserves ==
    ASSUME IInv, NEW r \in Requests, NEW u \in Users, NEW p \in Pictures, Stamp(r, u, p)
    PROVE  IInv'
<1>1. PICK s : s = [Idle EXCEPT !.step = "insert", !.user = u, !.picture = p]
  OBVIOUS
<1>2. s \in Calls /\ s.step = "insert" /\ s.picture = p
  BY <1>1 DEF Calls, Idle
<1>3. /\ p \notin ToSet(made) /\ made' = Append(made, p)
      /\ slot[r].step = "idle" /\ slot' = [slot EXCEPT ![r] = s]
      /\ UNCHANGED <<rows, owner, pending, lapsed, packets, packet>>
  BY <1>1 DEF Stamp, Begin
<1>4. slot'[r] = s /\ \A q \in Requests \ {r} : slot'[q] = slot[q]
  BY <1>3 DEF IInv, Types
<1>5. made' \in Seq(Pictures) /\ ToSet(made') = ToSet(made) \union {p}
  <2>1. made \in Seq(Pictures)
    BY DEF IInv, Types
  <2>2. /\ made' \in Seq(Pictures) /\ Len(made') = Len(made) + 1 /\ Len(made) \in Nat
        /\ made'[Len(made) + 1] = p
        /\ \A i \in 1 .. Len(made) : made'[i] = made[i]
    BY <1>3, <2>1
  <2> QED BY <2>1, <2>2 DEF ToSet
<1>6. Types'
  BY <1>2, <1>3, <1>5 DEF IInv, Types
<1>7. MadeInv'
  BY <1>2, <1>3, <1>4, <1>5 DEF IInv, MadeInv
<1>8. InsertInv'
  <2>1. \A q \in Requests : slot[q].picture # p /\ p \notin rows
    BY <1>3, PicturesAssumption DEF IInv, MadeInv, Types, CallOK, Calls, Idle
  <2> QED BY <1>2, <1>3, <1>4, <2>1 DEF IInv, InsertInv
<1>9. ASSUME NEW q \in Requests PROVE CallOK(slot[q])'
  BY <1>2, <1>3, <1>4 DEF IInv, CallOK
<1> QED BY <1>3, <1>6, <1>7, <1>8, <1>9 DEF IInv, PacketInv

LEMMA InsertPreserves ==
    ASSUME IInv, NEW r \in Requests, Insert(r)
    PROVE  IInv'
<1>1. PICK p : p = slot[r].picture
  OBVIOUS
<1>2. /\ p \in Pictures \ rows
      /\ slot[r].user \in Users \union {NoUser}
      /\ \A q \in Requests \ {r} : slot[q].picture # p
  BY <1>1 DEF Insert, IInv, Types, InsertInv, CallOK, Calls, Idle
<1>3. /\ slot[r].step = "insert" /\ slot' = [slot EXCEPT ![r] = Idle]
      /\ rows' = rows \union {p} /\ pending' = pending \union {p}
      /\ owner' = [owner EXCEPT ![p] = slot[r].user]
      /\ UNCHANGED <<made, lapsed, packets, packet>>
  BY <1>1 DEF Insert, Finish
<1>4. slot'[r] = Idle /\ \A q \in Requests \ {r} : slot'[q] = slot[q]
  BY <1>3 DEF IInv, Types
<1>5. Types'
  BY <1>2, <1>3, IdleIsOK DEF IInv, Types
<1>6. MadeInv'
  BY <1>1, <1>3, <1>4 DEF IInv, MadeInv, Idle
<1>7. InsertInv'
  <2> SUFFICES ASSUME NEW q \in Requests, slot'[q].step = "insert"
               PROVE  /\ slot'[q].picture \notin rows'
                      /\ \A t \in Requests \ {q} : slot'[t].picture # slot'[q].picture
    BY DEF InsertInv
  <2>1. q # r /\ slot'[q] = slot[q]
    BY <1>4 DEF Idle
  <2>2. /\ slot[q].picture \notin rows /\ slot[q].picture \in Pictures
        /\ \A t \in Requests \ {q} : slot[t].picture # slot[q].picture
    BY <2>1 DEF IInv, InsertInv, CallOK
  <2>3. \A t \in Requests \ {q} : slot'[t].picture # slot[q].picture
    BY <1>4, <2>2, IdleIsOK
  <2> QED BY <1>2, <1>3, <2>1, <2>2, <2>3
<1>8. PacketInv'
  BY <1>3 DEF IInv, PacketInv
<1>9. ASSUME NEW q \in Requests PROVE CallOK(slot[q])'
  <2>1. CASE q = r
    BY <1>4, <2>1, PicturesAssumption, <1>3, <1>5 DEF CallOK, Idle, Types
  <2>2. CASE q # r
    <3>1. slot'[q] = slot[q] /\ slot[q].picture # p /\ CallOK(slot[q])
      BY <1>2, <1>4, <2>2 DEF IInv
    <3>2. owner'[slot[q].picture] = owner[slot[q].picture] \/ slot[q].picture \notin rows
      BY <1>3, <3>1 DEF IInv, Types
    <3> QED BY <1>3, <3>1, <3>2 DEF CallOK
  <2> QED BY <2>1, <2>2
<1> QED BY <1>5, <1>6, <1>7, <1>8, <1>9 DEF IInv

\* A call that ends without touching any row, and one that takes up a row.
LEMMA FinishPreserves ==
    ASSUME IInv, NEW r \in Requests, Finish(r), UNCHANGED table
    PROVE  IInv'
<1>1. \A q \in Requests : slot'[q] = slot[q] \/ slot'[q] = Idle
  BY DEF IInv, Types, Finish
<1>2. Types'
  BY IdleIsOK DEF IInv, Types, Finish, table
<1>3. PacketInv' /\ UNCHANGED made /\ \A p \in Pictures : Fades(p)
  BY DEF IInv, PacketInv, Fades, table
<1> QED BY <1>1, <1>2, <1>3, CallsPreserve

LEMMA ReadPreserves ==
    ASSUME IInv, NEW r \in Requests, NEW s \in Calls, slot' = [slot EXCEPT ![r] = s],
           s.step # "insert", s.picture \in rows, CallOK(s)', UNCHANGED table
    PROVE  IInv'
<1>1. slot'[r] = s /\ \A q \in Requests \ {r} : slot'[q] = slot[q]
  BY DEF IInv, Types
<1>2. Types' /\ PacketInv' /\ UNCHANGED made /\ \A p \in Pictures : Fades(p)
  BY DEF IInv, Types, PacketInv, Fades, table
<1>3. slot'[r].step # "insert" /\ slot'[r].picture \in rows /\ CallOK(slot[r])'
  BY <1>1
<1> QED BY <1>1, <1>2, <1>3, CallsPreserve

LEMMA ArriveDeletePreserves ==
    ASSUME IInv, NEW r \in Requests, NEW u \in Users, NEW p \in Pictures, ArriveDelete(r, u, p)
    PROVE  IInv'
<1>1. PICK s : s = [step |-> "check", user |-> u, picture |-> p,
                    firm |-> owner[p] # u \/ p \notin pending \ lapsed]
  OBVIOUS
<1>2. /\ s \in Calls /\ s.step = "check" /\ s.user = u /\ s.picture = p
      /\ s.firm = (owner[p] # u \/ p \notin pending \ lapsed)
  BY <1>1 DEF Calls
<1>3. p \in rows /\ slot' = [slot EXCEPT ![r] = s] /\ UNCHANGED table
  BY <1>1 DEF ArriveDelete, Begin
<1>4. CallOK(s)'
  BY <1>2, <1>3 DEF CallOK, table
<1> QED BY <1>2, <1>3, <1>4, ReadPreserves

\* The check passes for a row that is the caller's and deletable: then it was
\* when the call arrived.
LEMMA CheckDeletePreserves ==
    ASSUME IInv, NEW r \in Requests, CheckDelete(r)
    PROVE  IInv'
<1>1. UNCHANGED table /\ slot[r].step = "check"
  BY DEF CheckDelete
<1>2. slot[r] \in Calls /\ CallOK(slot[r]) /\ slot[r].picture \in Pictures
  BY <1>1 DEF IInv, Types, CallOK
<1>3. CASE Owned(slot[r].user, slot[r].picture) /\ IsDeletable(slot[r].picture)
  <2>1. PICK s : s = [slot[r] EXCEPT !.step = "delete"]
    OBVIOUS
  <2>2. /\ s \in Calls /\ s.step = "delete" /\ s.user = slot[r].user
        /\ s.picture = slot[r].picture /\ s.firm = slot[r].firm
    BY <1>2, <2>1 DEF Calls
  <2>3. slot' = [slot EXCEPT ![r] = s]
    BY <1>3, <2>1 DEF CheckDelete, Goto
  <2>4. s.picture \in rows /\ CallOK(s)'
    BY <1>1, <1>2, <1>3, <2>2 DEF CallOK, Owned, IsDeletable, table
  <2> QED BY <1>1, <2>2, <2>3, <2>4, ReadPreserves
<1>4. CASE ~(Owned(slot[r].user, slot[r].picture) /\ IsDeletable(slot[r].picture))
  BY <1>1, <1>4, FinishPreserves DEF CheckDelete
<1> QED BY <1>3, <1>4

LEMMA ReadRequestPreserves ==
    ASSUME IInv, NEW r \in Requests, NEW u \in Users, NEW p \in Pictures, ReadRequest(r, u, p)
    PROVE  IInv'
<1>1. PICK s : s = [Idle EXCEPT !.step = "download", !.user = u, !.picture = p]
  OBVIOUS
<1>2. s \in Calls /\ s.step = "download" /\ s.picture = p
  BY <1>1 DEF Calls, Idle
<1>3. /\ p \in rows /\ packet[p] # NoPacket
      /\ slot' = [slot EXCEPT ![r] = s] /\ UNCHANGED table
  BY <1>1 DEF ReadRequest, Begin, Owned
<1>4. CallOK(s)'
  BY <1>2, <1>3 DEF CallOK, table
<1> QED BY <1>2, <1>3, <1>4, ReadPreserves

LEMMA DeletePreserves ==
    ASSUME IInv, NEW r \in Requests, Delete(r)
    PROVE  IInv'
<1>1. /\ RemoveRows({slot[r].picture} \intersect rows)
      /\ slot' = [slot EXCEPT ![r] = Idle] /\ UNCHANGED <<made, packets>>
  BY DEF Delete, Finish
<1>2. /\ rows' \subseteq rows
      /\ owner' \in [Pictures -> Users \union {NoUser}]
      /\ packet' \in [Pictures -> Packets \union {NoPacket}]
      /\ \A p \in Pictures : Fades(p)
      /\ PacketInv'
  BY <1>1, RowsFade DEF IInv, PacketInv
<1>3. Types'
  BY <1>1, <1>2, IdleIsOK DEF IInv, Types
<1>4. \A q \in Requests : slot'[q] = slot[q] \/ slot'[q] = Idle
  BY <1>1 DEF IInv, Types
<1> QED BY <1>1, <1>2, <1>3, <1>4, CallsPreserve

\* What happens to rows and packets outside of the calls.
LEMMA LapsePreserves ==
    ASSUME IInv, NEW p \in Pictures, Lapse(p) \/ LeavePending(p)
    PROVE  IInv'
<1>1. UNCHANGED <<made, slot>> /\ Types' /\ PacketInv' /\ \A q \in Pictures : Fades(q)
  BY DEF Lapse, LeavePending, IInv, Types, PacketInv, Fades
<1> QED BY <1>1, CallsPreserve

LEMMA AttachPreserves ==
    ASSUME IInv, NEW p \in Pictures, NEW k \in Packets, AttachPacket(p, k)
    PROVE  IInv'
<1>1. UNCHANGED <<made, slot>> /\ Types' /\ PacketInv' /\ \A q \in Pictures : Fades(q)
  BY PicturesAssumption DEF AttachPacket, IInv, Types, PacketInv, Fades
<1> QED BY <1>1, CallsPreserve

\* The rows of a packet go with it, so no foreign key is left behind.
LEMMA DropPreserves ==
    ASSUME IInv, NEW k \in Packets, DropPacket(k)
    PROVE  IInv'
<1>1. PICK ps : ps = {q \in rows : packet[q] = k}
  OBVIOUS
<1>2. /\ RemoveRows(ps) /\ ps \in SUBSET rows /\ packets' = packets \ {k}
      /\ UNCHANGED <<made, slot>>
  BY <1>1 DEF DropPacket
<1>3. /\ rows' = rows \ ps
      /\ owner' \in [Pictures -> Users \union {NoUser}]
      /\ packet' \in [Pictures -> Packets \union {NoPacket}]
      /\ \A q \in Pictures : Fades(q)
      /\ \A q \in Pictures : packet'[q] = IF q \in ps THEN NoPacket ELSE packet[q]
  BY <1>2, RowsFade
<1>4. Types'
  BY <1>2, <1>3 DEF IInv, Types
<1>5. PacketInv'
  BY <1>1, <1>2, <1>3 DEF IInv, PacketInv
<1> QED BY <1>2, <1>3, <1>4, <1>5, CallsPreserve

LEMMA IInvInductive == IInv /\ [Next]_vars => IInv'
<1> SUFFICES ASSUME IInv, [Next]_vars PROVE IInv'
  OBVIOUS
<1>1. ASSUME NEW r \in Requests, NEW u \in Users, NEW p \in Pictures,
             Stamp(r, u, p) \/ ArriveDelete(r, u, p) \/ ReadRequest(r, u, p)
      PROVE  IInv'
  BY <1>1, StampPreserves, ArriveDeletePreserves, ReadRequestPreserves
<1>2. ASSUME NEW r \in Requests,
             Insert(r) \/ CheckDelete(r) \/ Delete(r) \/ Download(r) \/ Abort(r)
      PROVE  IInv'
  <2>1. CASE Download(r) \/ Abort(r)
    BY <2>1, FinishPreserves DEF Download, Abort
  <2> QED BY <1>2, <2>1, InsertPreserves, CheckDeletePreserves, DeletePreserves
<1>3. ASSUME UNCHANGED <<table, slot>> PROVE IInv'
  BY <1>3 DEF table, IInv, Types, MadeInv, InsertInv, PacketInv, CallOK
<1>4. CASE \/ \E u \in Users : FirstPage(u)
           \/ NextPage \/ EndWalk
  BY <1>3, <1>4 DEF FirstPage, NextPage, EndWalk
<1>5. CASE \E p \in Pictures : Lapse(p) \/ LeavePending(p)
  BY <1>5, LapsePreserves
<1>6. CASE \/ \E p \in Pictures, k \in Packets : AttachPacket(p, k)
           \/ \E k \in Packets : DropPacket(k)
  BY <1>6, AttachPreserves, DropPreserves
<1>7. CASE UNCHANGED vars
  BY <1>3, <1>7 DEF vars, table
<1> QED BY <1>1, <1>2, <1>4, <1>5, <1>6, <1>7 DEF Next

THEOREM IInvHolds == Spec => []IInv
<1>1. Init => IInv
  BY InitInv
<1>2. IInv /\ [Next]_vars => IInv'
  BY IInvInductive
<1> QED BY <1>1, <1>2, PTL DEF Spec

-----------------------------------------------------------------------------
(* The theorems. *)

\* A download whose request is still there finds its packet: packet_id is never
\* taken back, and the foreign key keeps what it names.
THEOREM DownloadsFindTheirPacket == Spec => []DownloadFindsPacket
<1>1. IInv => DownloadFindsPacket
  BY DEF IInv, CallOK, PacketInv, DownloadFindsPacket
<1> QED BY <1>1, IInvHolds, PTL

\* Rows are removed with their packet or by a delete call of their owner, whose
\* picture was deletable when the call arrived.
THEOREM OwnersDeleteOnlyOpen == Spec => OwnerDeletesOnlyOpen
<1> DEFINE Step == \A p \in rows \ rows' :
               \/ packet[p] \in packets \ packets'
               \/ \E r \in Requests : /\ slot[r].step = "delete" /\ slot'[r] = Idle
                                      /\ slot[r].picture = p /\ owner[p] = slot[r].user
                                      /\ ~slot[r].firm
<1>1. IInv /\ [Next]_vars => [Step]_vars
  <2> SUFFICES ASSUME IInv, Next PROVE Step
    OBVIOUS
  <2>1. CASE \E r \in Requests : Delete(r)
    <3>1. PICK r \in Requests : Delete(r)
      BY <2>1
    <3>2. /\ rows' = rows \ ({slot[r].picture} \intersect rows)
          /\ slot[r].step = "delete" /\ slot'[r] = Idle /\ CallOK(slot[r])
      BY <3>1 DEF Delete, RemoveRows, Finish, IInv, Types
    <3> QED BY <3>2 DEF CallOK
  <2>2. CASE \E k \in Packets : DropPacket(k)
    <3>1. PICK k \in Packets : DropPacket(k)
      BY <2>2
    <3> QED BY <3>1 DEF DropPacket, RemoveRows
  <2>3. CASE rows \subseteq rows'
    BY <2>3
  <2> QED BY <2>1, <2>2, <2>3
          DEF Next, Stamp, Insert, ArriveDelete, CheckDelete, ReadRequest, Download, Abort,
              FirstPage, NextPage, EndWalk, Lapse, LeavePending, AttachPacket, table
<1> QED BY <1>1, IInvHolds, PTL DEF Spec, OwnerDeletesOnlyOpen
-----------------------------------------------------------------------------
(* The walk.  The rows of a user are numbered from the newest; the first n *)
(* are those with fewer than n before them.  Which they are changes with   *)
(* every row that comes or goes, so the invariant counts: of the rows that *)
(* were missed, those that are among the first offset by now are not more  *)
(* than the rows removed.  What is removed moves as many rows forward, and *)
(* what is inserted moves none.                                            *)

\* No picture is stamped twice.
OnceMade == \A i, j \in DOMAIN made : made[i] = made[j] => i = j

First(u, n) == {p \in Of(u) : Cardinality(Newer(u, p)) < n}

WalkInv ==
    /\ walk \in [user : Users \union {NoUser}, offset : Nat, more : BOOLEAN,
                missed : SUBSET Pictures, removed : Nat]
    /\ walk.missed \subseteq Of(walk.user)
    /\ Cardinality(walk.missed \intersect First(walk.user, walk.offset)) <= walk.removed
    /\ ~walk.more => Cardinality(walk.missed) <= walk.removed

Ordered == IInv /\ OnceMade

\* Induction, for a set of numbers.
LEMMA Least == ASSUME NEW T \in SUBSET Nat, T # {}
               PROVE  \E m \in T : \A k \in T : m <= k
<1>1. OpToRel(<, Nat) = {ss \in Nat \X Nat : ss[1] < ss[2]}
  BY DEF OpToRel
<1>2. PICK m \in T : \A k \in T : <<k, m>> \notin OpToRel(<, Nat)
  BY NatLessThanWellFounded, WFMin
<1>3. ASSUME NEW k \in T PROVE m <= k
  <2>1. <<k, m>> \in Nat \X Nat /\ <<k, m>>[1] = k /\ <<k, m>>[2] = m
    OBVIOUS
  <2>2. ~(k < m)
    BY <1>1, <1>2, <2>1
  <2> QED BY <2>2
<1> QED BY <1>3

LEMMA OfIsFinite ==
    ASSUME IInv, NEW u
    PROVE  /\ IsFiniteSet(Of(u)) /\ Of(u) \subseteq ToSet(made)
           /\ \A p : IsFiniteSet(Newer(u, p)) /\ Cardinality(Newer(u, p)) \in Nat
           /\ \A n : IsFiniteSet(First(u, n)) /\ Cardinality(First(u, n)) \in Nat
<1>1. PICK n \in Nat : made \in [1 .. n -> Pictures]
  BY DEF IInv, Types
<1>2. made \in Surjection(1 .. n, ToSet(made))
  BY <1>1 DEF Surjection, ToSet
<1>3. IsFiniteSet(1 .. n)
  BY FS_Interval
<1>4. IsFiniteSet(ToSet(made))
  BY <1>2, <1>3, FS_Surjection
<1>5. Of(u) \subseteq ToSet(made)
  BY DEF IInv, MadeInv, Of
<1>6. IsFiniteSet(Of(u))
  BY <1>4, <1>5, FS_Subset
<1>7. ASSUME NEW T \in SUBSET Of(u) PROVE IsFiniteSet(T) /\ Cardinality(T) \in Nat
  BY <1>6, <1>7, FS_Subset, FS_CardinalityType
<1> QED BY <1>5, <1>6, <1>7 DEF Newer, First

\* created_on orders the pictures.
LEMMA BeforeOrders ==
    ASSUME Ordered, NEW p, NEW q, NEW t
    PROVE  /\ ~Before(p, p)
           /\ Before(p, q) /\ Before(q, t) => Before(p, t)
           /\ p \in ToSet(made) /\ q \in ToSet(made) => p = q \/ Before(p, q) \/ Before(q, p)
<1>1. PICK n \in Nat : made \in [1 .. n -> Pictures] /\ DOMAIN made = 1 .. n /\ Len(made) = n
  BY DEF Ordered, IInv, Types
<1>2. ~Before(p, p)
  BY <1>1 DEF Before, Ordered, OnceMade
<1>3. ASSUME Before(p, q), Before(q, t) PROVE Before(p, t)
  <2>1. PICK j \in 1 .. n : \E i \in 1 .. j - 1 : made[i] = p /\ made[j] = q
    BY <1>1, <1>3 DEF Before
  <2>2. PICK i \in 1 .. j - 1 : made[i] = p /\ made[j] = q
    BY <2>1
  <2>3. PICK l \in 1 .. n : \E k \in 1 .. l - 1 : made[k] = q /\ made[l] = t
    BY <1>1, <1>3 DEF Before
  <2>4. PICK k \in 1 .. l - 1 : made[k] = q /\ made[l] = t
    BY <2>3
  <2>5. j = k
    BY <1>1, <2>2, <2>4 DEF Ordered, OnceMade
  <2>6. i \in 1 .. l - 1
    BY <2>2, <2>4, <2>5
  <2> QED BY <1>1, <2>2, <2>4, <2>6 DEF Before
<1>4. ASSUME p \in ToSet(made), q \in ToSet(made) PROVE p = q \/ Before(p, q) \/ Before(q, p)
  <2>1. PICK i \in 1 .. n : made[i] = p
    BY <1>1, <1>4 DEF ToSet
  <2>2. PICK j \in 1 .. n : made[j] = q
    BY <1>1, <1>4 DEF ToSet
  <2>3. CASE i < j
    BY <1>1, <2>1, <2>2, <2>3 DEF Before
  <2>4. CASE j < i
    BY <1>1, <2>1, <2>2, <2>4 DEF Before
  <2> QED BY <2>1, <2>2, <2>3, <2>4
<1> QED BY <1>2, <1>3, <1>4

\* Before the later of two rows come fewer.
LEMMA NewerGrows ==
    ASSUME Ordered, NEW u, NEW p \in Of(u), NEW q \in Of(u), Before(q, p)
    PROVE  Newer(u, p) \subseteq Newer(u, q) \ {p} /\ p \in Newer(u, q)
BY BeforeOrders DEF Newer

\* Any rows of a user have an oldest and a newest among them.
LEMMA Extremes ==
    ASSUME Ordered, NEW u, NEW T \in SUBSET Of(u), T # {}
    PROVE  /\ \E p \in T : \A q \in T : q = p \/ Before(p, q)
           /\ \E p \in T : \A q \in T : q = p \/ Before(q, p)
<1>1. PICK n \in Nat : made \in [1 .. n -> Pictures] /\ DOMAIN made = 1 .. n /\ Len(made) = n
  BY DEF Ordered, IInv, Types
<1> DEFINE At == {i \in 1 .. n : made[i] \in T}
<1>2. T \subseteq ToSet(made)
  BY OfIsFinite DEF Ordered
<1>3. \A p \in T : \E i \in At : made[i] = p
  BY <1>1, <1>2 DEF ToSet
<1>4. At # {} /\ At \in SUBSET Nat
  BY <1>3
<1>5. PICK i \in At : \A j \in At : i <= j
  BY <1>4, Least
<1>6. \A q \in T : q = made[i] \/ Before(made[i], q)
  <2> SUFFICES ASSUME NEW q \in T PROVE q = made[i] \/ Before(made[i], q)
    OBVIOUS
  <2>1. PICK j \in At : made[j] = q
    BY <1>3
  <2>2. CASE j = i
    BY <2>1, <2>2
  <2>3. CASE j > i
    BY <1>1, <2>1, <2>3 DEF Before
  <2> QED BY <1>5, <2>2, <2>3
<1> DEFINE Back == {k \in 0 .. n : n - k \in At}
<1>7. Back # {} /\ Back \in SUBSET Nat
  <2>1. n - i \in 0 .. n /\ n - (n - i) = i
    BY <1>5
  <2>2. n - i \in Back
    BY <1>5, <2>1
  <2>3. Back \in SUBSET Nat
    OBVIOUS
  <2> HIDE DEF Back
  <2> QED BY <2>2, <2>3
<1>8. PICK k \in Back : \A m \in Back : k <= m
  BY <1>7, Least
<1>9. \A q \in T : q = made[n - k] \/ Before(q, made[n - k])
  <2> SUFFICES ASSUME NEW q \in T PROVE q = made[n - k] \/ Before(q, made[n - k])
    OBVIOUS
  <2>1. PICK j \in At : made[j] = q
    BY <1>3
  <2>2. n - j \in Back
    <3>1. n - j \in 0 .. n /\ n - (n - j) = j
      BY <2>1
    <3> QED BY <2>1, <3>1
  <2>3. j <= n - k /\ n - k \in 1 .. n
    <3>1. k \in 0 .. n /\ n - k \in At /\ n - k \in 1 .. n /\ j \in 1 .. n
      BY <1>8, <2>1
    <3>2. k <= n - j
      BY <1>8, <2>2
    <3> QED BY <3>1, <3>2
  <2>4. CASE j = n - k
    BY <2>1, <2>4
  <2>5. CASE j < n - k
    BY <1>1, <2>1, <2>3, <2>5 DEF Before
  <2> QED BY <2>3, <2>4, <2>5
<1> HIDE DEF At, Back
<1>10. made[i] \in T /\ made[n - k] \in T
  BY <1>5, <1>8 DEF At, Back
<1> QED BY <1>6, <1>9, <1>10

\* The first n are n of them, unless there are fewer, and what comes before one of
\* them is one of them.
LEMMA FirstCounts ==
    ASSUME Ordered, NEW u, NEW n \in Nat
    PROVE  /\ Cardinality(First(u, n)) <= n
           /\ First(u, n) # Of(u) => Cardinality(First(u, n)) = n
<1>1. /\ IsFiniteSet(First(u, n)) /\ Cardinality(First(u, n)) \in Nat
      /\ First(u, n) \subseteq Of(u) /\ IsFiniteSet(Of(u))
      /\ \A p : IsFiniteSet(Newer(u, p)) /\ Cardinality(Newer(u, p)) \in Nat
  BY OfIsFinite DEF Ordered, First
<1>2. Cardinality(First(u, n)) <= n
  <2>1. CASE First(u, n) = {}
    BY <2>1, FS_EmptySet
  <2>2. CASE First(u, n) # {}
    <3>1. PICK p \in First(u, n) : \A q \in First(u, n) : q = p \/ Before(p, q)
      BY <1>1, <2>2, Extremes
    <3>2. PICK N : N = Newer(u, p)
      OBVIOUS
    <3>3. First(u, n) \in SUBSET (N \union {p})
      BY <1>1, <3>1, <3>2 DEF Newer
    <3>4. IsFiniteSet(N) /\ Cardinality(N) \in Nat /\ Cardinality(N) < n
      BY <1>1, <3>1, <3>2 DEF First
    <3>5. IsFiniteSet(N \union {p}) /\ Cardinality(N \union {p}) <= Cardinality(N) + 1
          /\ Cardinality(N \union {p}) \in Nat
      <4>1. Cardinality(N \union {p}) \in {Cardinality(N), Cardinality(N) + 1}
        BY <3>4, FS_AddElement
      <4>2. IsFiniteSet(N \union {p})
        BY <3>4, FS_AddElement
      <4> QED BY <3>4, <4>1, <4>2
    <3>6. Cardinality(First(u, n)) <= Cardinality(N \union {p})
      BY <3>3, <3>5, FS_Subset
    <3> QED BY <1>1, <3>4, <3>5, <3>6
  <2> QED BY <2>1, <2>2
<1>3. ASSUME First(u, n) # Of(u) PROVE n <= Cardinality(First(u, n))
  <2>1. PICK T : T = Of(u) \ First(u, n)
    OBVIOUS
  <2>2. T \in SUBSET Of(u) /\ T # {}
    BY <1>1, <1>3, <2>1
  <2>3. PICK p \in T : \A q \in T : q = p \/ Before(q, p)
    BY <2>2, Extremes
  <2>4. Newer(u, p) \in SUBSET First(u, n)
    <3> SUFFICES ASSUME NEW q \in Newer(u, p), q \in T PROVE FALSE
      BY <2>1 DEF Newer
    <3>1. Before(p, q)
      BY DEF Newer
    <3> QED BY <2>3, <3>1, BeforeOrders
  <2>5. Cardinality(Newer(u, p)) <= Cardinality(First(u, n))
    BY <1>1, <2>4, FS_Subset
  <2>6. ~(Cardinality(Newer(u, p)) < n)
    BY <2>1, <2>3 DEF First
  <2> QED BY <1>1, <2>5, <2>6
<1> QED BY <1>1, <1>2, <1>3

\* A page is what turning it adds to the rows read, and a page that is not full is
\* the last.
LEMMA PageTurns ==
    ASSUME Ordered, NEW u, NEW o \in Nat
    PROVE  /\ NextOffset(o) \in Nat
           /\ First(u, NextOffset(o)) \ Page(u, o) = First(u, o)
           /\ Cardinality(Page(u, o)) # Count => First(u, NextOffset(o)) = Of(u)
<1>1. Count \in Nat \ {0}
  BY PicturesAssumption
<1>2. PICK m \in Nat : m = NextOffset(o) /\ m = o + Count
  BY <1>1 DEF NextOffset
<1>3. /\ \A n : IsFiniteSet(First(u, n)) /\ Cardinality(First(u, n)) \in Nat
      /\ \A p : Cardinality(Newer(u, p)) \in Nat
  BY OfIsFinite DEF Ordered
<1>4. \A c \in Nat : c \in o .. o + Count - 1 <=> c < m /\ ~(c < o)
  BY <1>1, <1>2
<1>5. Page(u, o) = First(u, m) \ First(u, o)
  BY <1>3, <1>4 DEF Page, First
<1>6. First(u, o) \subseteq First(u, m)
  BY <1>1, <1>2, <1>3 DEF First
<1>7. ASSUME First(u, m) # Of(u) PROVE Cardinality(Page(u, o)) = Count
  <2>1. First(u, o) # Of(u)
    BY <1>6, <1>7 DEF First
  <2>2. Cardinality(First(u, m)) = m /\ Cardinality(First(u, o)) = o
    BY <1>7, <2>1, FirstCounts
  <2>3. PICK F : F = First(u, m)
    OBVIOUS
  <2>4. PICK E : E = First(u, o)
    OBVIOUS
  <2>5. IsFiniteSet(F) /\ IsFiniteSet(E) /\ F \intersect E = E
    BY <1>3, <1>6, <2>3, <2>4
  <2>6. Cardinality(F \ E) = Cardinality(F) - Cardinality(E)
    BY <2>5, FS_Difference
  <2> QED BY <1>1, <1>2, <1>5, <2>2, <2>3, <2>4, <2>6
<1> QED BY <1>2, <1>5, <1>6, <1>7

\* The reader turns a page: nothing that was missed is among the rows read but what
\* was among those read before.
LEMMA TurnKeeps ==
    ASSUME Ordered, NEW u \in Users \union {NoUser}, NEW o \in Nat, NEW M \in SUBSET Of(u),
           NEW c \in Nat,
           Cardinality(M \intersect First(u, o)) <= c,
           TurnTo(u, o, M, c), UNCHANGED <<table, slot>>
    PROVE  WalkInv'
<1>1. PICK N : N = M \ Page(u, o)
  OBVIOUS
<1>2. PICK m : m = NextOffset(o)
  OBVIOUS
<1>3. PICK more : more = (Cardinality(Page(u, o)) = Count)
  OBVIOUS
<1>4. walk' = [user |-> u, offset |-> m, more |-> more, missed |-> N, removed |-> c]
  BY <1>1, <1>2, <1>3 DEF TurnTo
<1>5. /\ walk'.user = u /\ walk'.offset = m /\ walk'.more = more
      /\ walk'.missed = N /\ walk'.removed = c
  BY <1>4
<1>6. /\ m \in Nat /\ First(u, m) \ Page(u, o) = First(u, o)
      /\ ~more => First(u, m) = Of(u)
  BY <1>2, <1>3, PageTurns
<1>7. N \intersect First(u, m) = M \intersect First(u, o)
  BY <1>1, <1>6 DEF First, Page
<1>8. ~more => N \intersect First(u, m) = N
  BY <1>1, <1>6
<1>9. Of(u)' = Of(u) /\ First(u, m)' = First(u, m)
  BY DEF Of, First, Newer, Before, table
<1>10. /\ walk'.missed \subseteq Of(walk.user)'
       /\ walk'.missed \intersect First(walk.user, walk.offset)' = M \intersect First(u, o)
  <2>1. Of(walk.user)' = Of(u)
    BY <1>5, <1>9 DEF Of
  <2>2. First(walk.user, walk.offset)' = First(u, m)
    BY <1>5, <1>9 DEF First, Of, Newer, Before
  <2> QED BY <1>1, <1>5, <1>7, <2>1, <2>2
<1>11. ~walk'.more => Cardinality(walk'.missed) <= walk'.removed
  BY <1>5, <1>7, <1>8
<1>12. N \in SUBSET Pictures /\ more \in BOOLEAN
  BY <1>1, <1>3 DEF Of, Ordered, IInv, Types
<1>13. walk' \in [user : Users \union {NoUser}, offset : Nat, more : BOOLEAN,
                 missed : SUBSET Pictures, removed : Nat]
  BY <1>4, <1>6, <1>12
<1> QED BY <1>5, <1>10, <1>11, <1>13 DEF WalkInv

Numbered == \A u : \A n \in Nat :
               /\ IsFiniteSet(First(u, n)) /\ Cardinality(First(u, n)) \in Nat
               /\ First(u, n) \subseteq Of(u) /\ Cardinality(First(u, n)) <= n
               /\ \A p : IsFiniteSet(Newer(u, p)) /\ Cardinality(Newer(u, p)) \in Nat

LEMMA OrderedIsNumbered == Ordered => Numbered
<1> SUFFICES ASSUME Ordered, NEW u, NEW n \in Nat
             PROVE  /\ IsFiniteSet(First(u, n)) /\ Cardinality(First(u, n)) \in Nat
                    /\ First(u, n) \subseteq Of(u) /\ Cardinality(First(u, n)) <= n
                    /\ \A p : IsFiniteSet(Newer(u, p)) /\ Cardinality(Newer(u, p)) \in Nat
  BY DEF Numbered
<1>1. /\ IsFiniteSet(First(u, n)) /\ Cardinality(First(u, n)) \in Nat
      /\ \A p : IsFiniteSet(Newer(u, p)) /\ Cardinality(Newer(u, p)) \in Nat
  BY OfIsFinite DEF Ordered
<1>2. Cardinality(First(u, n)) <= n
  BY FirstCounts
<1>3. First(u, n) \subseteq Of(u)
  BY DEF First
<1> QED BY <1>1, <1>2, <1>3

LEMMA NumberedNext == Ordered' => Numbered'
BY OrderedIsNumbered, PTL

\* Rows of the user go: those that move to the front are not more than those that go.
LEMMA RemovalMoves ==
    ASSUME Ordered, Ordered', NEW u, NEW n \in Nat, NEW G \in SUBSET Of(u),
           Of(u)' = Of(u) \ G, \A p : Newer(u, p)' = Newer(u, p) \ G
    PROVE  /\ First(u, n) \ G \subseteq First(u, n)'
           /\ IsFiniteSet(G) /\ Cardinality(G) \in Nat
           /\ IsFiniteSet(First(u, n)' \ First(u, n))
           /\ Cardinality(First(u, n)' \ First(u, n)) \in Nat
           /\ Cardinality(First(u, n)' \ First(u, n)) <= Cardinality(G)
<1>1. PICK E : E = First(u, n)
  OBVIOUS
<1>2. PICK F : F = First(u, n)'
  OBVIOUS
<1>3. /\ IsFiniteSet(E) /\ Cardinality(E) \in Nat /\ IsFiniteSet(Of(u)) /\ E \subseteq Of(u)
      /\ \A p : IsFiniteSet(Newer(u, p)) /\ Cardinality(Newer(u, p)) \in Nat
  BY <1>1, OfIsFinite DEF Ordered, First
<1>4. /\ IsFiniteSet(F) /\ Cardinality(F) \in Nat /\ F \subseteq Of(u) \ G
      /\ \A p : Cardinality(Newer(u, p)') \in Nat
  <2>1. Numbered'
    BY NumberedNext
  <2> QED BY <1>2, <2>1 DEF Numbered
<1>5. F = {p \in Of(u) \ G : Cardinality(Newer(u, p) \ G) < n}
  BY <1>2 DEF First
<1>6. \A p : Cardinality(Newer(u, p) \ G) <= Cardinality(Newer(u, p))
  BY <1>3, FS_Subset
<1>7. E \ G \subseteq F
  <2> SUFFICES ASSUME NEW p \in E \ G PROVE p \in F
    OBVIOUS
  <2>1. /\ Cardinality(Newer(u, p) \ G) <= Cardinality(Newer(u, p))
        /\ Cardinality(Newer(u, p)) < n /\ Cardinality(Newer(u, p)) \in Nat
        /\ Cardinality(Newer(u, p) \ G) \in Nat
    BY <1>1, <1>3, <1>4, <1>6 DEF First
  <2>2. Cardinality(Newer(u, p) \ G) < n
    BY <2>1
  <2> QED BY <1>3, <1>5, <2>2
<1>8. IsFiniteSet(G) /\ Cardinality(G) \in Nat
  BY <1>3, FS_Subset, FS_CardinalityType
<1>9. IsFiniteSet(F \ E) /\ Cardinality(F \ E) \in Nat
  BY <1>4, FS_Difference, FS_CardinalityType
<1>10. CASE E = Of(u)
  <2>1. F \ E = {}
    BY <1>4, <1>10
  <2> QED BY <1>1, <1>2, <1>7, <1>8, <1>9, <2>1, FS_EmptySet
<1>11. CASE E # Of(u)
  <2>1. Cardinality(E) = n
    BY <1>1, <1>11, FirstCounts
  <2>2. Cardinality(F) <= n
    <3>1. Numbered'
      BY NumberedNext
    <3> QED BY <1>2, <3>1 DEF Numbered
  <2>3. F \intersect E = E \ G
    BY <1>4, <1>7
  <2>4. Cardinality(F \ E) = Cardinality(F) - Cardinality(E \ G)
    <3>1. Cardinality(F \ E) = Cardinality(F) - Cardinality(F \intersect E)
      BY <1>4, FS_Difference
    <3> QED BY <2>3, <3>1
  <2>5. Cardinality(E \ G) = Cardinality(E) - Cardinality(E \intersect G)
    BY <1>3, FS_Difference
  <2>6. Cardinality(E \intersect G) <= Cardinality(G) /\ Cardinality(E \intersect G) \in Nat
    BY <1>3, <1>8, FS_Intersection, FS_CardinalityType
  <2>7. Cardinality(F \ E) <= Cardinality(G)
    BY <1>4, <1>8, <1>9, <2>1, <2>2, <2>4, <2>5, <2>6
  <2> QED BY <1>1, <1>2, <1>7, <1>8, <1>9, <2>7
<1> QED BY <1>10, <1>11

LEMMA RemoveKeepsWalk ==
    ASSUME Ordered, Ordered', WalkInv, NEW ps \in SUBSET rows, RemoveRows(ps), UNCHANGED made
    PROVE  WalkInv'
<1>1. PICK u \in Users \union {NoUser} : u = walk.user
  BY DEF WalkInv
<1>2. PICK o \in Nat : o = walk.offset
  BY DEF WalkInv
<1>3. PICK M \in SUBSET Pictures : M = walk.missed
  BY DEF WalkInv
<1>4. PICK c \in Nat : c = walk.removed
  BY DEF WalkInv
<1>5. PICK more \in BOOLEAN : more = walk.more
  BY DEF WalkInv
<1>6. PICK G : G = {p \in ps : owner[p] = u}
  OBVIOUS
<1>7. G \in SUBSET Of(u) /\ M \in SUBSET Of(u) /\ M \ ps = M \ G
  BY <1>1, <1>3, <1>6 DEF Of, WalkInv
<1>8. /\ Of(u)' = Of(u) \ G
      /\ \A p : Newer(u, p)' = Newer(u, p) \ G
  <2>1. /\ rows' = rows \ ps /\ made' = made /\ rows \subseteq Pictures
        /\ owner' = [p \in Pictures |-> IF p \in ps THEN NoUser ELSE owner[p]]
    BY DEF RemoveRows, Ordered, IInv, Types
  <2>2. \A p \in rows' : owner'[p] = owner[p]
    BY <2>1
  <2>3. Of(u)' = Of(u) \ G
    BY <1>6, <2>1, <2>2 DEF Of
  <2> QED BY <2>1, <2>3 DEF Newer, Before
<1>9. PICK E : E = First(u, o)
  OBVIOUS
<1>10. PICK F : F = First(u, o)'
  OBVIOUS
<1>11. /\ E \ G \subseteq F /\ IsFiniteSet(G) /\ Cardinality(G) \in Nat
       /\ IsFiniteSet(F \ E) /\ Cardinality(F \ E) \in Nat
       /\ Cardinality(F \ E) <= Cardinality(G)
  BY <1>7, <1>8, <1>9, <1>10, RemovalMoves
<1>12. /\ walk'.user = u /\ walk'.offset = o /\ walk'.missed = M \ G
       /\ walk'.removed = c + Cardinality(G) /\ walk'.more = more
       /\ walk' \in [user : Users \union {NoUser}, offset : Nat, more : BOOLEAN,
                     missed : SUBSET Pictures, removed : Nat]
  <2>1. walk' = [walk EXCEPT !.removed = @ + Cardinality(G), !.missed = @ \ ps]
    BY <1>1, <1>6 DEF RemoveRows
  <2>2. walk \in [user : Users \union {NoUser}, offset : Nat, more : BOOLEAN,
                  missed : SUBSET Pictures, removed : Nat]
    BY DEF WalkInv
  <2>3. c + Cardinality(G) \in Nat /\ M \ ps \in SUBSET Pictures
    BY <1>11
  <2> QED BY <1>1, <1>2, <1>3, <1>4, <1>5, <1>7, <2>1, <2>2, <2>3
<1>13. IsFiniteSet(M) /\ Cardinality(M) \in Nat
  BY <1>7, OfIsFinite, FS_Subset, FS_CardinalityType DEF Ordered
<1>14. Cardinality((M \ G) \intersect F) <= c + Cardinality(G)
  <2>1. PICK A : A = M \intersect E
    OBVIOUS
  <2>2. PICK B : B = F \ E
    OBVIOUS
  <2>3. IsFiniteSet(A) /\ Cardinality(A) \in Nat /\ Cardinality(A) <= c
    BY <1>1, <1>2, <1>3, <1>4, <1>9, <1>13, <2>1, FS_Intersection, FS_CardinalityType DEF WalkInv
  <2>4. IsFiniteSet(B) /\ Cardinality(B) \in Nat /\ Cardinality(B) <= Cardinality(G)
    BY <1>11, <2>2
  <2>5. /\ IsFiniteSet(A \union B)
        /\ Cardinality(A \union B) = Cardinality(A) + Cardinality(B) - Cardinality(A \intersect B)
    BY <2>3, <2>4, FS_Union
  <2>6. Cardinality(A \intersect B) \in Nat
    BY <2>3, FS_Intersection, FS_CardinalityType
  <2>7. (M \ G) \intersect F \in SUBSET (A \union B)
    BY <2>1, <2>2
  <2>8. /\ Cardinality((M \ G) \intersect F) \in Nat
        /\ Cardinality((M \ G) \intersect F) <= Cardinality(A \union B)
    BY <2>5, <2>7, FS_Subset, FS_CardinalityType
  <2> QED BY <1>11, <2>3, <2>4, <2>5, <2>6, <2>8
<1>15. ASSUME ~more PROVE Cardinality(M \ G) <= c + Cardinality(G)
  <2>1. Cardinality(M) <= c
    BY <1>3, <1>4, <1>5, <1>15 DEF WalkInv
  <2>2. Cardinality(M \ G) \in Nat /\ Cardinality(M \ G) <= Cardinality(M)
    BY <1>13, FS_Subset, FS_CardinalityType
  <2> QED BY <1>11, <1>13, <2>1, <2>2
<1>16. walk'.missed \subseteq Of(walk.user)'
  <2>1. Of(walk.user)' = Of(u)'
    BY <1>12 DEF Of
  <2> QED BY <1>7, <1>8, <1>12, <2>1
<1>17. First(walk.user, walk.offset)' = F
  BY <1>10, <1>12 DEF First, Of, Newer, Before
<1> QED BY <1>12, <1>14, <1>15, <1>16, <1>17 DEF WalkInv

\* Rows are inserted: those that were there stay where they were, or move back.
LEMMA InsertKeepsWalk ==
    ASSUME Ordered, Ordered', WalkInv, NEW r \in Requests, Insert(r)
    PROVE  WalkInv'
<1>1. PICK u \in Users \union {NoUser} : u = walk.user
  BY DEF WalkInv
<1>2. PICK o \in Nat : o = walk.offset
  BY DEF WalkInv
<1>3. PICK M \in SUBSET Of(u) : M = walk.missed
  BY <1>1 DEF WalkInv
<1>4. Of(u) \subseteq Of(u)' /\ \A p : Newer(u, p) \subseteq Newer(u, p)'
  <2>1. PICK p : p = slot[r].picture
    OBVIOUS
  <2>2. p \notin rows
    BY <2>1 DEF Insert, Ordered, IInv, InsertInv
  <2>3. /\ rows' = rows \union {p} /\ owner' = [owner EXCEPT ![p] = slot[r].user]
        /\ owner \in [Pictures -> Users \union {NoUser}] /\ rows \subseteq Pictures /\ made' = made
    BY <2>1 DEF Insert, Ordered, IInv, Types
  <2>4. \A q \in rows : owner'[q] = owner[q]
    BY <2>2, <2>3
  <2>5. Of(u) \subseteq Of(u)'
    BY <2>3, <2>4 DEF Of
  <2> QED BY <2>3, <2>5 DEF Newer, Before
<1>5. Numbered /\ Numbered'
  BY OrderedIsNumbered, NumberedNext
<1>6. M \intersect First(u, o)' \subseteq M \intersect First(u, o)
  <2> SUFFICES ASSUME NEW p \in M, p \in First(u, o)' PROVE p \in First(u, o)
    OBVIOUS
  <2>1. PICK N : N = Newer(u, p)
    OBVIOUS
  <2>2. PICK K : K = Newer(u, p)'
    OBVIOUS
  <2>3. IsFiniteSet(K) /\ Cardinality(K) \in Nat /\ N \in SUBSET K /\ Cardinality(N) \in Nat
    BY <1>4, <1>5, <2>1, <2>2 DEF Numbered
  <2>4. Cardinality(N) <= Cardinality(K)
    BY <2>3, FS_Subset
  <2>5. Cardinality(K) < o
    BY <2>2 DEF First
  <2>6. Cardinality(N) < o
    BY <2>3, <2>4, <2>5
  <2> QED BY <2>1, <2>6 DEF First
<1>7. Cardinality(M \intersect First(u, o)') <= walk.removed
  <2>1. PICK A : A = M \intersect First(u, o)
    OBVIOUS
  <2>2. IsFiniteSet(A)
    BY <1>5, <2>1, FS_Subset DEF Numbered
  <2>3. PICK B : B = M \intersect First(u, o)'
    OBVIOUS
  <2>4. Cardinality(B) <= Cardinality(A) /\ Cardinality(B) \in Nat /\ Cardinality(A) \in Nat
    BY <1>6, <2>1, <2>2, <2>3, FS_Subset, FS_CardinalityType
  <2>5. Cardinality(A) <= walk.removed /\ walk.removed \in Nat
    BY <1>1, <1>2, <1>3, <2>1 DEF WalkInv
  <2> QED BY <2>3, <2>4, <2>5
<1>8. walk' = walk
  BY DEF Insert
<1>9. /\ Of(walk.user)' = Of(u)'
      /\ First(walk.user, walk.offset)' = First(u, o)'
  BY <1>1, <1>2, <1>8 DEF Of, First, Newer, Before
<1> QED BY <1>3, <1>4, <1>7, <1>8, <1>9 DEF WalkInv

\* What is stamped is not in the table yet, and comes after everything that is.
LEMMA StampKeepsWalk ==
    ASSUME Ordered, WalkInv, NEW r \in Requests, NEW u \in Users, NEW p \in Pictures, Stamp(r, u, p)
    PROVE  OnceMade' /\ WalkInv'
<1>1. PICK n \in Nat : made \in [1 .. n -> Pictures] /\ DOMAIN made = 1 .. n /\ Len(made) = n
  BY DEF Ordered, IInv, Types
<1>2. made \in Seq(Pictures)
  BY DEF Ordered, IInv, Types
<1>3. /\ made' = Append(made, p) /\ p \notin ToSet(made)
      /\ UNCHANGED <<rows, owner, walk>>
  BY DEF Stamp
<1>4. /\ DOMAIN made' = 1 .. n + 1 /\ made'[n + 1] = p
      /\ \A i \in 1 .. n : made'[i] = made[i]
  BY <1>1, <1>2, <1>3
<1>5. \A i \in 1 .. n : made[i] # p
  BY <1>1, <1>3 DEF ToSet
<1>6. OnceMade'
  <2> SUFFICES ASSUME NEW i \in 1 .. n + 1, NEW j \in 1 .. n + 1, made'[i] = made'[j] PROVE i = j
    BY <1>4 DEF OnceMade
  <2>1. CASE i \in 1 .. n /\ j \in 1 .. n
    BY <1>1, <1>4, <2>1 DEF Ordered, OnceMade
  <2>2. CASE i = n + 1 \/ j = n + 1
    BY <1>4, <1>5, <2>2
  <2> QED BY <2>1, <2>2
<1>7. ASSUME NEW a \in rows, NEW b \in rows PROVE Before(a, b)' <=> Before(a, b)
  <2>1. a # p /\ b # p
    BY <1>3 DEF Ordered, IInv, MadeInv
  <2>2. ASSUME Before(a, b) PROVE Before(a, b)'
    <3>1. PICK j \in 1 .. n : \E i \in 1 .. j - 1 : made[i] = a /\ made[j] = b
      BY <1>1, <2>2 DEF Before
    <3>2. PICK i \in 1 .. j - 1 : made[i] = a /\ made[j] = b
      BY <3>1
    <3>3. j \in 1 .. n + 1 /\ made'[i] = a /\ made'[j] = b
      BY <1>4, <3>2
    <3> QED BY <1>4, <3>2, <3>3 DEF Before
  <2>3. ASSUME Before(a, b)' PROVE Before(a, b)
    <3>1. PICK j \in 1 .. n + 1 : \E i \in 1 .. j - 1 : made'[i] = a /\ made'[j] = b
      BY <1>4, <2>3 DEF Before
    <3>2. PICK i \in 1 .. j - 1 : made'[i] = a /\ made'[j] = b
      BY <3>1
    <3>3. j \in 1 .. n
      BY <1>4, <2>1, <3>2
    <3>4. made[i] = a /\ made[j] = b
      BY <1>4, <3>2, <3>3
    <3> QED BY <1>1, <3>2, <3>3, <3>4 DEF Before
  <2> QED BY <2>2, <2>3
<1>8. ASSUME NEW v PROVE Of(v)' = Of(v) /\ \A m : First(v, m)' = First(v, m)
  <2>1. Of(v)' = Of(v) /\ Of(v) \subseteq rows
    BY <1>3 DEF Of
  <2>2. \A q \in Of(v) : Newer(v, q)' = Newer(v, q)
    BY <1>7, <2>1 DEF Newer
  <2> QED BY <2>1, <2>2 DEF First
<1>9. PICK v : v = walk.user
  OBVIOUS
<1>10. PICK o : o = walk.offset
  OBVIOUS
<1>11. /\ Of(walk.user)' = Of(v)'
       /\ First(walk.user, walk.offset)' = First(v, o)'
  BY <1>3, <1>9, <1>10 DEF Of, First, Newer, Before
<1>12. WalkInv'
  BY <1>3, <1>8, <1>9, <1>10, <1>11 DEF WalkInv
<1> QED BY <1>6, <1>12

\* A walk begins with every row of its user missed, and goes on.
LEMMA PagesKeepWalk ==
    ASSUME Ordered, WalkInv, (\E u \in Users : FirstPage(u)) \/ NextPage \/ EndWalk
    PROVE  WalkInv'
<1>1. ASSUME NEW u \in Users, FirstPage(u) PROVE WalkInv'
  <2>1. First(u, 0) = {}
    BY OfIsFinite DEF Ordered, First
  <2>2. Cardinality(Of(u) \intersect First(u, 0)) <= 0
    BY <2>1, FS_EmptySet
  <2>3. TurnTo(u, 0, Of(u), 0) /\ UNCHANGED <<table, slot>>
    BY <1>1 DEF FirstPage
  <2>4. 0 \in Nat /\ Of(u) \in SUBSET Of(u) /\ u \in Users \union {NoUser}
    OBVIOUS
  <2> QED BY <2>2, <2>3, <2>4, TurnKeeps
<1>2. CASE NextPage
  BY <1>2, TurnKeeps DEF NextPage, WalkInv
<1>3. CASE EndWalk
  <2>1. walk' = NoWalk
    BY <1>3 DEF EndWalk
  <2>2. /\ walk'.missed = {} /\ walk'.removed = 0
        /\ walk' \in [user : Users \union {NoUser}, offset : Nat, more : BOOLEAN,
                      missed : SUBSET Pictures, removed : Nat]
    BY <2>1 DEF NoWalk
  <2>3. walk'.missed \intersect First(walk.user, walk.offset)' = {}
    BY <2>2
  <2> QED BY <2>2, <2>3, FS_EmptySet DEF WalkInv
<1> QED BY <1>1, <1>2, <1>3

LEMMA OthersKeepWalk == ASSUME WalkInv, UNCHANGED <<rows, owner, made, walk>> PROVE WalkInv'
BY DEF WalkInv, First, Newer, Of, Before

LEMMA WalkInvariant == Spec => [](Ordered /\ WalkInv)
<1>1. Init => Ordered /\ WalkInv
  <2> SUFFICES ASSUME Init PROVE OnceMade /\ WalkInv
    BY InitInv DEF Ordered
  <2>1. OnceMade
    BY DEF Init, OnceMade
  <2>2. /\ walk.missed = {} /\ walk.removed = 0
        /\ walk \in [user : Users \union {NoUser}, offset : Nat, more : BOOLEAN,
                     missed : SUBSET Pictures, removed : Nat]
    BY DEF Init, NoWalk
  <2>3. walk.missed \intersect First(walk.user, walk.offset) = {}
    BY <2>2
  <2> QED BY <2>1, <2>2, <2>3, FS_EmptySet DEF WalkInv
<1>2. Ordered /\ WalkInv /\ IInv' /\ [Next]_vars => Ordered' /\ WalkInv'
  <2> SUFFICES ASSUME Ordered, WalkInv, IInv', [Next]_vars PROVE OnceMade' /\ WalkInv'
    BY DEF Ordered
  <2>1. ASSUME NEW r \in Requests, NEW u \in Users, NEW p \in Pictures, Stamp(r, u, p)
        PROVE  OnceMade' /\ WalkInv'
    BY <2>1, StampKeepsWalk
  <2>2. ASSUME UNCHANGED made PROVE OnceMade' /\ Ordered'
    BY <2>2 DEF Ordered, OnceMade
  <2>3. ASSUME NEW r \in Requests, Insert(r) \/ Delete(r) PROVE OnceMade' /\ WalkInv'
    <3>1. UNCHANGED made
      BY <2>3 DEF Insert, Delete
    <3>2. {slot[r].picture} \intersect rows \in SUBSET rows
      OBVIOUS
    <3> QED BY <2>2, <2>3, <3>1, <3>2, InsertKeepsWalk, RemoveKeepsWalk DEF Delete
  <2>4. ASSUME NEW k \in Packets, DropPacket(k) PROVE OnceMade' /\ WalkInv'
    <3>1. UNCHANGED made /\ RemoveRows({p \in rows : packet[p] = k})
      BY <2>4 DEF DropPacket
    <3>2. {p \in rows : packet[p] = k} \in SUBSET rows
      OBVIOUS
    <3> QED BY <2>2, <3>1, <3>2, RemoveKeepsWalk
  <2>5. CASE (\E u \in Users : FirstPage(u)) \/ NextPage \/ EndWalk
    <3>1. UNCHANGED made
      BY <2>5 DEF FirstPage, NextPage, EndWalk, table
    <3> QED BY <2>2, <2>5, <3>1, PagesKeepWalk
  <2>6. CASE UNCHANGED <<rows, owner, made, walk>>
    BY <2>2, <2>6, OthersKeepWalk
  <2> QED BY <2>1, <2>3, <2>4, <2>5, <2>6
          DEF Next, ArriveDelete, CheckDelete, ReadRequest, Download, Abort, Lapse, LeavePending,
              AttachPacket, table, vars
<1> QED BY <1>1, <1>2, IInvHolds, PTL DEF Spec

\* A walk to the last page misses no more of the rows that were there all the time
\* than rows were removed, however many are created, delete their packets or fade.
THEOREM RemovalsHideOneEach == Spec => []RemovalHidesOne
<1>1. WalkInv => RemovalHidesOne
  BY DEF WalkInv, RemovalHidesOne
<1> QED BY <1>1, WalkInvariant, PTL

=============================================================================
