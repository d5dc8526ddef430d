-------------------------- MODULE DbLogSinkProofs --------------------------
(***************************************************************************)
(* Proofs about the log sink, for any records, any size of batches and of  *)
(* the queue, and any failures of the database.  Three invariants are      *)
(* carried from step to step, each by itself over the types:               *)
(*   OrderInv     what is written, in the batch, in the queue and scheduled*)
(*                was logged in this order, and what a batch that failed   *)
(*                may have left in the table                               *)
(*   FlowInv      where a record can be, and the sentinel between what must*)
(*                be flushed and what came too late                        *)
(*   OffenderInv  why a row was rejected                                   *)
(***************************************************************************)
EXTENDS DbLogSink, TLAPS, SequenceTheorems, WellFoundedInduction

\* x is before y in the sequence log, wherever both are in it.
Before(log, x, y) == \A k, l \in 1 .. Len(log) : log[k] = x /\ log[l] = y => k < l

AllBefore(log, xs, ys) == \A x \in xs, y \in ys : Before(log, x, y)

Sorted(log, s) == \A i, j \in 1 .. Len(s) : i < j => Before(log, s[i], s[j])

\* What is in s for the first time comes, in log, after all that is before it in s.
FirstsSorted(log, s) ==
    \A j \in 1 .. Len(s) :
       (\A i \in 1 .. j - 1 : s[i] # s[j]) => \A i \in 1 .. j - 1 : Before(log, s[i], s[j])

AtMostOnce(s, x) == \A i, j \in 1 .. Len(s) : s[i] = x /\ s[j] = x => i = j

\* No element is in s more than twice, and only those of twice are there twice.
AtMostTwice(s, twice) ==
    \A i, j \in 1 .. Len(s) : i < j /\ s[i] = s[j] =>
        s[i] \in twice /\ \A k \in j + 1 .. Len(s) : s[k] # s[i]

\* The batch is still to be stored for the first time.
Fresh == AllBefore(logged, ToSet(written), ToSet(batch))

\* The batch was stored by a commit that raised all the same.
Again == \A x \in ToSet(batch) :
            x \in unacked /\ x \in ToSet(written) /\ AtMostOnce(written, x)

OrderInv ==
    /\ ToSet(ready) \union (ToSet(queue) \ {Sentinel}) \union ToSet(batch) \union ToSet(written)
          \subseteq ToSet(logged)
    /\ Sorted(logged, ready) /\ Sorted(logged, queue) /\ Sorted(logged, batch)
    /\ AllBefore(logged, ToSet(queue), ToSet(ready))
    /\ AllBefore(logged, ToSet(batch) \union ToSet(written), ToSet(queue) \union ToSet(ready))
    /\ consumer = "write" => Fresh
    /\ consumer = "rows" => Fresh \/ Again
    /\ AtMostTwice(written, unacked)
    /\ FirstsSorted(logged, written)

\* The records that the consumer takes before it meets the sentinel.
Ahead == {queue[i] : i \in {k \in 1 .. Len(queue) : \A j \in 1 .. k : queue[j] # Sentinel}}

\* The consumer has met the sentinel.
Met == stopping \/ consumer = "done"

FlowInv ==
    /\ Sentinel \in ToSet(queue) => stage = "awaiting" /\ ~Met
    /\ Met => stage \in {"awaiting", "stopped"}
    /\ stage = "awaiting" => Sentinel \in ToSet(queue) \/ Met
    /\ stage \in {"off", "stopped"} => consumer = "none" /\ queue = <<>>
    /\ attached => stage = "running"
    /\ consumer \in {"write", "rows"} <=> batch # <<>>
    /\ consumer = "get" => ~stopping
    /\ \A i, j \in 1 .. Len(queue) : i < j /\ queue[i] = Sentinel => queue[j] \in late
    /\ Met => ToSet(queue) \subseteq late
    /\ admitted \subseteq ToSet(written) \union rejected \union ToSet(batch)
                             \union (IF Met THEN {} ELSE Ahead)
    /\ Accounted

OffenderInv == ~outage => rejected \subseteq Unwritable

IInv == TypeOK /\ OrderInv /\ FlowInv /\ OffenderInv

-----------------------------------------------------------------------------
(* Sequences *)

LEMMA Members == ASSUME NEW S, NEW s \in Seq(S)
                 PROVE  ToSet(s) = {s[i] : i \in 1 .. Len(s)} /\ ToSet(s) \subseteq S /\ Len(s) \in Nat
BY DEF ToSet

LEMMA NoMembers == ToSet(<<>>) = {} /\ Len(<<>>) = 0
<1>1. <<>> \in Seq({}) /\ Len(<<>>) = 0
  BY EmptySeq
<1>2. ToSet(<<>>) = {<<>>[i] : i \in 1 .. Len(<<>>)}
  BY <1>1, Members
<1> QED BY <1>1, <1>2

LEMMA AppendMembers ==
    ASSUME NEW S, NEW s \in Seq(S), NEW e \in S
    PROVE  /\ Append(s, e) \in Seq(S)
           /\ Len(s) \in Nat /\ Len(Append(s, e)) = Len(s) + 1
           /\ \A i \in 1 .. Len(s) : Append(s, e)[i] = s[i]
           /\ Append(s, e)[Len(s) + 1] = e
           /\ ToSet(Append(s, e)) = ToSet(s) \union {e}
<1>1. /\ Append(s, e) \in Seq(S)
      /\ Len(s) \in Nat /\ Len(Append(s, e)) = Len(s) + 1
      /\ \A i \in 1 .. Len(s) : Append(s, e)[i] = s[i]
      /\ Append(s, e)[Len(s) + 1] = e
  BY AppendProperties, LenProperties
<1>2. ToSet(Append(s, e)) = ToSet(s) \union {e}
  <2>1. /\ ToSet(s) = {s[i] : i \in 1 .. Len(s)}
        /\ ToSet(Append(s, e)) = {Append(s, e)[i] : i \in 1 .. Len(s) + 1}
    BY <1>1, Members
  <2> QED BY <1>1, <2>1
<1> QED BY <1>1, <1>2

LEMMA TailMembers ==
    ASSUME NEW S, NEW s \in Seq(S), s # <<>>
    PROVE  /\ Head(s) = s[1] /\ Head(s) \in S
           /\ Tail(s) \in Seq(S)
           /\ Len(s) \in Nat \ {0} /\ Len(Tail(s)) = Len(s) - 1
           /\ \A i \in 1 .. Len(s) - 1 : Tail(s)[i] = s[i + 1]
           /\ ToSet(s) = {Head(s)} \union ToSet(Tail(s))
<1>1. /\ Head(s) = s[1] /\ Head(s) \in S
      /\ Tail(s) \in Seq(S)
      /\ Len(s) \in Nat \ {0} /\ Len(Tail(s)) = Len(s) - 1
      /\ \A i \in 1 .. Len(s) - 1 : Tail(s)[i] = s[i + 1]
  BY HeadTailProperties, EmptySeq
<1>2. ToSet(s) = {Head(s)} \union ToSet(Tail(s))
  <2>1. /\ ToSet(s) = {s[i] : i \in 1 .. Len(s)}
        /\ ToSet(Tail(s)) = {Tail(s)[i] : i \in 1 .. Len(s) - 1}
    BY <1>1, Members
  <2>2. ASSUME NEW i \in 1 .. Len(s) PROVE s[i] \in {Head(s)} \union ToSet(Tail(s))
    <3>1. CASE i = 1
      BY <1>1, <3>1
    <3>2. CASE i # 1
      <4>1. i - 1 \in 1 .. Len(s) - 1 /\ Tail(s)[i - 1] = s[i]
        BY <1>1, <3>2
      <4> QED BY <2>1, <4>1
    <3> QED BY <3>1, <3>2
  <2>3. ASSUME NEW i \in 1 .. Len(s) - 1 PROVE Tail(s)[i] \in ToSet(s)
    BY <1>1, <2>1, i + 1 \in 1 .. Len(s)
  <2>4. Head(s) \in ToSet(s)
    BY <1>1, <2>1
  <2> QED BY <2>1, <2>2, <2>3, <2>4
<1> QED BY <1>1, <1>2

LEMMA ConcatMembers ==
    ASSUME NEW S, NEW s \in Seq(S), NEW t \in Seq(S)
    PROVE  /\ s \o t \in Seq(S)
           /\ Len(s) \in Nat /\ Len(t) \in Nat /\ Len(s \o t) = Len(s) + Len(t)
           /\ \A i \in 1 .. Len(s) : (s \o t)[i] = s[i]
           /\ \A i \in Len(s) + 1 .. Len(s) + Len(t) : (s \o t)[i] = t[i - Len(s)]
           /\ ToSet(s \o t) = ToSet(s) \union ToSet(t)
<1>1. /\ s \o t \in Seq(S)
      /\ Len(s) \in Nat /\ Len(t) \in Nat /\ Len(s \o t) = Len(s) + Len(t)
      /\ \A i \in 1 .. Len(s) : (s \o t)[i] = s[i]
      /\ \A i \in Len(s) + 1 .. Len(s) + Len(t) : (s \o t)[i] = t[i - Len(s)]
  BY ConcatProperties, LenProperties
<1>2. ToSet(s \o t) = ToSet(s) \union ToSet(t)
  <2>1. /\ ToSet(s) = {s[i] : i \in 1 .. Len(s)} /\ ToSet(t) = {t[i] : i \in 1 .. Len(t)}
        /\ ToSet(s \o t) = {(s \o t)[i] : i \in 1 .. Len(s) + Len(t)}
    BY <1>1, Members
  <2>2. ASSUME NEW i \in 1 .. Len(t) PROVE t[i] \in ToSet(s \o t)
    <3>1. Len(s) + i \in Len(s) + 1 .. Len(s) + Len(t) /\ Len(s) + i \in 1 .. Len(s) + Len(t)
          /\ (Len(s) + i) - Len(s) = i
      BY <1>1
    <3>2. (s \o t)[Len(s) + i] = t[i]
      BY <1>1, <3>1
    <3> QED BY <2>1, <3>1, <3>2
  <2>3. ASSUME NEW i \in 1 .. Len(s) + Len(t) PROVE (s \o t)[i] \in ToSet(s) \union ToSet(t)
    <3>1. CASE i <= Len(s)
      BY <1>1, <2>1, <3>1
    <3>2. CASE i > Len(s)
      BY <1>1, <2>1, <3>2, i - Len(s) \in 1 .. Len(t)
    <3> QED BY <1>1, <3>1, <3>2
  <2>4. ASSUME NEW i \in 1 .. Len(s) PROVE s[i] \in ToSet(s \o t)
    BY <1>1, <2>1, i \in 1 .. Len(s) + Len(t)
  <2> QED BY <2>1, <2>2, <2>3, <2>4
<1> QED BY <1>1, <1>2

LEMMA PieceMembers ==
    ASSUME NEW S, NEW s \in Seq(S), NEW m \in Nat \ {0}, NEW n \in 0 .. Len(s)
    PROVE  /\ SubSeq(s, m, n) \in Seq(S)
           /\ Len(SubSeq(s, m, n)) = IF m <= n THEN n - m + 1 ELSE 0
           /\ \A i \in 1 .. n - m + 1 : SubSeq(s, m, n)[i] = s[m + i - 1]
           /\ ToSet(SubSeq(s, m, n)) = {s[i] : i \in m .. n}
<1>0. Len(s) \in Nat /\ \A i \in m .. n : s[i] \in S
  BY LenProperties
<1>1. /\ SubSeq(s, m, n) \in Seq(S)
      /\ Len(SubSeq(s, m, n)) = IF m <= n THEN n - m + 1 ELSE 0
      /\ \A i \in 1 .. n - m + 1 : SubSeq(s, m, n)[i] = s[m + i - 1]
  BY <1>0, SubSeqProperties
<1>2. 1 .. Len(SubSeq(s, m, n)) = 1 .. n - m + 1
  BY <1>0, <1>1
<1>3. ToSet(SubSeq(s, m, n)) = {SubSeq(s, m, n)[i] : i \in 1 .. n - m + 1}
  BY <1>1, <1>2, Members
<1>4. ASSUME NEW i \in m .. n PROVE s[i] \in ToSet(SubSeq(s, m, n))
  <2>1. i - m + 1 \in 1 .. n - m + 1 /\ m + (i - m + 1) - 1 = i
    BY <1>0
  <2> QED BY <1>1, <1>3, <2>1
<1>5. ASSUME NEW i \in 1 .. n - m + 1 PROVE SubSeq(s, m, n)[i] \in {s[j] : j \in m .. n}
  BY <1>0, <1>1, m + i - 1 \in m .. n
<1> QED BY <1>1, <1>3, <1>4, <1>5

LEMMA DropMembers ==
    ASSUME NEW S, NEW s \in Seq(S), NEW cut \in 0 .. Len(s)
    PROVE  /\ Len(SubSeq(s, cut + 1, Len(s))) = Len(s) - cut
           /\ \A i \in 1 .. Len(s) - cut : SubSeq(s, cut + 1, Len(s))[i] = s[i + cut]
           /\ ToSet(SubSeq(s, cut + 1, Len(s))) = {s[i] : i \in cut + 1 .. Len(s)}
<1> DEFINE t == SubSeq(s, cut + 1, Len(s))
<1>1. Len(s) \in Nat
  BY LenProperties
<1>2. cut + 1 \in Nat \ {0} /\ Len(s) \in 0 .. Len(s) /\ Len(s) - (cut + 1) + 1 = Len(s) - cut
  BY <1>1
<1>3. /\ Len(t) = IF cut + 1 <= Len(s) THEN Len(s) - cut ELSE 0
      /\ \A i \in 1 .. Len(s) - cut : t[i] = s[(cut + 1) + i - 1]
      /\ ToSet(t) = {s[i] : i \in cut + 1 .. Len(s)}
  BY <1>2, PieceMembers
<1>4. Len(t) = Len(s) - cut
  BY <1>1, <1>3
<1>5. \A i \in 1 .. Len(s) - cut : (cut + 1) + i - 1 = i + cut
  BY <1>1
<1> QED BY <1>3, <1>4, <1>5

\* Every set of natural numbers has a least element.
LEMMA Least == ASSUME NEW T \in SUBSET Nat, T # {}
               PROVE  \E m \in T : \A k \in T : m <= k
<1>1. OpToRel(<, Nat) = {ss \in Nat \X Nat : ss[1] < ss[2]}
  BY DEF OpToRel
<1>2. PICK m \in T : \A k \in T : <<k, m>> \notin OpToRel(<, Nat)
  BY NatLessThanWellFounded, WFMin
<1>3. ASSUME NEW k \in T PROVE m <= k
  <2>1. <<k, m>> \in Nat \X Nat /\ <<k, m>>[1] = k /\ <<k, m>>[2] = m
    OBVIOUS
  <2>2. ~(k < m)
    BY <1>1, <1>2, <2>1
  <2> QED BY <2>2
<1> QED BY <1>3

\* Leading is the place of the first sentinel.
LEMMA LeadingMeaning ==
    ASSUME TypeOK
    PROVE  \/ Leading = 0 /\ \A i \in 1 .. Len(queue) : queue[i] # Sentinel
           \/ /\ Leading \in 1 .. Len(queue) /\ queue[Leading] = Sentinel
              /\ \A i \in 1 .. Leading - 1 : queue[i] # Sentinel
<1> DEFINE I == {i \in 1 .. Len(queue) : queue[i] = Sentinel}
<1>1. Leading = IF I # {} THEN Min(I) ELSE 0
  BY DEF Leading, SelectInSeq
<1>2. CASE I = {}
  BY <1>1, <1>2
<1>3. CASE I # {}
  <2>1. Min(I) \in I /\ \A k \in I : Min(I) <= k
    <3>1. I \in SUBSET Nat
      OBVIOUS
    <3>2. \E m \in I : \A k \in I : m <= k
      BY <1>3, <3>1, Least
    <3> HIDE DEF I
    <3> QED BY <3>2 DEF Min
  <2>2. Leading \in I /\ \A k \in I : Leading <= k
    BY <1>1, <1>3, <2>1
  <2>3. ASSUME NEW i \in 1 .. Leading - 1 PROVE queue[i] # Sentinel
    <3>1. Len(queue) \in Nat
      BY DEF TypeOK
    <3>2. i \in 1 .. Len(queue) /\ ~(Leading <= i)
      BY <2>2, <3>1
    <3> QED BY <2>2, <3>2
  <2> QED BY <2>2, <2>3
<1> QED BY <1>2, <1>3

\* A turn of the consumer takes the first n of what is in the queue, all of them
\* records, and with them the sentinel if it comes next and the batch has room.
LEMMA TakeMeaning ==
    ASSUME TypeOK, Take
    PROVE  \E n \in 0 .. Len(queue), cut \in 0 .. Len(queue) :
              /\ n <= BatchSize
              /\ batch' = SubSeq(queue, 1, n)
              /\ queue' = SubSeq(queue, cut + 1, Len(queue))
              /\ \A i \in 1 .. n : queue[i] # Sentinel
              /\ \/ cut = n /\ n # 0 /\ stopping' = FALSE /\ consumer' = "write"
                 \/ /\ cut = n + 1 /\ queue[cut] = Sentinel /\ stopping' = TRUE
                    /\ consumer' = IF n = 0 THEN "done" ELSE "write"
<1>1. Len(queue) \in Nat \ {0} /\ BatchSize \in Nat \ {0}
  BY SinkAssumption, EmptySeq DEF Take, TypeOK
<1>2. CASE MeetsSentinel
  <2>1. Leading # 0 /\ Leading - 1 < BatchSize
    BY <1>2 DEF MeetsSentinel, RowsAhead
  <2>2. /\ Leading \in 1 .. Len(queue) /\ queue[Leading] = Sentinel
        /\ \A i \in 1 .. Leading - 1 : queue[i] # Sentinel
    BY <2>1, LeadingMeaning
  <2>3. Taken = Leading - 1
    BY <2>1 DEF Taken, RowsAhead
  <2>4. /\ batch' = SubSeq(queue, 1, Leading - 1)
        /\ queue' = SubSeq(queue, Leading + 1, Len(queue))
        /\ stopping' = TRUE
        /\ consumer' = IF Leading - 1 = 0 THEN "done" ELSE "write"
    <3>1. (Leading - 1) + 1 + 1 = Leading + 1
      BY <2>2
    <3> QED BY <1>2, <2>3, <3>1 DEF Take
  <2>5. /\ Leading - 1 \in 0 .. Len(queue) /\ Leading = (Leading - 1) + 1
        /\ Leading - 1 <= BatchSize
    BY <1>1, <2>1, <2>2
  <2> QED BY <2>2, <2>4, <2>5
<1>3. CASE ~MeetsSentinel
  <2>1. /\ Taken \in 1 .. Len(queue) /\ Taken <= BatchSize
        /\ \A i \in 1 .. Taken : queue[i] # Sentinel
    <3>1. CASE Leading = 0
      <4>1. \A i \in 1 .. Len(queue) : queue[i] # Sentinel
        BY <3>1, LeadingMeaning
      <4>2. Taken = IF Len(queue) < BatchSize THEN Len(queue) ELSE BatchSize
        BY <3>1 DEF Taken, RowsAhead
      <4> QED BY <1>1, <4>1, <4>2
    <3>2. CASE Leading # 0
      <4>1. Leading \in 1 .. Len(queue) /\ \A i \in 1 .. Leading - 1 : queue[i] # Sentinel
        BY <3>2, LeadingMeaning
      <4>2. ~(Leading - 1 < BatchSize)
        BY <1>3, <3>2 DEF MeetsSentinel, RowsAhead
      <4>3. Taken = BatchSize
        BY <3>2, <4>2 DEF Taken, RowsAhead
      <4> QED BY <1>1, <4>1, <4>2, <4>3
    <3> QED BY <3>1, <3>2
  <2>2. /\ batch' = SubSeq(queue, 1, Taken)
        /\ queue' = SubSeq(queue, Taken + 1, Len(queue))
        /\ stopping' = FALSE /\ consumer' = "write"
    <3>1. Taken + 1 + 0 = Taken + 1 /\ Taken # 0
      BY <1>1, <2>1
    <3>2. MeetsSentinel \in BOOLEAN
      BY DEF MeetsSentinel
    <3> QED BY <1>3, <3>1, <3>2 DEF Take
  <2> QED BY <1>1, <2>1, <2>2
<1> QED BY <1>2, <1>3

-----------------------------------------------------------------------------
(* Types *)

LEMMA InitTypes == Init => TypeOK
<1> SUFFICES ASSUME Init PROVE TypeOK
  OBVIOUS
<1>1. <<>> \in Seq(Records) /\ <<>> \in Seq(Records \union {Sentinel}) /\ Len(<<>>) = 0
  BY EmptySeq
<1>2. /\ ready \in Seq(Records) /\ queue \in Seq(Records \union {Sentinel}) /\ Len(queue) = 0
      /\ batch \in Seq(Records) /\ Len(batch) = 0
      /\ written \in Seq(Records) /\ logged \in Seq(Records)
  BY <1>1 DEF Init
<1>3. 0 <= QueueMax /\ 0 <= BatchSize
  BY SinkAssumption
<1> QED BY <1>2, <1>3 DEF Init, TypeOK

LEMMA CommitTypes ==
    ASSUME TypeOK, NEW rows \in Seq(Records), NEW outcome \in Outcomes(rows), Commit(rows, outcome)
    PROVE  written' \in Seq(Records) /\ outage' \in BOOLEAN /\ unacked' \subseteq Records
<1>1. written' \in Seq(Records)
  BY ConcatMembers DEF TypeOK, Commit
<1>2. unacked' \subseteq Records
  BY Members DEF TypeOK, Commit
<1>3. outage' \in BOOLEAN
  BY DEF Commit
<1> QED BY <1>1, <1>2, <1>3

\* The batch is not empty while it is being written.
LEMMA HeadOfBatch ==
    ASSUME TypeOK, batch # <<>>
    PROVE  /\ Head(batch) \in Records /\ <<Head(batch)>> \in Seq(Records)
           /\ ToSet(<<Head(batch)>>) = {Head(batch)}
           /\ ToSet(batch) = {Head(batch)} \union ToSet(Tail(batch))
           /\ (Len(batch) = 1) <=> (Tail(batch) = <<>>)
<1>1. batch \in Seq(Records)
  BY DEF TypeOK
<1>2. Head(batch) \in Records /\ ToSet(batch) = {Head(batch)} \union ToSet(Tail(batch))
      /\ Len(Tail(batch)) = Len(batch) - 1 /\ Tail(batch) \in Seq(Records)
      /\ Len(batch) \in Nat
  BY <1>1, TailMembers
<1>3. (Len(Tail(batch)) = 0) <=> (Tail(batch) = <<>>)
  BY <1>2, EmptySeq
<1>4. Len(<<Head(batch)>>) = 1 /\ <<Head(batch)>>[1] = Head(batch) /\ <<Head(batch)>> \in Seq(Records)
  <2>1. PICK h \in Records : h = Head(batch)
    BY <1>2
  <2>2. <<h>> \in Seq(Records)
    OBVIOUS
  <2>3. Len(<<h>>) = 1 /\ <<h>>[1] = h
    OBVIOUS
  <2> QED BY <2>1, <2>2, <2>3
<1>5. ToSet(<<Head(batch)>>) = {Head(batch)}
  <2>1. PICK s : s = <<Head(batch)>>
    OBVIOUS
  <2>2. s \in Seq(Records) /\ Len(s) = 1 /\ s[1] = Head(batch)
    BY <1>4, <2>1
  <2>3. ToSet(s) = {s[i] : i \in 1 .. Len(s)}
    BY <2>2, Members
  <2> QED BY <2>1, <2>2, <2>3
<1>6. (Len(batch) = 1) <=> (Len(Tail(batch)) = 0)
  BY <1>2
<1> QED BY <1>2, <1>3, <1>4, <1>5, <1>6

LEMMA NextTypes == TypeOK /\ FlowInv /\ [Next]_vars => TypeOK'
<1> SUFFICES ASSUME TypeOK, FlowInv, [Next]_vars PROVE TypeOK'
  OBVIOUS
<1> USE SinkAssumption DEF history, work, pipe
<1>1. CASE Start
  BY <1>1 DEF Start, TypeOK, Alive
<1>2. ASSUME NEW x \in Records, Sink(x) PROVE TypeOK'
  BY <1>2, AppendMembers DEF Sink, TypeOK
<1>3. CASE Enqueue
  <2>1. /\ Head(ready) \in Records /\ Tail(ready) \in Seq(Records)
        /\ ready' = Tail(ready)
    BY <1>3, TailMembers DEF Enqueue, TypeOK
  <2>2. queue' \in Seq(Records \union {Sentinel}) /\ Len(queue') <= QueueMax
    <3>1. CASE queue' = queue
      BY <3>1 DEF TypeOK
    <3>2. CASE queue' = Append(queue, Head(ready)) /\ Len(queue) < QueueMax
      BY <2>1, <3>2, AppendMembers DEF TypeOK
    <3> QED BY <1>3, <3>1, <3>2 DEF Enqueue
  <2>3. admitted' \subseteq Records /\ late' \subseteq Records /\ full' \subseteq Records
    BY <1>3, <2>1 DEF Enqueue, TypeOK
  <2> QED BY <1>3, <2>1, <2>2, <2>3 DEF Enqueue, TypeOK
<1>4. CASE Take
  <2>1. PICK n \in 0 .. Len(queue), cut \in 0 .. Len(queue) :
              /\ n <= BatchSize
              /\ batch' = SubSeq(queue, 1, n)
              /\ queue' = SubSeq(queue, cut + 1, Len(queue))
              /\ \A i \in 1 .. n : queue[i] # Sentinel
              /\ stopping' \in BOOLEAN /\ consumer' \in {"write", "done"}
    BY <1>4, TakeMeaning
  <2>2. queue \in Seq(Records \union {Sentinel}) /\ Len(queue) \in Nat /\ Len(queue) <= QueueMax
    BY DEF TypeOK
  <2>3. batch' \in Seq(Records) /\ Len(batch') <= BatchSize
    <3>1. \A i \in 1 .. n : queue[i] \in Records
      BY <2>1, <2>2, ElementOfSeq
    <3> QED BY <2>1, <2>2, <3>1, SubSeqProperties
  <2>4. queue' \in Seq(Records \union {Sentinel}) /\ Len(queue') <= QueueMax
    BY <2>1, <2>2, PieceMembers
  <2> QED BY <1>4, <2>1, <2>3, <2>4 DEF Take, TypeOK
<1>5. CASE WriteBatch
  <2>1. PICK outcome \in Outcomes(batch) : Commit(batch, outcome)
    BY <1>5 DEF WriteBatch
  <2>2. batch' \in {batch, <<>>} /\ consumer' \in {"done", "get", "rows"}
    BY <1>5 DEF WriteBatch, Settled
  <2>3. written' \in Seq(Records) /\ outage' \in BOOLEAN /\ unacked' \subseteq Records
    BY <2>1, CommitTypes DEF TypeOK
  <2>4. batch' \in Seq(Records) /\ Len(batch') <= BatchSize
    <3>1. <<>> \in Seq(Records) /\ Len(<<>>) = 0
      BY EmptySeq
    <3>2. batch' = batch \/ batch' = <<>>
      BY <2>2
    <3>3. CASE batch' = batch
      BY <3>3 DEF TypeOK
    <3>4. CASE batch' = <<>>
      BY <3>1, <3>4
    <3> QED BY <3>2, <3>3, <3>4
  <2> QED BY <1>5, <2>2, <2>3, <2>4 DEF WriteBatch, TypeOK
<1>6. CASE WriteRow
  <2>1. batch # <<>>
    BY <1>6 DEF WriteRow, FlowInv
  <2>2. PICK outcome \in Outcomes(<<Head(batch)>>) :
           /\ Commit(<<Head(batch)>>, outcome)
           /\ rejected' \subseteq rejected \union {Head(batch)}
    BY <1>6 DEF WriteRow
  <2>3. /\ batch' \in Seq(Records) /\ Len(batch') <= BatchSize
        /\ consumer' \in {"done", "get", "rows"}
    BY <1>6, <2>1, TailMembers DEF WriteRow, Settled, TypeOK
  <2>4. written' \in Seq(Records) /\ outage' \in BOOLEAN /\ unacked' \subseteq Records
    BY <2>1, <2>2, HeadOfBatch, CommitTypes
  <2> QED BY <1>6, <2>1, <2>2, <2>3, <2>4, HeadOfBatch DEF WriteRow, TypeOK
<1>7. CASE Stop \/ StopPut
  <2>1. queue' \in Seq(Records \union {Sentinel}) /\ Len(queue') <= QueueMax
    <3>1. queue \in Seq(Records \union {Sentinel}) /\ Sentinel \in Records \union {Sentinel}
          /\ Len(queue) <= QueueMax
      BY DEF TypeOK
    <3>2. CASE queue' = queue
      BY <3>1, <3>2
    <3>3. CASE queue' = Append(queue, Sentinel) /\ Len(queue) < QueueMax
      BY <3>1, <3>3, AppendMembers
    <3> QED BY <1>7, <3>2, <3>3 DEF Stop, StopPut
  <2> QED BY <1>7, <2>1 DEF Stop, StopPut, TypeOK, Alive
<1>8. CASE StopFinish
  BY <1>8, EmptySeq DEF StopFinish, TypeOK
<1>9. CASE UNCHANGED vars
  BY <1>9 DEF vars, TypeOK
<1> QED BY <1>1, <1>2, <1>3, <1>4, <1>5, <1>6, <1>7, <1>8, <1>9 DEF Next, Stopped

LEMMA InitFlow == Init => FlowInv
<1> SUFFICES ASSUME Init PROVE FlowInv
  OBVIOUS
<1>1. ToSet(queue) = {} /\ Len(queue) = 0 /\ ToSet(logged) = {}
  BY NoMembers DEF Init
<1> QED BY <1>1 DEF Init, FlowInv, Accounted, Met

\* The queue grows at its end: what was ahead of the sentinel still is, and what
\* is put into a queue without a sentinel is ahead of any.
LEMMA AheadGrows ==
    ASSUME TypeOK, NEW x \in Records \union {Sentinel}, queue' = Append(queue, x)
    PROVE  /\ Ahead \subseteq Ahead'
           /\ x # Sentinel /\ Sentinel \notin ToSet(queue) => x \in Ahead'
           /\ ToSet(queue') = ToSet(queue) \union {x}
<1>1. /\ Len(queue) \in Nat /\ Len(queue') = Len(queue) + 1
      /\ \A i \in 1 .. Len(queue) : queue'[i] = queue[i]
      /\ queue'[Len(queue) + 1] = x
      /\ ToSet(queue') = ToSet(queue) \union {x}
      /\ ToSet(queue) = {queue[i] : i \in 1 .. Len(queue)}
  BY AppendMembers, Members DEF TypeOK
<1>2. ASSUME NEW i \in 1 .. Len(queue), \A j \in 1 .. i : queue[j] # Sentinel
      PROVE  queue[i] \in Ahead'
  <2>1. i \in 1 .. Len(queue') /\ \A j \in 1 .. i : queue'[j] # Sentinel
    BY <1>1, <1>2
  <2> QED BY <1>1, <2>1 DEF Ahead
<1>3. ASSUME x # Sentinel, Sentinel \notin ToSet(queue) PROVE x \in Ahead'
  <2>1. \A j \in 1 .. Len(queue) + 1 : queue'[j] # Sentinel
    BY <1>1, <1>3
  <2>2. Len(queue) + 1 \in {k \in 1 .. Len(queue') : \A j \in 1 .. k : queue'[j] # Sentinel}
    BY <1>1, <2>1
  <2> QED BY <1>1, <2>2 DEF Ahead
<1> QED BY <1>1, <1>2, <1>3 DEF Ahead

LEMMA EnqueueFlow == ASSUME TypeOK, FlowInv, Enqueue PROVE FlowInv'
<1>1. PICK x \in Records : x = Head(ready)
  BY TailMembers DEF Enqueue, TypeOK
<1>2. ToSet(ready) = {x} \union ToSet(ready') /\ x # Sentinel
  BY <1>1, TailMembers, SinkAssumption DEF Enqueue, TypeOK
<1>3. UNCHANGED <<attached, stage, work, written, logged, rejected>>
  BY DEF Enqueue
<1> USE DEF work, Met
<1>4. CASE /\ stage \in Alive /\ queue' = Append(queue, x)
           /\ IF stage = "awaiting"
              THEN late' = late \union {x} /\ UNCHANGED admitted
              ELSE admitted' = admitted \union {x} /\ UNCHANGED late
           /\ UNCHANGED full
  <2>1. /\ Ahead \subseteq Ahead'
        /\ Sentinel \notin ToSet(queue) => x \in Ahead'
        /\ ToSet(queue') = ToSet(queue) \union {x}
    BY <1>2, <1>4, AheadGrows
  <2>2. \A i, j \in 1 .. Len(queue') : i < j /\ queue'[i] = Sentinel => queue'[j] \in late'
    <3> SUFFICES ASSUME NEW i \in 1 .. Len(queue'), NEW j \in 1 .. Len(queue'),
                        i < j, queue'[i] = Sentinel
                 PROVE  queue'[j] \in late'
      OBVIOUS
    <3>1. /\ Len(queue) \in Nat /\ Len(queue') = Len(queue) + 1
          /\ \A k \in 1 .. Len(queue) : queue'[k] = queue[k]
          /\ queue'[Len(queue) + 1] = x
          /\ ToSet(queue) = {queue[k] : k \in 1 .. Len(queue)}
      BY <1>4, AppendMembers, Members DEF TypeOK
    <3>2. i \in 1 .. Len(queue) /\ queue[i] = Sentinel
      BY <3>1
    <3>3. stage = "awaiting"
      BY <3>1, <3>2 DEF FlowInv
    <3> QED BY <1>4, <3>1, <3>2, <3>3 DEF FlowInv
  <2>3. stage # "awaiting" => Sentinel \notin ToSet(queue) /\ ~Met
    BY <1>4 DEF FlowInv, Alive
  <2>4. admitted' \subseteq ToSet(written') \union rejected' \union ToSet(batch')
                             \union (IF Met' THEN {} ELSE Ahead')
    BY <1>3, <1>4, <2>1, <2>3 DEF FlowInv
  <2>5. Accounted'
    BY <1>2, <1>3, <1>4, <2>1 DEF FlowInv, Accounted
  <2> QED BY <1>2, <1>3, <1>4, <2>1, <2>2, <2>3, <2>4, <2>5 DEF FlowInv, Alive
<1>5. CASE /\ full' \subseteq full \union {x} /\ late' \subseteq late \union {x}
           /\ full \subseteq full' /\ late \subseteq late' /\ x \in full' \union late'
           /\ UNCHANGED <<queue, admitted>>
  <2>1. Accounted'
    BY <1>2, <1>3, <1>5 DEF FlowInv, Accounted
  <2>2. Ahead' = Ahead
    BY <1>5 DEF Ahead
  <2> QED BY <1>3, <1>5, <2>1, <2>2 DEF FlowInv
<1> QED BY <1>1, <1>4, <1>5 DEF Enqueue

LEMMA TakeFlow == ASSUME TypeOK, FlowInv, Take PROVE FlowInv'
<1>1. PICK n \in 0 .. Len(queue), cut \in 0 .. Len(queue) :
              /\ n <= BatchSize
              /\ batch' = SubSeq(queue, 1, n)
              /\ queue' = SubSeq(queue, cut + 1, Len(queue))
              /\ \A i \in 1 .. n : queue[i] # Sentinel
              /\ \/ cut = n /\ n # 0 /\ stopping' = FALSE /\ consumer' = "write"
                 \/ /\ cut = n + 1 /\ queue[cut] = Sentinel /\ stopping' = TRUE
                    /\ consumer' = IF n = 0 THEN "done" ELSE "write"
  BY TakeMeaning
<1>2. /\ queue \in Seq(Records \union {Sentinel}) /\ Len(queue) \in Nat
      /\ ToSet(queue) = {queue[i] : i \in 1 .. Len(queue)}
  BY Members DEF TypeOK
<1>3. /\ batch' \in Seq(Records \union {Sentinel}) /\ Len(batch') = n
      /\ ToSet(batch') = {queue[i] : i \in 1 .. n}
      /\ \A i \in 1 .. n : batch'[i] = queue[i]
  BY <1>1, <1>2, PieceMembers
<1>4. /\ Len(queue') = Len(queue) - cut
      /\ \A i \in 1 .. Len(queue) - cut : queue'[i] = queue[i + cut]
      /\ ToSet(queue') = {queue[i] : i \in cut + 1 .. Len(queue)}
  BY <1>1, <1>2, DropMembers, SMTT(30)
<1>5. /\ consumer = "get" /\ ~Met /\ batch = <<>> /\ ToSet(batch) = {}
      /\ UNCHANGED <<attached, stage, ready, written, logged, admitted, full, late, rejected>>
  BY Members, EmptySeq DEF Take, FlowInv, Met, history
<1>6. ToSet(queue) \subseteq ToSet(batch') \union ToSet(queue') \union {Sentinel}
  <2>1. ASSUME NEW i \in 1 .. Len(queue)
        PROVE  queue[i] \in ToSet(batch') \union ToSet(queue') \union {Sentinel}
    <3>1. i \in 1 .. n \/ i \in cut + 1 .. Len(queue) \/ (i = cut /\ queue[cut] = Sentinel)
      <4>1. CASE cut = n
        BY <1>2, <4>1
      <4>2. CASE cut = n + 1 /\ queue[cut] = Sentinel
        BY <1>2, <4>2
      <4> QED BY <1>1, <4>1, <4>2
    <3> QED BY <1>3, <1>4, <3>1
  <2> QED BY <1>2, <2>1
<1>7. Accounted'
  <2>1. ToSet(logged) \subseteq Records
    BY Members DEF TypeOK
  <2> QED BY <1>5, <1>6, <2>1, SinkAssumption DEF FlowInv, Accounted
<1>8. (batch' # <<>>) <=> (n # 0)
  BY <1>3, EmptySeq
<1>9. \A i, j \in 1 .. Len(queue') : i < j /\ queue'[i] = Sentinel => queue'[j] \in late
  BY <1>1, <1>2, <1>4 DEF FlowInv
<1>10. CASE cut = n /\ n # 0 /\ stopping' = FALSE /\ consumer' = "write"
  <2>1. Ahead \subseteq ToSet(batch') \union Ahead'
    <3> SUFFICES ASSUME NEW i \in 1 .. Len(queue), \A j \in 1 .. i : queue[j] # Sentinel
                 PROVE  queue[i] \in ToSet(batch') \union Ahead'
      BY DEF Ahead
    <3>1. CASE i <= n
      BY <1>2, <1>3, <3>1
    <3>2. CASE i > n
      <4>1. i - n \in 1 .. Len(queue) - cut /\ (i - n) + cut = i
        BY <1>2, <1>10, <3>2
      <4>2. i - n \in 1 .. Len(queue') /\ queue'[i - n] = queue[i]
        BY <1>4, <4>1
      <4>3. ASSUME NEW j \in 1 .. i - n PROVE queue'[j] # Sentinel
        <5>1. j \in 1 .. Len(queue) - cut /\ j + cut \in 1 .. i
          BY <1>2, <1>10, <3>2
        <5> QED BY <1>4, <5>1
      <4> QED BY <4>2, <4>3 DEF Ahead
    <3> QED BY <1>2, <3>1, <3>2
  <2>2. Sentinel \in ToSet(queue) <=> Sentinel \in ToSet(queue')
    <3>1. \A i \in 1 .. n : queue[i] # Sentinel
      BY <1>1
    <3>2. /\ ToSet(queue) = {queue[i] : i \in 1 .. Len(queue)}
          /\ ToSet(queue') = {queue[i] : i \in n + 1 .. Len(queue)}
      BY <1>2, <1>4, <1>10
    <3>3. ASSUME NEW i \in 1 .. Len(queue), queue[i] = Sentinel PROVE i \in n + 1 .. Len(queue)
      BY <1>2, <3>1, <3>3
    <3>4. \A i \in n + 1 .. Len(queue) : i \in 1 .. Len(queue)
      BY <1>2
    <3> QED BY <3>2, <3>3, <3>4
  <2>3. Met' = FALSE
    BY <1>10 DEF Met
  <2>4. admitted \subseteq ToSet(written) \union rejected \union ToSet(batch') \union Ahead'
    BY <1>5, <2>1 DEF FlowInv
  <2> QED BY <1>5, <1>7, <1>8, <1>9, <1>10, <2>2, <2>3, <2>4 DEF FlowInv
<1>11. CASE /\ cut = n + 1 /\ queue[cut] = Sentinel /\ stopping' = TRUE
            /\ consumer' = IF n = 0 THEN "done" ELSE "write"
  <2>1. Ahead \subseteq ToSet(batch')
    <3> SUFFICES ASSUME NEW i \in 1 .. Len(queue), \A j \in 1 .. i : queue[j] # Sentinel
                 PROVE  queue[i] \in ToSet(batch')
      BY DEF Ahead
    <3>1. ~(cut <= i)
      BY <1>1, <1>2, <1>11
    <3> QED BY <1>2, <1>3, <1>11, <3>1
  <2>2. ToSet(queue') \subseteq late
    BY <1>2, <1>4, <1>11 DEF FlowInv
  <2>3. Sentinel \in ToSet(queue) /\ Sentinel \notin late
    BY <1>2, <1>11, SinkAssumption DEF TypeOK
  <2>4. Met' = TRUE /\ stage = "awaiting"
    BY <1>11, <2>3 DEF Met, FlowInv
  <2>5. admitted \subseteq ToSet(written) \union rejected \union ToSet(batch')
    BY <1>5, <2>1 DEF FlowInv
  <2> QED BY <1>5, <1>7, <1>8, <1>9, <1>11, <2>2, <2>3, <2>4, <2>5 DEF FlowInv
<1> QED BY <1>1, <1>10, <1>11

\* Whatever becomes of a commit, what was stored before stays.
LEMMA CommitStores ==
    ASSUME TypeOK, NEW rows \in Seq(Records), NEW outcome \in Outcomes(rows), Commit(rows, outcome)
    PROVE  ToSet(written') = IF outcome = "rollback" THEN ToSet(written)
                             ELSE ToSet(written) \union ToSet(rows)
<1>1. written \in Seq(Records)
  BY DEF TypeOK
<1>2. ToSet(written \o rows) = ToSet(written) \union ToSet(rows)
  BY <1>1, ConcatMembers
<1> QED BY <1>2 DEF Commit

LEMMA WriteBatchFlow == ASSUME TypeOK, FlowInv, WriteBatch PROVE FlowInv'
<1>1. PICK outcome \in Outcomes(batch) :
         /\ Commit(batch, outcome)
         /\ IF outcome = "stored"
            THEN consumer' = Settled /\ batch' = <<>>
            ELSE consumer' = "rows" /\ UNCHANGED batch
  BY DEF WriteBatch
<1>2. /\ ToSet(written) \subseteq ToSet(written')
      /\ outcome = "stored" => ToSet(batch) \subseteq ToSet(written')
  BY <1>1, CommitStores DEF TypeOK
<1>3. UNCHANGED <<attached, stage, pipe, stopping, logged, admitted, full, late, rejected>>
  BY DEF WriteBatch
<1>4. Ahead' = Ahead
  BY <1>3 DEF Ahead, pipe
<1>5. consumer = "write" /\ Met' = Met /\ batch # <<>>
  BY <1>1, <1>3 DEF WriteBatch, Met, Settled, FlowInv
<1>6. ToSet(batch) \subseteq ToSet(batch') \union ToSet(written')
  BY <1>1, <1>2
<1>7. Accounted'
  BY <1>2, <1>3, <1>6 DEF FlowInv, Accounted, pipe
<1>8. /\ consumer' \in {"write", "rows"} <=> batch' # <<>>
      /\ consumer' = "get" => ~stopping
      /\ consumer' # "none"
  BY <1>1, <1>5 DEF Settled
<1> QED BY <1>2, <1>3, <1>4, <1>5, <1>6, <1>7, <1>8 DEF FlowInv, pipe

LEMMA WriteRowFlow == ASSUME TypeOK, FlowInv, WriteRow PROVE FlowInv'
<1>0. batch # <<>> /\ consumer = "rows"
  BY DEF WriteRow, FlowInv
<1>1. PICK outcome \in Outcomes(<<Head(batch)>>) :
         /\ Commit(<<Head(batch)>>, outcome)
         /\ rejected' = IF outcome = "stored" THEN rejected ELSE rejected \union {Head(batch)}
  BY DEF WriteRow
<1>2. /\ ToSet(written) \subseteq ToSet(written') /\ rejected \subseteq rejected'
      /\ Head(batch) \in ToSet(written') \union rejected'
  BY <1>0, <1>1, HeadOfBatch, CommitStores
<1>3. UNCHANGED <<attached, stage, pipe, stopping, logged, admitted, full, late>>
  BY DEF WriteRow
<1>4. Ahead' = Ahead
  BY <1>3 DEF Ahead, pipe
<1>5. batch' = Tail(batch) /\ consumer' = IF batch' = <<>> THEN Settled ELSE "rows"
  BY <1>0, HeadOfBatch DEF WriteRow
<1>6. Met' = Met
  BY <1>0, <1>3, <1>5 DEF Met, Settled
<1>7. ToSet(batch) \subseteq ToSet(batch') \union ToSet(written') \union rejected'
  BY <1>0, <1>2, <1>5, HeadOfBatch
<1>8. Accounted'
  BY <1>2, <1>3, <1>7 DEF FlowInv, Accounted, pipe
<1>9. /\ consumer' \in {"write", "rows"} <=> batch' # <<>>
      /\ consumer' = "get" => ~stopping
      /\ consumer' # "none"
  BY <1>5 DEF Settled
<1> QED BY <1>0, <1>2, <1>3, <1>4, <1>6, <1>7, <1>8, <1>9 DEF FlowInv, pipe

\* The sentinel is put into a queue that has none.
LEMMA StopFlow == ASSUME TypeOK, FlowInv, Stop \/ StopPut PROVE FlowInv'
<1>1. /\ stage \in {"running", "putting"} /\ ~attached'
      /\ UNCHANGED <<ready, work, written, history>>
  BY DEF Stop, StopPut, FlowInv
<1>2. Sentinel \notin ToSet(queue) /\ ~Met /\ ~Met'
  BY <1>1 DEF FlowInv, Met, work
<1>3. CASE stage' = "putting" /\ UNCHANGED queue
  BY <1>1, <1>2, <1>3 DEF FlowInv, Accounted, Ahead, work, history
<1>4. CASE stage' = "awaiting" /\ queue' = Append(queue, Sentinel)
  <2>1. Ahead \subseteq Ahead' /\ ToSet(queue') = ToSet(queue) \union {Sentinel}
    BY <1>4, AheadGrows
  <2>2. \A i, j \in 1 .. Len(queue') : i < j => queue'[i] # Sentinel
    <3>1. /\ Len(queue) \in Nat /\ Len(queue') = Len(queue) + 1
          /\ \A k \in 1 .. Len(queue) : queue'[k] = queue[k]
          /\ ToSet(queue) = {queue[k] : k \in 1 .. Len(queue)}
      BY <1>4, AppendMembers, Members DEF TypeOK
    <3> QED BY <1>2, <3>1
  <2>3. Accounted'
    BY <1>1, <2>1 DEF FlowInv, Accounted, work, history
  <2>4. admitted \subseteq ToSet(written) \union rejected \union ToSet(batch) \union Ahead'
    BY <1>2, <2>1 DEF FlowInv
  <2> QED BY <1>1, <1>2, <1>4, <2>1, <2>2, <2>3, <2>4 DEF FlowInv, work, history
<1> QED BY <1>3, <1>4 DEF Stop, StopPut

\* When the consumer has returned, the queue holds nothing but what came late.
LEMMA StopFinishFlow == ASSUME TypeOK, FlowInv, StopFinish PROVE FlowInv'
<1>1. /\ stage = "awaiting" /\ consumer = "done" /\ stage' = "stopped" /\ consumer' = "none"
      /\ queue' = <<>>
      /\ UNCHANGED <<attached, ready, batch, stopping, written, history>>
  BY DEF StopFinish
<1>2. ToSet(queue') = {} /\ Len(queue') = 0
  BY <1>1, NoMembers
<1>3. Met /\ ToSet(queue) \subseteq late /\ batch = <<>>
  BY <1>1 DEF FlowInv, Met
<1>4. Accounted'
  BY <1>1, <1>2, <1>3 DEF FlowInv, Accounted, history
<1>5. admitted \subseteq ToSet(written) \union rejected \union ToSet(batch)
  BY <1>3 DEF FlowInv
<1> QED BY <1>1, <1>2, <1>3, <1>4, <1>5 DEF FlowInv, Met, history

LEMMA NextFlow == TypeOK /\ FlowInv /\ [Next]_vars => FlowInv'
<1> SUFFICES ASSUME TypeOK, FlowInv, [Next]_vars PROVE FlowInv'
  OBVIOUS
<1>1. CASE Start
  BY <1>1 DEF Start, FlowInv, Accounted, Ahead, Met, pipe, history
<1>2. ASSUME NEW x \in Records, Sink(x) PROVE FlowInv'
  <2>1. ToSet(logged') = ToSet(logged) \union {x} /\ ToSet(ready') = ToSet(ready) \union {x}
    BY <1>2, AppendMembers DEF Sink, TypeOK
  <2>2. Accounted'
    BY <1>2, <2>1 DEF Sink, FlowInv, Accounted, work
  <2> QED BY <1>2, <2>2 DEF Sink, FlowInv, Ahead, Met, work
<1>3. CASE UNCHANGED vars
  BY <1>3 DEF vars, FlowInv, Accounted, Ahead, Met
<1> QED BY <1>1, <1>2, <1>3, EnqueueFlow, TakeFlow, WriteBatchFlow, WriteRowFlow, StopFlow,
           StopFinishFlow DEF Next, Stopped

-----------------------------------------------------------------------------
(* Offenders *)

\* Only what is wrong with a record itself keeps it out of the table.
LEMMA UnwritableMeaning ==
    \A x \in Unwritable : \/ "surrogate" \in content[x].message \union content[x].module
                          \/ "nonfinite" \in content[x].extra.flaws
<1> SUFFICES ASSUME NEW x \in Records, ~Takes(RecordToRow(content[x])),
                    "surrogate" \notin content[x].message \union content[x].module
             PROVE  "nonfinite" \in content[x].extra.flaws
  BY DEF Unwritable
<1>1. PICK c \in Contents : c = content[x]
  BY SinkAssumption
<1>2. /\ c.message \subseteq {"nul", "long", "surrogate"}
      /\ c.module \subseteq {"nul", "long", "surrogate"}
      /\ c.extra \in Items
  BY DEF Contents, Texts
<1>3. c.extra.type # "number" => c.extra.flaws \subseteq {"nul", "long", "surrogate"}
  BY <1>2 DEF Items, Texts
<1>4. /\ RecordToRow(c).message = c.message \ {"nul"}
      /\ RecordToRow(c).module = c.module \ {"nul", "long"}
      /\ RecordToRow(c).extra.flaws = IF c.extra.type = "number" THEN c.extra.flaws
                                      ELSE c.extra.flaws \ {"nul"}
  BY DEF RecordToRow, SanitizeText, Clamp, JsonSafe
<1>5. RecordToRow(c).extra.flaws \intersect {"nul", "nonfinite"} # {}
  BY <1>1, <1>2, <1>4 DEF Takes
<1>6. c.extra.type = "number" => c.extra.flaws \subseteq {"nonfinite"}
  BY <1>2 DEF Items
<1> QED BY <1>1, <1>3, <1>4, <1>5, <1>6

LEMMA NextOffenders == TypeOK /\ FlowInv /\ OffenderInv /\ [Next]_vars => OffenderInv'
<1> SUFFICES ASSUME TypeOK, FlowInv, OffenderInv, [Next]_vars PROVE OffenderInv'
  OBVIOUS
<1>1. CASE WriteBatch
  BY <1>1 DEF WriteBatch, Commit, OffenderInv
<1>2. CASE WriteRow
  <2>1. ToSet(<<Head(batch)>>) = {Head(batch)} /\ Head(batch) \in Records
    BY <1>2, HeadOfBatch DEF WriteRow, FlowInv
  <2>2. PICK outcome \in Outcomes(<<Head(batch)>>) :
           /\ Commit(<<Head(batch)>>, outcome)
           /\ rejected' = IF outcome = "stored" THEN rejected ELSE rejected \union {Head(batch)}
    BY <1>2 DEF WriteRow
  <2>3. ~outage' /\ outcome # "stored" => ~outage /\ Head(batch) \in Unwritable
    BY <2>1, <2>2 DEF Commit
  <2>4. ~outage' => ~outage
    BY <2>2 DEF Commit
  <2> QED BY <2>2, <2>3, <2>4 DEF OffenderInv
<1> QED BY <1>1, <1>2 DEF Next, Start, Sink, Enqueue, Take, Stop, StopPut, StopFinish, Stopped,
                          history, vars, OffenderInv

-----------------------------------------------------------------------------
(* Order *)

LEMMA Irreflexive == ASSUME NEW S, NEW log \in Seq(S), NEW x \in ToSet(log)
                     PROVE  ~Before(log, x, x)
<1>1. PICK k \in 1 .. Len(log) : log[k] = x
  BY Members
<1>2. ~(k < k)
  OBVIOUS
<1> QED BY <1>1, <1>2 DEF Before

\* A log that grows by an element it does not have keeps the order of the others,
\* and all of them are before the new one.
LEMMA BeforeGrows ==
    ASSUME NEW S, NEW log \in Seq(S), NEW x \in S, x \notin ToSet(log)
    PROVE  /\ \A a, b : a # x /\ Before(log, a, b) => Before(Append(log, x), a, b)
           /\ \A a : a # x => Before(Append(log, x), a, x)
<1>1. /\ Len(log) \in Nat /\ Len(Append(log, x)) = Len(log) + 1
      /\ \A i \in 1 .. Len(log) : Append(log, x)[i] = log[i] /\ log[i] # x
      /\ Append(log, x)[Len(log) + 1] = x
  BY AppendMembers, Members
<1>2. ASSUME NEW a, NEW b, a # x, Before(log, a, b) \/ b = x,
             NEW k \in 1 .. Len(log) + 1, NEW l \in 1 .. Len(log) + 1,
             Append(log, x)[k] = a, Append(log, x)[l] = b
      PROVE  k < l
  <2>1. k \in 1 .. Len(log) /\ log[k] = a
    BY <1>1, <1>2
  <2>2. CASE b = x
    BY <1>1, <1>2, <2>1, <2>2
  <2>3. CASE b # x /\ Before(log, a, b)
    <3>1. l \in 1 .. Len(log) /\ log[l] = b
      BY <1>1, <1>2, <2>3
    <3> QED BY <2>1, <2>3, <3>1 DEF Before
  <2> QED BY <1>2, <2>2, <2>3
<1> QED BY <1>1, <1>2 DEF Before

LEMMA SortedAppend ==
    ASSUME NEW log, NEW S, NEW s \in Seq(S), NEW x \in S,
           Sorted(log, s), AllBefore(log, ToSet(s), {x})
    PROVE  Sorted(log, Append(s, x))
<1>1. /\ Len(s) \in Nat /\ Len(Append(s, x)) = Len(s) + 1
      /\ \A i \in 1 .. Len(s) : Append(s, x)[i] = s[i] /\ s[i] \in ToSet(s)
      /\ Append(s, x)[Len(s) + 1] = x
  BY AppendMembers, Members
<1>2. ASSUME NEW i \in 1 .. Len(s) + 1, NEW j \in 1 .. Len(s) + 1, i < j
      PROVE  Before(log, Append(s, x)[i], Append(s, x)[j])
  <2>1. i \in 1 .. Len(s)
    BY <1>1, <1>2
  <2>2. CASE j = Len(s) + 1
    BY <1>1, <2>1, <2>2 DEF AllBefore
  <2>3. CASE j \in 1 .. Len(s)
    BY <1>1, <1>2, <2>1, <2>3 DEF Sorted
  <2> QED BY <1>1, <2>2, <2>3
<1> QED BY <1>1, <1>2 DEF Sorted

\* The head of a sorted sequence is before the rest, which is sorted.
LEMMA SortedTail ==
    ASSUME NEW log, NEW S, NEW s \in Seq(S), s # <<>>, Sorted(log, s)
    PROVE  Sorted(log, Tail(s)) /\ AllBefore(log, {Head(s)}, ToSet(Tail(s)))
<1>1. /\ Head(s) = s[1] /\ Len(s) \in Nat \ {0} /\ Len(Tail(s)) = Len(s) - 1
      /\ \A i \in 1 .. Len(s) - 1 : Tail(s)[i] = s[i + 1]
      /\ Tail(s) \in Seq(S)
  BY TailMembers
<1>0. ToSet(Tail(s)) = {Tail(s)[i] : i \in 1 .. Len(Tail(s))}
  BY <1>1, Members
<1>2. \A i \in 1 .. Len(s) - 1 : i + 1 \in 1 .. Len(s) /\ 1 \in 1 .. Len(s) /\ 1 < i + 1
  BY <1>1
<1>3. Sorted(log, Tail(s))
  BY <1>1, <1>2 DEF Sorted
<1>4. AllBefore(log, {Head(s)}, ToSet(Tail(s)))
  BY <1>0, <1>1, <1>2 DEF Sorted, AllBefore
<1> QED BY <1>3, <1>4

\* What is stored for the first time, in order, keeps the table in order and adds
\* nothing a second time.
LEMMA StoreFresh ==
    ASSUME NEW S, NEW log \in Seq(S), NEW s \in Seq(S), NEW t \in Seq(S), NEW twice,
           ToSet(s) \union ToSet(t) \subseteq ToSet(log),
           Sorted(log, t), AllBefore(log, ToSet(s), ToSet(t)),
           FirstsSorted(log, s), AtMostTwice(s, twice)
    PROVE  /\ FirstsSorted(log, s \o t) /\ AtMostTwice(s \o t, twice)
           /\ \A x \in ToSet(t) : AtMostOnce(s \o t, x)
<1> DEFINE w == s \o t
<1>1. /\ Len(s) \in Nat /\ Len(t) \in Nat /\ Len(w) = Len(s) + Len(t)
      /\ \A i \in 1 .. Len(s) : w[i] = s[i] /\ s[i] \in ToSet(s)
      /\ \A i \in Len(s) + 1 .. Len(s) + Len(t) :
            w[i] = t[i - Len(s)] /\ i - Len(s) \in 1 .. Len(t) /\ w[i] \in ToSet(t)
  <2>1. /\ Len(s) \in Nat /\ Len(t) \in Nat /\ Len(w) = Len(s) + Len(t)
        /\ \A i \in 1 .. Len(s) : w[i] = s[i]
        /\ \A i \in Len(s) + 1 .. Len(s) + Len(t) : w[i] = t[i - Len(s)]
    BY ConcatMembers
  <2>2. ToSet(s) = {s[i] : i \in 1 .. Len(s)} /\ ToSet(t) = {t[i] : i \in 1 .. Len(t)}
    BY Members
  <2>3. \A i \in Len(s) + 1 .. Len(s) + Len(t) : i - Len(s) \in 1 .. Len(t)
    BY <2>1
  <2> QED BY <2>1, <2>2, <2>3
<1>2. ASSUME NEW i \in 1 .. Len(w), NEW j \in Len(s) + 1 .. Len(w), i < j
      PROVE  Before(log, w[i], w[j]) /\ w[i] # w[j]
  <2>1. Before(log, w[i], w[j])
    <3>1. CASE i <= Len(s)
      BY <1>1, <1>2, <3>1 DEF AllBefore
    <3>2. CASE i > Len(s)
      <4>1. i \in Len(s) + 1 .. Len(s) + Len(t) /\ j \in Len(s) + 1 .. Len(s) + Len(t)
            /\ i - Len(s) < j - Len(s)
        BY <1>1, <1>2, <3>2
      <4> QED BY <1>1, <4>1 DEF Sorted
    <3> QED BY <1>1, <3>1, <3>2
  <2>2. w[j] \in ToSet(log)
    BY <1>1, <1>2
  <2> QED BY <2>1, <2>2, Irreflexive
<1> HIDE DEF w
<1>3. FirstsSorted(log, w)
  <2> SUFFICES ASSUME NEW j \in 1 .. Len(w), \A i \in 1 .. j - 1 : w[i] # w[j],
                      NEW i \in 1 .. j - 1
               PROVE  Before(log, w[i], w[j])
    BY DEF FirstsSorted
  <2>1. CASE j <= Len(s)
    <3>1. j \in 1 .. Len(s) /\ \A k \in 1 .. j - 1 : k \in 1 .. Len(s)
      BY <1>1, <2>1
    <3> QED BY <1>1, <3>1 DEF FirstsSorted
  <2>2. CASE j > Len(s)
    <3>1. i \in 1 .. Len(w) /\ j \in Len(s) + 1 .. Len(w) /\ i < j
      BY <1>1, <2>2
    <3> QED BY <1>2, <3>1
  <2> QED BY <1>1, <2>1, <2>2
<1>4. AtMostTwice(w, twice)
  <2> SUFFICES ASSUME NEW i \in 1 .. Len(w), NEW j \in 1 .. Len(w), i < j, w[i] = w[j]
               PROVE  w[i] \in twice /\ \A k \in j + 1 .. Len(w) : w[k] # w[i]
    BY DEF AtMostTwice
  <2>1. i \in 1 .. Len(s) /\ j \in 1 .. Len(s)
    BY <1>1, <1>2
  <2>2. s[i] \in twice /\ \A k \in j + 1 .. Len(s) : s[k] # s[i]
    BY <1>1, <2>1 DEF AtMostTwice
  <2>3. ASSUME NEW k \in j + 1 .. Len(w) PROVE w[k] # w[i]
    <3>1. CASE k <= Len(s)
      <4>1. k \in j + 1 .. Len(s) /\ k \in 1 .. Len(s)
        BY <1>1, <2>1, <3>1
      <4> QED BY <1>1, <2>1, <2>2, <4>1
    <3>2. CASE k > Len(s)
      BY <1>1, <1>2, <2>1, <3>2
    <3> QED BY <1>1, <2>1, <3>1, <3>2
  <2> QED BY <1>1, <2>1, <2>2, <2>3
<1>5. ASSUME NEW x \in ToSet(t) PROVE AtMostOnce(w, x)
  <2> SUFFICES ASSUME NEW i \in 1 .. Len(w), NEW j \in 1 .. Len(w), w[i] = x, w[j] = x, i < j
               PROVE  FALSE
    BY <1>1 DEF AtMostOnce
  <2>1. j <= Len(s)
    BY <1>1, <1>2
  <2>2. x \in ToSet(s)
    BY <1>1, <2>1
  <2>3. Before(log, x, x) /\ x \in ToSet(log)
    BY <2>2 DEF AllBefore
  <2> QED BY <2>3, Irreflexive
<1> QED BY <1>3, <1>4, <1>5 DEF w

\* A row that is in the table once, from a commit that raised, may go there again.
LEMMA StoreAgain ==
    ASSUME NEW log, NEW S, NEW s \in Seq(S), NEW twice, NEW x \in twice,
           x \in ToSet(s), AtMostOnce(s, x),
           FirstsSorted(log, s), AtMostTwice(s, twice)
    PROVE  /\ FirstsSorted(log, Append(s, x)) /\ AtMostTwice(Append(s, x), twice)
           /\ \A y : y # x /\ AtMostOnce(s, y) => AtMostOnce(Append(s, x), y)
<1>0. x \in S
  BY Members
<1>1. /\ Len(s) \in Nat /\ Len(Append(s, x)) = Len(s) + 1
      /\ \A i \in 1 .. Len(s) : Append(s, x)[i] = s[i]
      /\ Append(s, x)[Len(s) + 1] = x
  BY <1>0, AppendMembers
<1>2. PICK i0 \in 1 .. Len(s) : s[i0] = x
  BY Members
<1> DEFINE w == Append(s, x)
<1>3. FirstsSorted(log, w)
  <2> SUFFICES ASSUME NEW j \in 1 .. Len(w), \A i \in 1 .. j - 1 : w[i] # w[j],
                      NEW i \in 1 .. j - 1
               PROVE  Before(log, w[i], w[j])
    BY DEF FirstsSorted
  <2>1. j # Len(s) + 1
    <3>1. w[i0] = w[Len(s) + 1] /\ i0 \in 1 .. (Len(s) + 1) - 1
      BY <1>1, <1>2
    <3> QED BY <3>1
  <2>2. j \in 1 .. Len(s) /\ \A k \in 1 .. j - 1 : k \in 1 .. Len(s)
    BY <1>1, <2>1
  <2> QED BY <1>1, <2>2 DEF FirstsSorted
<1>4. AtMostTwice(w, twice)
  <2> SUFFICES ASSUME NEW i \in 1 .. Len(w), NEW j \in 1 .. Len(w), i < j, w[i] = w[j]
               PROVE  w[i] \in twice /\ \A k \in j + 1 .. Len(w) : w[k] # w[i]
    BY DEF AtMostTwice
  <2>1. i \in 1 .. Len(s)
    BY <1>1
  <2>2. CASE j = Len(s) + 1
    <3>1. w[i] = x
      BY <1>1, <2>2
    <3>2. \A k \in j + 1 .. Len(w) : FALSE
      BY <1>1, <2>2
    <3> QED BY <3>1, <3>2
  <2>3. CASE j \in 1 .. Len(s)
    <3>1. w[i] = s[i] /\ s[i] = s[j]
      BY <1>1, <2>1, <2>3
    <3>2. s[i] \in twice /\ \A k \in j + 1 .. Len(s) : s[k] # s[i]
      BY <2>1, <2>3, <3>1 DEF AtMostTwice
    <3>3. s[i] # x
      <4>1. i # j
        OBVIOUS
      <4> QED BY <2>1, <2>3, <3>1, <4>1 DEF AtMostOnce
    <3>4. ASSUME NEW k \in j + 1 .. Len(w) PROVE w[k] # w[i]
      <4>1. k = Len(s) + 1 \/ (k \in j + 1 .. Len(s) /\ k \in 1 .. Len(s))
        BY <1>1, <2>3
      <4> QED BY <1>1, <3>1, <3>2, <3>3, <4>1
    <3> QED BY <3>1, <3>2, <3>4
  <2> QED BY <1>1, <2>2, <2>3
<1>5. ASSUME NEW y, y # x, AtMostOnce(s, y) PROVE AtMostOnce(w, y)
  BY <1>1, <1>5 DEF AtMostOnce
<1> QED BY <1>3, <1>4, <1>5

LEMMA InitOrder == Init => OrderInv
<1> SUFFICES ASSUME Init PROVE OrderInv
  OBVIOUS
<1>1. /\ ToSet(ready) = {} /\ ToSet(queue) = {} /\ ToSet(batch) = {} /\ ToSet(written) = {}
      /\ Len(ready) = 0 /\ Len(queue) = 0 /\ Len(batch) = 0 /\ Len(written) = 0
  BY NoMembers DEF Init
<1> QED BY <1>1 DEF Init, OrderInv, Sorted, AllBefore, AtMostTwice, FirstsSorted

LEMMA SinkOrder == ASSUME TypeOK, OrderInv, NEW x \in Records, Sink(x) PROVE OrderInv'
<1>1. /\ logged' = Append(logged, x) /\ ready' = Append(ready, x) /\ x \notin ToSet(logged)
      /\ UNCHANGED <<queue, consumer, batch, written, unacked>>
  BY DEF Sink, work
<1>2. /\ ToSet(logged') = ToSet(logged) \union {x} /\ ToSet(ready') = ToSet(ready) \union {x}
      /\ \A a, b : a # x /\ Before(logged, a, b) => Before(logged', a, b)
      /\ \A a : a # x => Before(logged', a, x)
  BY <1>1, AppendMembers, BeforeGrows DEF TypeOK
<1>3. x \notin ToSet(ready) \union ToSet(queue) \union ToSet(batch) \union ToSet(written)
  BY <1>1, SinkAssumption DEF OrderInv
<1>4. /\ \A i \in 1 .. Len(ready) : ready[i] # x
      /\ \A i \in 1 .. Len(queue) : queue[i] # x
      /\ \A i \in 1 .. Len(batch) : batch[i] # x
      /\ \A i \in 1 .. Len(written) : written[i] # x
      /\ Len(written) \in Nat
  BY <1>3, Members DEF TypeOK
<1>5. Sorted(logged', ready) /\ Sorted(logged', queue) /\ Sorted(logged', batch)
  <2>1. Sorted(logged, ready) /\ Sorted(logged, queue) /\ Sorted(logged, batch)
    BY DEF OrderInv
  <2>2. Sorted(logged', ready)
    BY <1>2, <1>4, <2>1 DEF Sorted
  <2>3. Sorted(logged', queue)
    BY <1>2, <1>4, <2>1 DEF Sorted
  <2>4. Sorted(logged', batch)
    BY <1>2, <1>4, <2>1 DEF Sorted
  <2> QED BY <2>2, <2>3, <2>4
<1>6. Sorted(logged', ready')
  BY <1>1, <1>2, <1>3, <1>5, SortedAppend DEF TypeOK, AllBefore
<1>7. /\ AllBefore(logged', ToSet(queue), ToSet(ready'))
      /\ AllBefore(logged', ToSet(batch) \union ToSet(written), ToSet(queue) \union ToSet(ready'))
      /\ Fresh => Fresh'
  BY <1>1, <1>2, <1>3 DEF OrderInv, AllBefore, Fresh
<1>8. FirstsSorted(logged', written)
  <2>1. \A j \in 1 .. Len(written) : \A i \in 1 .. j - 1 : i \in 1 .. Len(written)
    BY <1>4
  <2> QED BY <1>2, <1>4, <2>1 DEF OrderInv, FirstsSorted
<1>9. Again => Again'
  BY <1>1 DEF Again
<1> QED BY <1>1, <1>2, <1>5, <1>6, <1>7, <1>8, <1>9 DEF OrderInv

LEMMA EnqueueOrder == ASSUME TypeOK, OrderInv, Enqueue PROVE OrderInv'
<1>1. PICK x \in Records : x = Head(ready)
  BY TailMembers DEF Enqueue, TypeOK
<1>2. /\ ToSet(ready) = {x} \union ToSet(ready')
      /\ Sorted(logged, ready') /\ AllBefore(logged, {x}, ToSet(ready'))
  <2>1. ready \in Seq(Records) /\ ready # <<>> /\ ready' = Tail(ready)
    BY DEF Enqueue, TypeOK
  <2> QED BY <1>1, <2>1, TailMembers, SortedTail DEF OrderInv
<1>3. UNCHANGED <<consumer, batch, written, logged, unacked>>
  BY DEF Enqueue, work
<1>4. UNCHANGED <<Fresh, Again>>
  BY <1>3 DEF Fresh, Again
<1>5. CASE queue' = Append(queue, x)
  <2>1. ToSet(queue') = ToSet(queue) \union {x}
    <3>1. queue \in Seq(Records \union {Sentinel}) /\ x \in Records \union {Sentinel}
      BY DEF TypeOK
    <3> QED BY <1>5, <3>1, AppendMembers
  <2>2. AllBefore(logged, ToSet(queue), {x})
    BY <1>2 DEF OrderInv, AllBefore
  <2>3. Sorted(logged, queue')
    <3>1. queue \in Seq(Records \union {Sentinel}) /\ x \in Records \union {Sentinel}
      BY DEF TypeOK
    <3> QED BY <1>5, <2>2, <3>1, SortedAppend DEF OrderInv
  <2>4. AllBefore(logged, ToSet(queue'), ToSet(ready'))
    BY <1>2, <2>1 DEF OrderInv, AllBefore
  <2>5. ToSet(queue') \union ToSet(ready') = ToSet(queue) \union ToSet(ready)
        /\ x \in ToSet(logged)
    BY <1>2, <2>1, SinkAssumption DEF OrderInv
  <2> QED BY <1>2, <1>3, <1>4, <2>1, <2>3, <2>4, <2>5 DEF OrderInv
<1>6. CASE UNCHANGED queue
  BY <1>2, <1>3, <1>4, <1>6 DEF OrderInv, AllBefore
<1> QED BY <1>1, <1>5, <1>6 DEF Enqueue

LEMMA TakeOrder == ASSUME TypeOK, OrderInv, Take PROVE OrderInv'
<1>1. PICK n \in 0 .. Len(queue), cut \in 0 .. Len(queue) :
              /\ batch' = SubSeq(queue, 1, n)
              /\ queue' = SubSeq(queue, cut + 1, Len(queue))
              /\ \A i \in 1 .. n : queue[i] # Sentinel
              /\ n <= cut /\ consumer' \in {"write", "done"}
  <2>1. PICK n \in 0 .. Len(queue), cut \in 0 .. Len(queue) :
              /\ batch' = SubSeq(queue, 1, n)
              /\ queue' = SubSeq(queue, cut + 1, Len(queue))
              /\ \A i \in 1 .. n : queue[i] # Sentinel
              /\ cut = n \/ cut = n + 1
              /\ consumer' \in {"write", "done"}
    BY TakeMeaning
  <2> QED BY <2>1
<1>2. /\ queue \in Seq(Records \union {Sentinel}) /\ Len(queue) \in Nat
      /\ ToSet(queue) = {queue[i] : i \in 1 .. Len(queue)}
  BY Members DEF TypeOK
<1>3. /\ Len(batch') = n /\ \A i \in 1 .. n : batch'[i] = queue[i]
      /\ ToSet(batch') = {queue[i] : i \in 1 .. n}
  <2>1. /\ Len(batch') = IF 1 <= n THEN n - 1 + 1 ELSE 0
        /\ \A i \in 1 .. n - 1 + 1 : batch'[i] = queue[1 + i - 1]
        /\ ToSet(batch') = {queue[i] : i \in 1 .. n}
    BY <1>1, <1>2, PieceMembers, 1 \in Nat \ {0}
  <2> QED BY <1>2, <2>1
<1>4. /\ Len(queue') = Len(queue) - cut
      /\ \A i \in 1 .. Len(queue) - cut : queue'[i] = queue[i + cut]
      /\ ToSet(queue') = {queue[i] : i \in cut + 1 .. Len(queue)}
  BY <1>1, <1>2, DropMembers, SMTT(30)
<1>5. UNCHANGED <<ready, written, logged, unacked>>
  BY DEF Take, history
<1>6. ToSet(batch') \subseteq ToSet(queue) \ {Sentinel} /\ ToSet(queue') \subseteq ToSet(queue)
  BY <1>1, <1>2, <1>3, <1>4
<1>7. Sorted(logged, batch') /\ Sorted(logged, queue')
  <2>1. \A i \in 1 .. n : i \in 1 .. Len(queue)
    BY <1>2
  <2>2. \A i, j \in 1 .. Len(queue) - cut :
           i + cut \in 1 .. Len(queue) /\ (i < j => i + cut < j + cut)
    BY <1>2
  <2>3. Sorted(logged, batch')
    BY <1>3, <2>1 DEF OrderInv, Sorted
  <2>4. Sorted(logged, queue')
    BY <1>4, <2>2 DEF OrderInv, Sorted
  <2> QED BY <2>3, <2>4
<1>8. AllBefore(logged, ToSet(batch'), ToSet(queue'))
  <2>1. \A i \in 1 .. n, j \in cut + 1 .. Len(queue) :
           i \in 1 .. Len(queue) /\ j \in 1 .. Len(queue) /\ i < j
    BY <1>1, <1>2
  <2> QED BY <1>3, <1>4, <2>1 DEF OrderInv, Sorted, AllBefore
<1>9. /\ AllBefore(logged, ToSet(queue'), ToSet(ready))
      /\ AllBefore(logged, ToSet(batch') \union ToSet(written), ToSet(queue') \union ToSet(ready))
      /\ AllBefore(logged, ToSet(written), ToSet(batch'))
  BY <1>6, <1>8 DEF OrderInv, AllBefore
<1>10. Fresh'
  BY <1>5, <1>9 DEF Fresh
<1>11. ToSet(ready) \union (ToSet(queue') \ {Sentinel}) \union ToSet(batch') \union ToSet(written)
          \subseteq ToSet(logged)
  BY <1>6 DEF OrderInv
<1> QED BY <1>1, <1>5, <1>7, <1>9, <1>10, <1>11 DEF OrderInv

\* A whole batch is stored for the first time, or not at all.
LEMMA WriteBatchOrder == ASSUME TypeOK, OrderInv, WriteBatch PROVE OrderInv'
<1>1. PICK outcome \in Outcomes(batch) :
         /\ Commit(batch, outcome)
         /\ IF outcome = "stored"
            THEN consumer' = Settled /\ batch' = <<>>
            ELSE consumer' = "rows" /\ UNCHANGED batch
  BY DEF WriteBatch
<1>2. UNCHANGED <<ready, queue, logged>>
  BY DEF WriteBatch, pipe
<1>3. Fresh
  BY DEF WriteBatch, OrderInv
<1>4. ToSet(written) \union ToSet(batch) \subseteq ToSet(logged)
  <2>1. ToSet(written) \subseteq ToSet(logged) /\ ToSet(batch) \subseteq ToSet(logged)
    BY DEF OrderInv
  <2> QED BY <2>1
<1>5. /\ written \in Seq(Records) /\ batch \in Seq(Records) /\ logged \in Seq(Records)
      /\ Sorted(logged, batch) /\ AllBefore(logged, ToSet(written), ToSet(batch))
      /\ FirstsSorted(logged, written) /\ AtMostTwice(written, unacked)
  BY <1>3 DEF TypeOK, OrderInv, Fresh
<1>6. CASE outcome = "rollback"
  <2>1. consumer' = "rows" /\ UNCHANGED <<batch, written, unacked>>
    BY <1>1, <1>6 DEF Commit
  <2>2. Fresh'
    BY <1>2, <1>3, <2>1 DEF Fresh
  <2> QED BY <1>2, <2>1, <2>2 DEF OrderInv
<1>7. CASE outcome # "rollback"
  <2>1. written' = written \o batch /\ unacked \subseteq unacked'
    BY <1>1, <1>7 DEF Commit
  <2>2. ToSet(written') = ToSet(written) \union ToSet(batch)
    BY <1>5, <2>1, ConcatMembers
  <2>3. AtMostTwice(written, unacked')
    BY <1>5, <2>1 DEF AtMostTwice
  <2>4. /\ FirstsSorted(logged, written') /\ AtMostTwice(written', unacked')
        /\ \A x \in ToSet(batch) : AtMostOnce(written', x)
    BY <1>4, <1>5, <2>1, <2>3, StoreFresh
  <2>5. ToSet(batch') \subseteq ToSet(batch) /\ Sorted(logged, batch')
    <3>1. CASE batch' = <<>>
      BY <3>1, NoMembers DEF Sorted
    <3>2. CASE batch' = batch
      BY <1>5, <3>2
    <3> QED BY <1>1, <3>1, <3>2
  <2>6. consumer' = "rows" => Again'
    <3>1. CASE outcome = "stored"
      BY <1>1, <3>1 DEF Settled
    <3>2. CASE outcome # "stored"
      <4>1. outcome = "lost_ack"
        BY <1>7, <3>2 DEF Outcomes
      <4>2. unacked' = unacked \union ToSet(batch) /\ batch' = batch
        BY <1>1, <4>1 DEF Commit
      <4> QED BY <2>2, <2>4, <4>2 DEF Again
    <3> QED BY <3>1, <3>2
  <2>7. consumer' # "write"
    BY <1>1 DEF Settled
  <2>8. ToSet(batch') \union ToSet(written') = ToSet(batch) \union ToSet(written)
    BY <2>2, <2>5
  <2>9. /\ AllBefore(logged, ToSet(batch') \union ToSet(written'), ToSet(queue) \union ToSet(ready))
        /\ ToSet(ready) \union (ToSet(queue) \ {Sentinel}) \union ToSet(batch') \union ToSet(written')
              \subseteq ToSet(logged)
    BY <2>8 DEF OrderInv
  <2> QED BY <1>2, <2>4, <2>5, <2>6, <2>7, <2>9 DEF OrderInv
<1> QED BY <1>6, <1>7

\* One row is stored for the first time, or for the second if the batch was.
LEMMA WriteRowOrder == ASSUME TypeOK, OrderInv, FlowInv, WriteRow PROVE OrderInv'
<1>1. batch # <<>> /\ consumer = "rows" /\ (Fresh \/ Again)
  BY DEF WriteRow, FlowInv, OrderInv
<1>2. PICK x \in Records : x = Head(batch)
  BY <1>1, HeadOfBatch
<1>3. /\ batch \in Seq(Records) /\ logged \in Seq(Records) /\ written \in Seq(Records)
      /\ <<x>> \in Seq(Records) /\ ToSet(<<x>>) = {x}
      /\ batch' = Tail(batch) /\ ToSet(batch) = {x} \union ToSet(batch')
  BY <1>1, <1>2, HeadOfBatch DEF WriteRow, TypeOK
<1>4. Sorted(logged, batch') /\ AllBefore(logged, {x}, ToSet(batch'))
  BY <1>1, <1>2, <1>3, SortedTail DEF OrderInv
<1>5. ToSet(written) \subseteq ToSet(logged) /\ x \in ToSet(logged)
  BY <1>3 DEF OrderInv
<1>6. x \notin ToSet(batch')
  BY <1>3, <1>4, <1>5, Irreflexive DEF AllBefore
<1>7. UNCHANGED <<ready, queue, logged>> /\ consumer' # "write"
  BY DEF WriteRow, pipe, Settled
<1>8. PICK outcome \in Outcomes(<<x>>) : Commit(<<x>>, outcome)
  BY <1>2 DEF WriteRow
<1>9. FirstsSorted(logged, written) /\ AtMostTwice(written, unacked)
  BY DEF OrderInv
<1>10. /\ ToSet(written) \subseteq ToSet(written') /\ ToSet(written') \subseteq ToSet(written) \union {x}
       /\ FirstsSorted(logged, written') /\ AtMostTwice(written', unacked')
       /\ Fresh' \/ Again'
  <2>1. CASE outcome = "rollback"
    <3>1. UNCHANGED <<written, unacked>>
      BY <1>8, <2>1 DEF Commit
    <3>2. Fresh' \/ Again'
      BY <1>1, <1>3, <1>7, <3>1 DEF Fresh, Again, AllBefore
    <3> QED BY <1>9, <3>1, <3>2
  <2>2. CASE outcome # "rollback"
    <3>1. written' = written \o <<x>> /\ unacked \subseteq unacked'
      BY <1>8, <2>2 DEF Commit
    <3>2. ToSet(written') = ToSet(written) \union {x}
      <4>1. ToSet(written \o <<x>>) = ToSet(written) \union ToSet(<<x>>)
        <5>1. PICK t \in Seq(Records) : t = <<x>>
          BY <1>3
        <5>2. ToSet(written \o t) = ToSet(written) \union ToSet(t)
          BY <1>3, ConcatMembers
        <5> QED BY <5>1, <5>2
      <4> QED BY <1>3, <3>1, <4>1
    <3>3. AtMostTwice(written, unacked')
      BY <1>9, <3>1 DEF AtMostTwice
    <3>4. CASE Fresh
      <4>1. AllBefore(logged, ToSet(written), ToSet(<<x>>))
        BY <1>3, <3>4 DEF Fresh, AllBefore
      <4>2. Sorted(logged, <<x>>)
        <5>1. PICK s : s = <<x>>
          OBVIOUS
        <5>2. Len(s) = 1
          BY <5>1
        <5>3. Sorted(logged, s)
          BY <5>2 DEF Sorted
        <5> QED BY <5>1, <5>3
      <4>3. FirstsSorted(logged, written') /\ AtMostTwice(written', unacked')
        BY <1>3, <1>5, <1>9, <3>1, <3>3, <4>1, <4>2, StoreFresh
      <4>4. Fresh'
        BY <1>3, <1>4, <1>7, <3>2, <3>4 DEF Fresh, AllBefore
      <4> QED BY <3>2, <4>3, <4>4
    <3>5. CASE Again
      <4>1. /\ x \in unacked /\ x \in ToSet(written) /\ AtMostOnce(written, x)
            /\ \A y \in ToSet(batch') : y \in unacked /\ y \in ToSet(written) /\ AtMostOnce(written, y)
        BY <1>3, <3>5 DEF Again
      <4>2. written' = Append(written, x)
        BY <1>3, <3>1, AppendIsConcat
      <4>3. /\ FirstsSorted(logged, written') /\ AtMostTwice(written', unacked')
            /\ \A y : y # x /\ AtMostOnce(written, y) => AtMostOnce(written', y)
        <5>1. x \in unacked'
          BY <3>1, <4>1
        <5>2. /\ FirstsSorted(logged, Append(written, x)) /\ AtMostTwice(Append(written, x), unacked')
              /\ \A y : y # x /\ AtMostOnce(written, y) => AtMostOnce(Append(written, x), y)
          BY <1>3, <1>9, <3>3, <4>1, <5>1, StoreAgain
        <5> QED BY <4>2, <5>2
      <4>4. Again'
        BY <1>6, <3>1, <3>2, <4>1, <4>3 DEF Again
      <4> QED BY <3>2, <4>3, <4>4
    <3> QED BY <1>1, <3>4, <3>5
  <2> QED BY <2>1, <2>2
<1>11. /\ AllBefore(logged, ToSet(batch') \union ToSet(written'), ToSet(queue) \union ToSet(ready))
       /\ ToSet(ready) \union (ToSet(queue) \ {Sentinel}) \union ToSet(batch') \union ToSet(written')
             \subseteq ToSet(logged)
  BY <1>3, <1>10 DEF OrderInv, AllBefore
<1> QED BY <1>4, <1>7, <1>10, <1>11 DEF OrderInv

LEMMA NextOrder == TypeOK /\ OrderInv /\ FlowInv /\ [Next]_vars => OrderInv'
<1> SUFFICES ASSUME TypeOK, OrderInv, FlowInv, [Next]_vars PROVE OrderInv'
  OBVIOUS
<1>1. CASE Start
  BY <1>1 DEF Start, OrderInv, pipe, history
<1>2. CASE Stop \/ StopPut
  <2>1. /\ UNCHANGED <<ready, consumer, batch, written, logged, unacked>>
        /\ queue' = queue \/ queue' = Append(queue, Sentinel)
    BY <1>2 DEF Stop, StopPut, work, history
  <2>2. UNCHANGED <<Fresh, Again>>
    BY <2>1 DEF Fresh, Again
  <2>3. CASE queue' = queue
    BY <2>1, <2>2, <2>3 DEF OrderInv
  <2>4. CASE queue' = Append(queue, Sentinel)
    <3>1. queue \in Seq(Records \union {Sentinel}) /\ Sentinel \in Records \union {Sentinel}
      BY DEF TypeOK
    <3>2. ToSet(queue') = ToSet(queue) \union {Sentinel}
      BY <2>4, <3>1, AppendMembers
    <3>3. \A a : Before(logged, a, Sentinel) /\ Before(logged, Sentinel, a)
      <4>1. \A k \in 1 .. Len(logged) : logged[k] # Sentinel
        BY Members, SinkAssumption DEF TypeOK
      <4> QED BY <4>1 DEF Before
    <3>4. Sorted(logged, queue')
      BY <2>4, <3>1, <3>3, SortedAppend DEF OrderInv, AllBefore
    <3>5. /\ AllBefore(logged, ToSet(queue'), ToSet(ready))
          /\ AllBefore(logged, ToSet(batch) \union ToSet(written), ToSet(queue') \union ToSet(ready))
      BY <3>2, <3>3 DEF OrderInv, AllBefore
    <3> QED BY <2>1, <2>2, <3>2, <3>4, <3>5 DEF OrderInv
  <2> QED BY <2>1, <2>3, <2>4
<1>3. CASE StopFinish
  <2>1. /\ UNCHANGED <<ready, batch, written, logged, unacked>>
        /\ consumer' = "none" /\ queue' = <<>>
    BY <1>3 DEF StopFinish, history
  <2>2. ToSet(queue') = {} /\ Len(queue') = 0
    BY <2>1, NoMembers
  <2> QED BY <2>1, <2>2 DEF OrderInv, Sorted, AllBefore
<1>4. CASE UNCHANGED vars
  <2>1. UNCHANGED <<Fresh, Again>>
    BY <1>4 DEF vars, Fresh, Again
  <2> QED BY <1>4, <2>1 DEF vars, OrderInv
<1> QED BY <1>1, <1>2, <1>3, <1>4, SinkOrder, EnqueueOrder, TakeOrder, WriteBatchOrder,
           WriteRowOrder DEF Next, Stopped

-----------------------------------------------------------------------------
(* Theorems *)

\* The invariant holds at the start and every step keeps it.
THEOREM SinkInvariant == Spec => []IInv
<1>1. Init => IInv
  BY InitTypes, InitOrder, InitFlow DEF IInv, Init, OffenderInv
<1>2. IInv /\ [Next]_vars => IInv'
  BY NextTypes, NextOrder, NextFlow, NextOffenders DEF IInv
<1> QED BY <1>1, <1>2, PTL DEF Spec

\* Neither the queue nor a batch exceeds its bound, not even by the sentinel that
\* stop_db_log_sink puts behind the records.
THEOREM SinkTypes == Spec => []TypeOK
<1>1. IInv => TypeOK
  BY DEF IInv
<1> QED BY <1>1, SinkInvariant, PTL

\* A row is stored once; twice if a commit stored it and raised, and then no more.
THEOREM StoredAtMostTwice == Spec => []NoDuplicates
<1>1. IInv => NoDuplicates
  BY DEF IInv, OrderInv, AtMostTwice, NoDuplicates
<1> QED BY <1>1, SinkInvariant, PTL

\* The table lists the records in the order in which they were logged, whatever
\* batches they were taken in and whichever of those failed.
THEOREM StoredInOrder == Spec => []LoggingOrder
<1>1. IInv => LoggingOrder
  BY DEF IInv, OrderInv, FirstsSorted, Before, LoggingOrder
<1> QED BY <1>1, SinkInvariant, PTL

\* Every record that was logged is on its way, stored, or dropped for a reason
\* the module's comments name.
THEOREM NothingVanishes == Spec => []Accounted
<1>1. IInv => Accounted
  BY DEF IInv, FlowInv
<1> QED BY <1>1, SinkInvariant, PTL

\* stop_db_log_sink returns only after all that was queued ahead of its sentinel
\* was stored or refused by itself.
THEOREM StopFlushes == Spec => []FlushedAtStop
<1>1. IInv => FlushedAtStop
  <2> SUFFICES ASSUME IInv, stage = "stopped"
               PROVE  admitted \subseteq ToSet(written) \union rejected
    BY DEF FlushedAtStop
  <2>1. /\ queue = <<>> /\ batch = <<>>
        /\ admitted \subseteq ToSet(written) \union rejected \union ToSet(batch)
                                 \union (IF Met THEN {} ELSE Ahead)
    BY DEF IInv, FlowInv
  <2>2. Len(queue) = 0 /\ ToSet(batch) = {}
    BY <2>1, NoMembers
  <2>3. Ahead = {}
    BY <2>2 DEF Ahead
  <2> QED BY <2>1, <2>2, <2>3
<1> QED BY <1>1, SinkInvariant, PTL

\* While the database is up, one bad row costs no other row of its batch.
THEOREM OnlyTheOffenderIsLost == Spec => []OnlyOffendersLost
<1>1. IInv => OnlyOffendersLost
  BY UnwritableMeaning DEF IInv, OffenderInv, OnlyOffendersLost
<1> QED BY <1>1, SinkInvariant, PTL

============================================================================
