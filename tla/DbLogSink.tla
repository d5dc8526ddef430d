------------------------------ MODULE DbLogSink ------------------------------
(***************************************************************************)
(* The database log sink of the backend (backend/app/config/               *)
(* db_log_sink.py).  Any thread logs; loguru calls _sink, which hands the  *)
(* record to the event loop with call_soon_threadsafe; the loop runs       *)
(* _enqueue, which puts it on a bounded asyncio queue; one consumer task   *)
(* drains the queue in batches and inserts them.  At shutdown a sentinel   *)
(* follows the records through the queue and stops the consumer.           *)
(*                                                                         *)
(* An action is what the event loop runs without giving up control.        *)
(***************************************************************************)
EXTENDS Naturals, SequencesExt

CONSTANTS Records,    \* the records of at least the sink's level
          content,    \* content[x]: what matters of the record x, see Contents
          BatchSize,  \* db_sink_batch_size
          QueueMax,   \* db_sink_queue_maxsize
          Sentinel    \* _SENTINEL

\* A text is the set of what is wrong with it: a NUL byte, more characters than a
\* column holds, a character that has no UTF-8.  An item of the extra bag is a
\* text, a number, of which NaN and the infinities are wrong, or an object.
Texts == SUBSET {"nul", "long", "surrogate"}
Items == [type : {"text", "object"}, flaws : Texts]
           \union [type : {"number"}, flaws : SUBSET {"nonfinite"}]
Contents == [level : {"VERBOSE", "INFO"}, message : Texts, module : Texts, extra : Items]

ASSUME SinkAssumption == /\ content \in [Records -> Contents]
                         /\ BatchSize \in Nat \ {0}
                         /\ QueueMax \in Nat \ {0}
                         /\ Sentinel \notin Records

VARIABLES
  attached,  \* the loguru handler is registered (_sink_id is not None)
  stage,     \* of the sink's life; _queue and _loop are set in Alive stages
  ready,     \* _enqueue callbacks the event loop has yet to run
  queue,     \* the asyncio queue
  consumer,  \* where the consumer task is
  batch,     \* rows taken off the queue and not yet settled
  stopping,  \* the consumer met the sentinel behind the batch
  written,   \* rows in logs.api, in the order of their commits
  logged,    \* history: the records handed to _sink, in order
  admitted,  \* history: records queued ahead of the sentinel
  full,      \* history: records dropped because the queue was full
  late,      \* history: records that came behind the sentinel, or after it all
  rejected,  \* history: rows whose own insert raised
  outage,    \* history: a commit of rows that are all right raised
  unacked    \* history: rows that were stored by a commit that raised

pipe == <<ready, queue>>
work == <<consumer, batch, stopping>>
history == <<logged, admitted, full, late, rejected, outage, unacked>>
vars == <<attached, stage, ready, queue, consumer, batch, stopping, written,
          logged, admitted, full, late, rejected, outage, unacked>>

Alive == {"running", "putting", "awaiting"}

Init == /\ attached = FALSE
        /\ stage = "off"
        /\ ready = <<>> /\ queue = <<>>
        /\ consumer = "none" /\ batch = <<>> /\ stopping = FALSE
        /\ written = <<>>
        /\ logged = <<>>
        /\ admitted = {} /\ full = {} /\ late = {} /\ rejected = {}
        /\ outage = FALSE /\ unacked = {}

-----------------------------------------------------------------------------
(* A record becomes a row. *)

DbSinkFilter(c) == c.level # "VERBOSE"

SanitizeText(t) == t \ {"nul"}

Clamp(t) == t \ {"long"}

\* _json_safe: numbers are taken as they are, and all else as text.
JsonSafe(v) == IF v.type = "number" THEN v
               ELSE [type |-> "text", flaws |-> SanitizeText(v.flaws)]

\* Mutant: the names of modules are taken to be short.
RecordToRowUnclamped(c) ==
    [message |-> SanitizeText(c.message), module |-> SanitizeText(c.module),
     extra |-> JsonSafe(c.extra)]

\* _record_to_row: the message has a column without a limit.
RecordToRow(c) ==
    [message |-> SanitizeText(c.message), module |-> Clamp(SanitizeText(c.module)),
     extra |-> JsonSafe(c.extra)]

\* Postgres refuses a text with a NUL or beyond UTF-8, a module that is too long,
\* and JSON with a NUL, with NaN or with an infinity.
Takes(row) == /\ row.message \subseteq {"long"}
              /\ row.module = {}
              /\ row.extra.flaws \intersect {"nul", "nonfinite"} = {}

Unwritable == {x \in Records : ~Takes(RecordToRow(content[x]))}

-----------------------------------------------------------------------------
(* Logging: any thread, then the event loop *)

\* start_db_log_sink, once per lifespan.
Start == /\ stage = "off"
         /\ attached' = TRUE
         /\ stage' = "running"
         /\ consumer' = "get"
         /\ UNCHANGED <<pipe, batch, stopping, written, history>>

\* _sink(message): schedules _enqueue and returns.  The row is made here; that
\* it stands for its record is left out.
Sink(x) == /\ attached
           /\ DbSinkFilter(content[x])
           /\ x \notin ToSet(logged)
           /\ ready' = Append(ready, x)
           /\ logged' = Append(logged, x)
           /\ UNCHANGED <<attached, stage, queue, work, written, admitted, full, late, rejected, outage, unacked>>

\* Mutant: the put does not look at the size of the queue.
EnqueueUnbounded ==
    /\ ready # <<>>
    /\ ready' = Tail(ready)
    /\ queue' = Append(queue, Head(ready))
    /\ admitted' = admitted \union {Head(ready)}
    /\ UNCHANGED <<attached, stage, work, written, logged, full, late, rejected, outage, unacked>>

\* _enqueue(row): put_nowait, or drop the row when there is no queue (any more)
\* or no room in it.
Enqueue ==
    /\ ready # <<>>
    /\ ready' = Tail(ready)
    /\ LET x == Head(ready)
       IN \/ /\ stage \in Alive /\ Len(queue) < QueueMax
             /\ queue' = Append(queue, x)
             /\ IF stage = "awaiting"
                THEN late' = late \union {x} /\ UNCHANGED admitted
                ELSE admitted' = admitted \union {x} /\ UNCHANGED late
             /\ UNCHANGED full
          \/ /\ stage \in Alive /\ Len(queue) >= QueueMax
             /\ full' = full \union {x}
             /\ UNCHANGED <<queue, admitted, late>>
          \/ /\ stage \notin Alive
             /\ late' = late \union {x}
             /\ UNCHANGED <<queue, admitted, full>>
    /\ UNCHANGED <<attached, stage, work, written, logged, rejected, outage, unacked>>

-----------------------------------------------------------------------------
(* The consumer task *)

\* The rows at the head of the queue that come before the sentinel.
Leading == SelectInSeq(queue, LAMBDA x : x = Sentinel)
RowsAhead == IF Leading = 0 THEN Len(queue) ELSE Leading - 1
Taken == IF RowsAhead < BatchSize THEN RowsAhead ELSE BatchSize
MeetsSentinel == Leading # 0 /\ RowsAhead < BatchSize

\* Mutant: the sentinel ends the batch but is forgotten.
TakeForgetsSentinel ==
    /\ consumer = "get"
    /\ queue # <<>>
    /\ consumer' = IF Taken = 0 THEN "done" ELSE "write"
    /\ batch' = SubSeq(queue, 1, Taken)
    /\ queue' = SubSeq(queue, Taken + 1 + (IF MeetsSentinel THEN 1 ELSE 0), Len(queue))
    /\ UNCHANGED <<attached, stage, ready, stopping, written, history>>

\* Mutant: the sentinel returns at once, without the write of what precedes it.
TakeReturnsAtSentinel ==
    /\ consumer = "get"
    /\ queue # <<>>
    /\ consumer' = IF MeetsSentinel THEN "done" ELSE "write"
    /\ batch' = SubSeq(queue, 1, Taken)
    /\ queue' = SubSeq(queue, Taken + 1 + (IF MeetsSentinel THEN 1 ELSE 0), Len(queue))
    /\ stopping' = MeetsSentinel
    /\ UNCHANGED <<attached, stage, ready, written, history>>

\* queue.get() and the get_nowait() loop behind it: there is no await between
\* them, so the batch is what the queue holds at this moment, up to BatchSize
\* rows or the sentinel.  A sentinel at the head ends the task.
Take ==
    /\ consumer = "get"
    /\ queue # <<>>
    /\ consumer' = IF Taken = 0 THEN "done" ELSE "write"
    /\ batch' = SubSeq(queue, 1, Taken)
    /\ queue' = SubSeq(queue, Taken + 1 + (IF MeetsSentinel THEN 1 ELSE 0), Len(queue))
    /\ stopping' = MeetsSentinel
    /\ UNCHANGED <<attached, stage, ready, written, history>>

\* What a commit of these rows can come to: "rollback", nothing is stored and it
\* raises (a row is refused, or the database is down); "lost_ack", all is stored
\* and it raises all the same (the connection broke before the answer came).
Outcomes(rows) == IF ToSet(rows) \intersect Unwritable # {} THEN {"rollback"}
                  ELSE {"stored", "rollback", "lost_ack"}

Commit(rows, outcome) ==
    /\ written' = IF outcome = "rollback" THEN written ELSE written \o rows
    /\ outage' = (outage \/ (outcome # "stored" /\ ToSet(rows) \intersect Unwritable = {}))
    /\ unacked' = IF outcome = "lost_ack" THEN unacked \union ToSet(rows) ELSE unacked

\* After a batch is settled the consumer returns or waits for the next one.
Settled == IF stopping THEN "done" ELSE "get"

\* Mutant: the rows ahead of the one that failed stay stored.
WriteBatchNoRollback ==
    /\ consumer = "write"
    /\ \E outcome \in Outcomes(batch) :
         IF outcome = "stored"
         THEN written' = written \o batch /\ consumer' = Settled /\ batch' = <<>>
         ELSE /\ written' = Append(written, Head(batch))
              /\ consumer' = "rows"
              /\ UNCHANGED batch
    /\ UNCHANGED <<attached, stage, pipe, stopping, history>>

\* Mutant: a batch that fails is given up as a whole.
WriteBatchGivesUp ==
    /\ consumer = "write"
    /\ \E outcome \in Outcomes(batch) :
         /\ Commit(batch, outcome)
         /\ rejected' = IF outcome = "stored" THEN rejected
                        ELSE rejected \union ToSet(batch)
    /\ consumer' = Settled
    /\ batch' = <<>>
    /\ UNCHANGED <<attached, stage, pipe, stopping, logged, admitted, full, late>>

\* _write_batch: one transaction for all rows; if it raises, row by row.
WriteBatch ==
    /\ consumer = "write"
    /\ \E outcome \in Outcomes(batch) :
         /\ Commit(batch, outcome)
         /\ IF outcome = "stored"
            THEN consumer' = Settled /\ batch' = <<>>
            ELSE consumer' = "rows" /\ UNCHANGED batch
    /\ UNCHANGED <<attached, stage, pipe, stopping, logged, admitted, full, late, rejected>>

\* Mutant: the rows are retried from the back.
WriteRowBackwards ==
    /\ consumer = "rows"
    /\ \E outcome \in Outcomes(<<Last(batch)>>) :
         /\ Commit(<<Last(batch)>>, outcome)
         /\ rejected' = IF outcome = "stored" THEN rejected
                        ELSE rejected \union {Last(batch)}
    /\ batch' = Front(batch)
    /\ consumer' = IF Len(batch) = 1 THEN Settled ELSE "rows"
    /\ UNCHANGED <<attached, stage, pipe, stopping, logged, admitted, full, late>>

\* Mutant: the first row that fails ends the loop, and the rest is lost.
WriteRowBreaks ==
    /\ consumer = "rows"
    /\ \E outcome \in Outcomes(<<Head(batch)>>) :
         /\ Commit(<<Head(batch)>>, outcome)
         /\ rejected' = IF outcome = "stored" THEN rejected
                        ELSE rejected \union {Head(batch)}
         /\ batch' = IF outcome = "stored" THEN Tail(batch) ELSE <<>>
         /\ consumer' = IF batch' = <<>> THEN Settled ELSE "rows"
    /\ UNCHANGED <<attached, stage, pipe, stopping, logged, admitted, full, late>>

\* _write_rows_individually, one turn of its loop: a row that raises is reported
\* as dropped and the loop goes on.
WriteRow ==
    /\ consumer = "rows"
    /\ \E outcome \in Outcomes(<<Head(batch)>>) :
         /\ Commit(<<Head(batch)>>, outcome)
         /\ rejected' = IF outcome = "stored" THEN rejected
                        ELSE rejected \union {Head(batch)}
    /\ batch' = Tail(batch)
    /\ consumer' = IF Len(batch) = 1 THEN Settled ELSE "rows"
    /\ UNCHANGED <<attached, stage, pipe, stopping, logged, admitted, full, late>>

-----------------------------------------------------------------------------
(* stop_db_log_sink *)

\* Detach the handler, then await queue.put(_SENTINEL): with room in the queue
\* the put does not give up control, without it the task waits for room.
Stop == /\ stage = "running"
        /\ attached' = FALSE
        /\ IF Len(queue) < QueueMax
           THEN stage' = "awaiting" /\ queue' = Append(queue, Sentinel)
           ELSE stage' = "putting" /\ UNCHANGED queue
        /\ UNCHANGED <<ready, work, written, history>>

\* The waiting put finds room; an _enqueue may have taken it before.
StopPut == /\ stage = "putting"
           /\ Len(queue) < QueueMax
           /\ queue' = Append(queue, Sentinel)
           /\ stage' = "awaiting"
           /\ UNCHANGED <<attached, ready, work, written, history>>

\* await _consumer_task has returned; the module's globals are reset.
StopFinish == /\ stage = "awaiting"
              /\ consumer = "done"
              /\ stage' = "stopped"
              /\ consumer' = "none"
              /\ queue' = <<>>
              /\ UNCHANGED <<attached, ready, batch, stopping, written, history>>

\* The lifespan is over and the loop has run what was scheduled on it.
Stopped == stage = "stopped" /\ ready = <<>> /\ UNCHANGED vars

Next == \/ Start
        \/ \E x \in Records : Sink(x)
        \/ Enqueue
        \/ Take
        \/ WriteBatch
        \/ WriteRow
        \/ Stop
        \/ StopPut
        \/ StopFinish
        \/ Stopped

\* The event loop runs every callback and task that can run, and every
\* transaction ends.  Nothing obliges a thread to log or the server to stop.
Fairness == /\ WF_vars(Enqueue)
            /\ WF_vars(Take)
            /\ WF_vars(WriteBatch)
            /\ WF_vars(WriteRow)
            /\ WF_vars(StopPut)
            /\ WF_vars(StopFinish)

Spec == Init /\ [][Next]_vars /\ Fairness

-----------------------------------------------------------------------------
(* Properties *)

\* The variables stay in their ranges; the queue never exceeds its bound, not
\* even by the sentinel, and no batch exceeds the batch size.
TypeOK ==
    /\ attached \in BOOLEAN /\ stopping \in BOOLEAN
    /\ stage \in {"off", "stopped"} \union Alive
    /\ ready \in Seq(Records)
    /\ queue \in Seq(Records \union {Sentinel}) /\ Len(queue) <= QueueMax
    /\ consumer \in {"none", "get", "write", "rows", "done"}
    /\ batch \in Seq(Records) /\ Len(batch) <= BatchSize
    /\ written \in Seq(Records)
    /\ logged \in Seq(Records)
    /\ admitted \subseteq Records /\ full \subseteq Records
    /\ late \subseteq Records /\ rejected \subseteq Records
    /\ outage \in BOOLEAN /\ unacked \subseteq Records

\* A record ends up in logs.api at most once: "re-inserting every row here creates
\* no duplicates" (_write_rows_individually).  That holds when the batch rolled
\* back, as the comment has it; it is stored twice, and no more often, if the
\* batch was stored and only its answer was lost.
NoDuplicates ==
    \A i, j \in 1..Len(written) : i < j /\ written[i] = written[j] =>
        /\ written[i] \in unacked
        /\ \A k \in j + 1 .. Len(written) : written[k] # written[i]

\* Rows are stored in the order in which they were logged, across batches,
\* failed batches and rows retried one by one: what is stored for the first time
\* was logged after all that was stored before.
LoggingOrder ==
    \A j \in 1..Len(written), l \in 1..Len(logged) :
        /\ written[j] = logged[l]
        /\ \A i \in 1..j - 1 : written[i] # written[j]
        => \A i \in 1..j - 1, k \in 1..Len(logged) : written[i] = logged[k] => k < l

\* No record disappears without a trace: it is still on its way, stored, or
\* dropped for one of the three reasons the module's comments admit.
Accounted ==
    ToSet(logged) \subseteq
        ToSet(ready) \union ToSet(queue) \union ToSet(batch) \union ToSet(written)
            \union full \union late \union rejected

\* When stop_db_log_sink returns, everything queued ahead of the sentinel is in
\* the database, except rows whose own insert failed.
FlushedAtStop ==
    stage = "stopped" => admitted \subseteq ToSet(written) \union rejected

\* "At most the single offending row is lost instead of the whole batch": while
\* the database is up a row is rejected only for what is wrong with itself, and
\* all that can still be wrong after the conversion is a character without UTF-8
\* in a text or a number that is not finite in the extra bag.
OnlyOffendersLost ==
    ~outage => \A x \in rejected : \/ "surrogate" \in content[x].message \union content[x].module
                                    \/ "nonfinite" \in content[x].extra.flaws

\* stop_db_log_sink returns, even if it found the queue full of records and
\* records that were scheduled before compete with the sentinel for the room.
StopReturns == (stage \in {"putting", "awaiting"}) ~> (stage = "stopped")

\* A record that made it into the queue ahead of the sentinel is eventually
\* stored or reported as dropped.
AdmittedAreSettled ==
    \A x \in Records : (x \in admitted) ~> (x \in ToSet(written) \union rejected)
=============================================================================
