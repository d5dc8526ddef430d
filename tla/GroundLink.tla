----------------------------- MODULE GroundLink -----------------------------
(***************************************************************************)
(* The serial port between the ground and the satellite's radio:           *)
(*   state-manager/src/interfaces/utils/command_utils.py                   *)
(*   send_command and send_conn_request, each of which opens the port,     *)
(*   writes a frame and reads once, and poll, which reads in another thread*)
(* Neither end numbers anything, and a read takes the bytes that are there.*)
(*                                                                         *)
(* External: pyserial, which empties the input when it opens a port and    *)
(* does not keep others from opening it; and the board, which answers in a *)
(* frame or, from its bootloader, without one, late or never.              *)
(***************************************************************************)
EXTENDS CommandCodec, FiniteSets

CONSTANTS Inputs,    \* what the operator types
          Strays,    \* first bytes of a text, or of what is left of an answer
          Chunks,    \* bound: pieces that an answer arrives in
          MaxSent,   \* bound: frames written
          MaxLine    \* bound: pieces received and not made anything of

ASSUME LinkAssumption == /\ \A a \in Inputs : a.command \in CmdCallbackId
                         /\ Strays \subseteq Nat
                         /\ Chunks \in Nat /\ Chunks >= 2
                         /\ MaxSent \in Nat /\ MaxLine \in Nat

VARIABLES
  sent,     \* sent[n]: the id of the n-th frame written, Connect for a request
  board,    \* frames that reached the board and are to be answered
  half,     \* the answer that the board is in the middle of, and how far it is
  line,     \* the input of the port: what was received and not read
  call,     \* the send_command or send_conn_request that is under way
  polling,  \* is poll in its loop?
  polled,   \* what the read of poll has gathered
  got       \* history: what a call has returned in the last step

linkVars == <<sent, board, half, line, call, polling, polled, got>>

Connect == -1
NoCall == [step |-> "idle", id |-> 0, waits |-> FALSE, late |-> {}, bytes |-> <<>>]
NoAnswer == [of |-> 0, part |-> "text", at |-> 0]
PortOpen == polling \/ call.step # "idle"

\* What a call returns, or None; `of' is the frame of which it is the whole
\* answer, and 0 when it was made of bytes that are not a whole answer.
Nothing == [of |-> 0, answer |-> <<>>]
NoReply == [owed |-> {}, of |-> 0, answer |-> <<>>]
Reply(owed, r) == [owed |-> owed, of |-> r.of, answer |-> r.answer]

\* The k-th piece of the answer to frame n.  A piece has a flag in it or not: a
\* frame has one at each end and, being stuffed, none between.  Elsewhere a
\* flag is a byte like any other (in a text it is a tilde), but not the id that
\* an answer begins with.
Chunk(n, part, k, flag) == [of |-> n, part |-> part, at |-> k, flag |-> flag]
MayFlag(part, k) == CASE part = "frame" -> {k \in {1, Chunks}}
                      [] part = "raw" /\ k = 1 -> {FALSE}
                      [] OTHER -> BOOLEAN

LinkInit == /\ sent = <<>>
            /\ board = {}
            /\ half = NoAnswer
            /\ line = <<>>
            /\ call = NoCall
            /\ polling = FALSE
            /\ polled = <<>>
            /\ got = NoReply

-----------------------------------------------------------------------------
(* The line and the board. *)

\* What arrives while nobody has the port open is dropped.
Arrive(piece) ==
    IF PortOpen
    THEN /\ Len(line) + Len(call.bytes) + Len(polled) < MaxLine
         /\ line' = Append(line, piece)
    ELSE UNCHANGED line

AnswerBegins(n, part) ==
    /\ n \in board /\ half = NoAnswer
    /\ part = "raw" => sent[n] # Connect
    /\ \E flag \in MayFlag(part, 1) : Arrive(Chunk(n, part, 1, flag))
    /\ board' = board \ {n}
    /\ half' = [of |-> n, part |-> part, at |-> 1]
    /\ UNCHANGED <<sent, call, polling, polled>>

AnswerGoesOn ==
    /\ half # NoAnswer
    /\ LET k == half.at + 1 IN
       /\ \E flag \in MayFlag(half.part, k) : Arrive(Chunk(half.of, half.part, k, flag))
       /\ half' = IF k = Chunks THEN NoAnswer ELSE [half EXCEPT !.at = k]
    /\ UNCHANGED <<sent, board, call, polling, polled>>

\* Text of the other tasks of the board, or a part of one.
Log == /\ half = NoAnswer /\ PortOpen
       /\ \E flag \in MayFlag("text", 0) : Arrive(Chunk(0, "text", 0, flag))
       /\ UNCHANGED <<sent, board, half, call, polling, polled>>

\* The data that the board puts into its answer.
DataOf(id) == CASE id \in {CMD_RTC_SYNC, CMD_VERIFY_CRC} -> <<1, 2, 3, 4>>
                [] id = CMD_I2C_PROBE -> <<5, 6>>
                [] OTHER -> <<>>

\* packCmdResponse: id, error code, length and data.
AnswerOf(id) == <<id, 1, Len(DataOf(id))>> \o DataOf(id)

-----------------------------------------------------------------------------
(* What was read, the sequence s: from the first flag to the last it is taken *)
(* for a frame, and as it is when there is no flag.                           *)

FlagsIn(s) == {i \in 1 .. Len(s) : s[i].flag}

\* The frames whose answer the slice is: one, or none when it is a piece of a
\* frame, more than one or none at all.
FramesIn(s) ==
    {n \in 1 .. Len(sent) : \E i, j \in FlagsIn(s) :
        /\ \A k \in FlagsIn(s) : i <= k /\ k <= j
        /\ SubSeq(s, i, j) = [k \in 1 .. Chunks |-> Chunk(n, "frame", k, k \in {1, Chunks})]}

\* Bytes outside a frame need not be a text, and then they raise.
Outside(s) == FramesIn(s) = {} \/ Len(s) > Chunks

\* The frames of which s begins with the whole answer, without a frame.
WholeIn(s) == {n \in 1 .. Len(sent) : /\ Len(s) >= Chunks
                                      /\ \A k \in 1 .. Chunks : s[k] = Chunk(n, "raw", k, FALSE)}

\* The first byte of s decides what an answer is made of it: the id of an answer
\* that begins there, any byte in a text or from the middle of an answer, and
\* zero when there is none.
FirstByte(s) ==
    CASE s = <<>> -> {0}
      [] s # <<>> /\ s[1].part = "raw" /\ s[1].at = 1 -> {sent[s[1].of]}
      [] OTHER -> Strays

Answered(n) == [of |-> n, answer |-> ParseCommandResponse(AnswerOf(sent[n]))]

\* What is no whole answer has its first byte in common with what is read; the
\* others, which are zeros or whatever follows, are left out.
Unframed(s) ==
    IF WholeIn(s) # {} THEN {Answered(n) : n \in WholeIn(s)}
    ELSE {[of |-> 0, answer |-> ParseCommandResponse(<<b>>)] : b \in FirstByte(s)}

-----------------------------------------------------------------------------
(* send_command and send_conn_request. *)

\* Mutant: the port is kept open from one call to the next, or not emptied.
OpenKeepsInput == UNCHANGED line

\* Serial(com_port, ...)
Open == line' = <<>>

\* The call has the port open; no answer of the past is its own.
Begin(id, waits) ==
    /\ call.step = "idle" /\ Len(sent) < MaxSent
    /\ call' = [NoCall EXCEPT !.step = "write", !.id = id, !.waits = waits, !.late = board]
    /\ Open
    /\ UNCHANGED <<sent, board, half, polling, polled>>

\* send_command up to reset_output_buffer.  It raises before it opens the port
\* if the command cannot be made or packed.
SendCommand(a) == \E m \in Range(GenerateCommand(a)) : /\ CommandMultiPack(<<m>>) # <<>>
                                                       /\ Begin(m.id, ~IsTimeTagged(a))

SendConnRequest == Begin(Connect, TRUE)

\* The frame reaches the board or does not.
Write ==
    /\ call.step = "write"
    /\ sent' = Append(sent, call.id)
    /\ board' \in {board, board \union {Len(sent) + 1}}
    /\ call' = [call EXCEPT !.step = "read"]
    /\ UNCHANGED <<half, line, polling, polled>>

\* ser.read takes what is there: once with a timeout of zero, if at all, and
\* as often as something comes until a longer timeout is over.
Gather ==
    /\ call.step = "read" /\ line # <<>>
    /\ call' = [call EXCEPT !.bytes = @ \o line]
    /\ line' = <<>>
    /\ UNCHANGED <<sent, board, half, polling, polled>>

\* A connection request returns any frame; a command wants one with data, which
\* the frame that accepts a connection has not.
Framed(s) ==
    IF call.id = Connect
    THEN {[of |-> n, answer |-> <<[cmd_id |-> sent[n], value |-> DataOf(sent[n])]>>] : n \in FramesIn(s)}
    ELSE {Answered(n) : n \in {k \in FramesIn(s) : sent[k] # Connect}}

\* What the call makes of what it read; None also when it raises.  Nothing is made
\* of it by a time-tagged command, nor by a reset, which returns a constant.
Outcomes(s) ==
    CASE call.id = CMD_EXEC_OBC_RESET \/ ~call.waits -> {Nothing}
      [] call.id # CMD_EXEC_OBC_RESET /\ call.waits /\ (call.id = Connect \/ FlagsIn(s) # {}) ->
           Framed(s) \union (IF Outside(s) \/ Framed(s) = {} THEN {Nothing} ELSE {})
      [] OTHER -> Unframed(s)

\* The rest of the call, which closes the port.
Read ==
    /\ call.step = "read"
    /\ \E r \in Outcomes(call.bytes) : got' = Reply(call.late \union {Len(sent)}, r)
    /\ call' = NoCall
    /\ line' = IF polling THEN line ELSE <<>>
    /\ UNCHANGED <<sent, board, half, polling, polled>>

-----------------------------------------------------------------------------
(* poll. *)

PollStart ==
    /\ ~polling
    /\ polling' = TRUE
    /\ Open
    /\ UNCHANGED <<sent, board, half, call, polled>>

PollGather ==
    /\ polling /\ line # <<>>
    /\ polled' = polled \o line
    /\ line' = <<>>
    /\ UNCHANGED <<sent, board, half, call, polling>>

\* The rest of a turn of the loop.  A slice that is not a frame ends the thread
\* with an error, and so do bytes that are no text; the frame of a connection
\* request has no data and is passed over.
PollTurn ==
    /\ polling /\ polled # <<>>
    /\ \/ (FlagsIn(polled) # {} => FramesIn(polled) # {}) /\ polling' = TRUE
       \/ Outside(polled) /\ polling' = FALSE
    /\ polled' = <<>>
    /\ line' = IF polling' \/ call.step # "idle" THEN line ELSE <<>>
    /\ UNCHANGED <<sent, board, half, call>>

PollStop ==
    /\ polling /\ polled = <<>>
    /\ polling' = FALSE
    /\ line' = IF call.step # "idle" THEN line ELSE <<>>
    /\ UNCHANGED <<sent, board, half, call, polled>>

\* Every step but the one that returns something.
Others == \/ \E n \in board : AnswerBegins(n, "frame") \/ AnswerBegins(n, "raw")
          \/ AnswerGoesOn \/ Log
          \/ \E a \in Inputs : SendCommand(a)
          \/ SendConnRequest \/ Write \/ Gather
          \/ PollStart \/ PollGather \/ PollTurn \/ PollStop

LinkNext == Read \/ (Others /\ got' = NoReply)

LinkSpec == LinkInit /\ [][LinkNext]_linkVars

-----------------------------------------------------------------------------
(* Properties *)

\* Whatever a call takes a whole answer for, in a frame or without one, is the
\* answer to its own frame, or to one that the board had not begun to answer
\* when the call opened the port, with the data that the board put into it: in
\* spite of answers that are late, torn over two calls or shared with poll.
AnswersMatch ==
    got.of # 0 =>
       /\ got.of \in got.owed
       /\ \A r \in Range(got.answer) :
             /\ r.cmd_id = sent[got.of]
             /\ r.value = DataOf(sent[got.of])

\* send_command: "A decoded frame if command is valid and has a response else
\* None".  No answer is made of no bytes at all, of a text or of a torn answer.
DecodedOrNone == got.answer # <<>> => got.of # 0
=============================================================================
