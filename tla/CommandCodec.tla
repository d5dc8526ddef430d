---------------------------- MODULE CommandCodec ----------------------------
(***************************************************************************)
(* A command from the words an operator types to what the satellite reads, *)
(* and an answer on its way back:                                          *)
(*   state-manager/src/interfaces/utils/command_utils.py generate_command  *)
(*   .../obc_gs_interface/commands/python/command_factories.py, __init__.py*)
(*   (pack_command, unpack_command), command_framing.py (multi-pack) and   *)
(*   command_response_callbacks.py, over the C packers in commands/src.    *)
(*                                                                         *)
(* A value that may be missing is a sequence of at most one element.  A    *)
(* call that raises returns <<>>, and so does one that prints why not.     *)
(***************************************************************************)
EXTENDS Integers, Sequences, SequencesExt

CONSTANTS Octet, Half, Word,      \* 2^8, 2^16 and 2^32, scaled down
          RS_DECODED_DATA_SIZE    \* bytes of a block: 223, scaled down

ASSUME CodecAssumption == /\ {Octet, Half, Word} \subseteq Nat \ {0}
                          /\ Octet < Half /\ Half < Word
                          /\ RS_DECODED_DATA_SIZE \in Nat /\ RS_DECODED_DATA_SIZE > 12

CmdCallbackId == 0 .. 13     \* the choices of -c, in the order of the enum
CMD_EXEC_OBC_RESET == 1
CMD_RTC_SYNC == 2
CMD_DOWNLINK_LOGS_NEXT_PASS == 3
CMD_SET_PROGRAMMING_SESSION == 8
CMD_DOWNLOAD_DATA == 10
CMD_VERIFY_CRC == 11
CMD_I2C_PROBE == 12
NUM_CMD_CALLBACKS == 13

-----------------------------------------------------------------------------
(* Making a command. *)

\* CmdMsg: time-tagged when there is a time, whatever it is.  c_uint32 wraps.
CmdMsg(id, data, time) ==
    [id |-> id, data |-> data, isTimeTagged |-> time # <<>>,
     timestamp |-> IF time = <<>> THEN 0 ELSE time[1] % Word]

CreateWithoutData(id, time) == <<CmdMsg(id, <<>>, time)>>

CreateRtcSync(t, time) == <<CmdMsg(CMD_RTC_SYNC, <<t % Word>>, time)>>

CreateDownlinkLogsNextPass(level, time) ==
    IF level >= Octet THEN <<>>
    ELSE <<CmdMsg(CMD_DOWNLINK_LOGS_NEXT_PASS, <<level % Octet>>, time)>>

\* The programming commands want a ProgrammingSession, which nobody can type.
ProgrammingSession == {0}

CreateSetProgrammingSession(session, time) ==
    <<CmdMsg(CMD_SET_PROGRAMMING_SESSION, <<session>>, time)>>

CreateDownloadData(session, length, address, time) ==
    IF length >= Half \/ address >= Word THEN <<>>
    ELSE <<CmdMsg(CMD_DOWNLOAD_DATA, <<session, length % Half, address % Word>>, time)>>

\* COMMAND_FACTORIES[id](*args): args are what generate_command passes, an
\* argument of the command and the timestamp, or the timestamp alone.  It raises
\* for an id that has no factory, for one argument too many and for an argument
\* that is None or no session.
Call(id, args) ==
    LET arg == args[1]
        time == IF Len(args) = 2 THEN args[2] ELSE <<>>
    IN  CASE id \in {CMD_SET_PROGRAMMING_SESSION, CMD_DOWNLOAD_DATA, NUM_CMD_CALLBACKS} -> <<>>
          [] id = CMD_RTC_SYNC -> IF arg = <<>> THEN <<>> ELSE CreateRtcSync(arg[1], time)
          [] id = CMD_DOWNLINK_LOGS_NEXT_PASS ->
               IF arg = <<>> THEN <<>> ELSE CreateDownlinkLogsNextPass(arg[1], time)
          [] OTHER -> IF Len(args) = 1 THEN CreateWithoutData(id, arg) ELSE <<>>

\* What can be typed: -c, and -lnp, -rtc and -t if they are given.
Args(values) == [command : CmdCallbackId, lnp : SeqOf(values, 1), rtc : SeqOf(values, 1),
                 timestamp : SeqOf(values, 1)]
Options(a) == a.lnp \o a.rtc

\* Mutant: the timestamp is left out when there is another argument.
GenerateCommandNow(a) ==
    CASE Len(Options(a)) = 2 -> <<>>
      [] Len(Options(a)) = 1 -> Call(a.command, <<Options(a), <<>>>>)
      [] OTHER -> Call(a.command, <<a.timestamp>>)

\* generate_command: the parsers of -lnp and of -rtc take the option with any
\* command, and neither takes both; the general parser takes neither.
GenerateCommand(a) ==
    CASE Len(Options(a)) = 2 -> <<>>
      [] Len(Options(a)) = 1 -> Call(a.command, <<Options(a), a.timestamp>>)
      [] OTHER -> Call(a.command, <<a.timestamp>>)

\* The flag that generate_command returns beside the command.
IsTimeTagged(a) == a.timestamp # <<>> /\ a.timestamp[1] > 0

-----------------------------------------------------------------------------
(* Packing.  A packed command is the sequence of its bytes <<m, i>>; the zero *)
(* that fills a block is <<>>.                                                *)

Fill == <<>>

\* One byte for the id and its tag, four for the timestamp, and the data.
PackedSize(id) ==
    5 + (CASE id = CMD_RTC_SYNC -> 4
           [] id = CMD_DOWNLINK_LOGS_NEXT_PASS -> 1
           [] id = CMD_SET_PROGRAMMING_SESSION -> 1
           [] id = CMD_DOWNLOAD_DATA -> 7
           [] OTHER -> 0)

\* CMD_END_OF_FRAME has no packer.
PackCommand(m) == IF m.id = 0 THEN <<>> ELSE [i \in 1 .. PackedSize(m.id) |-> <<m, i>>]

Ljust(data) == data \o [i \in 1 .. RS_DECODED_DATA_SIZE - Len(data) |-> Fill]

\* Mutant: a block may be filled to its last byte.
CommandMultiPackFull(ms) ==
    LET Add(a, m) == LET p == PackCommand(m) IN
                     IF Len(a.data \o p) > RS_DECODED_DATA_SIZE
                     THEN [blocks |-> Append(a.blocks, Ljust(a.data)), data |-> p]
                     ELSE [a EXCEPT !.data = @ \o p]
        all == FoldLeft(Add, [blocks |-> <<>>, data |-> <<>>], ms)
    IN  IF all.data = <<>> THEN all.blocks ELSE Append(all.blocks, Ljust(all.data))

\* command_multi_pack: the last byte of a block is not used.
CommandMultiPack(ms) ==
    LET Add(a, m) == LET p == PackCommand(m) IN
                     IF Len(a.data \o p) > RS_DECODED_DATA_SIZE - 1
                     THEN [blocks |-> Append(a.blocks, Ljust(a.data)), data |-> p]
                     ELSE [a EXCEPT !.data = @ \o p]
        all == FoldLeft(Add, [blocks |-> <<>>, data |-> <<>>], ms)
    IN  IF all.data = <<>> THEN all.blocks ELSE Append(all.blocks, Ljust(all.data))

\* unpack_command, from the byte at o on.  It stops at a zero where a command
\* would begin and raises an IndexError when there is no byte: the list then
\* ends with Overrun.
Overrun == [id |-> NUM_CMD_CALLBACKS]
UnpackCommand(block) ==
    LET from[o \in 1 .. RS_DECODED_DATA_SIZE + 12] ==
          CASE o > Len(block) -> <<Overrun>>
            [] o <= Len(block) /\ block[o] = Fill -> <<>>
            [] OTHER -> <<block[o][1]>> \o from[o + PackedSize(block[o][1].id)]
    IN  from[1]

-----------------------------------------------------------------------------
(* Answers.  An answer is packed as its id, error code, data length and data, *)
(* each a byte.                                                               *)

\* unpack_command_response, of which the buffer is filled up with zeros.
UnpackCommandResponse(bytes) ==
    LET at(i) == IF i <= Len(bytes) THEN bytes[i] ELSE 0 IN
    IF at(1) >= NUM_CMD_CALLBACKS THEN <<>>
    ELSE <<[cmdId |-> at(1), errCode |-> at(2), dataLen |-> at(3),
            data |-> [i \in 1 .. RS_DECODED_DATA_SIZE - 3 |-> at(i + 3)]]>>

\* parse_func_dict: the bytes of the data that make the value of the answer.
Parsed(r) ==
    CASE r.cmdId \in {CMD_RTC_SYNC, CMD_VERIFY_CRC} -> SubSeq(r.data, 1, 4)
      [] r.cmdId = CMD_I2C_PROBE -> SubSeq(r.data, 1, r.dataLen)
      [] OTHER -> <<>>

\* CmdRes and its children, of which each has one field more.
CmdRes(r, value) == [cmd_id |-> r.cmdId, error_code |-> r.errCode,
                     response_length |-> r.dataLen, value |-> value]

ParseCommandResponse(bytes) ==
    LET r == UnpackCommandResponse(bytes) IN
    IF r = <<>> THEN <<>> ELSE <<CmdRes(r[1], Parsed(r[1]))>>
=============================================================================
