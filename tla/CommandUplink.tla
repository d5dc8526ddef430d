--------------------------- MODULE CommandUplink ---------------------------
(***************************************************************************)
(* Commands on their way into blocks and out of them: typed by an operator *)
(* (generate_command) or made by a program, packed by command_multi_pack   *)
(* and read by unpack_command, of which the satellite has the like.        *)
(***************************************************************************)
EXTENDS CommandCodec

CONSTANTS Values,    \* what can be typed for a number
          MaxBatch   \* bound: commands packed together

ASSUME UplinkAssumption == Values \subseteq Int /\ MaxBatch \in Nat

VARIABLES
  typed,    \* what the operator typed, <<>> for a program
  batch,    \* the commands to pack
  blocks,   \* the blocks they were packed into
  read      \* the commands read from the blocks

uplinkVars == <<typed, batch, blocks, read>>

UplinkInit == typed = <<>> /\ batch = <<>> /\ blocks = <<>> /\ read = <<>>

TypeCommand(a) ==
    /\ batch = <<>>
    /\ GenerateCommand(a) # <<>>
    /\ typed' = <<a>>
    /\ batch' = GenerateCommand(a)
    /\ UNCHANGED <<blocks, read>>

\* A program packs commands of any of the four sizes, to be executed at once.
Commands ==
    UNION ({Range(CreateWithoutData(CMD_EXEC_OBC_RESET, <<>>)), Range(CreateRtcSync(0, <<>>))}
             \union {Range(CreateSetProgrammingSession(s, <<>>)) : s \in ProgrammingSession}
             \union {Range(CreateDownloadData(s, Half - 1, Word - 1, <<>>)) : s \in ProgrammingSession})

MakeCommand(m) ==
    /\ typed = <<>> /\ blocks = <<>> /\ Len(batch) < MaxBatch
    /\ batch' = Append(batch, m)
    /\ UNCHANGED <<typed, blocks, read>>

\* pack_command raises for a command without a packer, and that is the end.
Pack ==
    /\ batch # <<>> /\ blocks = <<>>
    /\ IF \E m \in Range(batch) : PackCommand(m) = <<>>
       THEN typed' = <<>> /\ batch' = <<>> /\ UNCHANGED blocks
       ELSE blocks' = CommandMultiPack(batch) /\ UNCHANGED <<typed, batch>>
    /\ UNCHANGED read

Unpack ==
    /\ blocks # <<>> /\ read = <<>>
    /\ read' = FlattenSeq([i \in 1 .. Len(blocks) |-> UnpackCommand(blocks[i])])
    /\ UNCHANGED <<typed, batch, blocks>>

NextBatch ==
    /\ read # <<>>
    /\ typed' = <<>> /\ batch' = <<>> /\ blocks' = <<>> /\ read' = <<>>

UplinkNext == \/ \E a \in Args(Values) : TypeCommand(a)
              \/ \E m \in Commands : MakeCommand(m)
              \/ Pack \/ Unpack \/ NextBatch

UplinkSpec == UplinkInit /\ [][UplinkNext]_uplinkVars

-----------------------------------------------------------------------------
(* Properties *)

Wrapped(v, width) == [i \in 1 .. Len(v) |-> v[i] % width]

\* What the satellite reads is what the operator typed: the command, its argument
\* and its time, of which one out of range wraps and one in range is kept; and
\* send_command does not wait for the answer of a command that was put off.  The
\* exception is an argument that was left out: the time of -t takes its place,
\* the command is executed at once, and nobody waits for the answer.
TypedIsExecuted ==
    typed # <<>> /\ read # <<>> =>
       LET a == typed[1]
           m == read[1]
           leftOut == a.command \in {CMD_RTC_SYNC, CMD_DOWNLINK_LOGS_NEXT_PASS} /\ Options(a) = <<>>
           width == IF m.id = CMD_RTC_SYNC THEN Word ELSE Octet
       IN  /\ Len(read) = 1 /\ m.id = a.command
           /\ IF leftOut
              THEN ~m.isTimeTagged /\ m.data = Wrapped(a.timestamp, width)
              ELSE /\ m.data = Wrapped(Options(a), width)
                   /\ m.isTimeTagged <=> a.timestamp # <<>>
                   /\ m.isTimeTagged => <<m.timestamp>> = Wrapped(a.timestamp, Word)
                   /\ IsTimeTagged(a) => m.isTimeTagged

\* However many commands are packed, of whatever sizes: the blocks give them
\* back in order, and none is read beyond its end.
BlocksUnpack == read # <<>> => read = batch
=============================================================================
