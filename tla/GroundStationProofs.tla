------------------------ MODULE GroundStationProofs ------------------------
(***************************************************************************)
(* Proofs about the parts of the state manager: the state machine          *)
(* (GsStateMachine), damaged frames (FramePipeline), the serial line       *)
(* (GroundLink), the bits between two flags (Ax25Framing), commands on     *)
(* their way into blocks and out of them (CommandUplink), and the parts    *)
(* side by side (GroundStation).                                           *)
(***************************************************************************)
EXTENDS GroundStation, TLAPS, FiniteSetTheorems, SequenceTheorems, NaturalsInduction, WellFoundedInduction

-----------------------------------------------------------------------------
(* The state machine, for any sequence of events.  The inductive invariant *)
(* says what has been heard in each state of a contact: an emergency and   *)
(* the opening of a normal one are chains, and the working states lie      *)
(* behind the end of the second.                                           *)

\* What is heard on the way to each state.
MachineInv ==
    /\ State \in MachineStates
    /\ State \in {"Disconnected", "ServerSideError"} => heard = {}
    /\ State = "AttemptingConnection" => heard = {"BeginUplink"}
    /\ State = "AwaitingAck" => heard = {"BeginUplink", "ConnectionEstablished"}
    /\ State \in Working \union Parting =>
          /\ {"BeginUplink", "ConnectionEstablished", "AckReceived"} \subseteq heard
          /\ "EnterEmergency" \notin heard
    /\ State = "EnteringEmergency" => heard = {"EnterEmergency"}
    /\ State = "AwaitingConnection" => heard = {"EnterEmergency", "EmergencyInitiated"}
    /\ State = "SendConnectionAck" =>
          heard = {"EnterEmergency", "EmergencyInitiated", "ConnectionReceived"}
    /\ State = "EmergencyUplink" =>
          heard = {"EnterEmergency", "EmergencyInitiated", "ConnectionReceived", "ConnectionAckSent"}

\* Every event either is one of the named cases, or ends the contact, or fails:
\* this is what SwitchState comes to when it is unfolded.
LEMMA SwitchedMeaning ==
    ASSUME NEW e \in TransitionStates, State \in MachineStates, SwitchState(e)
    PROVE  \/ <<State, e, State'>> \in Cases
           \/ State \notin {"Disconnected", "ServerSideError"} /\ State' = "Disconnected"
           \/ State' = "ServerSideError"
<1>1. PICK t \in MachineStates : Switched(State, e, t) /\ State' = t
  BY DEF SwitchState
<1>2. CASE Targets(State, e) # {}
  <2>1. t \in Targets(State, e)
    BY <1>1, <1>2 DEF Switched
  <2>2. PICK c \in Cases : c[1] = State /\ c[2] = e /\ c[3] = t
    BY <2>1 DEF Targets
  <2>3. c = <<c[1], c[2], c[3]>>
    BY DEF Cases
  <2> QED BY <1>1, <2>2, <2>3
<1>3. CASE Targets(State, e) = {}
  BY <1>1, <1>3 DEF Switched
<1> QED BY <1>2, <1>3

\* The thirteen cases, one by one.
LEMMA CasesMeaning ==
    ASSUME NEW s, NEW e, NEW t, <<s, e, t>> \in Cases
    PROVE  \/ s = "Disconnected" /\ e = "EnterEmergency" /\ t = "EnteringEmergency"
           \/ s = "Disconnected" /\ e = "BeginUplink" /\ t = "AttemptingConnection"
           \/ s = "AttemptingConnection" /\ e = "ConnectionEstablished" /\ t = "AwaitingAck"
           \/ s = "AwaitingAck" /\ e = "AckReceived" /\ t = "Uplinking"
           \/ s = "Uplinking" /\ e = "UplinkFinished" /\ t = "Downlinking"
           \/ s = "Uplinking" /\ e = "Disconnecting" /\ t = "AwaitingDisconnect"
           \/ s = "AwaitingDisconnect" /\ e = "DisconnectCMDReceived" /\ t = "SendDisconnectAck"
           \/ s = "SendDisconnectAck" /\ e = "DisconnectComplete" /\ t = "Disconnected"
           \/ s = "Downlinking" /\ e = "DownlinkingFinished" /\ t = "Uplinking"
           \/ s = "EnteringEmergency" /\ e = "EmergencyInitiated" /\ t = "AwaitingConnection"
           \/ s = "AwaitingConnection" /\ e = "ConnectionReceived" /\ t = "SendConnectionAck"
           \/ s = "SendConnectionAck" /\ e = "ConnectionAckSent" /\ t = "EmergencyUplink"
           \/ s = "EmergencyUplink" /\ e = "EmergencyUplinkFinished" /\ t = "Disconnected"
  BY DEF Cases

LEMMA MachineInvInductive == MachineSpec => []MachineInv
<1>1. MachineInit => MachineInv
  BY DEF MachineInit, MachineInv, MachineStates, Contacting, Working, Parting, Emergency
<1>2. MachineInv /\ [MachineNext]_machineVars => MachineInv'
  <2> SUFFICES ASSUME MachineInv, [MachineNext]_machineVars PROVE MachineInv'
    OBVIOUS
  <2>1. CASE UNCHANGED machineVars
    BY <2>1 DEF MachineInv, machineVars
  <2>2. CASE MachineNext
    <3>1. PICK e \in TransitionStates : SwitchState(e)
      BY <2>2 DEF MachineNext
    <3>2. State' \in MachineStates
      BY <3>1 DEF SwitchState
    <3>3. heard' = IF State' \in {"Disconnected", "ServerSideError"} THEN {} ELSE heard \union {e}
      BY <3>1 DEF SwitchState
    <3>4. CASE State' \in {"Disconnected", "ServerSideError"}
      BY <3>2, <3>3, <3>4 DEF MachineInv, Working, Parting
    <3>5. CASE State' \notin {"Disconnected", "ServerSideError"}
      <4>1. <<State, e, State'>> \in Cases
        BY <3>1, <3>5, SwitchedMeaning DEF MachineInv
      <4>2. heard' = heard \union {e}
        BY <3>3, <3>5
      <4> QED BY <3>2, <3>5, <4>1, <4>2, CasesMeaning DEF MachineInv, Working, Parting
    <3> QED BY <3>4, <3>5
  <2> QED BY <2>1, <2>2
<1> QED BY <1>1, <1>2, PTL DEF MachineSpec

\* Nothing is sent up before the contact was accepted in the way of its mode.
THEOREM UplinkIsAcknowledged == MachineSpec => []UplinkAcknowledged
<1>1. MachineInv => UplinkAcknowledged
  BY DEF MachineInv, UplinkAcknowledged
<1> QED BY <1>1, MachineInvInductive, PTL

\* A step of the state machine is a step of a contact, or leaves it as it is.
LEMMA StepOfContact ==
    ASSUME MachineInv, [MachineNext]_machineVars
    PROVE  [Contact!Next]_<<Phase, Mode>>
<1>1. CASE UNCHANGED machineVars
  BY <1>1 DEF machineVars, Phase, Mode
<1>2. CASE MachineNext
  <2>1. PICK e \in TransitionStates : SwitchState(e)
    BY <1>2 DEF MachineNext
  <2>2. CASE State' = "ServerSideError"
    BY <2>2 DEF Phase, Mode, Contact!Next, Contact!Fail, Working, Parting, Contacting, Emergency
  <2>3. CASE State \notin {"Disconnected", "ServerSideError"} /\ State' = "Disconnected"
    BY <2>3 DEF MachineInv, MachineStates, Phase, Mode, Contact!Next, Contact!End,
                Working, Parting, Contacting, Emergency
  <2>4. CASE <<State, e, State'>> \in Cases
    <3> USE DEF Phase, Mode, Contact!Next, Working, Parting, Contacting, Emergency
    <3>1. CASE State = "Disconnected"
      BY <2>4, <3>1, CasesMeaning DEF Contact!Begin
    <3>2. CASE State \in {"AttemptingConnection", "EnteringEmergency", "AwaitingConnection"}
      BY <2>4, <3>2, CasesMeaning DEF Contact!Accept
    <3>3. CASE State \in {"AwaitingAck", "SendConnectionAck"}
      BY <2>4, <3>3, CasesMeaning DEF Contact!Establish
    <3>4. CASE State \in {"Uplinking", "Downlinking", "EmergencyUplink"}
      BY <2>4, <3>4, CasesMeaning DEF Contact!Close, Contact!End
    <3>5. CASE State \in {"AwaitingDisconnect", "SendDisconnectAck"}
      BY <2>4, <3>5, CasesMeaning DEF Contact!End
    <3> QED BY <2>4, <3>1, <3>2, <3>3, <3>4, <3>5, CasesMeaning
  <2> QED BY <2>1, <2>2, <2>3, <2>4, SwitchedMeaning DEF MachineInv
<1> QED BY <1>1, <1>2

\* The state machine keeps what GsContact promises: contacts are opened, accepted,
\* used and ended in order, and an error of the server is final.
THEOREM StateMachineImplementsContact == MachineSpec => ImplementsContact
<1>1. MachineInit => Contact!Init
  BY DEF MachineInit, Contact!Init, Phase, Mode, Contacting, Working, Parting, Emergency
<1>2. MachineInv /\ [MachineNext]_machineVars => [Contact!Next]_<<Phase, Mode>>
  BY StepOfContact
<1> QED BY <1>1, <1>2, MachineInvInductive, PTL DEF MachineSpec, ImplementsContact, Contact!Spec

-----------------------------------------------------------------------------
(* Frames, for any payloads, any strength of the error correction and any  *)
(* damage.  The inductive invariant says that damage never changes what a  *)
(* part was made of, only how many of its bytes are wrong: so the checksum *)
(* in the frame is still that of the parts as they were sent, and a frame  *)
(* is accepted exactly if its parts are those.                             *)

Plains == {SABM} \union {Data(d) : d \in Payloads}

\* The parts are those of the frame of what is sent, damaged here and there.
SentParts ==
    /\ DOMAIN air = Parts
    /\ \A p \in Parts : /\ air[p] = [value |-> EncodeFrame(plain)[p].value, damage |-> air[p].damage]
                        /\ air[p].damage \in Nat
    /\ plain = SABM => air.data.damage = 0 /\ air.parity.damage = 0

PipeInv ==
    /\ plain \in Plains \union {None}
    /\ IF plain = None THEN outcome = None ELSE SentParts
    /\ OnlyDataIsCorrected

\* The checksum of the frame that was sent is of its three other parts, whole.
LEMMA SentChecksum ==
    ASSUME NEW p
    PROVE  LET f == EncodeFrame(p) IN
           /\ DOMAIN f = Parts
           /\ \A q \in Parts : f[q] = Whole(f[q].value)
           /\ f.fcs.value = <<f.header, f.data, f.parity>>
BY DEF EncodeFrame, AxEncode, Whole, Parts

\* A frame whose checksum is as it was sent is accepted exactly if it is whole.
LEMMA AcceptsWholeFrames ==
    ASSUME SentParts,
           NEW g, g.header = air.header, g.parity = air.parity, g.fcs = air.fcs
    PROVE  AxAccepts(g) <=> /\ \A q \in {"header", "parity", "fcs"} : air[q].damage = 0
                            /\ g.data = Whole(air.data.value)
<1> DEFINE f == EncodeFrame(plain)
<1>1. /\ g.fcs = [value |-> f.fcs.value, damage |-> air.fcs.damage]
      /\ g.header = [value |-> f.header.value, damage |-> air.header.damage]
      /\ g.parity = [value |-> f.parity.value, damage |-> air.parity.damage]
      /\ air.data.value = f.data.value
  BY DEF SentParts, Parts
<1>2. /\ f.header = Whole(f.header.value) /\ f.parity = Whole(f.parity.value)
      /\ f.data = Whole(f.data.value)
      /\ f.fcs.value = <<f.header, f.data, f.parity>>
  BY SentChecksum DEF Parts
<1>3. AxAccepts(g) <=> /\ air.fcs.damage = 0
                       /\ <<f.header, f.data, f.parity>> = <<g.header, g.data, g.parity>>
  BY <1>1, <1>2 DEF AxAccepts, Whole
<1>4. g.header = f.header <=> air.header.damage = 0
  BY <1>1, <1>2 DEF Whole
<1>5. g.parity = f.parity <=> air.parity.damage = 0
  BY <1>1, <1>2 DEF Whole
<1> QED BY <1>1, <1>2, <1>3, <1>4, <1>5

LEMMA PipeInvInit == PipeInit => PipeInv
BY DEF PipeInit, PipeInv, OnlyDataIsCorrected

LEMMA TransmitPreserves ==
    ASSUME PipeInv, NEW p \in Plains, Transmit(p)
    PROVE  PipeInv'
<1>1. p # None
  BY DEF Plains, None, SABM, Data
<1>2. plain' = p /\ air' = EncodeFrame(p) /\ outcome' = None
  BY DEF Transmit, PipeInv
<1>3. SentParts'
  <2>1. /\ DOMAIN EncodeFrame(p) = Parts
        /\ \A q \in Parts : EncodeFrame(p)[q] = Whole(EncodeFrame(p)[q].value)
    BY SentChecksum
  <2>2. \A q \in Parts : EncodeFrame(p)[q].damage = 0
    BY <2>1 DEF Whole
  <2>3. "data" \in Parts /\ "parity" \in Parts
    BY DEF Parts
  <2> QED BY <1>2, <2>1, <2>2, <2>3 DEF SentParts, Whole
<1> QED BY <1>1, <1>2, <1>3 DEF PipeInv, OnlyDataIsCorrected

LEMMA DamagePreserves ==
    ASSUME PipeInv, NEW part \in Parts, Damage(part)
    PROVE  PipeInv'
<1>1. plain # None /\ outcome = None /\ UNCHANGED <<plain, outcome>> /\ SentParts
  BY DEF Damage, PipeInv
<1>2. air' = [air EXCEPT ![part].damage = @ + 1]
  BY DEF Damage
<1>3. \A q \in Parts : /\ air'[q].damage = IF q = part THEN air[q].damage + 1 ELSE air[q].damage
                       /\ air'[q] = [value |-> EncodeFrame(plain)[q].value, damage |-> air'[q].damage]
  <2> SUFFICES ASSUME NEW q \in Parts
               PROVE  /\ air'[q].damage = IF q = part THEN air[q].damage + 1 ELSE air[q].damage
                      /\ air'[q] = [value |-> EncodeFrame(plain)[q].value, damage |-> air'[q].damage]
    OBVIOUS
  <2>1. air[q] = [value |-> EncodeFrame(plain)[q].value, damage |-> air[q].damage]
    BY <1>1 DEF SentParts
  <2>2. CASE q = part
    <3>1. air'[q] = [air[q] EXCEPT !.damage = @ + 1]
      BY <1>1, <1>2, <2>2 DEF SentParts
    <3> QED BY <2>1, <2>2, <3>1
  <2>3. CASE q # part
    <3>1. air'[q] = air[q]
      BY <1>1, <1>2, <2>3 DEF SentParts
    <3> QED BY <2>1, <2>3, <3>1
  <2> QED BY <2>2, <2>3
<1>4. DOMAIN air' = Parts
  BY <1>1, <1>2 DEF SentParts
<1>5. plain = SABM => part \in {"header", "fcs"}
  BY DEF Damage
<1>6. SentParts'
  BY <1>1, <1>3, <1>4, <1>5 DEF SentParts, Parts
<1> QED BY <1>1, <1>6 DEF PipeInv, OnlyDataIsCorrected

LEMMA ReceivePreserves ==
    ASSUME PipeInv, Receive
    PROVE  PipeInv'
<1> DEFINE whole == \A q \in {"header", "parity", "fcs"} : air[q].damage = 0
           unharmed == Whole(air.data.value)
<1>1. plain # None /\ SentParts /\ UNCHANGED <<plain, air>>
  BY DEF Receive, PipeInv
<1>2. air.data.damage \in Nat /\ air.parity.damage \in Nat
  BY <1>1 DEF SentParts, Parts
<1>3. ASSUME NEW data
      PROVE  LET g == [air EXCEPT !.data = data] IN
             AxAccepts(g) <=> whole /\ data = unharmed
  <2> DEFINE g == [air EXCEPT !.data = data]
  <2>1. g.header = air.header /\ g.parity = air.parity /\ g.fcs = air.fcs /\ g.data = data
    BY <1>1 DEF SentParts, Parts
  <2> HIDE DEF g
  <2>2. AxAccepts(g) <=> whole /\ g.data = unharmed
    BY <1>1, <2>1, AcceptsWholeFrames
  <2> QED BY <2>1, <2>2 DEF g
<1>4. plain = SABM => outcome' = IF whole THEN Taken(None) ELSE Refused
  <2> HAVE plain = SABM
  <2>1. air.data = unharmed
    BY <1>1 DEF SentParts, Parts, Whole
  <2>2. AxAccepts(air) <=> whole
    BY <1>1, <2>1, AcceptsWholeFrames
  <2> QED BY <2>2 DEF Receive
<1>5. plain # SABM =>
        outcome' = IF whole /\ air.data.damage <= Correctable THEN Taken(air.data.value) ELSE Refused
  <2> HAVE plain # SABM
  <2>1. CASE air.data.damage + air.parity.damage <= Correctable
    <3>1. FecDecode(air) = {unharmed}
      BY <2>1 DEF FecDecode
    <3>2. outcome' = IF AxAccepts([air EXCEPT !.data = unharmed]) THEN Taken(unharmed.value) ELSE Refused
      <4>1. ~(air.data.damage + air.parity.damage > Correctable)
        BY <1>2, <2>1, PipelineAssumption
      <4> QED BY <3>1, <4>1 DEF Receive
    <3>3. AxAccepts([air EXCEPT !.data = unharmed]) <=> whole
      BY <1>3
    <3>4. air.data.damage <= Correctable /\ unharmed.value = air.data.value
      BY <1>2, <2>1, PipelineAssumption DEF Whole
    <3> QED BY <3>2, <3>3, <3>4
  <2>2. CASE ~(air.data.damage + air.parity.damage <= Correctable)
    <3>1. unharmed \notin FecDecode(air)
      BY <2>2 DEF FecDecode
    <3>2. outcome' = Refused
      <4>1. CASE \E data \in FecDecode(air) :
                   outcome' = IF AxAccepts([air EXCEPT !.data = data]) THEN Taken(data.value) ELSE Refused
        BY <1>3, <3>1, <4>1
      <4>2. CASE outcome' = Refused
        BY <4>2
      <4> QED BY <4>1, <4>2 DEF Receive
    <3>3. ~(whole /\ air.data.damage <= Correctable)
      BY <1>2, <2>2, PipelineAssumption
    <3> QED BY <3>2, <3>3
  <2> QED BY <2>1, <2>2
<1>6. plain # SABM => air.data.value = Encrypt(plain.data)
  <2> HAVE plain # SABM
  <2>1. EncodeFrame(plain).data.value = Encrypt(plain.data)
    BY DEF EncodeFrame, AxEncode, Whole
  <2> QED BY <1>1, <2>1 DEF SentParts, Parts
<1>7. plain = SABM => air.data.damage <= Correctable
  BY <1>1, PipelineAssumption DEF SentParts
<1>8. OnlyDataIsCorrected'
  BY <1>1, <1>4, <1>5, <1>6, <1>7 DEF OnlyDataIsCorrected
<1>9. SentParts'
  BY <1>1 DEF SentParts
<1> QED BY <1>1, <1>8, <1>9 DEF PipeInv

LEMMA PipeInvNext == PipeInv /\ [PipeNext]_pipeVars => PipeInv'
<1> SUFFICES ASSUME PipeInv, [PipeNext]_pipeVars PROVE PipeInv'
  OBVIOUS
<1>1. ASSUME NEW d \in Payloads, Transmit(Data(d)) PROVE PipeInv'
  BY <1>1, TransmitPreserves DEF Plains
<1>2. CASE Transmit(SABM)
  BY <1>2, TransmitPreserves DEF Plains
<1>3. ASSUME NEW part \in Parts, Damage(part) PROVE PipeInv'
  BY <1>3, DamagePreserves
<1>4. CASE Receive
  BY <1>4, ReceivePreserves
<1>5. CASE Turn
  BY <1>5 DEF Turn, PipeInv, OnlyDataIsCorrected
<1>6. CASE UNCHANGED pipeVars
  BY <1>6 DEF pipeVars, PipeInv, SentParts, OnlyDataIsCorrected
<1> QED BY <1>1, <1>2, <1>3, <1>4, <1>5, <1>6 DEF PipeNext

\* Whatever is damaged, decode_frame returns what was sent or refuses the frame,
\* and it takes exactly the frames whose damage lies within the data and within
\* what Reed-Solomon corrects.
THEOREM DecodedIsWhatWasSent == PipeSpec => []OnlyDataIsCorrected
<1>1. PipeInv => OnlyDataIsCorrected
  BY DEF PipeInv
<1> QED BY <1>1, PipeInvInit, PipeInvNext, PTL DEF PipeSpec

-----------------------------------------------------------------------------
(* The line, for any number of frames, torn into any number of pieces, and *)
(* any inputs.  Nothing numbers the frames, so what a call can read is     *)
(* settled by what the board owed when the call emptied the input: the     *)
(* inductive invariant says that while a call is under way every answer    *)
(* whose beginning it can still read, or has read, is one of those or the  *)
(* call's own.  Without its beginning no piece is taken for an answer of   *)
(* the board.                                                              *)

Ids == CmdCallbackId \union {Connect}

PieceSet == [of : Nat, part : {"frame", "raw", "text"}, at : Nat, flag : BOOLEAN]
CallSet == [step : {"idle", "write", "read"}, id : Ids, waits : BOOLEAN,
            late : SUBSET Nat, bytes : Seq(PieceSet)]

\* The frames whose answers have their beginning in s, or have not begun.
FirstOf(s) == {s[i].of : i \in {k \in 1 .. Len(s) : s[k].at = 1}}
Heard == board \union FirstOf(line) \union FirstOf(call.bytes)

LinkTypes ==
    /\ sent \in Seq(Ids) /\ board \subseteq Nat
    /\ half \in [of : Nat, part : {"frame", "raw", "text"}, at : Nat]
    /\ half # NoAnswer => half.at # 0
    /\ line \in Seq(PieceSet) /\ call \in CallSet

HeardIsOwed ==
    /\ call.step = "write" => Heard \subseteq call.late
    /\ call.step = "read" => Heard \subseteq call.late \union {Len(sent)}

LinkInv == LinkTypes /\ HeardIsOwed /\ AnswersMatch

\* A command keeps the id it was typed with.
LEMMA GeneratedId ==
    ASSUME NEW a, a.command \in CmdCallbackId, NEW m \in Range(GenerateCommand(a))
    PROVE  m.id = a.command
<1> USE DEF CMD_RTC_SYNC, CMD_DOWNLINK_LOGS_NEXT_PASS, CMD_SET_PROGRAMMING_SESSION,
            CMD_DOWNLOAD_DATA, NUM_CMD_CALLBACKS
<1>1. \A e : Range(<<e>>) = {e}
  BY DEF Range
<1>2. Range(<<>>) = {}
  BY DEF Range
<1>3. ASSUME NEW id, NEW args, NEW x \in Range(Call(id, args)) PROVE x.id = id
  <2>1. CASE id \in {CMD_SET_PROGRAMMING_SESSION, CMD_DOWNLOAD_DATA, NUM_CMD_CALLBACKS}
    <3>1. Call(id, args) = <<>>
      BY <2>1 DEF Call
    <3> QED BY <1>2, <1>3, <3>1
  <2>2. CASE id = CMD_RTC_SYNC
    <3>1. \/ Call(id, args) = <<>>
          \/ \E t, time : Call(id, args) = <<CmdMsg(CMD_RTC_SYNC, t, time)>>
      BY <2>2 DEF Call, CreateRtcSync
    <3> QED BY <1>1, <1>2, <1>3, <2>2, <3>1 DEF CmdMsg
  <2>3. CASE id = CMD_DOWNLINK_LOGS_NEXT_PASS
    <3>1. \/ Call(id, args) = <<>>
          \/ \E level, time : Call(id, args) = <<CmdMsg(CMD_DOWNLINK_LOGS_NEXT_PASS, level, time)>>
      BY <2>3 DEF Call, CreateDownlinkLogsNextPass
    <3> QED BY <1>1, <1>2, <1>3, <2>3, <3>1 DEF CmdMsg
  <2>4. CASE id \notin {CMD_SET_PROGRAMMING_SESSION, CMD_DOWNLOAD_DATA, NUM_CMD_CALLBACKS,
                        CMD_RTC_SYNC, CMD_DOWNLINK_LOGS_NEXT_PASS}
    <3>1. \/ Call(id, args) = <<>>
          \/ \E time : Call(id, args) = <<CmdMsg(id, <<>>, time)>>
      BY <2>4 DEF Call, CreateWithoutData
    <3> QED BY <1>1, <1>2, <1>3, <3>1 DEF CmdMsg
  <2> QED BY <2>1, <2>2, <2>3, <2>4
<1> QED BY <1>2, <1>3 DEF GenerateCommand

\* The bytes of an answer make that answer again, whichever command it is of.
LEMMA AnswerParses ==
    ASSUME NEW id \in Ids, NEW r \in Range(ParseCommandResponse(AnswerOf(id)))
    PROVE  r.cmd_id = id /\ r.value = DataOf(id)
<1> DEFINE bytes == AnswerOf(id)
           d == DataOf(id)
           at(i) == IF i <= Len(bytes) THEN bytes[i] ELSE 0
           data == [i \in 1 .. RS_DECODED_DATA_SIZE - 3 |-> at(i + 3)]
<1> USE DEF CMD_RTC_SYNC, CMD_VERIFY_CRC, CMD_I2C_PROBE, NUM_CMD_CALLBACKS, CmdCallbackId, Ids, Connect
<1>a. Len(d) = 0 \/ Len(d) = 2 \/ Len(d) = 4
  <2>1. Len(<<1, 2, 3, 4>>) = 4 /\ Len(<<5, 6>>) = 2 /\ Len(<<>>) = 0
    OBVIOUS
  <2>2. d = <<1, 2, 3, 4>> \/ d = <<5, 6>> \/ d = <<>>
    BY DEF DataOf
  <2> QED BY <2>1, <2>2
<1>1. /\ d \in Seq(Int)
      /\ id \in {CMD_RTC_SYNC, CMD_VERIFY_CRC} => d = <<1, 2, 3, 4>>
      /\ id = CMD_I2C_PROBE => d = <<5, 6>>
      /\ id \notin {CMD_RTC_SYNC, CMD_VERIFY_CRC, CMD_I2C_PROBE} => d = <<>>
  <2>1. <<1, 2, 3, 4>> \in Seq(Int) /\ <<5, 6>> \in Seq(Int) /\ <<>> \in Seq(Int)
    OBVIOUS
  <2>3. /\ id \in {CMD_RTC_SYNC, CMD_VERIFY_CRC} => d = <<1, 2, 3, 4>>
        /\ id = CMD_I2C_PROBE => d = <<5, 6>>
        /\ id \notin {CMD_RTC_SYNC, CMD_VERIFY_CRC, CMD_I2C_PROBE} => d = <<>>
    BY DEF DataOf
  <2> QED BY <2>1, <2>3
<1>2. /\ bytes \in Seq(Int) /\ Len(bytes) = 3 + Len(d)
      /\ bytes[1] = id /\ bytes[2] = 1 /\ bytes[3] = Len(d)
      /\ \A i \in 1 .. Len(d) : bytes[3 + i] = d[i]
  <2> HIDE DEF d
  <2>1. \A n \in Nat : <<id, 1, n>> \in Seq(Int)
    OBVIOUS
  <2>2. PICK head \in Seq(Int) : head = <<id, 1, Len(d)>>
    BY <1>a, <2>1
  <2>3. Len(head) = 3 /\ head[1] = id /\ head[2] = 1 /\ head[3] = Len(d)
    BY <2>2
  <2>4. bytes = head \o d
    BY <2>2 DEF AnswerOf, d
  <2>5. d \in Seq(Int) /\ Len(d) \in Nat
    BY <1>1, <1>a
  <2>6. /\ head \o d \in Seq(Int) /\ Len(head \o d) = Len(head) + Len(d)
        /\ \A i \in 1 .. Len(head) + Len(d) :
              (head \o d)[i] = IF i <= Len(head) THEN head[i] ELSE d[i - Len(head)]
    BY <2>5, ConcatProperties
  <2>7. \A i \in 1 .. Len(d) : 3 + i \in 1 .. 3 + Len(d) /\ ~(3 + i <= 3) /\ (3 + i) - 3 = i
    BY <2>5
  <2>8. \A i \in 1 .. 3 : i \in 1 .. 3 + Len(d) /\ i <= 3
    BY <2>5
  <2> HIDE DEF bytes
  <2> QED BY <2>3, <2>4, <2>5, <2>6, <2>7, <2>8
<1> HIDE DEF bytes, d
<1>0. RS_DECODED_DATA_SIZE \in Nat /\ RS_DECODED_DATA_SIZE > 12
  BY CodecAssumption
<1>3. Len(d) \in Nat /\ Len(d) <= 4 /\ RS_DECODED_DATA_SIZE - 3 \in Nat /\ 4 <= RS_DECODED_DATA_SIZE - 3
  <2>1. 0 \in Nat /\ 2 \in Nat /\ 4 \in Nat /\ 0 <= 4 /\ 2 <= 4 /\ 4 <= 4
    OBVIOUS
  <2>2. RS_DECODED_DATA_SIZE - 3 \in Nat /\ 4 <= RS_DECODED_DATA_SIZE - 3
    BY <1>0
  <2> QED BY <1>a, <2>1, <2>2, Zenon
<1>4. /\ at(1) = id /\ at(2) = 1 /\ at(3) = Len(d)
      /\ \A i \in 1 .. Len(d) : at(i + 3) = d[i]
      /\ \A i \in Nat \ {0} : at(i) \in Int
  <2>1. \A i \in 1 .. Len(d) : 3 + i = i + 3 /\ i + 3 <= Len(bytes)
    BY <1>2, <1>3
  <2>2. 1 <= Len(bytes) /\ 2 <= Len(bytes) /\ 3 <= Len(bytes)
    BY <1>2, <1>3
  <2>3. \A i \in Nat \ {0} : i <= Len(bytes) => bytes[i] \in Int
    BY <1>2, <1>3, ElementOfSeq
  <2> QED BY <1>2, <2>1, <2>2, <2>3
<1> HIDE DEF at
<1>5. \A n \in 0 .. Len(d) : SubSeq(data, 1, n) = SubSeq(d, 1, n)
  <2> SUFFICES ASSUME NEW n \in 0 .. Len(d) PROVE SubSeq(data, 1, n) = SubSeq(d, 1, n)
    OBVIOUS
  <2>1. n \in Nat /\ n <= Len(d) /\ n <= RS_DECODED_DATA_SIZE - 3
    BY <1>3
  <2>2. \A i \in 1 .. RS_DECODED_DATA_SIZE - 3 : at(i + 3) \in Int
    BY <1>3, <1>4
  <2>a. PICK N \in Nat : N = RS_DECODED_DATA_SIZE - 3
    BY <1>3
  <2>b. data \in [1 .. N -> Int]
    <3>1. data = [i \in 1 .. N |-> at(i + 3)]
      BY <2>a
    <3>2. \A i \in 1 .. N : at(i + 3) \in Int
      BY <2>2, <2>a
    <3> QED BY <3>1, <3>2
  <2> HIDE DEF data
  <2>3. data \in Seq(Int) /\ Len(data) = N /\ n <= N
    BY <2>1, <2>a, <2>b
  <2>4. \A i \in 1 .. n : data[i] = d[i]
    <3> SUFFICES ASSUME NEW i \in 1 .. n PROVE data[i] = d[i]
      OBVIOUS
    <3>1. i \in 1 .. RS_DECODED_DATA_SIZE - 3 /\ i \in 1 .. Len(d)
      BY <1>3, <2>1
    <3>2. data[i] = at(i + 3)
      BY <3>1 DEF data
    <3> QED BY <1>4, <3>1, <3>2
  <2>5. \A s \in Seq(Int) : n <= Len(s) =>
           /\ SubSeq(s, 1, n) \in Seq(Int) /\ Len(SubSeq(s, 1, n)) = n
           /\ \A i \in 1 .. n : SubSeq(s, 1, n)[i] = s[i]
    BY <2>1
  <2>6. d \in Seq(Int)
    BY <1>1
  <2>7. n <= Len(d) /\ n <= Len(data)
    BY <2>1, <2>3
  <2>8. /\ SubSeq(data, 1, n) \in Seq(Int) /\ Len(SubSeq(data, 1, n)) = n
        /\ \A i \in 1 .. n : SubSeq(data, 1, n)[i] = data[i]
    BY <2>3, <2>5, <2>7
  <2>9. /\ SubSeq(d, 1, n) \in Seq(Int) /\ Len(SubSeq(d, 1, n)) = n
        /\ \A i \in 1 .. n : SubSeq(d, 1, n)[i] = d[i]
    BY <2>5, <2>6, <2>7
  <2> QED BY <2>4, <2>8, <2>9, SeqEqual
<1>6. SubSeq(d, 1, Len(d)) = d
  BY <1>1
<1>7. id # NUM_CMD_CALLBACKS /\ LET a == [cmdId |-> id, errCode |-> 1, dataLen |-> Len(d), data |-> data]
                                IN r = CmdRes(a, Parsed(a))
  <2>1. PICK u : u = IF at(1) >= NUM_CMD_CALLBACKS THEN <<>>
                     ELSE <<[cmdId |-> at(1), errCode |-> at(2), dataLen |-> at(3), data |-> data]>>
    OBVIOUS
  <2>2. UnpackCommandResponse(bytes) = u
    BY <2>1 DEF UnpackCommandResponse, at
  <2>3. CASE id = NUM_CMD_CALLBACKS
    <3>1. u = <<>>
      BY <1>4, <2>1, <2>3
    <3>2. ParseCommandResponse(bytes) = <<>>
      BY <2>2, <3>1 DEF ParseCommandResponse
    <3>3. Range(<<>>) = {}
      BY DEF Range
    <3> QED BY <3>2, <3>3 DEF bytes
  <2>4. CASE id # NUM_CMD_CALLBACKS
    <3> DEFINE a == [cmdId |-> id, errCode |-> 1, dataLen |-> Len(d), data |-> data]
    <3>1. ~(at(1) >= NUM_CMD_CALLBACKS)
      BY <1>4, <2>4
    <3>2. u = <<a>>
      BY <1>4, <2>1, <3>1
    <3> HIDE DEF a
    <3>3. ParseCommandResponse(bytes) = <<CmdRes(a, Parsed(a))>>
      BY <2>2, <3>2 DEF ParseCommandResponse
    <3>4. Range(<<CmdRes(a, Parsed(a))>>) = {CmdRes(a, Parsed(a))}
      BY DEF Range
    <3> QED BY <2>4, <3>3, <3>4 DEF bytes, a
  <2> QED BY <2>3, <2>4
<1> DEFINE a == [cmdId |-> id, errCode |-> 1, dataLen |-> Len(d), data |-> data]
<1>8. r.cmd_id = id /\ r.value = Parsed(a)
  BY <1>7 DEF CmdRes
<1>9. Parsed(a) = d
  <2>1. CASE id \in {CMD_RTC_SYNC, CMD_VERIFY_CRC}
    <3>1. Parsed(a) = SubSeq(data, 1, 4)
      BY <2>1 DEF Parsed
    <3>2. Len(<<1, 2, 3, 4>>) = 4
      OBVIOUS
    <3>3. Len(d) = 4 /\ Len(d) \in 0 .. Len(d)
      BY <1>1, <2>1, <3>2
    <3> QED BY <1>5, <1>6, <3>1, <3>3
  <2>2. CASE id = CMD_I2C_PROBE
    <3>1. Parsed(a) = SubSeq(data, 1, Len(d))
      BY <2>2 DEF Parsed
    <3>2. Len(d) \in 0 .. Len(d)
      BY <1>3
    <3> QED BY <1>5, <1>6, <3>1, <3>2
  <2>3. CASE id \notin {CMD_RTC_SYNC, CMD_VERIFY_CRC, CMD_I2C_PROBE}
    BY <1>1, <2>3 DEF Parsed
  <2> QED BY <2>1, <2>2, <2>3
<1> QED BY <1>8, <1>9 DEF d

\* Where the beginnings are when sequences are put together.
LEMMA Beginnings ==
    /\ FirstOf(<<>>) = {}
    /\ \A s, t \in Seq(PieceSet) : s \o t \in Seq(PieceSet) /\ FirstOf(s \o t) \subseteq FirstOf(s) \union FirstOf(t)
    /\ \A s \in Seq(PieceSet), p \in PieceSet :
          /\ Append(s, p) \in Seq(PieceSet)
          /\ FirstOf(Append(s, p)) \subseteq FirstOf(s) \union {x \in {p.of} : p.at = 1}
<1>1. FirstOf(<<>>) = {}
  BY DEF FirstOf
<1>2. ASSUME NEW s \in Seq(PieceSet), NEW t \in Seq(PieceSet)
      PROVE  s \o t \in Seq(PieceSet) /\ FirstOf(s \o t) \subseteq FirstOf(s) \union FirstOf(t)
  <2>1. /\ s \o t \in Seq(PieceSet) /\ Len(s \o t) = Len(s) + Len(t)
        /\ \A i \in 1 .. Len(s) + Len(t) :
              (s \o t)[i] = IF i <= Len(s) THEN s[i] ELSE t[i - Len(s)]
    BY ConcatProperties
  <2>2. Len(s) \in Nat /\ Len(t) \in Nat
    BY LenProperties
  <2>3. ASSUME NEW i \in 1 .. Len(s \o t), (s \o t)[i].at = 1
        PROVE  (s \o t)[i].of \in FirstOf(s) \union FirstOf(t)
    <3>1. CASE i <= Len(s)
      <4>1. (s \o t)[i] = s[i] /\ i \in 1 .. Len(s)
        BY <2>1, <2>2, <3>1
      <4> QED BY <2>3, <4>1 DEF FirstOf
    <3>2. CASE ~(i <= Len(s))
      <4>1. (s \o t)[i] = t[i - Len(s)] /\ i - Len(s) \in 1 .. Len(t)
        BY <2>1, <2>2, <3>2
      <4> QED BY <2>3, <4>1 DEF FirstOf
    <3> QED BY <3>1, <3>2
  <2> QED BY <2>1, <2>3 DEF FirstOf
<1>3. ASSUME NEW s \in Seq(PieceSet), NEW p \in PieceSet
      PROVE  /\ Append(s, p) \in Seq(PieceSet)
             /\ FirstOf(Append(s, p)) \subseteq FirstOf(s) \union {x \in {p.of} : p.at = 1}
  <2>1. /\ Append(s, p) \in Seq(PieceSet) /\ Len(Append(s, p)) = Len(s) + 1
        /\ Append(s, p)[Len(s) + 1] = p
        /\ \A i \in 1 .. Len(s) : Append(s, p)[i] = s[i]
    BY AppendProperties
  <2>2. Len(s) \in Nat
    BY LenProperties
  <2>3. \A i \in 1 .. Len(Append(s, p)) : i = Len(s) + 1 \/ i \in 1 .. Len(s)
    BY <2>1, <2>2
  <2>4. ASSUME NEW i \in 1 .. Len(Append(s, p)), Append(s, p)[i].at = 1
        PROVE  Append(s, p)[i].of \in FirstOf(s) \union {x \in {p.of} : p.at = 1}
    <3>1. CASE i = Len(s) + 1
      BY <2>1, <2>4, <3>1
    <3>2. CASE i \in 1 .. Len(s)
      BY <2>1, <2>4, <3>2 DEF FirstOf
    <3> QED BY <2>3, <3>1, <3>2
  <2> QED BY <2>1, <2>4 DEF FirstOf
<1> QED BY <1>1, <1>2, <1>3

\* What is taken for a frame has its beginning among the bytes.
LEMMA FrameBegins ==
    ASSUME NEW s \in Seq(PieceSet), NEW n \in FramesIn(s) PROVE n \in FirstOf(s)
<1>1. PICK i \in FlagsIn(s), j \in FlagsIn(s) :
         /\ \A k \in FlagsIn(s) : i <= k /\ k <= j
         /\ SubSeq(s, i, j) = [k \in 1 .. Chunks |-> Chunk(n, "frame", k, k \in {1, Chunks})]
  BY DEF FramesIn
<1>2. i \in 1 .. Len(s) /\ j \in 1 .. Len(s) /\ i <= j
  BY <1>1 DEF FlagsIn
<1>3. SubSeq(s, i, j)[1] = s[i]
  <2>1. Len(s) \in Nat
    BY LenProperties
  <2>2. SubSeq(s, i, j) = [k \in 1 .. (1 + j - i) |-> s[i + k - 1]]
    BY <1>2, <2>1
  <2>3. 1 \in 1 .. (1 + j - i) /\ i + 1 - 1 = i
    BY <1>2, <2>1
  <2> QED BY <2>2, <2>3
<1>4. s[i] = Chunk(n, "frame", 1, 1 \in {1, Chunks})
  <2>1. 1 \in 1 .. Chunks
    BY LinkAssumption
  <2> QED BY <1>1, <1>3, <2>1
<1>5. s[i].at = 1 /\ s[i].of = n
  BY <1>4 DEF Chunk
<1> QED BY <1>2, <1>5 DEF FirstOf

\* And so has what is taken for an answer without a frame.
LEMMA WholeBegins ==
    ASSUME NEW s \in Seq(PieceSet), NEW n \in WholeIn(s) PROVE n \in FirstOf(s)
<1>1. Len(s) >= Chunks /\ \A k \in 1 .. Chunks : s[k] = Chunk(n, "raw", k, FALSE)
  BY DEF WholeIn
<1>2. 1 \in 1 .. Chunks /\ 1 \in 1 .. Len(s)
  BY <1>1, LinkAssumption, LenProperties
<1>3. s[1] = Chunk(n, "raw", 1, FALSE)
  BY <1>1, <1>2
<1>4. s[1].at = 1 /\ s[1].of = n
  BY <1>3 DEF Chunk
<1> QED BY <1>2, <1>4 DEF FirstOf

\* A step that lets no more be heard, under the same call, keeps the invariant.
LEMMA Quiet ==
    ASSUME LinkInv, LinkTypes', Heard' \subseteq Heard, sent' = sent, got' = NoReply,
           call'.step = call.step, call'.late = call.late
    PROVE  LinkInv'
<1>1. HeardIsOwed'
  BY DEF LinkInv, HeardIsOwed
<1>2. AnswersMatch'
  BY DEF AnswersMatch, NoReply
<1> QED BY <1>1, <1>2 DEF LinkInv

\* What comes over the line: an answer is heard no sooner than the board owes it.
LEMMA LineKeepsLink ==
    ASSUME LinkInv, got' = NoReply,
           (\E n \in board : AnswerBegins(n, "frame") \/ AnswerBegins(n, "raw")) \/ AnswerGoesOn \/ Log
    PROVE  LinkInv'
<1>1. LinkTypes
  BY DEF LinkInv
<1>2. ASSUME NEW p \in PieceSet, Arrive(p), p.at = 1 => p.of \in board, sent' = sent, call' = call,
             board' \subseteq board,
             half' \in [of : Nat, part : {"frame", "raw", "text"}, at : Nat],
             half' # NoAnswer => half'.at # 0
      PROVE  LinkInv'
  <2>1. line' = line \/ line' = Append(line, p)
    BY <1>2 DEF Arrive
  <2>2. line' \in Seq(PieceSet) /\ FirstOf(line') \subseteq FirstOf(line) \union board
    <3>1. line \in Seq(PieceSet)
      BY <1>1 DEF LinkTypes
    <3>2. /\ Append(line, p) \in Seq(PieceSet)
          /\ FirstOf(Append(line, p)) \subseteq FirstOf(line) \union {x \in {p.of} : p.at = 1}
      BY <1>2, <3>1, Beginnings
    <3>3. {x \in {p.of} : p.at = 1} \subseteq board
      BY <1>2
    <3>4. CASE line' = line
      BY <3>1, <3>4
    <3>5. CASE line' = Append(line, p)
      BY <3>2, <3>3, <3>5
    <3> QED BY <2>1, <3>4, <3>5
  <2>3. Heard' \subseteq Heard
    <3>1. FirstOf(line)' = FirstOf(line') /\ FirstOf(call.bytes)' = FirstOf(call.bytes)
      BY <1>2 DEF FirstOf
    <3> QED BY <1>2, <2>2, <3>1 DEF Heard
  <2>4. LinkTypes'
    BY <1>1, <1>2, <2>2 DEF LinkTypes
  <2> QED BY <1>2, <2>3, <2>4, Quiet
<1>3. \A n \in Nat, k \in Nat, flag \in BOOLEAN, part \in {"frame", "raw", "text"} :
         /\ Chunk(n, part, k, flag) \in PieceSet
         /\ Chunk(n, part, k, flag).at = k /\ Chunk(n, part, k, flag).of = n
  BY DEF Chunk, PieceSet
<1>4. \A part, k : MayFlag(part, k) \subseteq BOOLEAN
  BY DEF MayFlag
<1>5. ASSUME NEW n \in board, NEW part \in {"frame", "raw"}, AnswerBegins(n, part) PROVE LinkInv'
  <2>1. n \in Nat
    BY <1>1 DEF LinkTypes
  <2>2. PICK flag \in MayFlag(part, 1) : Arrive(Chunk(n, part, 1, flag))
    BY <1>5 DEF AnswerBegins
  <2>3. PICK p \in PieceSet : p = Chunk(n, part, 1, flag) /\ p.of = n
    BY <1>3, <1>4, <2>1
  <2>4. /\ sent' = sent /\ call' = call /\ board' = board \ {n}
        /\ half' = [of |-> n, part |-> part, at |-> 1]
    BY <1>5 DEF AnswerBegins
  <2>5. half'.at # 0 /\ half' \in [of : Nat, part : {"frame", "raw", "text"}, at : Nat]
    BY <2>1, <2>4
  <2> QED BY <1>2, <2>2, <2>3, <2>4, <2>5
<1>6. ASSUME AnswerGoesOn PROVE LinkInv'
  <2>1. half.of \in Nat /\ half.part \in {"frame", "raw", "text"} /\ half.at \in Nat \ {0}
    BY <1>1, <1>6 DEF LinkTypes, AnswerGoesOn
  <2>2. PICK k \in Nat : k = half.at + 1 /\ k # 1 /\ k # 0
    BY <2>1
  <2>3. /\ \E flag \in MayFlag(half.part, k) : Arrive(Chunk(half.of, half.part, k, flag))
        /\ half' = IF k = Chunks THEN NoAnswer ELSE [half EXCEPT !.at = k]
        /\ sent' = sent /\ call' = call /\ board' = board
    BY <1>6, <2>2 DEF AnswerGoesOn
  <2>4. PICK flag \in MayFlag(half.part, k) : Arrive(Chunk(half.of, half.part, k, flag))
    BY <2>3
  <2>5. PICK p \in PieceSet : p = Chunk(half.of, half.part, k, flag) /\ p.at = k
    BY <1>3, <1>4, <2>1
  <2>6. /\ half' \in [of : Nat, part : {"frame", "raw", "text"}, at : Nat]
        /\ half' # NoAnswer => half'.at # 0
    BY <1>1, <2>2, <2>3 DEF LinkTypes, NoAnswer
  <2> QED BY <1>2, <2>2, <2>3, <2>4, <2>5, <2>6
<1>7. ASSUME Log PROVE LinkInv'
  <2>1. PICK flag \in MayFlag("text", 0) : Arrive(Chunk(0, "text", 0, flag))
    BY <1>7 DEF Log
  <2>2. PICK p \in PieceSet : p = Chunk(0, "text", 0, flag) /\ p.at = 0
    BY <1>3, <1>4
  <2> QED BY <1>1, <1>2, <1>7, <2>1, <2>2 DEF Log, LinkTypes
<1> QED BY <1>5, <1>6, <1>7

\* A call begins: whatever may now be read, the board owed before.
LEMMA CallBegins ==
    ASSUME LinkInv, got' = NoReply, (\E a \in Inputs : SendCommand(a)) \/ SendConnRequest
    PROVE  LinkInv'
<1>1. PICK id \in Ids, waits \in BOOLEAN : Begin(id, waits)
  <2>1. CASE SendConnRequest
    BY <2>1 DEF SendConnRequest, Ids
  <2>2. ASSUME NEW a \in Inputs, SendCommand(a) PROVE \E id \in Ids, waits \in BOOLEAN : Begin(id, waits)
    <3>1. PICK m \in Range(GenerateCommand(a)) : Begin(m.id, ~IsTimeTagged(a))
      BY <2>2 DEF SendCommand
    <3>2. a.command \in CmdCallbackId
      BY LinkAssumption
    <3>3. m.id \in Ids
      BY <3>2, GeneratedId DEF Ids
    <3>4. (~IsTimeTagged(a)) \in BOOLEAN
      OBVIOUS
    <3> QED BY <3>1, <3>3, <3>4
  <2> QED BY <2>1, <2>2
<1>2. /\ call' = [step |-> "write", id |-> id, waits |-> waits, late |-> board, bytes |-> <<>>]
      /\ line' = <<>> /\ sent' = sent /\ board' = board /\ half' = half
  BY <1>1 DEF Begin, NoCall, Open
<1>3. <<>> \in Seq(PieceSet)
  OBVIOUS
<1>4. call' \in CallSet /\ call'.step = "write" /\ call'.late = board /\ call'.bytes = <<>>
  BY <1>2, <1>3 DEF LinkInv, LinkTypes, CallSet
<1>5. LinkTypes'
  BY <1>2, <1>3, <1>4 DEF LinkInv, LinkTypes
<1>6. Heard' = board
  <2>1. FirstOf(line)' = {} /\ FirstOf(call.bytes)' = {}
    BY <1>2, <1>4 DEF FirstOf
  <2> QED BY <1>2, <2>1 DEF Heard
<1>7. HeardIsOwed'
  BY <1>4, <1>6 DEF HeardIsOwed
<1>8. AnswersMatch'
  BY DEF AnswersMatch, NoReply
<1> QED BY <1>5, <1>7, <1>8 DEF LinkInv

\* The frame is written: its own answer may be read as well.
LEMMA WriteKeepsLink == ASSUME LinkInv, got' = NoReply, Write PROVE LinkInv'
<1>1. /\ sent \in Seq(Ids) /\ call \in CallSet /\ call.id \in Ids /\ Len(sent) \in Nat
      /\ sent' = Append(sent, call.id) /\ half' = half /\ line' = line
      /\ board' \subseteq board \union {Len(sent) + 1}
      /\ call.step = "write" /\ call' = [call EXCEPT !.step = "read"]
  BY LenProperties DEF LinkInv, LinkTypes, CallSet, Write
<1>2. /\ call'.step = "read" /\ call'.late = call.late /\ call'.bytes = call.bytes
      /\ call' \in CallSet
  BY <1>1 DEF CallSet
<1>3. sent' \in Seq(Ids) /\ Len(sent') = Len(sent) + 1
  BY <1>1, AppendProperties
<1>4. Heard' \subseteq Heard \union {Len(sent')}
  <2>1. FirstOf(line)' = FirstOf(line) /\ FirstOf(call.bytes)' = FirstOf(call.bytes)
    BY <1>1, <1>2 DEF FirstOf
  <2> QED BY <1>1, <1>3, <2>1 DEF Heard
<1>5. LinkTypes'
  <2>1. board' \subseteq Nat
    BY <1>1 DEF LinkInv, LinkTypes
  <2> QED BY <1>1, <1>2, <1>3, <2>1 DEF LinkInv, LinkTypes
<1>6. HeardIsOwed'
  BY <1>1, <1>2, <1>4 DEF LinkInv, HeardIsOwed
<1>7. AnswersMatch'
  BY DEF AnswersMatch, NoReply
<1> QED BY <1>5, <1>6, <1>7 DEF LinkInv

\* The call reads on: the beginnings are the same wherever the bytes are.
LEMMA GatherKeepsLink == ASSUME LinkInv, got' = NoReply, Gather PROVE LinkInv'
<1>1. /\ line \in Seq(PieceSet) /\ call \in CallSet /\ call.bytes \in Seq(PieceSet)
      /\ call' = [call EXCEPT !.bytes = call.bytes \o line] /\ line' = <<>>
      /\ sent' = sent /\ board' = board /\ half' = half
  BY DEF LinkInv, LinkTypes, CallSet, Gather
<1>2. /\ call.bytes \o line \in Seq(PieceSet)
      /\ FirstOf(call.bytes \o line) \subseteq FirstOf(call.bytes) \union FirstOf(line)
  BY <1>1, Beginnings
<1>3. /\ call'.step = call.step /\ call'.late = call.late /\ call'.bytes = call.bytes \o line
      /\ call' \in CallSet
  BY <1>1, <1>2 DEF CallSet
<1>4. Heard' \subseteq Heard
  <2>1. FirstOf(line)' = {}
    BY <1>1 DEF FirstOf
  <2>2. FirstOf(call.bytes)' = FirstOf(call'.bytes)
    BY DEF FirstOf
  <2>3. FirstOf(call.bytes)' = FirstOf(call.bytes \o line)
    BY <1>3, <2>2
  <2> QED BY <1>1, <1>2, <2>1, <2>3 DEF Heard
<1>5. <<>> \in Seq(PieceSet)
  OBVIOUS
<1>6. LinkTypes'
  BY <1>1, <1>3, <1>5 DEF LinkInv, LinkTypes
<1> QED BY <1>1, <1>3, <1>4, <1>6, Quiet

\* What a call takes for the answer to a frame is an answer that it may read.
LEMMA AnswersAreHeard ==
    ASSUME LinkInv, call.step = "read", NEW r \in Outcomes(call.bytes), r.of # 0
    PROVE  /\ r.of \in call.late \union {Len(sent)}
           /\ \A x \in Range(r.answer) : x.cmd_id = sent[r.of] /\ x.value = DataOf(sent[r.of])
<1> DEFINE s == call.bytes
           Right(n) == /\ n \in call.late \union {Len(sent)}
                       /\ n \in 1 .. Len(sent) /\ sent[n] \in Ids
<1>1. s \in Seq(PieceSet) /\ sent \in Seq(Ids) /\ FirstOf(s) \subseteq call.late \union {Len(sent)}
  BY DEF LinkInv, LinkTypes, CallSet, HeardIsOwed, Heard
<1> HIDE DEF s
<1>2. \A n \in FramesIn(s) \union WholeIn(s) : Right(n)
  <2>1. \A n \in FramesIn(s) \union WholeIn(s) : n \in FirstOf(s)
    BY <1>1, FrameBegins, WholeBegins
  <2>2. \A n \in FramesIn(s) \union WholeIn(s) : n \in 1 .. Len(sent)
    BY DEF FramesIn, WholeIn
  <2>3. \A n \in 1 .. Len(sent) : sent[n] \in Ids
    BY <1>1, ElementOfSeq
  <2> QED BY <1>1, <2>1, <2>2, <2>3
<1>3. ASSUME NEW n, Right(n), r = Answered(n)
      PROVE  /\ r.of \in call.late \union {Len(sent)}
             /\ \A x \in Range(r.answer) : x.cmd_id = sent[r.of] /\ x.value = DataOf(sent[r.of])
  <2>1. r.of = n /\ r.answer = ParseCommandResponse(AnswerOf(sent[n]))
    BY <1>3 DEF Answered
  <2>2. \A x \in Range(ParseCommandResponse(AnswerOf(sent[n]))) :
           x.cmd_id = sent[n] /\ x.value = DataOf(sent[n])
    BY <1>3, AnswerParses
  <2> QED BY <1>3, <2>1, <2>2
<1>4. ASSUME NEW n, Right(n),
             r = [of |-> n, answer |-> <<[cmd_id |-> sent[n], value |-> DataOf(sent[n])]>>]
      PROVE  /\ r.of \in call.late \union {Len(sent)}
             /\ \A x \in Range(r.answer) : x.cmd_id = sent[r.of] /\ x.value = DataOf(sent[r.of])
  <2>1. PICK reply : reply = [cmd_id |-> sent[n], value |-> DataOf(sent[n])]
    OBVIOUS
  <2>2. r.of = n /\ r.answer = <<reply>> /\ reply.cmd_id = sent[n] /\ reply.value = DataOf(sent[n])
    BY <1>4, <2>1
  <2>3. Range(<<reply>>) = {reply}
    BY DEF Range
  <2> QED BY <1>4, <2>2, <2>3
<1>5. CASE r = Nothing
  BY <1>5 DEF Nothing
<1>6. CASE r \in Framed(s)
  <2>1. CASE call.id = Connect
    <3>1. PICK n \in FramesIn(s) :
             r = [of |-> n, answer |-> <<[cmd_id |-> sent[n], value |-> DataOf(sent[n])]>>]
      BY <1>6, <2>1 DEF Framed
    <3> QED BY <1>2, <1>4, <3>1
  <2>2. CASE call.id # Connect
    <3>1. PICK n \in FramesIn(s) : r = Answered(n)
      BY <1>6, <2>2 DEF Framed
    <3> QED BY <1>2, <1>3, <3>1
  <2> QED BY <2>1, <2>2
<1>7. CASE r \in Unframed(s)
  <2>1. CASE WholeIn(s) # {}
    <3>1. PICK n \in WholeIn(s) : r = Answered(n)
      BY <1>7, <2>1 DEF Unframed
    <3> QED BY <1>2, <1>3, <3>1
  <2>2. CASE WholeIn(s) = {}
    <3>1. PICK b \in FirstByte(s) : r = [of |-> 0, answer |-> ParseCommandResponse(<<b>>)]
      BY <1>7, <2>2 DEF Unframed
    <3> QED BY <3>1
  <2> QED BY <2>1, <2>2
<1>8. r = Nothing \/ r \in Framed(s) \/ r \in Unframed(s)
  BY DEF Outcomes, s
<1> QED BY <1>5, <1>6, <1>7, <1>8

LEMMA ReadKeepsLink == ASSUME LinkInv, Read PROVE LinkInv'
<1>1. /\ sent' = sent /\ board' = board /\ half' = half /\ line' \in {line, <<>>}
      /\ call.step = "read" /\ call' = NoCall
  BY DEF Read
<1>2. PICK r \in Outcomes(call.bytes) : got' = Reply(call.late \union {Len(sent)}, r)
  BY DEF Read
<1>3. <<>> \in Seq(PieceSet)
  OBVIOUS
<1>4. call'.step = "idle" /\ call' \in CallSet
  BY <1>1, <1>3 DEF NoCall, CallSet, Ids, CmdCallbackId
<1>5. LinkTypes'
  BY <1>1, <1>3, <1>4 DEF LinkInv, LinkTypes
<1>6. HeardIsOwed'
  BY <1>4 DEF HeardIsOwed
<1>7. AnswersMatch'
  <2>1. got'.of = r.of /\ got'.owed = call.late \union {Len(sent)} /\ got'.answer = r.answer
    BY <1>2 DEF Reply
  <2>2. r.of # 0 => /\ r.of \in call.late \union {Len(sent)}
                    /\ \A x \in Range(r.answer) : x.cmd_id = sent[r.of] /\ x.value = DataOf(sent[r.of])
    BY <1>1, AnswersAreHeard
  <2> QED BY <1>1, <2>1, <2>2 DEF AnswersMatch
<1> QED BY <1>5, <1>6, <1>7 DEF LinkInv

\* poll takes answers out of the input and puts none into it.
LEMMA PollKeepsLink ==
    ASSUME LinkInv, got' = NoReply, PollStart \/ PollGather \/ PollTurn \/ PollStop
    PROVE  LinkInv'
<1>1. sent' = sent /\ board' = board /\ half' = half /\ call' = call /\ line' \in {line, <<>>}
  BY DEF PollStart, PollGather, PollTurn, PollStop, Open
<1>2. <<>> \in Seq(PieceSet)
  OBVIOUS
<1>3. LinkTypes'
  BY <1>1, <1>2 DEF LinkInv, LinkTypes
<1>4. Heard' \subseteq Heard
  <2>1. FirstOf(line') \subseteq FirstOf(line)
    BY <1>1, Beginnings
  <2>2. FirstOf(line)' = FirstOf(line') /\ FirstOf(call.bytes)' = FirstOf(call.bytes)
    BY <1>1 DEF FirstOf
  <2> QED BY <1>1, <2>1, <2>2 DEF Heard
<1> QED BY <1>1, <1>3, <1>4, Quiet

LEMMA LinkInvariant == LinkSpec => []LinkInv
<1>1. LinkInit => LinkInv
  <2> SUFFICES ASSUME LinkInit PROVE LinkInv
    OBVIOUS
  <2>1. <<>> \in Seq(PieceSet) /\ <<>> \in Seq(Ids)
    OBVIOUS
  <2>2. call.step = "idle" /\ call \in CallSet
    BY <2>1 DEF LinkInit, NoCall, CallSet, Ids, CmdCallbackId
  <2>3. LinkTypes
    BY <2>1, <2>2 DEF LinkTypes, LinkInit, NoAnswer
  <2>4. HeardIsOwed /\ AnswersMatch
    BY <2>2 DEF HeardIsOwed, AnswersMatch, LinkInit, NoReply
  <2> QED BY <2>3, <2>4 DEF LinkInv
<1>2. LinkInv /\ [LinkNext]_linkVars => LinkInv'
  <2> SUFFICES ASSUME LinkInv, [LinkNext]_linkVars PROVE LinkInv'
    OBVIOUS
  <2>1. CASE UNCHANGED linkVars
    <3>1. LinkTypes'
      BY <2>1 DEF linkVars, LinkInv, LinkTypes
    <3>2. HeardIsOwed' /\ AnswersMatch'
      BY <2>1 DEF linkVars, LinkInv, HeardIsOwed, Heard, FirstOf, AnswersMatch
    <3> QED BY <3>1, <3>2 DEF LinkInv
  <2>2. CASE Read
    BY <2>2, ReadKeepsLink
  <2>3. CASE Others /\ got' = NoReply
    <3>1. CASE (\E n \in board : AnswerBegins(n, "frame") \/ AnswerBegins(n, "raw")) \/ AnswerGoesOn \/ Log
      BY <2>3, <3>1, LineKeepsLink
    <3>2. CASE (\E a \in Inputs : SendCommand(a)) \/ SendConnRequest
      BY <2>3, <3>2, CallBegins
    <3>3. CASE Write
      BY <2>3, <3>3, WriteKeepsLink
    <3>4. CASE Gather
      BY <2>3, <3>4, GatherKeepsLink
    <3>5. CASE PollStart \/ PollGather \/ PollTurn \/ PollStop
      BY <2>3, <3>5, PollKeepsLink
    <3> QED BY <2>3, <3>1, <3>2, <3>3, <3>4, <3>5 DEF Others
  <2> QED BY <2>1, <2>2, <2>3 DEF LinkNext
<1> QED BY <1>1, <1>2, PTL DEF LinkSpec

\* Whatever a call takes a whole answer for is the answer to its own frame, or to
\* one that the board owed an answer when the call opened the port, with the data
\* of that answer: however the answers are torn, and whatever poll takes of them.
THEOREM AnswersAreOwed == LinkSpec => []AnswersMatch
<1>1. LinkInv => AnswersMatch
  BY DEF LinkInv
<1> QED BY <1>1, LinkInvariant, PTL

-----------------------------------------------------------------------------
(* Induction, and the folds of SequencesExt.  A fold is a function that a  *)
(* CHOOSE picks by its recursive equation: such a function exists, by      *)
(* induction over the length of the sequence, and so what is chosen goes   *)
(* through the sequence element by element.                                *)

\* Every set of natural numbers has a least element.
LEMMA Least == ASSUME NEW T \in SUBSET Nat, T # {}
               PROVE  \E m \in T : \A k \in T : m <= k
<1>1. OpToRel(<, Nat) = {ss \in Nat \X Nat : ss[1] < ss[2]}
  BY DEF OpToRel
<1>2. PICK m \in T : \A k \in T : <<k, m>> \notin OpToRel(<, Nat)
  BY NatLessThanWellFounded, WFMin
<1>3. ASSUME NEW k \in T PROVE m <= k
  <2>1. <<k, m>> \in Nat \X Nat /\ <<k, m>>[1] = k /\ <<k, m>>[2] = m
    OBVIOUS
  <2>2. ~(k < m)
    BY <1>1, <1>2, <2>1
  <2> QED BY <2>2
<1> QED BY <1>3

\* What holds of 0, and of n + 1 if it does of n, holds of all up to a bound.
LEMMA UpTo == ASSUME NEW max \in Nat, NEW T, 0 \in T, \A n \in 0 .. max - 1 : n \in T => n + 1 \in T
              PROVE  0 .. max \subseteq T
<1> SUFFICES ASSUME NEW x \in 0 .. max, x \notin T PROVE FALSE
  OBVIOUS
<1>1. PICK m \in {n \in 0 .. max : n \notin T} : \A k \in {n \in 0 .. max : n \notin T} : m <= k
  <2> DEFINE U == {n \in 0 .. max : n \notin T}
  <2>1. U \in SUBSET Nat /\ U # {}
    OBVIOUS
  <2> HIDE DEF U
  <2>2. \E m \in U : \A k \in U : m <= k
    BY <2>1, Least
  <2> QED BY <2>2 DEF U
<1>2. m # 0 /\ m - 1 \in 0 .. max - 1 /\ (m - 1) + 1 = m
  BY <1>1
<1>3. m - 1 \in T
  <2>1. ~(m <= m - 1)
    BY <1>2
  <2> QED BY <1>1, <1>2, <2>1
<1> QED BY <1>1, <1>2, <1>3

\* The same downwards.
LEMMA DownTo == ASSUME NEW max \in Nat, NEW T, max \in T,
                       \A n \in 0 .. max - 1 : n + 1 \in T => n \in T
                PROVE  0 .. max \subseteq T
<1> DEFINE U == {n \in 0 .. max : max - n \in T}
<1>1. 0 \in U
  OBVIOUS
<1>2. ASSUME NEW n \in 0 .. max - 1, n \in U PROVE n + 1 \in U
  <2>1. max - n \in T /\ max - (n + 1) \in 0 .. max - 1 /\ (max - (n + 1)) + 1 = max - n
    BY <1>2
  <2> QED BY <2>1
<1>3. 0 .. max \subseteq U
  <2> HIDE DEF U
  <2> QED BY <1>1, <1>2, UpTo
<1>4. ASSUME NEW n \in 0 .. max PROVE n \in T
  <2>1. max - n \in U /\ max - (max - n) = n
    BY <1>3
  <2> QED BY <2>1
<1> QED BY <1>4

\* Sets of places in a sequence have a last one.
LEMMA MaxOf == ASSUME NEW n \in Nat, NEW t \in SUBSET (1 .. n), t # {}
               PROVE  Max(t) \in t /\ \A y \in t : y <= Max(t)
<1>1. PICK z \in t : TRUE
  OBVIOUS
<1> DEFINE U == {k \in Nat : \A y \in t : y <= k}
<1>2. U \in SUBSET Nat /\ n \in U
  OBVIOUS
<1>3. \E m \in U : \A k \in U : m <= k
  <2> HIDE DEF U
  <2> QED BY <1>2, Least
<1>4. PICK m \in U : \A k \in U : m <= k
  BY <1>3
<1>5. m \in t
  <2> SUFFICES ASSUME m \notin t PROVE FALSE
    OBVIOUS
  <2>1. m \in Nat /\ m >= 1 /\ m - 1 \in Nat
    BY <1>1, <1>4
  <2>2. \A y \in t : y <= m - 1
    BY <2>1, <1>4
  <2>3. ~(m <= m - 1)
    BY <2>1
  <2> QED BY <1>4, <2>1, <2>2, <2>3
<1>6. \E x \in t : \A y \in t : x >= y
  BY <1>4, <1>5
<1>7. Max(t) \in t /\ \A y \in t : Max(t) >= y
  <2> HIDE DEF U
  <2> QED BY <1>6 DEF Max
<1> QED BY <1>7

LEMMA MaxIsLast == ASSUME NEW n \in Nat, NEW t \in SUBSET (1 .. n + 1), n + 1 \in t
                   PROVE  Max(t) = n + 1 /\ t \ {Max(t)} \in SUBSET (1 .. n)
<1>1. n + 1 \in Nat /\ t # {}
  OBVIOUS
<1>2. Max(t) \in t /\ \A y \in t : y <= Max(t)
  BY <1>1, MaxOf
<1>3. Max(t) = n + 1
  <2>1. PICK m : m = Max(t)
    OBVIOUS
  <2>2. m \in 1 .. n + 1 /\ n + 1 <= m
    BY <1>2, <2>1
  <2>3. m = n + 1
    BY <2>2
  <2> QED BY <2>1, <2>3
<1> QED BY <1>3

LEMMA LastOfPrefix == ASSUME NEW k \in Nat, k # 0 PROVE Max(1 .. k) = k
<1>1. PICK n \in Nat : n = k - 1 /\ n + 1 = k
  OBVIOUS
<1>2. PICK t \in SUBSET (1 .. n + 1) : t = 1 .. k
  BY <1>1
<1>3. n + 1 \in t
  BY <1>1, <1>2
<1>4. Max(t) = n + 1
  BY <1>3, MaxIsLast
<1> QED BY <1>1, <1>2, <1>4

LEMMA PrefixSets == ASSUME NEW k \in Nat, k # 0
                  PROVE  1 .. k # {} /\ (1 .. k) \ {k} = 1 .. (k - 1)
OBVIOUS

\* The function of which a fold takes the value at the whole domain.
FoldsOver(h, s, base, F) ==
    \A t \in SUBSET (DOMAIN s) : h[t] = IF t = {} THEN base ELSE F[<<h[t \ {Max(t)}], s[Max(t)]>>]

LEMMA FoldExists ==
    ASSUME NEW A, NEW B, NEW base \in A, NEW F \in [A \X B -> A], NEW s \in Seq(B)
    PROVE  \E h \in [SUBSET (DOMAIN s) -> A] : FoldsOver(h, s, base, F)
<1> DEFINE Rec(n, h) == \A t \in SUBSET (1 .. n) :
                           h[t] = IF t = {} THEN base ELSE F[<<h[t \ {Max(t)}], s[Max(t)]>>]
           T == {n \in Nat : \E h \in [SUBSET (1 .. n) -> A] : Rec(n, h)}
<1>1. 0 \in T
  <2>1. [t \in SUBSET (1 .. 0) |-> base] \in [SUBSET (1 .. 0) -> A]
    OBVIOUS
  <2>2. \A t \in SUBSET (1 .. 0) : t = {}
    OBVIOUS
  <2>3. Rec(0, [t \in SUBSET (1 .. 0) |-> base])
    BY <2>2
  <2> QED BY <2>1, <2>3
<1>2. ASSUME NEW n \in 0 .. Len(s) - 1, n \in T PROVE n + 1 \in T
  <2>1. PICK h \in [SUBSET (1 .. n) -> A] : Rec(n, h)
    BY <1>2
  <2>2. n \in Nat /\ n + 1 \in 1 .. Len(s) /\ s[n + 1] \in B
    OBVIOUS
  <2> DEFINE H == [t \in SUBSET (1 .. n + 1) |->
                     IF n + 1 \in t THEN F[<<h[t \ {n + 1}], s[n + 1]>>] ELSE h[t]]
  <2>3. \A t \in SUBSET (1 .. n + 1) : /\ t \ {n + 1} \in SUBSET (1 .. n)
                                       /\ n + 1 \notin t => t \in SUBSET (1 .. n)
    BY <2>2
  <2>4. H \in [SUBSET (1 .. n + 1) -> A]
    BY <2>2, <2>3
  <2>5. \A t \in SUBSET (1 .. n) : H[t] = h[t]
    BY <2>2
  <2>6. ASSUME NEW t \in SUBSET (1 .. n + 1)
        PROVE  H[t] = IF t = {} THEN base ELSE F[<<H[t \ {Max(t)}], s[Max(t)]>>]
    <3>1. CASE n + 1 \in t
      <4>1. Max(t) = n + 1 /\ t \ {Max(t)} \in SUBSET (1 .. n)
        BY <2>2, <3>1, MaxIsLast
      <4>2. H[t] = F[<<h[t \ {n + 1}], s[n + 1]>>]
        BY <3>1
      <4> HIDE DEF H
      <4> QED BY <2>5, <3>1, <4>1, <4>2
    <3>2. CASE n + 1 \notin t
      <4>1. t \in SUBSET (1 .. n) /\ H[t] = h[t]
        BY <2>3, <2>5, <3>2
      <4>2. t # {} => t \ {Max(t)} \in SUBSET (1 .. n)
        BY <4>1
      <4> HIDE DEF H
      <4> QED BY <2>1, <2>5, <4>1, <4>2
    <3> QED BY <3>1, <3>2
  <2>7. Rec(n + 1, H)
    <3> HIDE DEF H
    <3> QED BY <2>6
  <2> HIDE DEF Rec, H
  <2> QED BY <2>2, <2>4, <2>7
<1>3. Len(s) \in Nat /\ DOMAIN s = 1 .. Len(s)
  OBVIOUS
<1>4. Len(s) \in T
  <2> HIDE DEF T
  <2>1. 0 .. Len(s) \subseteq T
    BY <1>1, <1>2, <1>3, UpTo
  <2>2. Len(s) \in 0 .. Len(s)
    BY <1>3
  <2> QED BY <2>1, <2>2
<1> QED BY <1>3, <1>4 DEF FoldsOver

-----------------------------------------------------------------------------
(* Stuffing leaves no run of ones as long as a flag's. *)

\* What Stuffing does with a bit.
PutBit(a, b) == IF b = 1 /\ a.ones + 1 = Run
                THEN [out |-> a.out \o <<1, 0>>, ones |-> 0]
                ELSE [out |-> Append(a.out, b), ones |-> IF b = 1 THEN a.ones + 1 ELSE 0]

Bit == {0, 1}
Stuffs == [out : Seq(Bit), ones : Nat]
NoBits == [out |-> <<>>, ones |-> 0]

LEMMA PutBitType == ASSUME NEW a \in Stuffs, NEW b \in Bit PROVE PutBit(a, b) \in Stuffs
<1>1. a.out \in Seq(Bit) /\ a.ones \in Nat
  BY DEF Stuffs
<1>2. a.out \o <<1, 0>> \in Seq(Bit) /\ Append(a.out, b) \in Seq(Bit)
  BY <1>1 DEF Bit
<1>3. (IF b = 1 THEN a.ones + 1 ELSE 0) \in Nat
  BY <1>1
<1> QED BY <1>2, <1>3 DEF PutBit, Stuffs

\* The run of the fold over the bits of s.
LEMMA StuffingRun ==
    ASSUME NEW s \in Seq(Bit)
    PROVE  \E g \in [0 .. Len(s) -> Stuffs] :
              /\ g[0] = NoBits
              /\ \A k \in 1 .. Len(s) : g[k] = PutBit(g[k - 1], s[k])
              /\ Stuffing(s) = g[Len(s)].out
<1> DEFINE Eq(f) == f = [t \in SUBSET (DOMAIN s) |->
                           IF t = {} THEN NoBits ELSE PutBit(f[t \ {Max(t)}], s[Max(t)])]
           rec == CHOOSE f : Eq(f)
           g == [k \in 0 .. Len(s) |-> rec[1 .. k]]
<1>1. Stuffing(s) = rec[DOMAIN s].out
  BY DEF Stuffing, FoldLeft, MapThenFoldSet, PutBit, NoBits
<1>2. \E h \in [SUBSET (DOMAIN s) -> Stuffs] : Eq(h)
  <2> DEFINE F == [x \in Stuffs \X Bit |-> PutBit(x[1], x[2])]
  <2>1. F \in [Stuffs \X Bit -> Stuffs]
    BY PutBitType
  <2>2. NoBits \in Stuffs
    BY DEF NoBits, Stuffs
  <2>3. PICK h \in [SUBSET (DOMAIN s) -> Stuffs] :
            \A t \in SUBSET (DOMAIN s) :
               h[t] = IF t = {} THEN NoBits ELSE F[<<h[t \ {Max(t)}], s[Max(t)]>>]
    <3> HIDE DEF F
    <3>1. PICK h \in [SUBSET (DOMAIN s) -> Stuffs] : FoldsOver(h, s, NoBits, F)
      BY <2>1, <2>2, FoldExists
    <3> QED BY <3>1 DEF FoldsOver
  <2>4. ASSUME NEW t \in SUBSET (DOMAIN s), t # {}
        PROVE  F[<<h[t \ {Max(t)}], s[Max(t)]>>] = PutBit(h[t \ {Max(t)}], s[Max(t)])
    <3>1. Max(t) \in 1 .. Len(s)
      <4>1. Len(s) \in Nat /\ t \in SUBSET (1 .. Len(s))
        OBVIOUS
      <4>2. Max(t) \in t
        BY <2>4, <4>1, MaxOf
      <4> QED BY <4>1, <4>2
    <3>2. s[Max(t)] \in Bit /\ h[t \ {Max(t)}] \in Stuffs
      BY <3>1
    <3> QED BY <3>2
  <2>5. \A t \in SUBSET (DOMAIN s) :
           h[t] = IF t = {} THEN NoBits ELSE PutBit(h[t \ {Max(t)}], s[Max(t)])
    <3> HIDE DEF F
    <3> QED BY <2>3, <2>4
  <2> QED BY <2>5
<1>3. Eq(rec)
  <2> HIDE DEF Eq
  <2> QED BY <1>2
<1> HIDE DEF rec
<1>4. \A t \in SUBSET (DOMAIN s) :
         rec[t] = IF t = {} THEN NoBits ELSE PutBit(rec[t \ {Max(t)}], s[Max(t)])
  BY <1>3
<1>5. DOMAIN s = 1 .. Len(s) /\ Len(s) \in Nat
  OBVIOUS
<1>6. g[0] = NoBits
  <2>1. 1 .. 0 = {} /\ 0 \in 0 .. Len(s)
    OBVIOUS
  <2> QED BY <1>4, <2>1
<1>7. ASSUME NEW k \in 1 .. Len(s) PROVE g[k] = PutBit(g[k - 1], s[k])
  <2>a. k \in Nat /\ k # 0
    BY <1>5
  <2>1. 1 .. k \in SUBSET (DOMAIN s) /\ 1 .. k # {} /\ (1 .. k) \ {k} = 1 .. (k - 1)
    <3>1. \A i \in 1 .. k : i \in 1 .. Len(s)
      BY <1>5
    <3>2. 1 .. k \in SUBSET (DOMAIN s)
      BY <1>5, <3>1
    <3> QED BY <2>a, <3>2, PrefixSets, Zenon
  <2>2. Max(1 .. k) = k
    BY <2>a, LastOfPrefix
  <2>3. rec[1 .. k] = PutBit(rec[1 .. (k - 1)], s[k])
    BY <1>4, <2>1, <2>2
  <2>4. k \in 0 .. Len(s) /\ k - 1 \in 0 .. Len(s)
    OBVIOUS
  <2> QED BY <2>3, <2>4
<1> HIDE DEF g
<1>8. 0 .. Len(s) \subseteq {k \in 0 .. Len(s) : g[k] \in Stuffs}
  <2>1. g[0] \in Stuffs
    BY <1>6 DEF NoBits, Stuffs
  <2>2. ASSUME NEW k \in 0 .. Len(s) - 1, g[k] \in Stuffs PROVE g[k + 1] \in Stuffs
    <3>1. k + 1 \in 1 .. Len(s) /\ (k + 1) - 1 = k /\ s[k + 1] \in Bit
      BY <1>5
    <3> QED BY <1>7, <2>2, <3>1, PutBitType
  <2> DEFINE T == {k \in 0 .. Len(s) : g[k] \in Stuffs}
  <2>3. 0 \in T
    BY <1>5, <2>1
  <2>4. \A k \in 0 .. Len(s) - 1 : k \in T => k + 1 \in T
    BY <1>5, <2>2
  <2> HIDE DEF T
  <2>5. 0 .. Len(s) \subseteq T
    BY <1>5, <2>3, <2>4, UpTo
  <2> QED BY <2>5 DEF T
<1>9. g \in [0 .. Len(s) -> Stuffs]
  BY <1>8 DEF g
<1>10. Stuffing(s) = g[Len(s)].out
  BY <1>1, <1>5 DEF g
<1> QED BY <1>6, <1>7, <1>9, <1>10

LEMMA DivBelow == ASSUME NEW n \in Nat, NEW w \in Nat \ {0}
                  PROVE  n \div w \in Nat /\ (n \div w) * w <= n /\ n < (n \div w) * w + w
OBVIOUS

LEMMA DivHolds == ASSUME NEW n \in Nat, NEW w \in Nat \ {0}, NEW i \in Nat, i <= n \div w
                  PROVE  i * w \in Nat /\ i * w <= n
<1>1. n \div w \in Nat /\ (n \div w) * w <= n
  BY DivBelow
<1>2. i * w <= (n \div w) * w
  BY <1>1
<1>3. i * w \in Nat /\ (n \div w) * w \in Nat
  BY <1>1
<1> QED BY <1>1, <1>2, <1>3

LEMMA ModBelow == ASSUME NEW n \in Nat, NEW w \in Nat \ {0}
                  PROVE  n % w \in Nat /\ n % w < w
OBVIOUS

\* Among any Run + 1 bits there is a zero.
NoLongRun(w) == \A e \in Run + 1 .. Len(w) : \E j \in e - Run .. e : w[j] = 0

\* The state of the stuffing counts the ones at the end of what it wrote.
Counted(a) == /\ a.ones < Run /\ a.ones <= Len(a.out)
              /\ a.ones < Len(a.out) => a.out[Len(a.out) - a.ones] = 0
              /\ NoLongRun(a.out)

LEMMA PutBitCounts == ASSUME NEW a \in Stuffs, NEW b \in Bit, Counted(a) PROVE Counted(PutBit(a, b))
<1>1. a.out \in Seq(Bit) /\ a.ones \in Nat /\ Run \in Nat /\ Run # 0
  BY FramingAssumption DEF Stuffs
<1>2. PICK out \in Seq(Bit), ones \in Nat : out = a.out /\ ones = a.ones
  BY <1>1
<1>3. /\ Len(out) \in Nat /\ ones < Run /\ ones <= Len(out)
      /\ ones < Len(out) => out[Len(out) - ones] = 0
  BY <1>1, <1>2 DEF Counted
<1>4. \A e \in Run + 1 .. Len(out) : \E j \in e - Run .. e : out[j] = 0
  BY <1>2 DEF Counted, NoLongRun
<1>5. CASE b = 1 /\ ones + 1 = Run
  <2> DEFINE w == out \o <<1, 0>>
  <2>1. PutBit(a, b) = [out |-> w, ones |-> 0]
    BY <1>2, <1>5 DEF PutBit
  <2>2. /\ Len(w) = Len(out) + 2 /\ w[Len(out) + 2] = 0
        /\ \A i \in 1 .. Len(out) : w[i] = out[i]
    OBVIOUS
  <2> HIDE DEF w
  <2>3. ASSUME NEW e \in Run + 1 .. Len(w) PROVE \E j \in e - Run .. e : w[j] = 0
    <3>1. CASE e = Len(out) + 2
      <4>1. e \in e - Run .. e
        BY <1>1
      <4> QED BY <2>2, <3>1, <4>1
    <3>2. CASE e = Len(out) + 1
      <4>1. Len(out) - ones \in e - Run .. e /\ Len(out) - ones \in 1 .. Len(out) /\ ones < Len(out)
        BY <1>1, <1>3, <1>5, <3>2
      <4> QED BY <1>3, <2>2, <4>1
    <3>3. CASE e \in Run + 1 .. Len(out)
      <4>1. PICK j \in e - Run .. e : out[j] = 0
        BY <1>4, <3>3
      <4>2. j \in 1 .. Len(out)
        BY <1>1, <3>3
      <4> QED BY <2>2, <4>1, <4>2
    <3> QED BY <1>1, <1>3, <2>2, <3>1, <3>2, <3>3
  <2>4. NoLongRun(w)
    BY <2>3 DEF NoLongRun
  <2> QED BY <1>1, <1>3, <2>1, <2>2, <2>4 DEF Counted
<1>6. CASE ~(b = 1 /\ ones + 1 = Run)
  <2> DEFINE w == Append(out, b)
             n == IF b = 1 THEN ones + 1 ELSE 0
  <2>1. PutBit(a, b) = [out |-> w, ones |-> n]
    BY <1>2, <1>6 DEF PutBit
  <2>2. /\ Len(w) = Len(out) + 1 /\ w[Len(out) + 1] = b
        /\ \A i \in 1 .. Len(out) : w[i] = out[i]
    OBVIOUS
  <2>3. n \in Nat /\ n < Run /\ n <= Len(out) + 1
    BY <1>1, <1>3, <1>6
  <2>4. b = 0 => n = 0
    OBVIOUS
  <2>5. b = 1 => n = ones + 1
    OBVIOUS
  <2>6. b = 0 \/ b = 1
    BY DEF Bit
  <2> HIDE DEF w, n
  <2>7. ASSUME n < Len(w) PROVE w[Len(w) - n] = 0
    <3>1. CASE b = 0
      BY <1>3, <2>2, <2>4, <3>1
    <3>2. CASE b = 1
      <4>1. Len(w) - n = Len(out) - ones /\ Len(out) - ones \in 1 .. Len(out) /\ ones < Len(out)
        BY <1>3, <2>2, <2>5, <2>7, <3>2
      <4> QED BY <1>3, <2>2, <4>1
    <3> QED BY <2>6, <3>1, <3>2
  <2>8. ASSUME NEW e \in Run + 1 .. Len(w) PROVE \E j \in e - Run .. e : w[j] = 0
    <3>1. CASE e = Len(out) + 1
      <4>1. Len(w) - n \in e - Run .. e /\ n < Len(w)
        BY <1>1, <1>3, <2>2, <2>3, <3>1
      <4> QED BY <2>7, <4>1
    <3>3. CASE e \in Run + 1 .. Len(out)
      <4>1. PICK j \in e - Run .. e : out[j] = 0
        BY <1>4, <3>3
      <4>2. j \in 1 .. Len(out)
        BY <1>1, <3>3
      <4> QED BY <2>2, <4>1, <4>2
    <3> QED BY <1>1, <1>3, <2>2, <3>1, <3>3
  <2>9. NoLongRun(w)
    BY <2>8 DEF NoLongRun
  <2> QED BY <1>3, <2>1, <2>2, <2>3, <2>7, <2>9 DEF Counted
<1> QED BY <1>5, <1>6

LEMMA StuffingHasNoLongRun ==
    ASSUME NEW s \in Seq(Bit)
    PROVE  Stuffing(s) \in Seq(Bit) /\ NoLongRun(Stuffing(s))
<1>1. PICK g \in [0 .. Len(s) -> Stuffs] :
         /\ g[0] = NoBits
         /\ \A k \in 1 .. Len(s) : g[k] = PutBit(g[k - 1], s[k])
         /\ Stuffing(s) = g[Len(s)].out
  BY StuffingRun
<1>2. Len(s) \in Nat
  OBVIOUS
<1> DEFINE T == {k \in 0 .. Len(s) : Counted(g[k])}
<1>3. 0 \in T
  <2>1. Run \in Nat /\ Run # 0
    BY FramingAssumption
  <2>2. NoLongRun(<<>>)
    BY <2>1 DEF NoLongRun
  <2>3. Counted(NoBits)
    BY <2>1, <2>2 DEF Counted, NoBits
  <2> QED BY <1>1, <1>2, <2>3
<1>4. ASSUME NEW k \in 0 .. Len(s) - 1, k \in T PROVE k + 1 \in T
  <2>1. k + 1 \in 1 .. Len(s) /\ (k + 1) - 1 = k /\ s[k + 1] \in Bit /\ k \in 0 .. Len(s) /\ k + 1 \in 0 .. Len(s)
    BY <1>2
  <2>2. g[k] \in Stuffs /\ Counted(g[k]) /\ g[k + 1] = PutBit(g[k], s[k + 1])
    BY <1>1, <1>4, <2>1
  <2>3. Counted(g[k + 1])
    BY <2>1, <2>2, PutBitCounts
  <2> QED BY <2>1, <2>3
<1>5. Len(s) \in T
  <2> HIDE DEF T
  <2>1. 0 .. Len(s) \subseteq T
    BY <1>2, <1>3, <1>4, UpTo
  <2> QED BY <1>2, <2>1
<1>6. g[Len(s)] \in Stuffs /\ Counted(g[Len(s)])
  BY <1>2, <1>5
<1> QED BY <1>1, <1>6 DEF Counted, Stuffs

\* Neither the zeros of the padding nor cutting off the end makes a run longer.
LEMMA PaddedHasNoLongRun ==
    ASSUME NEW s \in Seq(Bit), NoLongRun(s)
    PROVE  IntListToBytes(s) \in Seq(Bit) /\ NoLongRun(IntListToBytes(s))
<1>1. Run \in Nat /\ Width \in Nat \ {0}
  BY FramingAssumption
<1>2. PICK n \in Nat : n = Width - (Len(s) % Width)
  <2>1. Len(s) % Width \in Nat /\ Len(s) % Width < Width
    <3>1. Len(s) \in Nat
      OBVIOUS
    <3> QED BY <1>1, <3>1, ModBelow
  <2>2. PICK r \in Nat : r = Len(s) % Width /\ r < Width
    BY <2>1
  <2>3. Width - r \in Nat
    BY <1>1, <2>2
  <2> QED BY <2>2, <2>3
<1> DEFINE z == Zeros(n)
           w == s \o z
<1>3. z \in Seq(Bit) /\ Len(z) = n /\ \A i \in 1 .. n : z[i] = 0
  BY DEF Zeros, Bit
<1>4. IntListToBytes(s) = w
  BY <1>2 DEF IntListToBytes
<1> HIDE DEF z
<1>5. /\ w \in Seq(Bit) /\ Len(w) = Len(s) + n /\ Len(s) \in Nat
      /\ \A i \in 1 .. Len(s) : w[i] = s[i]
      /\ \A i \in Len(s) + 1 .. Len(s) + n : w[i] = 0
  BY <1>3
<1> HIDE DEF w
<1>6. ASSUME NEW e \in Run + 1 .. Len(w) PROVE \E j \in e - Run .. e : w[j] = 0
  <2>1. CASE e \in Len(s) + 1 .. Len(s) + n
    <3>1. e \in e - Run .. e
      BY <1>1
    <3> QED BY <1>5, <2>1, <3>1
  <2>2. CASE e \in Run + 1 .. Len(s)
    <3>1. PICK j \in e - Run .. e : s[j] = 0
      BY <2>2 DEF NoLongRun
    <3>2. j \in 1 .. Len(s)
      BY <1>1, <2>2
    <3> QED BY <1>5, <3>1, <3>2
  <2> QED BY <1>1, <1>5, <2>1, <2>2
<1> QED BY <1>4, <1>5, <1>6 DEF NoLongRun

LEMMA PrefixHasNoLongRun ==
    ASSUME NEW s \in Seq(Bit), NoLongRun(s), NEW m \in 0 .. Len(s)
    PROVE  SubSeq(s, 1, m) \in Seq(Bit) /\ NoLongRun(SubSeq(s, 1, m))
<1>1. Run \in Nat /\ Len(s) \in Nat
  BY FramingAssumption
<1>2. PICK w : w = SubSeq(s, 1, m)
  OBVIOUS
<1>3. w \in Seq(Bit) /\ Len(w) = m /\ \A i \in 1 .. m : w[i] = s[i]
  BY <1>1, <1>2
<1>4. ASSUME NEW e \in Run + 1 .. Len(w) PROVE \E j \in e - Run .. e : w[j] = 0
  <2>0. e \in Run + 1 .. Len(s)
    BY <1>1, <1>3
  <2>1. PICK j \in e - Run .. e : s[j] = 0
    BY <2>0 DEF NoLongRun
  <2>2. j \in 1 .. m
    BY <1>1, <1>3
  <2> QED BY <1>3, <2>1, <2>2
<1> QED BY <1>2, <1>3, <1>4 DEF NoLongRun

LEMMA StuffHasNoLongRun ==
    ASSUME NEW f \in Seq(Bit)
    PROVE  Stuff(f) \in Seq(Bit) /\ NoLongRun(Stuff(f))
<1>1. PICK s \in Seq(Bit) : s = IntListToBytes(Stuffing(f)) /\ NoLongRun(s)
  BY StuffingHasNoLongRun, PaddedHasNoLongRun
<1> DEFINE last == {i \in 1 .. Bytes(s) : /\ Byte(s, i) # Zeros(Width)
                                          /\ \A j \in i + 1 .. Bytes(s) : Byte(s, j) = Zeros(Width)}
           m == IF last = {} THEN 0 ELSE CHOOSE i \in last : TRUE
<1>2. Stuff(f) = SubSeq(s, 1, Width * m)
  BY <1>1 DEF Stuff, Rstrip
<1>3. Width \in Nat \ {0} /\ Len(s) \in Nat
  BY FramingAssumption
<1>4. Bytes(s) \in Nat
  BY <1>3, DivBelow DEF Bytes
<1>5. m \in 0 .. Bytes(s)
  <2>1. last \subseteq 1 .. Bytes(s)
    OBVIOUS
  <2> HIDE DEF last
  <2>2. CASE last = {}
    BY <1>4, <2>2
  <2>3. CASE last # {}
    <3>1. m \in last
      <4>1. m = CHOOSE i \in last : TRUE
        BY <2>3
      <4>2. (CHOOSE i \in last : TRUE) \in last
        BY <2>3
      <4> HIDE DEF m
      <4> QED BY <4>1, <4>2
    <3>2. m \in 1 .. Bytes(s)
      <4> HIDE DEF m
      <4> QED BY <2>1, <3>1, Zenon
    <3> HIDE DEF m
    <3> QED BY <1>4, <3>2
  <2> QED BY <2>2, <2>3
<1> HIDE DEF m
<1>6. Width * m \in 0 .. Len(s)
  <2>1. m * Width \in Nat /\ m * Width <= Len(s)
    <3>1. m \in Nat /\ m <= Len(s) \div Width
      <4>1. m \in Nat /\ m <= Bytes(s)
        BY <1>4, <1>5
      <4> QED BY <4>1 DEF Bytes
    <3> QED BY <1>3, <3>1, DivHolds
  <2>2. Width * m = m * Width
    BY <1>3, <1>4, <1>5
  <2> QED BY <1>3, <2>1, <2>2
<1> QED BY <1>1, <1>2, <1>6, PrefixHasNoLongRun

\* A byte that is a flag is a run that is too long.
LEMMA NoFlagInside ==
    ASSUME NEW w \in Seq(Bit), NoLongRun(w)
    PROVE  \A i \in 1 .. Bytes(w) : Byte(w, i) # Flag
<1> SUFFICES ASSUME NEW i \in 1 .. Bytes(w), Byte(w, i) = Flag PROVE FALSE
  OBVIOUS
<1>1. Run \in Nat /\ Width = Run + 3 /\ Width \in Nat \ {0} /\ Len(w) \in Nat
  BY FramingAssumption
<1>2. Bytes(w) \in Nat
  BY <1>1, DivBelow DEF Bytes
<1>3. i * Width \in Nat /\ i * Width <= Len(w)
  BY <1>1, <1>2, DivHolds DEF Bytes
<1>4. PICK p \in Nat : p = (i - 1) * Width /\ i * Width = p + Width
  <2>1. (i - 1) * Width \in Nat /\ i * Width = (i - 1) * Width + Width
    BY <1>1, <1>2
  <2> QED BY <2>1
<1>5. PICK j \in (p + Run + 2) - Run .. p + Run + 2 : w[j] = 0
  <2>1. p + Run + 2 \in Run + 1 .. Len(w)
    BY <1>1, <1>3, <1>4
  <2> QED BY <2>1 DEF NoLongRun
<1>6. PICK k \in 2 .. Run + 2 : j = p + k
  <2>1. j - p \in 2 .. Run + 2 /\ j = p + (j - p)
    BY <1>1
  <2> QED BY <2>1
<1>7. SubSeq(w, p + 1, p + Width)[k] = w[j]
  <2>1. p + 1 \in 1 .. Len(w) + 1 /\ p + Width \in p .. Len(w) /\ k \in 1 .. Width
    BY <1>1, <1>3, <1>4
  <2> QED BY <1>1, <1>6, <2>1
<1>8. Flag[k] = 1
  <2> DEFINE r == [x \in 1 .. Run + 1 |-> 1]
  <2>1. r \in Seq(Nat) /\ Len(r) = Run + 1 /\ \A x \in 1 .. Run + 1 : r[x] = 1
    BY <1>1
  <2>2. Flag = <<0>> \o r \o <<0>>
    BY DEF Flag
  <2> HIDE DEF r
  <2>3. k - 1 \in 1 .. Run + 1
    BY <1>1
  <2>4. (<<0>> \o r \o <<0>>)[k] = r[k - 1]
    BY <1>1, <2>1, <2>3
  <2> QED BY <2>1, <2>2, <2>3, <2>4
<1>9. Byte(w, i)[k] = 0
  BY <1>4, <1>5, <1>7 DEF Byte
<1> QED BY <1>8, <1>9

\* No byte between the flags is one, however long the frame is: of what is written
\* to the port the first and the last flag delimit a frame.
THEOREM WireHasNoFlag == FramingSpec => []FlagsDelimit
<1>1. FramingInit => FlagsDelimit
  <2> SUFFICES ASSUME FramingInit PROVE FlagsDelimit
    OBVIOUS
  <2>1. wire = <<>> /\ Len(wire) = 0 /\ Width \in Nat \ {0}
    BY FramingAssumption DEF FramingInit
  <2>2. Bytes(wire) = 0
    BY <2>1 DEF Bytes
  <2> QED BY <2>2 DEF FlagsDelimit
<1>2. FlagsDelimit /\ [FramingNext]_framingVars => FlagsDelimit'
  <2> SUFFICES ASSUME FlagsDelimit, [FramingNext]_framingVars PROVE FlagsDelimit'
    OBVIOUS
  <2>1. ASSUME NEW n \in Nat, SendFrame(n) PROVE FlagsDelimit'
    <3>1. frame' \in Bits(n) /\ wire' = Stuff(frame')
      BY <2>1 DEF SendFrame, FramesOf, FrameWritten
    <3>2. frame' \in Seq(Bit)
      <4>1. n * Width \in Nat
        BY FramingAssumption
      <4>2. PICK m \in Nat : m = n * Width
        BY <4>1
      <4>3. frame' \in [1 .. m -> 0 .. 1]
        BY <3>1, <4>2 DEF Bits
      <4>4. 0 .. 1 = Bit
        BY DEF Bit
      <4> QED BY <4>3, <4>4
    <3>3. wire' \in Seq(Bit) /\ NoLongRun(wire')
      BY <3>1, <3>2, StuffHasNoLongRun
    <3> QED BY <3>3, NoFlagInside DEF FlagsDelimit
  <2>2. CASE ReceiveFrame
    BY <2>2 DEF ReceiveFrame, FlagsDelimit, Bytes, Byte
  <2>3. CASE NextFrame
    <3>1. wire' = <<>> /\ Len(wire') = 0 /\ Width \in Nat \ {0}
      BY <2>3, FramingAssumption DEF NextFrame
    <3>2. Bytes(wire') = 0
      BY <3>1 DEF Bytes
    <3> QED BY <3>2 DEF FlagsDelimit
  <2>4. CASE UNCHANGED framingVars
    BY <2>4 DEF framingVars, FlagsDelimit, Bytes, Byte
  <2>5. FrameBytes \in Nat /\ ShortBytes \in Nat
    BY FramingAssumption
  <2> QED BY <2>1, <2>2, <2>3, <2>4, <2>5 DEF FramingNext
<1> QED BY <1>1, <1>2, PTL DEF FramingSpec

-----------------------------------------------------------------------------
(* What command_multi_pack packs, unpack_command reads. *)

LEMMA PrefixStep == ASSUME NEW n \in Nat, NEW k \in 1 .. n
                    PROVE  /\ 1 .. k \in SUBSET (1 .. n) /\ 1 .. k # {}
                           /\ Max(1 .. k) = k /\ (1 .. k) \ {k} = 1 .. (k - 1)
<1>1. k \in Nat /\ k # 0
  OBVIOUS
<1>2. \A i \in 1 .. k : i \in 1 .. n
  OBVIOUS
<1>3. 1 .. k \in SUBSET (1 .. n)
  BY <1>2
<1>4. 1 .. k # {} /\ (1 .. k) \ {k} = 1 .. (k - 1)
  BY <1>1, PrefixSets
<1> QED BY <1>1, <1>3, <1>4, LastOfPrefix, Zenon

LEMMA AsSeq == ASSUME NEW S, NEW n \in Nat, NEW f \in [1 .. n -> S] PROVE f \in Seq(S) /\ Len(f) = n
OBVIOUS

LEMMA FlattenRun ==
    ASSUME NEW M, NEW ss \in Seq(Seq(M)), Len(ss) # 0
    PROVE  \E h \in [1 .. Len(ss) -> Seq(M)] :
              /\ h[1] = ss[1]
              /\ \A i \in 2 .. Len(ss) : h[i] = h[i - 1] \o ss[i]
              /\ FlattenSeq(ss) = h[Len(ss)]
<1> DEFINE Eq(f) == f = [i \in 1 .. Len(ss) |-> IF i = 1 THEN ss[i] ELSE f[i - 1] \o ss[i]]
           Rec(n, f) == \A i \in 1 .. n : f[i] = IF i = 1 THEN ss[i] ELSE f[i - 1] \o ss[i]
           T == {n \in 0 .. Len(ss) : \E f \in [1 .. n -> Seq(M)] : Rec(n, f)}
           rec == CHOOSE f : Eq(f)
<1>1. Len(ss) \in Nat /\ \A i \in 1 .. Len(ss) : ss[i] \in Seq(M)
  OBVIOUS
<1>2. FlattenSeq(ss) = rec[Len(ss)]
  BY DEF FlattenSeq
<1>3. 0 \in T
  <2>1. [i \in 1 .. 0 |-> <<>>] \in [1 .. 0 -> Seq(M)]
    OBVIOUS
  <2>2. Rec(0, [i \in 1 .. 0 |-> <<>>])
    OBVIOUS
  <2>3. 0 \in 0 .. Len(ss)
    BY <1>1
  <2> HIDE DEF Rec
  <2> QED BY <2>1, <2>2, <2>3
<1>4. ASSUME NEW n \in 0 .. Len(ss) - 1, n \in T PROVE n + 1 \in T
  <2>1. PICK f \in [1 .. n -> Seq(M)] : Rec(n, f)
    BY <1>4
  <2> DEFINE F == [i \in 1 .. n + 1 |-> IF i = n + 1 THEN IF i = 1 THEN ss[i] ELSE f[n] \o ss[i]
                                        ELSE f[i]]
  <2>2. n \in Nat /\ n + 1 \in 1 .. Len(ss) /\ ss[n + 1] \in Seq(M) /\ n + 1 \in 0 .. Len(ss)
    BY <1>1
  <2>3. n + 1 # 1 => n \in 1 .. n
    BY <2>2
  <2>4. \A i \in 1 .. n + 1 : i # n + 1 => i \in 1 .. n
    BY <2>2
  <2>5. ASSUME NEW i \in 1 .. n + 1 PROVE F[i] \in Seq(M)
    <3>1. CASE i # n + 1
      BY <2>4, <3>1
    <3>2. CASE i = n + 1 /\ i = 1
      BY <2>2, <3>2
    <3>3. CASE i = n + 1 /\ i # 1
      <4>1. f[n] \in Seq(M)
        BY <2>3, <3>3
      <4>2. f[n] \o ss[n + 1] \in Seq(M)
        BY <2>2, <4>1
      <4> QED BY <3>3, <4>2
    <3> QED BY <3>1, <3>2, <3>3
  <2>6. F \in [1 .. n + 1 -> Seq(M)]
    BY <2>5
  <2>7. ASSUME NEW i \in 1 .. n + 1
        PROVE  F[i] = IF i = 1 THEN ss[i] ELSE F[i - 1] \o ss[i]
    <3>1. i # 1 => i - 1 \in 1 .. n /\ i - 1 \in 1 .. n + 1 /\ i - 1 # n + 1
      BY <2>2
    <3>2. i # 1 => F[i - 1] = f[i - 1]
      BY <3>1
    <3>3. CASE i = n + 1
      <4>1. i - 1 = n
        BY <2>2, <3>3
      <4>2. F[i] = IF i = 1 THEN ss[i] ELSE f[n] \o ss[i]
        BY <3>3
      <4> HIDE DEF F
      <4> QED BY <3>2, <4>1, <4>2
    <3>4. CASE i # n + 1
      <4>1. F[i] = f[i] /\ i \in 1 .. n
        BY <2>4, <3>4
      <4> HIDE DEF F
      <4> QED BY <2>1, <3>2, <4>1
    <3> QED BY <3>3, <3>4
  <2>8. Rec(n + 1, F)
    <3> HIDE DEF F
    <3> QED BY <2>7
  <2> HIDE DEF Rec, F
  <2> QED BY <2>2, <2>6, <2>8
<1>5. Len(ss) \in T
  <2> HIDE DEF T
  <2>1. 0 .. Len(ss) \subseteq T
    BY <1>1, <1>3, <1>4, UpTo
  <2>2. Len(ss) \in 0 .. Len(ss)
    BY <1>1
  <2> QED BY <2>1, <2>2
<1>6. PICK f \in [1 .. Len(ss) -> Seq(M)] : Rec(Len(ss), f)
  BY <1>5
<1>7. Eq(f)
  BY <1>6
<1>8. Eq(rec)
  <2> HIDE DEF Eq
  <2> QED BY <1>7
<1> HIDE DEF rec
<1>9. Rec(Len(ss), rec)
  BY <1>8
<1>10. DOMAIN rec = 1 .. Len(ss) /\ rec = [i \in 1 .. Len(ss) |-> rec[i]]
  BY <1>8
<1> DEFINE U == {n \in 0 .. Len(ss) : n # 0 => rec[n] \in Seq(M)}
<1>11. ASSUME NEW n \in 0 .. Len(ss) - 1, n \in U PROVE n + 1 \in U
  <2>1. n + 1 \in 1 .. Len(ss) /\ (n + 1) - 1 = n /\ ss[n + 1] \in Seq(M) /\ n + 1 \in 0 .. Len(ss)
    BY <1>1
  <2>2. rec[n + 1] = IF n + 1 = 1 THEN ss[n + 1] ELSE rec[n] \o ss[n + 1]
    BY <1>9, <2>1
  <2>3. CASE n = 0
    BY <2>1, <2>2, <2>3
  <2>4. CASE n # 0
    <3>1. rec[n] \in Seq(M) /\ n + 1 # 1
      BY <1>11, <2>4
    <3>2. rec[n] \o ss[n + 1] \in Seq(M)
      BY <2>1, <3>1
    <3> QED BY <2>1, <2>2, <3>1, <3>2
  <2> QED BY <2>3, <2>4
<1>12. \A n \in 1 .. Len(ss) : rec[n] \in Seq(M)
  <2>1. 0 \in U
    BY <1>1
  <2> HIDE DEF U
  <2>2. 0 .. Len(ss) \subseteq U
    BY <1>1, <1>11, <2>1, UpTo
  <2>3. \A n \in 1 .. Len(ss) : n \in 0 .. Len(ss) /\ n # 0
    BY <1>1
  <2> QED BY <2>2, <2>3 DEF U
<1>13. rec \in [1 .. Len(ss) -> Seq(M)]
  BY <1>10, <1>12
<1>14. 1 \in 1 .. Len(ss) /\ \A i \in 2 .. Len(ss) : i \in 1 .. Len(ss) /\ i # 1
  BY <1>1
<1> QED BY <1>2, <1>9, <1>13, <1>14

LEMMA FlattenAppend ==
    ASSUME NEW M, NEW ss \in Seq(Seq(M)), NEW x \in Seq(M)
    PROVE  FlattenSeq(ss) \in Seq(M) /\ FlattenSeq(Append(ss, x)) = FlattenSeq(ss) \o x
<1> DEFINE tt == Append(ss, x)
<1>1. /\ Len(ss) \in Nat /\ tt \in Seq(Seq(M)) /\ Len(tt) = Len(ss) + 1
      /\ tt[Len(ss) + 1] = x /\ \A i \in 1 .. Len(ss) : tt[i] = ss[i]
  OBVIOUS
<1> HIDE DEF tt
<1>2. PICK t \in [1 .. Len(tt) -> Seq(M)] :
         /\ t[1] = tt[1]
         /\ \A i \in 2 .. Len(tt) : t[i] = t[i - 1] \o tt[i]
         /\ FlattenSeq(tt) = t[Len(tt)]
  <2>1. Len(tt) # 0
    BY <1>1
  <2> QED BY <1>1, <2>1, FlattenRun
<1>3. CASE Len(ss) = 0
  <2>1. ss = <<>>
    BY <1>3
  <2>2. FlattenSeq(ss) = <<>>
    BY <1>3, <2>1 DEF FlattenSeq
  <2>3. FlattenSeq(tt) = x
    BY <1>1, <1>2, <1>3
  <2>4. <<>> \in Seq(M) /\ <<>> \o x = x
    OBVIOUS
  <2> QED BY <2>2, <2>3, <2>4 DEF tt
<1>4. CASE Len(ss) # 0
  <2>1. PICK h \in [1 .. Len(ss) -> Seq(M)] :
           /\ h[1] = ss[1]
           /\ \A i \in 2 .. Len(ss) : h[i] = h[i - 1] \o ss[i]
           /\ FlattenSeq(ss) = h[Len(ss)]
    BY <1>4, FlattenRun
  <2> DEFINE U == {n \in 0 .. Len(ss) : n # 0 => h[n] = t[n]}
  <2>2. 0 \in U
    BY <1>1
  <2>3. ASSUME NEW n \in 0 .. Len(ss) - 1, n \in U PROVE n + 1 \in U
    <3>1. n + 1 \in 1 .. Len(ss) /\ (n + 1) - 1 = n /\ n + 1 \in 0 .. Len(ss)
      BY <1>1
    <3>2. CASE n = 0
      <4>1. h[1] = t[1]
        BY <1>1, <1>2, <2>1, <3>1, <3>2
      <4> QED BY <3>1, <3>2, <4>1
    <3>3. CASE n # 0
      <4>1. n + 1 \in 2 .. Len(ss) /\ n + 1 \in 2 .. Len(tt)
        BY <1>1, <3>3
      <4>2. h[n] = t[n]
        BY <2>3, <3>3
      <4>3. h[n + 1] = h[n] \o ss[n + 1] /\ t[n + 1] = t[n] \o tt[n + 1]
        <5>1. h[n + 1] = h[(n + 1) - 1] \o ss[n + 1]
          BY <2>1, <4>1
        <5>2. t[n + 1] = t[(n + 1) - 1] \o tt[n + 1]
          BY <1>2, <4>1
        <5> QED BY <3>1, <5>1, <5>2
      <4>4. tt[n + 1] = ss[n + 1]
        BY <1>1, <3>1
      <4>5. h[n + 1] = t[n + 1]
        BY <4>2, <4>3, <4>4
      <4> QED BY <3>1, <4>5
    <3> QED BY <3>2, <3>3
  <2>4. h[Len(ss)] = t[Len(ss)]
    <3> HIDE DEF U
    <3>1. 0 .. Len(ss) \subseteq U
      BY <1>1, <2>2, <2>3, UpTo
    <3>2. Len(ss) \in 0 .. Len(ss)
      BY <1>1
    <3> QED BY <1>4, <3>1, <3>2 DEF U
  <2>5. Len(tt) \in 2 .. Len(tt) /\ Len(tt) - 1 = Len(ss) /\ Len(ss) \in 1 .. Len(ss)
    BY <1>1, <1>4
  <2>6. FlattenSeq(tt) = FlattenSeq(ss) \o x
    <3>1. t[Len(tt)] = t[Len(tt) - 1] \o tt[Len(tt)]
      BY <1>2, <2>5
    <3>2. tt[Len(tt)] = x
      BY <1>1
    <3> QED BY <1>2, <2>1, <2>4, <2>5, <3>1, <3>2
  <2>7. FlattenSeq(ss) \in Seq(M)
    BY <2>1, <2>5
  <2> QED BY <2>6, <2>7 DEF tt
<1> QED BY <1>3, <1>4

\* The commands there are, of which all but CMD_END_OF_FRAME can be packed.
Msg == [id : CmdCallbackId, data : Seq(Nat), isTimeTagged : BOOLEAN, timestamp : Nat]
Packable == {m \in Msg : m.id # 0}
Cell == (Msg \X Nat) \union {Fill}

LEMMA SizeBounds == \A id : PackedSize(id) \in 5 .. 12
BY DEF PackedSize

\* What unpack_command finds from a place on.
FoundAt(block, h, o) ==
    IF o > Len(block) THEN <<Overrun>>
    ELSE IF block[o] = Fill THEN <<>>
    ELSE <<block[o][1]>> \o h[o + PackedSize(block[o][1].id)]

LEMMA FoundAtType ==
    ASSUME NEW block \in Seq(Cell), Len(block) = RS_DECODED_DATA_SIZE, NEW k \in 1 .. RS_DECODED_DATA_SIZE + 12,
           NEW h \in [k + 1 .. RS_DECODED_DATA_SIZE + 12 -> Seq(Msg \union {Overrun})]
    PROVE  FoundAt(block, h, k) \in Seq(Msg \union {Overrun})
<1>1. RS_DECODED_DATA_SIZE \in Nat
  BY CodecAssumption
<1>2. CASE k > Len(block)
  <2>1. FoundAt(block, h, k) = <<Overrun>>
    BY <1>2 DEF FoundAt
  <2> QED BY <2>1
<1>3. CASE ~(k > Len(block)) /\ block[k] = Fill
  <2>1. FoundAt(block, h, k) = <<>>
    BY <1>3 DEF FoundAt
  <2> QED BY <2>1
<1>4. CASE ~(k > Len(block)) /\ block[k] # Fill
  <2>1. k \in 1 .. Len(block) /\ k <= RS_DECODED_DATA_SIZE
    BY <1>1, <1>4
  <2>2. block[k] \in Msg \X Nat
    BY <1>4, <2>1 DEF Cell
  <2>3. PICK m \in Msg : m = block[k][1]
    BY <2>2
  <2>4. PICK z \in 5 .. 12 : z = PackedSize(m.id)
    BY SizeBounds
  <2>5. k + z \in k + 1 .. RS_DECODED_DATA_SIZE + 12
    BY <1>1, <2>1
  <2>6. h[k + z] \in Seq(Msg \union {Overrun})
    BY <2>5
  <2>7. FoundAt(block, h, k) = <<m>> \o h[k + z]
    BY <1>4, <2>3, <2>4 DEF FoundAt
  <2>8. <<m>> \in Seq(Msg \union {Overrun})
    OBVIOUS
  <2> QED BY <2>6, <2>7, <2>8
<1> QED BY <1>2, <1>3, <1>4

LEMMA UnpackRun ==
    ASSUME NEW block \in Seq(Cell), Len(block) = RS_DECODED_DATA_SIZE
    PROVE  \E h : /\ \A o \in 1 .. RS_DECODED_DATA_SIZE + 12 : h[o] = FoundAt(block, h, o)
                  /\ UnpackCommand(block) = h[1]
<1> DEFINE D == RS_DECODED_DATA_SIZE + 12
           Eq(f) == f = [o \in 1 .. D |->
                           CASE o > Len(block) -> <<Overrun>>
                             [] o <= Len(block) /\ block[o] = Fill -> <<>>
                             [] OTHER -> <<block[o][1]>> \o f[o + PackedSize(block[o][1].id)]]
           rec == CHOOSE f : Eq(f)
           R == Msg \union {Overrun}
           T == {k \in 0 .. D : \E f \in [k + 1 .. D -> Seq(R)] :
                                   \A o \in k + 1 .. D : f[o] = FoundAt(block, f, o)}
<1>1. D \in Nat /\ Len(block) \in Nat
  BY CodecAssumption
<1>2. UnpackCommand(block) = rec[1]
  BY DEF UnpackCommand
<1>3. D \in T
  <2>1. [o \in D + 1 .. D |-> <<>>] \in [D + 1 .. D -> Seq(R)]
    BY <1>1
  <2>2. \A o \in D + 1 .. D : FALSE
    BY <1>1
  <2>3. D \in 0 .. D
    BY <1>1
  <2> HIDE DEF D
  <2> QED BY <2>1, <2>2, <2>3
<1>4. ASSUME NEW n \in 0 .. D - 1, n + 1 \in T PROVE n \in T
  <2>1. PICK f \in [(n + 1) + 1 .. D -> Seq(R)] :
           \A o \in (n + 1) + 1 .. D : f[o] = FoundAt(block, f, o)
    BY <1>4
  <2>2. PICK k \in 1 .. D : k = n + 1 /\ n + 1 .. D = {k} \union (k + 1 .. D) /\ k \notin k + 1 .. D
    BY <1>1
  <2> DEFINE F == [o \in n + 1 .. D |-> IF o = k THEN FoundAt(block, f, k) ELSE f[o]]
  <2>3. FoundAt(block, f, k) \in Seq(R)
    BY <2>2, FoundAtType
  <2>4. F \in [n + 1 .. D -> Seq(R)]
    BY <2>2, <2>3
  <2>5. \A o \in k + 1 .. D : F[o] = f[o]
    BY <2>2
  <2>6. F[k] = FoundAt(block, f, k)
    BY <2>2
  <2> HIDE DEF F
  <2>7. ASSUME NEW o \in n + 1 .. D PROVE FoundAt(block, F, o) = FoundAt(block, f, o)
    <3>1. CASE o > Len(block)
      BY <3>1 DEF FoundAt
    <3>2. CASE ~(o > Len(block)) /\ block[o] = Fill
      BY <3>2 DEF FoundAt
    <3>3. CASE ~(o > Len(block)) /\ block[o] # Fill
      <4>1. PICK z \in 5 .. 12 : z = PackedSize(block[o][1].id)
        BY SizeBounds
      <4>2. o + z \in k + 1 .. D
        BY <1>1, <2>2, <3>3, CodecAssumption
      <4>3. F[o + z] = f[o + z]
        BY <2>5, <4>2
      <4> QED BY <3>3, <4>1, <4>3 DEF FoundAt
    <3> QED BY <3>1, <3>2, <3>3
  <2>8. ASSUME NEW o \in n + 1 .. D PROVE F[o] = FoundAt(block, F, o)
    <3>1. CASE o = k
      BY <2>6, <2>7, <3>1
    <3>2. CASE o # k
      <4>1. o \in k + 1 .. D
        BY <2>2, <3>2
      <4> QED BY <2>1, <2>2, <2>5, <2>7, <4>1
    <3> QED BY <3>1, <3>2
  <2>9. n \in 0 .. D
    BY <1>1
  <2> QED BY <2>4, <2>8, <2>9
<1>5. 0 \in T
  <2> HIDE DEF T, D
  <2>1. 0 .. D \subseteq T
    BY <1>1, <1>3, <1>4, DownTo
  <2> QED BY <1>1, <2>1
<1>6. PICK f \in [1 .. D -> Seq(R)] : \A o \in 1 .. D : f[o] = FoundAt(block, f, o)
  <2>1. 0 + 1 = 1
    OBVIOUS
  <2> HIDE DEF D
  <2> QED BY <1>5, <2>1
<1>7. \A g : \A o \in 1 .. D :
         FoundAt(block, g, o) =
                  CASE o > Len(block) -> <<Overrun>>
                    [] o <= Len(block) /\ block[o] = Fill -> <<>>
                    [] OTHER -> <<block[o][1]>> \o g[o + PackedSize(block[o][1].id)]
  <2> SUFFICES ASSUME NEW g, NEW o \in 1 .. D
               PROVE  FoundAt(block, g, o) =
                        CASE o > Len(block) -> <<Overrun>>
                          [] o <= Len(block) /\ block[o] = Fill -> <<>>
                          [] OTHER -> <<block[o][1]>> \o g[o + PackedSize(block[o][1].id)]
    OBVIOUS
  <2>1. o \in Nat
    BY <1>1
  <2>2. CASE o > Len(block)
    BY <1>1, <2>1, <2>2 DEF FoundAt
  <2>3. CASE ~(o > Len(block)) /\ block[o] = Fill
    BY <1>1, <2>1, <2>3 DEF FoundAt
  <2>4. CASE ~(o > Len(block)) /\ block[o] # Fill
    BY <1>1, <2>1, <2>4 DEF FoundAt
  <2> QED BY <2>2, <2>3, <2>4
<1>8. \E g : Eq(g)
  <2> HIDE DEF D
  <2>1. Eq(f)
    BY <1>6, <1>7
  <2> QED BY <2>1
<1>9. Eq(rec)
  <2> HIDE DEF Eq
  <2> QED BY <1>8
<1> HIDE DEF rec
<1>10. \A o \in 1 .. D : rec[o] = FoundAt(block, rec, o)
  BY <1>7, <1>9
<1> QED BY <1>2, <1>10

\* Where the commands ns begin in the data of a block.
Laid(data, ns) ==
    \E off \in [1 .. Len(ns) + 1 -> Nat] :
       /\ off[1] = 1 /\ off[Len(ns) + 1] = Len(data) + 1
       /\ \A j \in 1 .. Len(ns) : /\ off[j] \in 1 .. Len(data) /\ data[off[j]] = <<ns[j], 1>>
                                  /\ off[j + 1] = off[j] + PackedSize(ns[j].id)

LEMMA LjustType ==
    ASSUME NEW data \in Seq(Cell), Len(data) < RS_DECODED_DATA_SIZE
    PROVE  /\ Ljust(data) \in Seq(Cell) /\ Len(Ljust(data)) = RS_DECODED_DATA_SIZE
           /\ \A i \in 1 .. Len(data) : Ljust(data)[i] = data[i]
           /\ Ljust(data)[Len(data) + 1] = Fill
<1>1. RS_DECODED_DATA_SIZE \in Nat /\ Len(data) \in Nat
  BY CodecAssumption
<1>2. PICK n \in Nat : n = RS_DECODED_DATA_SIZE - Len(data) /\ n >= 1
  <2>1. RS_DECODED_DATA_SIZE - Len(data) \in Nat /\ RS_DECODED_DATA_SIZE - Len(data) >= 1
    BY <1>1
  <2> QED BY <2>1
<1> DEFINE z == [i \in 1 .. n |-> Fill]
<1>3. z \in Seq(Cell) /\ Len(z) = n /\ \A i \in 1 .. n : z[i] = Fill
  BY DEF Cell
<1>4. Ljust(data) = data \o z
  BY <1>2 DEF Ljust
<1> HIDE DEF z
<1>5. /\ data \o z \in Seq(Cell) /\ Len(data \o z) = Len(data) + n
      /\ \A i \in 1 .. Len(data) : (data \o z)[i] = data[i]
      /\ (data \o z)[Len(data) + 1] = z[1]
  BY <1>1, <1>2, <1>3
<1> QED BY <1>1, <1>2, <1>3, <1>4, <1>5

LEMMA UnpackLaid ==
    ASSUME NEW data \in Seq(Cell), Len(data) < RS_DECODED_DATA_SIZE,
           NEW ns \in Seq(Packable), Laid(data, ns)
    PROVE  UnpackCommand(Ljust(data)) = ns
<1>1. PICK block \in Seq(Cell) : /\ block = Ljust(data) /\ Len(block) = RS_DECODED_DATA_SIZE
                                 /\ \A i \in 1 .. Len(data) : block[i] = data[i]
                                 /\ block[Len(data) + 1] = Fill
  BY LjustType
<1>2. PICK h : /\ \A o \in 1 .. RS_DECODED_DATA_SIZE + 12 : h[o] = FoundAt(block, h, o)
               /\ UnpackCommand(block) = h[1]
  BY <1>1, UnpackRun
<1>3. PICK off \in [1 .. Len(ns) + 1 -> Nat] :
       /\ off[1] = 1 /\ off[Len(ns) + 1] = Len(data) + 1
       /\ \A j \in 1 .. Len(ns) : /\ off[j] \in 1 .. Len(data) /\ data[off[j]] = <<ns[j], 1>>
                                  /\ off[j + 1] = off[j] + PackedSize(ns[j].id)
  BY DEF Laid
<1>4. Len(ns) \in Nat /\ Len(data) \in Nat /\ RS_DECODED_DATA_SIZE \in Nat
  BY CodecAssumption
<1> DEFINE T == {j \in 0 .. Len(ns) : h[off[j + 1]] = SubSeq(ns, j + 1, Len(ns))}
<1>5. Len(ns) \in T
  <2>1. Len(data) + 1 \in 1 .. RS_DECODED_DATA_SIZE + 12 /\ ~(Len(data) + 1 > Len(block))
    BY <1>1, <1>4
  <2>2. h[Len(data) + 1] = <<>>
    BY <1>1, <1>2, <2>1 DEF FoundAt
  <2>3. SubSeq(ns, Len(ns) + 1, Len(ns)) = <<>>
    BY <1>4
  <2>4. h[off[Len(ns) + 1]] = SubSeq(ns, Len(ns) + 1, Len(ns))
    BY <1>3, <2>2, <2>3
  <2>5. Len(ns) \in 0 .. Len(ns)
    BY <1>4
  <2> QED BY <2>4, <2>5
<1>6. ASSUME NEW j \in 0 .. Len(ns) - 1, j + 1 \in T PROVE j \in T
  <2>1. PICK k \in 1 .. Len(ns) : k = j + 1
    BY <1>4
  <2>2. PICK o \in 1 .. Len(data) : o = off[k] /\ data[o] = <<ns[k], 1>> /\ off[k + 1] = o + PackedSize(ns[k].id)
    BY <1>3
  <2>3. o \in 1 .. RS_DECODED_DATA_SIZE + 12 /\ ~(o > Len(block)) /\ block[o] = <<ns[k], 1>>
    BY <1>1, <1>4, <2>2
  <2>4. block[o] # Fill /\ block[o][1] = ns[k]
    BY <2>3 DEF Fill
  <2>5. h[o] = <<ns[k]>> \o h[o + PackedSize(ns[k].id)]
    BY <1>2, <2>3, <2>4 DEF FoundAt
  <2>6. h[off[k + 1]] = SubSeq(ns, k + 1, Len(ns))
    BY <1>6, <2>1
  <2>7. h[o] = <<ns[k]>> \o SubSeq(ns, k + 1, Len(ns))
    BY <2>2, <2>5, <2>6
  <2>8. <<ns[k]>> \o SubSeq(ns, k + 1, Len(ns)) = SubSeq(ns, k, Len(ns))
    <3>1. SubSeq(ns, k, Len(ns)) = <<ns[k]>> \o SubSeq(ns, k + 1, Len(ns))
      BY <1>4, SubSeqRecursiveFirst
    <3> QED BY <3>1
  <2>9. j \in 0 .. Len(ns)
    BY <1>4
  <2> QED BY <2>1, <2>2, <2>7, <2>8, <2>9
<1>7. 0 \in T
  <2> HIDE DEF T
  <2>1. 0 .. Len(ns) \subseteq T
    BY <1>4, <1>5, <1>6, DownTo
  <2>2. 0 \in 0 .. Len(ns)
    BY <1>4
  <2> QED BY <2>1, <2>2
<1>8. h[off[0 + 1]] = SubSeq(ns, 0 + 1, Len(ns))
  BY <1>7
<1>9. SubSeq(ns, 1, Len(ns)) = ns /\ 0 + 1 = 1
  OBVIOUS
<1>10. h[1] = ns
  BY <1>3, <1>8, <1>9
<1> QED BY <1>1, <1>2, <1>10

LEMMA LaidNone == Laid(<<>>, <<>>)
<1> DEFINE off == [j \in 1 .. 1 |-> 1]
<1>1. off \in [1 .. Len(<<>>) + 1 -> Nat] /\ off[1] = 1 /\ off[Len(<<>>) + 1] = Len(<<>>) + 1
  OBVIOUS
<1>2. 1 .. Len(<<>>) = {}
  OBVIOUS
<1> HIDE DEF off
<1> QED BY <1>1, <1>2 DEF Laid

LEMMA PackType ==
    ASSUME NEW m \in Packable
    PROVE  /\ PackCommand(m) \in Seq(Cell) /\ Len(PackCommand(m)) = PackedSize(m.id)
           /\ PackCommand(m)[1] = <<m, 1>>
<1>1. PICK n \in 5 .. 12 : n = PackedSize(m.id)
  BY SizeBounds
<1> DEFINE p == [i \in 1 .. n |-> <<m, i>>]
<1>2. PackCommand(m) = p
  BY <1>1 DEF PackCommand, Packable
<1>3. \A i \in 1 .. n : p[i] \in Cell
  BY DEF Cell, Packable
<1>4. p \in Seq(Cell) /\ Len(p) = n /\ p[1] = <<m, 1>>
  BY <1>3
<1> QED BY <1>1, <1>2, <1>4

LEMMA LaidAppend ==
    ASSUME NEW data \in Seq(Cell), NEW ns \in Seq(Packable), Laid(data, ns), NEW m \in Packable
    PROVE  Laid(data \o PackCommand(m), Append(ns, m))
<1>1. PICK p \in Seq(Cell), n \in 5 .. 12 :
         p = PackCommand(m) /\ n = PackedSize(m.id) /\ Len(p) = n /\ p[1] = <<m, 1>>
  BY PackType, SizeBounds
<1>2. PICK off \in [1 .. Len(ns) + 1 -> Nat] :
       /\ off[1] = 1 /\ off[Len(ns) + 1] = Len(data) + 1
       /\ \A j \in 1 .. Len(ns) : /\ off[j] \in 1 .. Len(data) /\ data[off[j]] = <<ns[j], 1>>
                                  /\ off[j + 1] = off[j] + PackedSize(ns[j].id)
  BY DEF Laid
<1> DEFINE d == data \o p
           ms == Append(ns, m)
           new == [j \in 1 .. Len(ns) + 2 |-> IF j = Len(ns) + 2 THEN Len(data) + 1 + n ELSE off[j]]
<1>3. /\ Len(ns) \in Nat /\ Len(data) \in Nat /\ Len(d) = Len(data) + n /\ Len(ms) = Len(ns) + 1
      /\ \A i \in 1 .. Len(data) : d[i] = data[i]
      /\ d[Len(data) + 1] = <<m, 1>>
      /\ ms[Len(ns) + 1] = m /\ \A j \in 1 .. Len(ns) : ms[j] = ns[j]
  <2>a. Len(ns) \in Nat /\ Len(data) \in Nat
    OBVIOUS
  <2>b. Len(d) = Len(data) + Len(p)
    BY ConcatProperties
  <2>1. Len(ns) \in Nat /\ Len(data) \in Nat /\ Len(d) = Len(data) + n
    BY <1>1, <2>a, <2>b
  <2>2. /\ Len(ms) = Len(ns) + 1
        /\ ms[Len(ns) + 1] = m /\ \A j \in 1 .. Len(ns) : ms[j] = ns[j]
    OBVIOUS
  <2>3. \A i \in 1 .. Len(data) : d[i] = data[i]
    BY <1>1
  <2>4. d[Len(data) + 1] = p[1]
    BY <1>1
  <2> QED BY <1>1, <2>1, <2>2, <2>3, <2>4
<1>4. /\ new \in [1 .. Len(ns) + 2 -> Nat]
      /\ new[Len(ns) + 2] = Len(data) + 1 + n
      /\ \A j \in 1 .. Len(ns) + 1 : new[j] = off[j]
  <2>1. Len(ns) + 2 \in 1 .. Len(ns) + 2 /\ Len(data) + 1 + n \in Nat
    BY <1>3
  <2>2. \A j \in 1 .. Len(ns) + 2 : j # Len(ns) + 2 => j \in 1 .. Len(ns) + 1
    BY <1>3
  <2>3. \A j \in 1 .. Len(ns) + 1 : j \in 1 .. Len(ns) + 2 /\ j # Len(ns) + 2
    BY <1>3
  <2>4. new \in [1 .. Len(ns) + 2 -> Nat]
    BY <1>2, <2>1, <2>2
  <2>5. new[Len(ns) + 2] = Len(data) + 1 + n
    BY <2>1
  <2>6. \A j \in 1 .. Len(ns) + 1 : new[j] = off[j]
    BY <2>3
  <2> QED BY <2>4, <2>5, <2>6
<1> HIDE DEF d, ms, new
<1>5. new \in [1 .. Len(ms) + 1 -> Nat] /\ new[1] = 1 /\ new[Len(ms) + 1] = Len(d) + 1
  BY <1>2, <1>3, <1>4
<1>6. ASSUME NEW j \in 1 .. Len(ms)
      PROVE  /\ new[j] \in 1 .. Len(d) /\ d[new[j]] = <<ms[j], 1>>
             /\ new[j + 1] = new[j] + PackedSize(ms[j].id)
  <2>1. CASE j \in 1 .. Len(ns)
    <3>1. new[j] = off[j] /\ new[j + 1] = off[j + 1] /\ ms[j] = ns[j]
      BY <1>3, <1>4, <2>1
    <3>2. off[j] \in 1 .. Len(data) /\ off[j] \in 1 .. Len(d)
      BY <1>2, <1>3, <2>1
    <3>3. d[off[j]] = data[off[j]]
      BY <1>3, <3>2
    <3> QED BY <1>2, <2>1, <3>1, <3>2, <3>3
  <2>2. CASE j = Len(ns) + 1
    <3>a. j \in 1 .. Len(ns) + 1 /\ j + 1 = Len(ns) + 2
      BY <1>3, <2>2
    <3>b. new[j] = Len(data) + 1
      BY <1>2, <1>4, <2>2, <3>a
    <3>c. new[j + 1] = Len(data) + 1 + n
      BY <1>4, <3>a
    <3>1. new[j] = Len(data) + 1 /\ new[j + 1] = Len(data) + 1 + n /\ ms[j] = m
      BY <1>3, <2>2, <3>b, <3>c
    <3>2. Len(data) + 1 \in 1 .. Len(d)
      BY <1>3
    <3> QED BY <1>1, <1>3, <3>1, <3>2
  <2> QED BY <1>3, <2>1, <2>2
<1>7. Laid(d, ms)
  BY <1>5, <1>6 DEF Laid
<1> QED BY <1>1, <1>7 DEF d, ms

\* What command_multi_pack does with a command.
PutCommand(a, m) ==
    LET p == PackCommand(m) IN
    IF Len(a.data \o p) > RS_DECODED_DATA_SIZE - 1
    THEN [blocks |-> Append(a.blocks, Ljust(a.data)), data |-> p]
    ELSE [a EXCEPT !.data = @ \o p]

Packs == {a \in [blocks : Seq(Seq(Cell)), data : Seq(Cell)] : Len(a.data) < RS_DECODED_DATA_SIZE}
NoBlocks == [blocks |-> <<>>, data |-> <<>>]

LEMMA PutCommandType == ASSUME NEW a \in Packs, NEW m \in Packable PROVE PutCommand(a, m) \in Packs
<1>1. PICK p \in Seq(Cell), n \in 5 .. 12 : p = PackCommand(m) /\ Len(p) = n
  BY PackType, SizeBounds
<1>2. a.blocks \in Seq(Seq(Cell)) /\ a.data \in Seq(Cell) /\ Len(a.data) < RS_DECODED_DATA_SIZE
      /\ a = [blocks |-> a.blocks, data |-> a.data]
  BY DEF Packs
<1>3. RS_DECODED_DATA_SIZE \in Nat /\ RS_DECODED_DATA_SIZE > 12
  BY CodecAssumption
<1>4. CASE Len(a.data \o p) > RS_DECODED_DATA_SIZE - 1
  <2>1. PutCommand(a, m) = [blocks |-> Append(a.blocks, Ljust(a.data)), data |-> p]
    BY <1>1, <1>4 DEF PutCommand
  <2>2. Ljust(a.data) \in Seq(Cell)
    BY <1>2, LjustType
  <2>3. Append(a.blocks, Ljust(a.data)) \in Seq(Seq(Cell))
    BY <1>2, <2>2
  <2> QED BY <1>1, <1>3, <2>1, <2>3 DEF Packs
<1>5. CASE ~(Len(a.data \o p) > RS_DECODED_DATA_SIZE - 1)
  <2>1. PutCommand(a, m) = [blocks |-> a.blocks, data |-> a.data \o p]
    BY <1>1, <1>2, <1>5 DEF PutCommand
  <2>2. a.data \o p \in Seq(Cell) /\ Len(a.data \o p) \in Nat
    BY <1>1, <1>2
  <2>3. Len(a.data \o p) < RS_DECODED_DATA_SIZE
    BY <1>3, <1>5, <2>2
  <2> QED BY <1>2, <2>1, <2>2, <2>3 DEF Packs
<1> QED BY <1>4, <1>5

LEMMA PackingRun ==
    ASSUME NEW ms \in Seq(Packable)
    PROVE  \E g \in [0 .. Len(ms) -> Packs] :
              /\ g[0] = NoBlocks
              /\ \A k \in 1 .. Len(ms) : g[k] = PutCommand(g[k - 1], ms[k])
              /\ CommandMultiPack(ms) = IF g[Len(ms)].data = <<>> THEN g[Len(ms)].blocks
                                        ELSE Append(g[Len(ms)].blocks, Ljust(g[Len(ms)].data))
<1> DEFINE Eq(f) == f = [t \in SUBSET (DOMAIN ms) |->
                           IF t = {} THEN NoBlocks ELSE PutCommand(f[t \ {Max(t)}], ms[Max(t)])]
           rec == CHOOSE f : Eq(f)
           g == [k \in 0 .. Len(ms) |-> rec[1 .. k]]
<1>1. CommandMultiPack(ms) = IF rec[DOMAIN ms].data = <<>> THEN rec[DOMAIN ms].blocks
                             ELSE Append(rec[DOMAIN ms].blocks, Ljust(rec[DOMAIN ms].data))
  BY DEF CommandMultiPack, FoldLeft, MapThenFoldSet, PutCommand, NoBlocks
<1>a. RS_DECODED_DATA_SIZE \in Nat /\ RS_DECODED_DATA_SIZE > 12
  BY CodecAssumption
<1>b. NoBlocks \in Packs
  BY <1>a DEF NoBlocks, Packs
<1>2. \E h \in [SUBSET (DOMAIN ms) -> Packs] : Eq(h)
  <2> DEFINE F == [x \in Packs \X Packable |-> PutCommand(x[1], x[2])]
  <2>1. F \in [Packs \X Packable -> Packs]
    BY PutCommandType
  <2>3. PICK h \in [SUBSET (DOMAIN ms) -> Packs] :
            \A t \in SUBSET (DOMAIN ms) :
               h[t] = IF t = {} THEN NoBlocks ELSE F[<<h[t \ {Max(t)}], ms[Max(t)]>>]
    <3> HIDE DEF F
    <3>1. PICK h \in [SUBSET (DOMAIN ms) -> Packs] : FoldsOver(h, ms, NoBlocks, F)
      BY <2>1, <1>b, FoldExists
    <3> QED BY <3>1 DEF FoldsOver
  <2>4. ASSUME NEW t \in SUBSET (DOMAIN ms), t # {}
        PROVE  F[<<h[t \ {Max(t)}], ms[Max(t)]>>] = PutCommand(h[t \ {Max(t)}], ms[Max(t)])
    <3>1. Max(t) \in 1 .. Len(ms)
      <4>1. Len(ms) \in Nat /\ t \in SUBSET (1 .. Len(ms))
        OBVIOUS
      <4>2. Max(t) \in t
        BY <2>4, <4>1, MaxOf
      <4> QED BY <4>1, <4>2
    <3>2. ms[Max(t)] \in Packable /\ h[t \ {Max(t)}] \in Packs
      BY <3>1
    <3> QED BY <3>2
  <2>5. \A t \in SUBSET (DOMAIN ms) :
           h[t] = IF t = {} THEN NoBlocks ELSE PutCommand(h[t \ {Max(t)}], ms[Max(t)])
    <3> HIDE DEF F
    <3> QED BY <2>3, <2>4
  <2> QED BY <2>5
<1>3. Eq(rec)
  <2> HIDE DEF Eq
  <2> QED BY <1>2
<1> HIDE DEF rec
<1>4. \A t \in SUBSET (DOMAIN ms) :
         rec[t] = IF t = {} THEN NoBlocks ELSE PutCommand(rec[t \ {Max(t)}], ms[Max(t)])
  BY <1>3
<1>5. DOMAIN ms = 1 .. Len(ms) /\ Len(ms) \in Nat
  OBVIOUS
<1>6. g[0] = NoBlocks
  <2>1. 1 .. 0 = {} /\ 0 \in 0 .. Len(ms)
    OBVIOUS
  <2> QED BY <1>4, <2>1
<1>7. ASSUME NEW k \in 1 .. Len(ms) PROVE g[k] = PutCommand(g[k - 1], ms[k])
  <2>1. 1 .. k \in SUBSET (DOMAIN ms) /\ 1 .. k # {} /\ Max(1 .. k) = k /\ (1 .. k) \ {k} = 1 .. (k - 1)
    BY <1>5, PrefixStep
  <2>3. rec[1 .. k] = PutCommand(rec[1 .. (k - 1)], ms[k])
    BY <1>4, <2>1
  <2>4. k \in 0 .. Len(ms) /\ k - 1 \in 0 .. Len(ms)
    OBVIOUS
  <2> QED BY <2>3, <2>4
<1> HIDE DEF g
<1>8. 0 .. Len(ms) \subseteq {k \in 0 .. Len(ms) : g[k] \in Packs}
  <2> DEFINE T == {k \in 0 .. Len(ms) : g[k] \in Packs}
  <2>1. 0 \in T
    BY <1>5, <1>6, <1>b
  <2>2. ASSUME NEW k \in 0 .. Len(ms) - 1, k \in T PROVE k + 1 \in T
    <3>1. k + 1 \in 1 .. Len(ms) /\ k + 1 \in 0 .. Len(ms) /\ (k + 1) - 1 = k /\ ms[k + 1] \in Packable
      BY <1>5
    <3> QED BY <1>7, <2>2, <3>1, PutCommandType
  <2> HIDE DEF T
  <2>3. 0 .. Len(ms) \subseteq T
    BY <1>5, <2>1, <2>2, UpTo
  <2> QED BY <2>3 DEF T
<1>9. g \in [0 .. Len(ms) -> Packs]
  BY <1>8 DEF g
<1>10. rec[DOMAIN ms] = g[Len(ms)]
  BY <1>5 DEF g
<1> QED BY <1>1, <1>6, <1>7, <1>9, <1>10

Decoded(bs) == FlattenSeq([i \in 1 .. Len(bs) |-> UnpackCommand(bs[i])])
Readable(bs) == \A i \in 1 .. Len(bs) : UnpackCommand(bs[i]) \in Seq(Packable)

LEMMA DecodedAppend ==
    ASSUME NEW bs \in Seq(Seq(Cell)), Readable(bs), NEW b \in Seq(Cell), UnpackCommand(b) \in Seq(Packable)
    PROVE  /\ Readable(Append(bs, b))
           /\ Decoded(Append(bs, b)) = Decoded(bs) \o UnpackCommand(b)
<1> DEFINE cs == Append(bs, b)
           us == [i \in 1 .. Len(bs) |-> UnpackCommand(bs[i])]
           vs == [i \in 1 .. Len(cs) |-> UnpackCommand(cs[i])]
<1>1. Len(bs) \in Nat /\ Len(cs) = Len(bs) + 1 /\ cs[Len(bs) + 1] = b
      /\ \A i \in 1 .. Len(bs) : cs[i] = bs[i]
  OBVIOUS
<1>2. us \in Seq(Seq(Packable)) /\ Len(us) = Len(bs) /\ \A i \in 1 .. Len(bs) : us[i] = UnpackCommand(bs[i])
  <2>1. us \in [1 .. Len(bs) -> Seq(Packable)]
    BY DEF Readable
  <2>2. \A i \in 1 .. Len(bs) : us[i] = UnpackCommand(bs[i])
    OBVIOUS
  <2> HIDE DEF us
  <2>3. PICK n \in Nat : n = Len(bs)
    BY <1>1
  <2>4. us \in Seq(Seq(Packable)) /\ Len(us) = n
    BY <2>1, <2>3, AsSeq
  <2> QED BY <2>2, <2>3, <2>4
<1> HIDE DEF cs
<1>3. \A i \in 1 .. Len(cs) : i = Len(bs) + 1 \/ i \in 1 .. Len(bs)
  BY <1>1
<1>4. Readable(cs)
  BY <1>1, <1>3 DEF Readable
<1>5. vs \in Seq(Seq(Packable)) /\ Len(vs) = Len(bs) + 1 /\ \A i \in 1 .. Len(cs) : vs[i] = UnpackCommand(cs[i])
  <2>1. vs \in [1 .. Len(cs) -> Seq(Packable)]
    BY <1>4 DEF Readable
  <2>2. \A i \in 1 .. Len(cs) : vs[i] = UnpackCommand(cs[i])
    OBVIOUS
  <2> HIDE DEF vs
  <2>3. PICK n \in Nat : n = Len(cs)
    BY <1>1
  <2>4. vs \in Seq(Seq(Packable)) /\ Len(vs) = n
    BY <2>1, <2>3, AsSeq
  <2> QED BY <1>1, <2>2, <2>3, <2>4
<1>6. vs = Append(us, UnpackCommand(b))
  <2> HIDE DEF us, vs
  <2> DEFINE ws == Append(us, UnpackCommand(b))
  <2>1. ws \in Seq(Seq(Packable)) /\ Len(ws) = Len(bs) + 1
        /\ ws[Len(bs) + 1] = UnpackCommand(b) /\ \A i \in 1 .. Len(bs) : ws[i] = us[i]
    BY <1>2
  <2> HIDE DEF ws
  <2>2. ASSUME NEW i \in 1 .. Len(bs) + 1 PROVE vs[i] = ws[i]
    <3>1. CASE i = Len(bs) + 1
      BY <1>1, <1>5, <2>1, <3>1
    <3>2. CASE i \in 1 .. Len(bs)
      BY <1>1, <1>2, <1>5, <2>1, <3>2
    <3> QED BY <1>1, <1>3, <3>1, <3>2
  <2>3. vs = ws
    BY <1>5, <2>1, <2>2
  <2> QED BY <2>3 DEF ws
<1>7. FlattenSeq(vs) = FlattenSeq(us) \o UnpackCommand(b)
  <2> HIDE DEF us, vs
  <2> QED BY <1>2, <1>6, FlattenAppend
<1> QED BY <1>4, <1>7 DEF Decoded, cs

\* After k commands: the full blocks give back the first of them, and the rest is
\* laid out in the data of the block that is being filled.
Unpacks(a, ms, k) ==
    \E c \in 0 .. k : /\ Readable(a.blocks)
                      /\ Decoded(a.blocks) = SubSeq(ms, 1, c)
                      /\ Laid(a.data, SubSeq(ms, c + 1, k))

LEMMA Cut == ASSUME NEW S, NEW s \in Seq(S), NEW k \in 0 .. Len(s), NEW c \in 0 .. k
             PROVE  /\ SubSeq(s, 1, c) \o SubSeq(s, c + 1, k) = SubSeq(s, 1, k)
                    /\ SubSeq(s, c + 1, k) \in Seq(S) /\ Len(SubSeq(s, c + 1, k)) = k - c
<1>1. Len(s) \in Nat /\ c + 1 \in Int /\ k \in Int
  OBVIOUS
<1>2. SubSeq(s, 1, c) \o SubSeq(s, c + 1, k) = SubSeq(s, 1, k)
  <2>1. 1 \in 1 .. Len(s) + 1 /\ c \in 1 - 1 .. Len(s) /\ k \in c .. Len(s)
    BY <1>1
  <2> QED BY <2>1, ConcatAdjacentSubSeq
<1>3. \A i \in c + 1 .. k : s[i] \in S
  BY <1>1
<1>4. /\ SubSeq(s, c + 1, k) \in Seq(S)
      /\ Len(SubSeq(s, c + 1, k)) = IF c + 1 <= k THEN k - (c + 1) + 1 ELSE 0
  BY <1>1, <1>3, SubSeqProperties
<1>5. (IF c + 1 <= k THEN k - (c + 1) + 1 ELSE 0) = k - c
  BY <1>1
<1> QED BY <1>2, <1>4, <1>5

LEMMA PutCommandUnpacks ==
    ASSUME NEW ms \in Seq(Packable), NEW k \in 0 .. Len(ms) - 1, NEW a \in Packs, Unpacks(a, ms, k)
    PROVE  Unpacks(PutCommand(a, ms[k + 1]), ms, k + 1)
<1>1. PICK c \in 0 .. k : /\ Readable(a.blocks)
                          /\ Decoded(a.blocks) = SubSeq(ms, 1, c)
                          /\ Laid(a.data, SubSeq(ms, c + 1, k))
  BY DEF Unpacks
<1>2. Len(ms) \in Nat /\ k \in 0 .. Len(ms) /\ k + 1 \in 0 .. Len(ms) /\ k \in Nat
  OBVIOUS
<1>3. PICK m \in Packable : m = ms[k + 1]
  BY <1>2
<1>4. PICK p \in Seq(Cell) : p = PackCommand(m)
  BY PackType
<1>5. a.blocks \in Seq(Seq(Cell)) /\ a.data \in Seq(Cell) /\ Len(a.data) < RS_DECODED_DATA_SIZE
      /\ a = [blocks |-> a.blocks, data |-> a.data]
  BY DEF Packs
<1>6. PICK ns \in Seq(Packable) :
         ns = SubSeq(ms, c + 1, k) /\ SubSeq(ms, 1, c) \o ns = SubSeq(ms, 1, k)
  BY <1>2, Cut
<1>7. CASE Len(a.data \o p) > RS_DECODED_DATA_SIZE - 1
  <2>1. PutCommand(a, m) = [blocks |-> Append(a.blocks, Ljust(a.data)), data |-> p]
    BY <1>4, <1>7 DEF PutCommand
  <2>2. UnpackCommand(Ljust(a.data)) = ns
    BY <1>1, <1>5, <1>6, UnpackLaid
  <2>3. Ljust(a.data) \in Seq(Cell)
    BY <1>5, LjustType
  <2>4. /\ Readable(Append(a.blocks, Ljust(a.data)))
        /\ Decoded(Append(a.blocks, Ljust(a.data))) = Decoded(a.blocks) \o ns
    BY <1>1, <1>5, <2>2, <2>3, DecodedAppend
  <2>5. Laid(p, SubSeq(ms, k + 1, k + 1))
    <3>1. Laid(<<>> \o p, Append(<<>>, m))
      <4>1. <<>> \in Seq(Cell) /\ <<>> \in Seq(Packable)
        OBVIOUS
      <4> QED BY <1>4, <4>1, LaidNone, LaidAppend
    <3>2. <<>> \o p = p /\ Append(<<>>, m) = <<m>>
      OBVIOUS
    <3>3. SubSeq(ms, k + 1, k + 1) = <<m>>
      <4>1. PICK j \in 1 .. Len(ms) : j = k + 1
        BY <1>2
      <4>2. SubSeq(ms, j, j) = <<ms[j]>> \o SubSeq(ms, j + 1, j)
        BY <1>2, SubSeqRecursiveFirst
      <4>3. SubSeq(ms, j + 1, j) = <<>>
        BY <1>2
      <4>4. <<m>> \o <<>> = <<m>>
        OBVIOUS
      <4> QED BY <1>3, <4>1, <4>2, <4>3, <4>4
    <3> QED BY <3>1, <3>2, <3>3
  <2>6. k \in 0 .. k + 1
    BY <1>2
  <2>7. PICK z : z = PutCommand(a, m)
    OBVIOUS
  <2>8. z.blocks = Append(a.blocks, Ljust(a.data)) /\ z.data = p
    BY <2>1, <2>7
  <2>9. Decoded(z.blocks) = SubSeq(ms, 1, k)
    BY <1>1, <1>6, <2>4, <2>8
  <2>10. Unpacks(z, ms, k + 1)
    BY <2>4, <2>5, <2>6, <2>8, <2>9 DEF Unpacks
  <2> QED BY <1>3, <2>7, <2>10
<1>8. CASE ~(Len(a.data \o p) > RS_DECODED_DATA_SIZE - 1)
  <2>1. PutCommand(a, m) = [blocks |-> a.blocks, data |-> a.data \o p]
    BY <1>4, <1>5, <1>8 DEF PutCommand
  <2>2. Laid(a.data \o p, Append(ns, m))
    BY <1>1, <1>4, <1>5, <1>6, LaidAppend
  <2>3. Append(ns, m) = SubSeq(ms, c + 1, k + 1)
    <3>1. c + 1 \in 1 .. Len(ms) /\ k + 1 \in c + 1 .. Len(ms) /\ (k + 1) - 1 = k
      BY <1>2
    <3>2. SubSeq(ms, c + 1, k + 1) = SubSeq(ms, c + 1, (k + 1) - 1) \o <<ms[k + 1]>>
      BY <3>1, SubSeqRecursiveSecond
    <3>3. SubSeq(ms, c + 1, k + 1) = ns \o <<m>>
      BY <1>3, <1>6, <3>1, <3>2
    <3>4. ns \o <<m>> = Append(ns, m)
      OBVIOUS
    <3> QED BY <3>3, <3>4
  <2>4. c \in 0 .. k + 1
    BY <1>2
  <2> QED BY <1>1, <1>3, <2>1, <2>2, <2>3, <2>4 DEF Unpacks
<1> QED BY <1>3, <1>7, <1>8

LEMMA PackThenUnpack ==
    ASSUME NEW ms \in Seq(Packable)
    PROVE  Decoded(CommandMultiPack(ms)) = ms
<1>1. PICK g \in [0 .. Len(ms) -> Packs] :
         /\ g[0] = NoBlocks
         /\ \A k \in 1 .. Len(ms) : g[k] = PutCommand(g[k - 1], ms[k])
         /\ CommandMultiPack(ms) = IF g[Len(ms)].data = <<>> THEN g[Len(ms)].blocks
                                   ELSE Append(g[Len(ms)].blocks, Ljust(g[Len(ms)].data))
  BY PackingRun
<1>2. Len(ms) \in Nat
  OBVIOUS
<1> DEFINE T == {k \in 0 .. Len(ms) : Unpacks(g[k], ms, k)}
<1>3. 0 \in T
  <2>1. [i \in 1 .. Len(<<>>) |-> UnpackCommand(<<>>[i])] = <<>>
    OBVIOUS
  <2>2. Decoded(<<>>) = <<>> /\ Readable(<<>>)
    BY <2>1 DEF Decoded, FlattenSeq, Readable
  <2>3. SubSeq(ms, 1, 0) = <<>> /\ 0 + 1 = 1 /\ 0 \in 0 .. 0
    OBVIOUS
  <2>4. NoBlocks.blocks = <<>> /\ NoBlocks.data = <<>>
    BY DEF NoBlocks
  <2>5. Unpacks(NoBlocks, ms, 0)
    BY <2>2, <2>3, <2>4, LaidNone DEF Unpacks
  <2>6. 0 \in 0 .. Len(ms)
    BY <1>2
  <2> QED BY <1>1, <2>5, <2>6
<1>4. ASSUME NEW k \in 0 .. Len(ms) - 1, k \in T PROVE k + 1 \in T
  <2>1. k + 1 \in 1 .. Len(ms) /\ (k + 1) - 1 = k /\ k \in 0 .. Len(ms) /\ k + 1 \in 0 .. Len(ms)
    BY <1>2
  <2>2. g[k + 1] = PutCommand(g[k], ms[k + 1]) /\ g[k] \in Packs
    BY <1>1, <2>1
  <2>3. Unpacks(g[k + 1], ms, k + 1)
    BY <1>4, <2>2, PutCommandUnpacks
  <2> QED BY <2>1, <2>3
<1>5. Len(ms) \in T
  <2> HIDE DEF T
  <2>1. 0 .. Len(ms) \subseteq T
    BY <1>2, <1>3, <1>4, UpTo
  <2>2. Len(ms) \in 0 .. Len(ms)
    BY <1>2
  <2> QED BY <2>1, <2>2
<1>6. PICK a \in Packs : a = g[Len(ms)] /\ Unpacks(a, ms, Len(ms))
  BY <1>2, <1>5
<1>7. PICK c \in 0 .. Len(ms) : /\ Readable(a.blocks)
                                /\ Decoded(a.blocks) = SubSeq(ms, 1, c)
                                /\ Laid(a.data, SubSeq(ms, c + 1, Len(ms)))
  BY <1>6 DEF Unpacks
<1>8. PICK ns \in Seq(Packable) : /\ ns = SubSeq(ms, c + 1, Len(ms)) /\ Len(ns) = Len(ms) - c
                                  /\ SubSeq(ms, 1, c) \o ns = SubSeq(ms, 1, Len(ms))
  <2>1. PICK k \in 0 .. Len(ms) : k = Len(ms)
    BY <1>2
  <2>2. c \in 0 .. k
    BY <2>1
  <2>3. /\ SubSeq(ms, 1, c) \o SubSeq(ms, c + 1, k) = SubSeq(ms, 1, k)
        /\ SubSeq(ms, c + 1, k) \in Seq(Packable) /\ Len(SubSeq(ms, c + 1, k)) = k - c
    BY <1>2, <2>2, Cut
  <2> QED BY <2>1, <2>3
<1>9. SubSeq(ms, 1, Len(ms)) = ms
  OBVIOUS
<1>10. a.blocks \in Seq(Seq(Cell)) /\ a.data \in Seq(Cell) /\ Len(a.data) < RS_DECODED_DATA_SIZE
  BY DEF Packs
<1>11. CASE a.data = <<>>
  <2>1. PICK off \in [1 .. Len(ns) + 1 -> Nat] : \A j \in 1 .. Len(ns) : off[j] \in 1 .. Len(<<>>)
    BY <1>7, <1>8, <1>11 DEF Laid
  <2>2. 1 .. Len(<<>>) = {}
    OBVIOUS
  <2>3. Len(ns) \in Nat /\ ~(1 \in 1 .. Len(ns))
    BY <2>1, <2>2
  <2>4. Len(ns) = 0
    BY <2>3
  <2>5. c = Len(ms)
    BY <1>2, <1>8, <2>4
  <2> QED BY <1>1, <1>6, <1>7, <1>9, <1>11, <2>5
<1>12. CASE a.data # <<>>
  <2>1. UnpackCommand(Ljust(a.data)) = ns
    BY <1>7, <1>8, <1>10, UnpackLaid
  <2>2. Ljust(a.data) \in Seq(Cell)
    BY <1>10, LjustType
  <2>3. Decoded(Append(a.blocks, Ljust(a.data))) = Decoded(a.blocks) \o ns
    BY <1>7, <1>10, <2>1, <2>2, DecodedAppend
  <2> QED BY <1>1, <1>6, <1>7, <1>8, <1>9, <1>12, <2>3
<1> QED BY <1>11, <1>12

-----------------------------------------------------------------------------
(* What is typed, and what is read. *)

LEMMA Wraps == ASSUME NEW n \in Int, NEW w \in Nat \ {0} PROVE n % w \in Nat /\ <<n % w>> \in Seq(Nat)
<1>1. n % w \in Nat
  OBVIOUS
<1> QED BY <1>1

LEMMA Widths == Octet \in Nat \ {0} /\ Half \in Nat \ {0} /\ Word \in Nat \ {0}
BY CodecAssumption

Optional == {<<>>} \union {<<t>> : t \in Int}

\* A command that was made of these.
Made(m, id, data, time) ==
    /\ m \in Msg /\ m.id = id /\ m.data = data
    /\ m.isTimeTagged <=> time # <<>>
    /\ \A t \in Int : time = <<t>> => m.timestamp = t % Word

LEMMA CmdMsgMade ==
    ASSUME NEW id \in CmdCallbackId, NEW data \in Seq(Nat), NEW time \in Optional
    PROVE  Made(CmdMsg(id, data, time), id, data, time)
<1>1. CASE time = <<>>
  <2>1. CmdMsg(id, data, time) = [id |-> id, data |-> data, isTimeTagged |-> FALSE, timestamp |-> 0]
    BY <1>1 DEF CmdMsg
  <2>2. \A t \in Int : time # <<t>>
    BY <1>1
  <2>3. [id |-> id, data |-> data, isTimeTagged |-> FALSE, timestamp |-> 0] \in Msg
    BY DEF Msg
  <2>4. PICK c : c = [id |-> id, data |-> data, isTimeTagged |-> FALSE, timestamp |-> 0]
    OBVIOUS
  <2>5. c.id = id /\ c.data = data /\ ~c.isTimeTagged
    BY <2>4
  <2>6. Made(c, id, data, time)
    BY <1>1, <2>2, <2>3, <2>4, <2>5 DEF Made
  <2> QED BY <2>1, <2>4, <2>6
<1>2. CASE time # <<>>
  <2>1. PICK t \in Int : time = <<t>>
    BY <1>2 DEF Optional
  <2>2. time[1] = t
    BY <2>1
  <2>3. CmdMsg(id, data, time) = [id |-> id, data |-> data, isTimeTagged |-> TRUE, timestamp |-> t % Word]
    BY <1>2, <2>2 DEF CmdMsg
  <2>4. PICK w \in Nat : w = t % Word
    BY Widths, Wraps
  <2>5. \A u \in Int : time = <<u>> => u = t
    BY <2>1
  <2>6. [id |-> id, data |-> data, isTimeTagged |-> TRUE, timestamp |-> w] \in Msg
    BY DEF Msg
  <2>7. PICK c : c = [id |-> id, data |-> data, isTimeTagged |-> TRUE, timestamp |-> w]
    OBVIOUS
  <2>8. c.id = id /\ c.data = data /\ c.isTimeTagged /\ c.timestamp = w
    BY <2>7
  <2>9. \A u \in Int : time = <<u>> => c.timestamp = u % Word
    BY <2>4, <2>5, <2>8
  <2>10. Made(c, id, data, time)
    BY <1>2, <2>6, <2>7, <2>8, <2>9 DEF Made
  <2> QED BY <2>3, <2>4, <2>7, <2>10
<1> QED BY <1>1, <1>2

LEMMA AtMostOne == ASSUME NEW v \in SeqOf(Values, 1) PROVE v \in Optional
<1>1. PICK m \in 0 .. 1 : v \in [1 .. m -> Values]
  BY DEF SeqOf
<1>2. v \in Seq(Int) /\ Len(v) = m
  <2>1. v \in [1 .. m -> Int]
    BY <1>1, UplinkAssumption
  <2> QED BY <2>1, AsSeq
<1>3. CASE m = 0
  BY <1>2, <1>3 DEF Optional
<1>4. CASE m = 1
  <2>1. v[1] \in Int /\ Len(v) = 1
    <3>1. Len(v) = 1 /\ 1 \in 1 .. 1
      BY <1>2, <1>4
    <3> QED BY <1>2, <3>1
  <2>2. v = <<v[1]>>
    BY <1>2, <2>1
  <2> QED BY <2>1, <2>2 DEF Optional
<1> QED BY <1>3, <1>4

LEMMA WrappedOne == \A w : Wrapped(<<>>, w) = <<>> /\ \A x : Wrapped(<<x>>, w) = <<x % w>>
BY DEF Wrapped

\* What TypedIsExecuted says of the command that is read.
Executes(a, m) ==
    LET leftOut == a.command \in {CMD_RTC_SYNC, CMD_DOWNLINK_LOGS_NEXT_PASS} /\ Options(a) = <<>>
        width == IF m.id = CMD_RTC_SYNC THEN Word ELSE Octet
    IN  /\ m.id = a.command
        /\ IF leftOut
           THEN ~m.isTimeTagged /\ m.data = Wrapped(a.timestamp, width)
           ELSE /\ m.data = Wrapped(Options(a), width)
                /\ m.isTimeTagged <=> a.timestamp # <<>>
                /\ m.isTimeTagged => <<m.timestamp>> = Wrapped(a.timestamp, Word)
                /\ IsTimeTagged(a) => m.isTimeTagged

LEMMA TimesAgree ==
    ASSUME NEW m, NEW id, NEW data, NEW time \in Optional, Made(m, id, data, time)
    PROVE  m.isTimeTagged => <<m.timestamp>> = Wrapped(time, Word)
<1> SUFFICES ASSUME m.isTimeTagged PROVE <<m.timestamp>> = Wrapped(time, Word)
  OBVIOUS
<1>1. time # <<>>
  BY DEF Made
<1>2. PICK t \in Int : time = <<t>>
  BY <1>1 DEF Optional
<1>3. m.timestamp = t % Word
  BY <1>2 DEF Made
<1> QED BY <1>2, <1>3, WrappedOne

LEMMA CallOfTwo ==
    ASSUME NEW id, NEW x, NEW time
    PROVE  /\ Call(CMD_RTC_SYNC, <<<<x>>, time>>) = CreateRtcSync(x, time)
           /\ Call(CMD_DOWNLINK_LOGS_NEXT_PASS, <<<<x>>, time>>) = CreateDownlinkLogsNextPass(x, time)
           /\ id \notin {CMD_RTC_SYNC, CMD_DOWNLINK_LOGS_NEXT_PASS} => Call(id, <<<<x>>, time>>) = <<>>
<1> DEFINE args == <<<<x>>, time>>
<1>1. Len(args) = 2 /\ args[1] = <<x>> /\ args[2] = time /\ args[1] # <<>> /\ args[1][1] = x
  OBVIOUS
<1> HIDE DEF args
<1>2. Call(CMD_RTC_SYNC, args) = CreateRtcSync(x, time)
  BY <1>1 DEF Call, CMD_DOWNLINK_LOGS_NEXT_PASS, CMD_RTC_SYNC, CMD_SET_PROGRAMMING_SESSION, CMD_DOWNLOAD_DATA,
              NUM_CMD_CALLBACKS
<1>3. Call(CMD_DOWNLINK_LOGS_NEXT_PASS, args) = CreateDownlinkLogsNextPass(x, time)
  BY <1>1 DEF Call, CMD_DOWNLINK_LOGS_NEXT_PASS, CMD_RTC_SYNC, CMD_SET_PROGRAMMING_SESSION, CMD_DOWNLOAD_DATA,
              NUM_CMD_CALLBACKS
<1>4. ASSUME id \notin {CMD_RTC_SYNC, CMD_DOWNLINK_LOGS_NEXT_PASS} PROVE Call(id, args) = <<>>
  <2>1. CASE id \in {CMD_SET_PROGRAMMING_SESSION, CMD_DOWNLOAD_DATA, NUM_CMD_CALLBACKS}
    BY <1>4, <2>1 DEF Call
  <2>2. CASE id \notin {CMD_SET_PROGRAMMING_SESSION, CMD_DOWNLOAD_DATA, NUM_CMD_CALLBACKS}
    BY <1>1, <1>4, <2>2 DEF Call
  <2> QED BY <2>1, <2>2
<1> QED BY <1>1, <1>2, <1>3, <1>4 DEF args

LEMMA CallOfOne ==
    ASSUME NEW id, NEW time
    PROVE  /\ Call(CMD_RTC_SYNC, <<time>>) = IF time = <<>> THEN <<>> ELSE CreateRtcSync(time[1], <<>>)
           /\ Call(CMD_DOWNLINK_LOGS_NEXT_PASS, <<time>>) =
                 IF time = <<>> THEN <<>> ELSE CreateDownlinkLogsNextPass(time[1], <<>>)
           /\ id \notin {CMD_RTC_SYNC, CMD_DOWNLINK_LOGS_NEXT_PASS} =>
                 Call(id, <<time>>) = <<>> \/ Call(id, <<time>>) = CreateWithoutData(id, time)
<1> DEFINE args == <<time>>
<1>1. Len(args) = 1 /\ args[1] = time
  OBVIOUS
<1> HIDE DEF args
<1>2. Call(CMD_RTC_SYNC, args) = IF time = <<>> THEN <<>> ELSE CreateRtcSync(time[1], <<>>)
  BY <1>1 DEF Call, CMD_DOWNLINK_LOGS_NEXT_PASS, CMD_RTC_SYNC, CMD_SET_PROGRAMMING_SESSION, CMD_DOWNLOAD_DATA,
              NUM_CMD_CALLBACKS
<1>3. Call(CMD_DOWNLINK_LOGS_NEXT_PASS, args) =
         IF time = <<>> THEN <<>> ELSE CreateDownlinkLogsNextPass(time[1], <<>>)
  BY <1>1 DEF Call, CMD_DOWNLINK_LOGS_NEXT_PASS, CMD_RTC_SYNC, CMD_SET_PROGRAMMING_SESSION, CMD_DOWNLOAD_DATA,
              NUM_CMD_CALLBACKS
<1>4. ASSUME id \notin {CMD_RTC_SYNC, CMD_DOWNLINK_LOGS_NEXT_PASS}
      PROVE  Call(id, args) = <<>> \/ Call(id, args) = CreateWithoutData(id, time)
  <2>1. CASE id \in {CMD_SET_PROGRAMMING_SESSION, CMD_DOWNLOAD_DATA, NUM_CMD_CALLBACKS}
    BY <1>4, <2>1 DEF Call
  <2>2. CASE id \notin {CMD_SET_PROGRAMMING_SESSION, CMD_DOWNLOAD_DATA, NUM_CMD_CALLBACKS}
    BY <1>1, <1>4, <2>2 DEF Call
  <2> QED BY <2>1, <2>2
<1> QED BY <1>1, <1>2, <1>3, <1>4 DEF args

LEMMA Codes == /\ CMD_RTC_SYNC \in CmdCallbackId /\ CMD_DOWNLINK_LOGS_NEXT_PASS \in CmdCallbackId
               /\ CMD_RTC_SYNC # CMD_DOWNLINK_LOGS_NEXT_PASS
BY DEF CMD_RTC_SYNC, CMD_DOWNLINK_LOGS_NEXT_PASS, CmdCallbackId

\* An argument was given with the command.
LEMMA GeneratedWithArgument ==
    ASSUME NEW a \in Args(Values), NEW x \in Int, Options(a) = <<x>>, a.timestamp \in Optional,
           GenerateCommand(a) # <<>>
    PROVE  \E m \in Msg : GenerateCommand(a) = <<m>> /\ Executes(a, m)
<1>1. GenerateCommand(a) = Call(a.command, <<<<x>>, a.timestamp>>)
  BY DEF GenerateCommand
<1>2. Options(a) # <<>>
  OBVIOUS
<1>3. ASSUME NEW m, NEW width, width = IF a.command = CMD_RTC_SYNC THEN Word ELSE Octet,
             Made(m, a.command, <<x % width>>, a.timestamp)
      PROVE  Executes(a, m)
  <2>1. m.id = a.command /\ m.data = <<x % width>> /\ (m.isTimeTagged <=> a.timestamp # <<>>)
    BY <1>3 DEF Made
  <2>2. Wrapped(Options(a), width) = <<x % width>>
    BY WrappedOne
  <2>3. m.isTimeTagged => <<m.timestamp>> = Wrapped(a.timestamp, Word)
    BY <1>3, TimesAgree
  <2> QED BY <1>2, <1>3, <2>1, <2>2, <2>3 DEF Executes, IsTimeTagged
<1>4. CASE a.command = CMD_RTC_SYNC
  <2>1. PICK m : m = CmdMsg(CMD_RTC_SYNC, <<x % Word>>, a.timestamp)
    OBVIOUS
  <2>2. GenerateCommand(a) = <<m>>
    BY <1>1, <1>4, <2>1, CallOfTwo DEF CreateRtcSync
  <2>3. <<x % Word>> \in Seq(Nat)
    BY Widths, Wraps
  <2>4. Made(m, a.command, <<x % Word>>, a.timestamp)
    BY <1>4, <2>1, <2>3, Codes, CmdMsgMade
  <2>5. Executes(a, m)
    BY <1>3, <1>4, <2>4
  <2> QED BY <2>2, <2>4, <2>5 DEF Made
<1>5. CASE a.command = CMD_DOWNLINK_LOGS_NEXT_PASS
  <2>1. PICK m : m = CmdMsg(CMD_DOWNLINK_LOGS_NEXT_PASS, <<x % Octet>>, a.timestamp)
    OBVIOUS
  <2>2. GenerateCommand(a) = <<m>> 
    BY <1>1, <1>5, <2>1, CallOfTwo DEF CreateDownlinkLogsNextPass
  <2>3. <<x % Octet>> \in Seq(Nat)
    BY Widths, Wraps
  <2>4. Made(m, a.command, <<x % Octet>>, a.timestamp)
    BY <1>5, <2>1, <2>3, Codes, CmdMsgMade
  <2>5. Executes(a, m)
    BY <1>3, <1>5, <2>4, Codes
  <2> QED BY <2>2, <2>4, <2>5 DEF Made
<1>6. CASE a.command \notin {CMD_RTC_SYNC, CMD_DOWNLINK_LOGS_NEXT_PASS}
  BY <1>1, <1>6, CallOfTwo
<1> QED BY <1>4, <1>5, <1>6

\* No argument was given: a time takes the place of the one that is wanted.
LEMMA GeneratedWithout ==
    ASSUME NEW a \in Args(Values), a.command \in CmdCallbackId, Options(a) = <<>>, a.timestamp \in Optional,
           GenerateCommand(a) # <<>>
    PROVE  \E m \in Msg : GenerateCommand(a) = <<m>> /\ Executes(a, m)
<1>1. GenerateCommand(a) = Call(a.command, <<a.timestamp>>)
  BY DEF GenerateCommand
<1>2. ASSUME NEW m, NEW width, NEW x, width = IF a.command = CMD_RTC_SYNC THEN Word ELSE Octet,
             a.command \in {CMD_RTC_SYNC, CMD_DOWNLINK_LOGS_NEXT_PASS},
             a.timestamp = <<x>>, Made(m, a.command, <<x % width>>, <<>>)
      PROVE  Executes(a, m)
  <2>1. m.id = a.command /\ m.data = <<x % width>> /\ ~m.isTimeTagged
    BY <1>2 DEF Made
  <2>2. Wrapped(a.timestamp, width) = <<x % width>>
    BY <1>2, WrappedOne
  <2> QED BY <1>2, <2>1, <2>2 DEF Executes
<1>3. <<>> \in Optional
  BY DEF Optional
<1>4. CASE a.command = CMD_RTC_SYNC
  <2>1. a.timestamp # <<>>
    BY <1>1, <1>4, CallOfOne
  <2>2. PICK x \in Int : a.timestamp = <<x>>
    BY <2>1 DEF Optional
  <2>3. PICK m : m = CmdMsg(CMD_RTC_SYNC, <<x % Word>>, <<>>)
    OBVIOUS
  <2>4. GenerateCommand(a) = CreateRtcSync(x, <<>>)
    BY <1>1, <1>4, <2>1, <2>2, CallOfOne
  <2>5. GenerateCommand(a) = <<m>>
    BY <2>3, <2>4 DEF CreateRtcSync
  <2>6. <<x % Word>> \in Seq(Nat)
    BY Widths, Wraps
  <2>7. Made(m, a.command, <<x % Word>>, <<>>)
    BY <1>3, <1>4, <2>3, <2>6, Codes, CmdMsgMade
  <2>8. Executes(a, m)
    BY <1>2, <1>4, <2>2, <2>7
  <2> QED BY <2>5, <2>7, <2>8 DEF Made
<1>5. CASE a.command = CMD_DOWNLINK_LOGS_NEXT_PASS
  <2>1. a.timestamp # <<>>
    BY <1>1, <1>5, CallOfOne
  <2>2. PICK x \in Int : a.timestamp = <<x>>
    BY <2>1 DEF Optional
  <2>3. PICK m : m = CmdMsg(CMD_DOWNLINK_LOGS_NEXT_PASS, <<x % Octet>>, <<>>)
    OBVIOUS
  <2>4. GenerateCommand(a) = CreateDownlinkLogsNextPass(x, <<>>)
    BY <1>1, <1>5, <2>1, <2>2, CallOfOne
  <2>5. GenerateCommand(a) = <<m>>
    BY <2>3, <2>4 DEF CreateDownlinkLogsNextPass
  <2>6. <<x % Octet>> \in Seq(Nat)
    BY Widths, Wraps
  <2>7. Made(m, a.command, <<x % Octet>>, <<>>)
    BY <1>3, <1>5, <2>3, <2>6, Codes, CmdMsgMade
  <2>8. Executes(a, m)
    BY <1>2, <1>5, <2>2, <2>7, Codes
  <2> QED BY <2>5, <2>7, <2>8 DEF Made
<1>6. CASE a.command \notin {CMD_RTC_SYNC, CMD_DOWNLINK_LOGS_NEXT_PASS}
  <2>1. PICK m : m = CmdMsg(a.command, <<>>, a.timestamp)
    OBVIOUS
  <2>2. GenerateCommand(a) = CreateWithoutData(a.command, a.timestamp)
    BY <1>1, <1>6, CallOfOne
  <2>3. GenerateCommand(a) = <<m>>
    BY <2>1, <2>2 DEF CreateWithoutData
  <2>4. <<>> \in Seq(Nat)
    OBVIOUS
  <2>5. Made(m, a.command, <<>>, a.timestamp)
    BY <2>1, <2>4, CmdMsgMade
  <2>6. m.id = a.command /\ m.data = <<>> /\ (m.isTimeTagged <=> a.timestamp # <<>>)
    BY <2>5 DEF Made
  <2>7. m.isTimeTagged => <<m.timestamp>> = Wrapped(a.timestamp, Word)
    BY <2>5, TimesAgree
  <2>8. \A w : Wrapped(Options(a), w) = <<>>
    BY WrappedOne
  <2>9. Executes(a, m)
    BY <1>6, <2>6, <2>7, <2>8 DEF Executes, IsTimeTagged
  <2> QED BY <2>3, <2>5, <2>9 DEF Made
<1> QED BY <1>4, <1>5, <1>6

LEMMA Generated ==
    ASSUME NEW a \in Args(Values), GenerateCommand(a) # <<>>
    PROVE  \E m \in Msg : GenerateCommand(a) = <<m>> /\ Executes(a, m)
<1>1. a.command \in CmdCallbackId /\ a.lnp \in Optional /\ a.rtc \in Optional /\ a.timestamp \in Optional
  BY AtMostOne DEF Args
<1>2. Options(a) = a.lnp \o a.rtc
  BY DEF Options
<1>3. CASE a.lnp = <<>> /\ a.rtc = <<>>
  <2>1. Options(a) = <<>>
    BY <1>2, <1>3
  <2> QED BY <1>1, <2>1, GeneratedWithout
<1>4. CASE a.lnp = <<>> /\ a.rtc # <<>>
  <2>1. PICK x \in Int : a.rtc = <<x>>
    BY <1>1, <1>4 DEF Optional
  <2>2. Options(a) = <<x>>
    BY <1>2, <1>4, <2>1
  <2> QED BY <1>1, <2>2, GeneratedWithArgument
<1>5. CASE a.lnp # <<>> /\ a.rtc = <<>>
  <2>1. PICK x \in Int : a.lnp = <<x>>
    BY <1>1, <1>5 DEF Optional
  <2>2. Options(a) = <<x>>
    BY <1>2, <1>5, <2>1
  <2> QED BY <1>1, <2>2, GeneratedWithArgument
<1>6. CASE a.lnp # <<>> /\ a.rtc # <<>>
  <2>1. PICK x \in Int : a.lnp = <<x>>
    BY <1>1, <1>6 DEF Optional
  <2>2. PICK y \in Int : a.rtc = <<y>>
    BY <1>1, <1>6 DEF Optional
  <2>3. Len(Options(a)) = 2
    BY <1>2, <2>1, <2>2
  <2> QED BY <2>3 DEF GenerateCommand
<1> QED BY <1>3, <1>4, <1>5, <1>6

\* What is typed is one command, what is packed can be packed, and what is read
\* was packed.
UplinkInv ==
    /\ batch \in Seq(Msg)
    /\ typed # <<>> => \E a \in Args(Values) : /\ typed = <<a>>
                                               /\ \E m \in Msg : batch = <<m>> /\ Executes(a, m)
    /\ blocks # <<>> => batch # <<>> /\ batch \in Seq(Packable) /\ blocks = CommandMultiPack(batch)
    /\ read # <<>> => blocks # <<>> /\ read = batch

LEMMA CommandsType == Commands \subseteq Msg
<1>1. <<>> \in Optional
  BY DEF Optional
<1>2. \A id \in CmdCallbackId, data \in Seq(Nat) : CmdMsg(id, data, <<>>) \in Msg
  BY <1>1, CmdMsgMade DEF Made
<1>3. ASSUME NEW id \in CmdCallbackId, NEW data \in Seq(Nat)
      PROVE  Range(<<CmdMsg(id, data, <<>>)>>) \subseteq Msg
  <2>1. PICK c \in Msg : c = CmdMsg(id, data, <<>>)
    BY <1>2
  <2>2. Range(<<c>>) = {c}
    BY DEF Range
  <2> QED BY <2>1, <2>2
<1>4. Range(<<>>) = {}
  BY DEF Range
<1>5. Range(CreateWithoutData(CMD_EXEC_OBC_RESET, <<>>)) \subseteq Msg
  <2>1. CMD_EXEC_OBC_RESET \in CmdCallbackId /\ <<>> \in Seq(Nat)
    BY DEF CMD_EXEC_OBC_RESET, CmdCallbackId
  <2> QED BY <1>3, <2>1 DEF CreateWithoutData
<1>6. Range(CreateRtcSync(0, <<>>)) \subseteq Msg
  <2>1. CMD_RTC_SYNC \in CmdCallbackId /\ <<0 % Word>> \in Seq(Nat)
    BY Codes, Widths, Wraps
  <2> QED BY <1>3, <2>1 DEF CreateRtcSync
<1>7. ASSUME NEW s \in ProgrammingSession PROVE Range(CreateSetProgrammingSession(s, <<>>)) \subseteq Msg
  <2>1. CMD_SET_PROGRAMMING_SESSION \in CmdCallbackId /\ <<s>> \in Seq(Nat)
    BY DEF CMD_SET_PROGRAMMING_SESSION, CmdCallbackId, ProgrammingSession
  <2> QED BY <1>3, <2>1 DEF CreateSetProgrammingSession
<1>8. ASSUME NEW s \in ProgrammingSession PROVE Range(CreateDownloadData(s, Half - 1, Word - 1, <<>>)) \subseteq Msg
  <2>1. PICK h \in Nat, w \in Nat : h = (Half - 1) % Half /\ w = (Word - 1) % Word
    <3>1. Half - 1 \in Int /\ Word - 1 \in Int
      BY Widths
    <3>2. (Half - 1) % Half \in Nat /\ (Word - 1) % Word \in Nat
      BY <3>1, Widths, Wraps
    <3> QED BY <3>2
  <2>2. CMD_DOWNLOAD_DATA \in CmdCallbackId /\ <<s, h, w>> \in Seq(Nat)
    BY DEF CMD_DOWNLOAD_DATA, CmdCallbackId, ProgrammingSession
  <2>3. \/ CreateDownloadData(s, Half - 1, Word - 1, <<>>) = <<>>
        \/ CreateDownloadData(s, Half - 1, Word - 1, <<>>) = <<CmdMsg(CMD_DOWNLOAD_DATA, <<s, h, w>>, <<>>)>>
    BY <2>1 DEF CreateDownloadData
  <2> QED BY <1>3, <1>4, <2>2, <2>3
<1>9. ASSUME NEW c \in Commands PROVE c \in Msg
  <2>1. \/ c \in Range(CreateWithoutData(CMD_EXEC_OBC_RESET, <<>>))
        \/ c \in Range(CreateRtcSync(0, <<>>))
        \/ \E s \in ProgrammingSession : c \in Range(CreateSetProgrammingSession(s, <<>>))
        \/ \E s \in ProgrammingSession : c \in Range(CreateDownloadData(s, Half - 1, Word - 1, <<>>))
    BY DEF Commands
  <2> QED BY <1>5, <1>6, <1>7, <1>8, <2>1
<1> QED BY <1>9

LEMMA UplinkKeeps == UplinkInv /\ [UplinkNext]_uplinkVars => UplinkInv'
<1> SUFFICES ASSUME UplinkInv, [UplinkNext]_uplinkVars PROVE UplinkInv'
  OBVIOUS
<1>1. ASSUME NEW a \in Args(Values), TypeCommand(a) PROVE UplinkInv'
  <2>1. /\ batch = <<>> /\ GenerateCommand(a) # <<>> /\ typed' = <<a>>
        /\ batch' = GenerateCommand(a) /\ blocks' = blocks /\ read' = read
    BY <1>1 DEF TypeCommand
  <2>2. blocks = <<>> /\ read = <<>>
    BY <2>1 DEF UplinkInv
  <2>3. PICK m \in Msg : batch' = <<m>> /\ Executes(a, m)
    BY <2>1, Generated
  <2>4. batch' \in Seq(Msg)
    BY <2>3
  <2> QED BY <2>1, <2>2, <2>3, <2>4 DEF UplinkInv
<1>2. ASSUME NEW m \in Commands, MakeCommand(m) PROVE UplinkInv'
  <2>1. /\ typed = <<>> /\ blocks = <<>> /\ batch' = Append(batch, m)
        /\ typed' = typed /\ blocks' = blocks /\ read' = read
    BY <1>2 DEF MakeCommand
  <2>2. m \in Msg
    BY CommandsType
  <2>3. batch' \in Seq(Msg)
    BY <2>1, <2>2 DEF UplinkInv
  <2>4. read = <<>>
    BY <2>1 DEF UplinkInv
  <2> QED BY <2>1, <2>3, <2>4 DEF UplinkInv
<1>3. CASE Pack
  <2>1. batch # <<>> /\ blocks = <<>> /\ read' = read
    BY <1>3 DEF Pack
  <2>2. read = <<>>
    BY <2>1 DEF UplinkInv
  <2>3. CASE \E m \in Range(batch) : PackCommand(m) = <<>>
    <3>1. typed' = <<>> /\ batch' = <<>> /\ blocks' = blocks
      BY <1>3, <2>3 DEF Pack
    <3>2. batch' \in Seq(Msg)
      BY <3>1
    <3> QED BY <2>1, <2>2, <3>1, <3>2 DEF UplinkInv
  <2>4. CASE ~(\E m \in Range(batch) : PackCommand(m) = <<>>)
    <3>1. blocks' = CommandMultiPack(batch) /\ typed' = typed /\ batch' = batch
      BY <1>3, <2>4 DEF Pack
    <3>2. batch \in Seq(Packable)
      <4>1. batch \in Seq(Msg) /\ Len(batch) \in Nat
        BY DEF UplinkInv
      <4>2. ASSUME NEW i \in 1 .. Len(batch) PROVE batch[i] \in Packable
        <5>1. batch[i] \in Msg /\ batch[i] \in Range(batch)
          BY <4>1 DEF Range
        <5>2. batch[i].id # 0
          BY <2>4, <5>1 DEF PackCommand
        <5> QED BY <5>1, <5>2 DEF Packable
      <4> QED BY <4>1, <4>2
    <3> QED BY <2>1, <2>2, <3>1, <3>2 DEF UplinkInv
  <2> QED BY <2>3, <2>4
<1>4. CASE Unpack
  <2>1. /\ blocks # <<>> /\ read' = Decoded(blocks)
        /\ typed' = typed /\ batch' = batch /\ blocks' = blocks
    BY <1>4 DEF Unpack, Decoded
  <2>2. batch \in Seq(Packable) /\ blocks = CommandMultiPack(batch)
    BY <2>1 DEF UplinkInv
  <2>3. read' = batch
    BY <2>1, <2>2, PackThenUnpack
  <2> QED BY <2>1, <2>3 DEF UplinkInv
<1>5. CASE NextBatch
  <2>1. typed' = <<>> /\ batch' = <<>> /\ blocks' = <<>> /\ read' = <<>>
    BY <1>5 DEF NextBatch
  <2>2. batch' \in Seq(Msg)
    BY <2>1
  <2> QED BY <2>1, <2>2 DEF UplinkInv
<1>6. CASE UNCHANGED uplinkVars
  BY <1>6 DEF uplinkVars, UplinkInv
<1> QED BY <1>1, <1>2, <1>3, <1>4, <1>5, <1>6 DEF UplinkNext

THEOREM UplinkInvariant == UplinkSpec => []UplinkInv
<1>1. UplinkInit => UplinkInv
  BY DEF UplinkInit, UplinkInv
<1> QED BY <1>1, UplinkKeeps, PTL DEF UplinkSpec

\* The blocks that command_multi_pack makes give unpack_command back the commands
\* that were packed, however many there are and of whatever sizes.
THEOREM BlocksGiveBack == UplinkSpec => []BlocksUnpack
<1>1. UplinkInv => BlocksUnpack
  BY DEF UplinkInv, BlocksUnpack
<1> QED BY <1>1, UplinkInvariant, PTL

\* What the satellite reads is what was typed: the command, its argument and its
\* time, wrapped to their widths.
THEOREM TypedArrives == UplinkSpec => []TypedIsExecuted
<1>1. UplinkInv => TypedIsExecuted
  <2> SUFFICES ASSUME UplinkInv, typed # <<>>, read # <<>> PROVE TypedIsExecuted
    BY DEF TypedIsExecuted
  <2>1. PICK a \in Args(Values), m \in Msg : typed = <<a>> /\ batch = <<m>> /\ Executes(a, m)
    BY DEF UplinkInv
  <2>2. read = <<m>> /\ Len(read) = 1 /\ read[1] = m /\ typed[1] = a
    BY <2>1 DEF UplinkInv
  <2> QED BY <2>1, <2>2 DEF TypedIsExecuted, Executes
<1> QED BY <1>1, UplinkInvariant, PTL

-----------------------------------------------------------------------------
(* What is unstuffed is what was stuffed, but for zeros at the end.  The     *)
(* zeros that pad a frame and those that are stripped are treated alike:     *)
(* what is written is the beginning of the stuffing of the frame with a byte *)
(* of zeros behind it, and the rest of that is zeros.                        *)

LEMMA Remainder == ASSUME NEW n \in Nat, NEW w \in Nat \ {0}
                   PROVE  n = w * (n \div w) + (n % w) /\ n % w \in 0 .. w - 1 /\ n \div w \in Nat
<1>1. n = w * (n \div w) + (n % w)
  OBVIOUS
<1>2. n % w \in Nat /\ n % w < w
  OBVIOUS
<1>3. n \div w \in Nat
  OBVIOUS
<1> QED BY <1>1, <1>2, <1>3

LEMMA WholeTimes == ASSUME NEW n \in Nat, NEW w \in Nat \ {0} PROVE (n * w) \div w = n /\ n * w \in Nat
<1>1. (n * w) \div w = n
  OBVIOUS
<1> QED BY <1>1

LEMMA Times == ASSUME NEW n \in Nat, NEW w \in Nat PROVE (n + 1) * w = n * w + w /\ n * w \in Nat
OBVIOUS

LEMMA InOrder == ASSUME NEW n \in Nat, NEW m \in Nat, NEW w \in Nat \ {0}
                 PROVE  n <= m <=> n * w <= m * w
<1>1. ASSUME n <= m PROVE n * w <= m * w
  BY <1>1
<1>2. ASSUME m < n PROVE m * w < n * w
  <2>1. m + 1 <= n
    BY <1>2
  <2>2. (m + 1) * w <= n * w
    BY <2>1
  <2>3. (m + 1) * w = m * w + w /\ m * w \in Nat /\ n * w \in Nat
    OBVIOUS
  <2> QED BY <2>2, <2>3
<1>3. n * w \in Nat /\ m * w \in Nat
  OBVIOUS
<1> QED BY <1>1, <1>2, <1>3

\* The bits of a byte.
LEMMA ByteIsZero ==
    ASSUME NEW s \in Seq(Bit), NEW n \in Nat, Len(s) = n * Width, NEW i \in 1 .. n
    PROVE  Byte(s, i) = Zeros(Width) <=> \A j \in (i - 1) * Width + 1 .. i * Width : s[j] = 0
<1>1. Width \in Nat \ {0}
  BY FramingAssumption
<1>2. PICK p \in Nat : p = (i - 1) * Width /\ i * Width = p + Width
  <2>1. PICK k \in Nat : i = k + 1
    <3>1. i - 1 \in Nat /\ i = (i - 1) + 1
      OBVIOUS
    <3> QED BY <3>1
  <2>2. (k + 1) * Width = k * Width + Width /\ k * Width \in Nat
    BY <1>1, Times
  <2>3. i - 1 = k
    BY <2>1
  <2> QED BY <2>1, <2>2, <2>3
<1>3. i * Width <= Len(s)
  BY <1>1, InOrder
<1>4. PICK b : b = SubSeq(s, p + 1, p + Width)
  OBVIOUS
<1>5. b \in Seq(Bit) /\ Len(b) = Width /\ \A x \in 1 .. Width : b[x] = s[p + x]
  <2>1. Len(s) \in Nat /\ p + Width <= Len(s)
    BY <1>2, <1>3
  <2>2. \A x \in p + 1 .. p + Width : s[x] \in Bit
    BY <1>1, <2>1
  <2>a. PICK c \in Int, e \in Int : c = p + 1 /\ e = p + Width
    BY <1>1
  <2>3. /\ b \in Seq(Bit)
        /\ Len(b) = IF c <= e THEN e - c + 1 ELSE 0
        /\ \A x \in 1 .. e - c + 1 : b[x] = s[c + x - 1]
    BY <1>4, <2>2, <2>a, SubSeqProperties
  <2>4. c <= e /\ e - c + 1 = Width
    BY <1>1, <2>a
  <2>5. \A x \in 1 .. Width : c + x - 1 = p + x
    BY <1>1, <2>a
  <2> QED BY <2>3, <2>4, <2>5
<1>6. Byte(s, i) = b
  BY <1>2, <1>4 DEF Byte
<1>7. PICK z : z = Zeros(Width)
  OBVIOUS
<1>8. z \in Seq(Bit) /\ Len(z) = Width /\ \A x \in 1 .. Width : z[x] = 0
  BY <1>1, <1>7 DEF Zeros, Bit
<1>9. b = z <=> \A x \in 1 .. Width : s[p + x] = 0
  <2>1. ASSUME b = z PROVE \A x \in 1 .. Width : s[p + x] = 0
    BY <1>5, <1>8, <2>1
  <2>2. ASSUME \A x \in 1 .. Width : s[p + x] = 0 PROVE b = z
    <3>1. \A x \in 1 .. Width : b[x] = z[x]
      BY <1>5, <1>8, <2>2
    <3> QED BY <1>5, <1>8, <3>1
  <2> QED BY <2>1, <2>2
<1>10. (\A x \in 1 .. Width : s[p + x] = 0) <=> \A j \in p + 1 .. p + Width : s[j] = 0
  <2>1. \A x \in 1 .. Width : p + x \in p + 1 .. p + Width
    BY <1>1
  <2>2. \A j \in p + 1 .. p + Width : j - p \in 1 .. Width /\ p + (j - p) = j
    BY <1>1
  <2> QED BY <2>1, <2>2
<1> QED BY <1>2, <1>6, <1>7, <1>9, <1>10

\* rstrip cuts off bytes of zeros, and a byte that is not stays at the end.
LEMMA RstripCuts ==
    ASSUME NEW s \in Seq(Bit), NEW n \in Nat, Len(s) = n * Width
    PROVE  \E t \in 0 .. n : /\ t * Width \in 0 .. Len(s) /\ Rstrip(s) = SubSeq(s, 1, t * Width)
                             /\ \A j \in t * Width + 1 .. Len(s) : s[j] = 0
                             /\ t > 0 => \E j \in (t - 1) * Width + 1 .. t * Width : s[j] # 0
<1>1. Width \in Nat \ {0}
  BY FramingAssumption
<1>2. Bytes(s) = n
  <2>1. PICK w \in Nat \ {0} : w = Width
    BY <1>1
  <2>2. (n * w) \div w = n
    BY WholeTimes
  <2> QED BY <2>1, <2>2 DEF Bytes
<1> DEFINE full == {i \in 1 .. n : Byte(s, i) # Zeros(Width)}
           last == {i \in 1 .. Bytes(s) : /\ Byte(s, i) # Zeros(Width)
                                          /\ \A j \in i + 1 .. Bytes(s) : Byte(s, j) = Zeros(Width)}
           m == IF last = {} THEN 0 ELSE CHOOSE i \in last : TRUE
<1>3. Rstrip(s) = SubSeq(s, 1, Width * m)
  BY DEF Rstrip
<1>4. PICK t \in 0 .. n : /\ m = t
                          /\ t > 0 => t \in full
                          /\ \A i \in 1 .. n : i > t => i \notin full
  <2>1. CASE full = {}
    <3>1. last = {}
      BY <1>2, <2>1
    <3>2. m = 0
      BY <3>1
    <3>3. 0 \in 0 .. n /\ ~(0 > 0)
      OBVIOUS
    <3> HIDE DEF m
    <3> QED BY <2>1, <3>2, <3>3
  <2>2. CASE full # {}
    <3>1. full \in SUBSET (1 .. n)
      OBVIOUS
    <3>2. PICK x \in full : \A y \in full : y <= x
      <4> HIDE DEF full
      <4>1. Max(full) \in full /\ \A y \in full : y <= Max(full)
        BY <2>2, <3>1, MaxOf
      <4> QED BY <4>1
    <3>3. x \in last
      <4>1. x \in 1 .. Bytes(s) /\ Byte(s, x) # Zeros(Width)
        BY <1>2
      <4>2. ASSUME NEW j \in x + 1 .. Bytes(s) PROVE Byte(s, j) = Zeros(Width)
        <5>1. j \in 1 .. n /\ ~(j <= x)
          BY <1>2, <3>1
        <5> QED BY <3>2, <5>1
      <4> QED BY <4>1, <4>2
    <3>4. m \in last
      <4>1. last # {}
        BY <3>3
      <4>2. m = CHOOSE i \in last : TRUE
        BY <4>1
      <4> HIDE DEF m, last
      <4>3. (CHOOSE i \in last : TRUE) \in last
        BY <4>1
      <4> QED BY <4>2, <4>3
    <3>5. PICK t : t = m
      OBVIOUS
    <3>6. t \in last
      <4> HIDE DEF m, last
      <4> QED BY <3>4, <3>5
    <3>7. t \in 1 .. n /\ t \in full
      BY <1>2, <3>6
    <3>8. ASSUME NEW i \in 1 .. n, i > t PROVE i \notin full
      <4>1. i \in t + 1 .. Bytes(s)
        BY <1>2, <3>7, <3>8
      <4> QED BY <3>6, <4>1
    <3> HIDE DEF m, full
    <3>9. t \in 0 .. n
      BY <3>7
    <3> QED BY <3>5, <3>7, <3>8, <3>9
  <2> QED BY <2>1, <2>2
<1> HIDE DEF m
<1>5. t * Width \in 0 .. Len(s)
  <2>1. t * Width <= n * Width /\ t * Width \in Nat
    BY <1>1, InOrder, Times
  <2> QED BY <2>1
<1>6. Width * m = t * Width
  <2>1. m = t /\ Width * t = t * Width
    BY <1>1, <1>4
  <2> QED BY <2>1
<1>7. ASSUME NEW j \in t * Width + 1 .. Len(s) PROVE s[j] = 0
  <2>1. PICK x \in Nat : x = j - 1
    BY <1>5
  <2>2. PICK d \in Nat : d * Width <= x /\ x < d * Width + Width
    <3>1. x \div Width \in Nat /\ (x \div Width) * Width <= x /\ x < (x \div Width) * Width + Width
      BY <1>1, DivBelow
    <3> QED BY <3>1
  <2>3. d * Width \in Nat /\ (d + 1) * Width = d * Width + Width /\ n * Width \in Nat /\ t * Width \in Nat
    BY <1>1, Times
  <2>a. j = x + 1 /\ j \in Nat /\ t * Width <= x /\ j <= n * Width
    BY <1>5, <2>1, <2>3
  <2>b. PICK dw \in Nat : dw = d * Width /\ (d + 1) * Width = dw + Width
    BY <2>3
  <2>4. j \in d * Width + 1 .. (d + 1) * Width
    <3>1. j \in dw + 1 .. dw + Width
      BY <1>1, <2>2, <2>a, <2>b
    <3> QED BY <2>b, <3>1
  <2>5. d + 1 <= n
    <3> SUFFICES ASSUME ~(d + 1 <= n) PROVE FALSE
      OBVIOUS
    <3>1. n <= d
      OBVIOUS
    <3>2. n * Width <= d * Width
      BY <1>1, <3>1, InOrder
    <3>3. PICK nw \in Nat : nw = n * Width
      BY <2>3
    <3> QED BY <2>2, <2>a, <2>b, <3>2, <3>3
  <2>6. t <= d
    <3> SUFFICES ASSUME ~(t <= d) PROVE FALSE
      OBVIOUS
    <3>1. d + 1 <= t
      OBVIOUS
    <3>2. (d + 1) * Width <= t * Width
      BY <1>1, <3>1, InOrder
    <3>3. PICK tw \in Nat : tw = t * Width
      BY <2>3
    <3> QED BY <1>1, <2>2, <2>a, <2>b, <3>2, <3>3
  <2>7. d + 1 \in 1 .. n /\ d + 1 > t /\ (d + 1) - 1 = d
    BY <2>5, <2>6
  <2>8. Byte(s, d + 1) = Zeros(Width)
    BY <1>4, <2>7
  <2>9. PICK i \in 1 .. n : i = d + 1 /\ i - 1 = d
    BY <2>7
  <2>10. \A y \in (i - 1) * Width + 1 .. i * Width : s[y] = 0
    BY <2>8, <2>9, ByteIsZero
  <2> QED BY <2>4, <2>9, <2>10
<1>8. ASSUME t > 0 PROVE \E j \in (t - 1) * Width + 1 .. t * Width : s[j] # 0
  <2>1. t \in 1 .. n
    BY <1>8
  <2>2. Byte(s, t) # Zeros(Width)
    <3>1. t \in full
      <4> HIDE DEF full
      <4> QED BY <1>4, <1>8
    <3> QED BY <3>1
  <2> HIDE DEF full, last
  <2> QED BY <2>1, <2>2, ByteIsZero
<1> HIDE DEF full, last
<1> QED BY <1>3, <1>5, <1>6, <1>7, <1>8

\* What Unstuffing does with a bit.
TakeBit(a, b) == IF a.ones = Run
                 THEN [a EXCEPT !.ones = 0]
                 ELSE [out |-> Append(a.out, b), ones |-> IF b = 1 THEN a.ones + 1 ELSE 0]

LEMMA TakeBitType == ASSUME NEW a \in Stuffs, NEW b \in Bit PROVE TakeBit(a, b) \in Stuffs
<1>1. a.out \in Seq(Bit) /\ a.ones \in Nat /\ a = [out |-> a.out, ones |-> a.ones]
  BY DEF Stuffs
<1>2. Append(a.out, b) \in Seq(Bit)
  BY <1>1
<1>3. (IF b = 1 THEN a.ones + 1 ELSE 0) \in Nat
  BY <1>1
<1>4. CASE a.ones = Run
  <2>1. TakeBit(a, b) = [out |-> a.out, ones |-> 0]
    BY <1>1, <1>4 DEF TakeBit
  <2> QED BY <1>1, <2>1 DEF Stuffs
<1>5. CASE a.ones # Run
  BY <1>2, <1>3, <1>5 DEF TakeBit, Stuffs
<1> QED BY <1>4, <1>5

LEMMA UnstuffingRun ==
    ASSUME NEW s \in Seq(Bit)
    PROVE  \E g \in [0 .. Len(s) -> Stuffs] :
              /\ g[0] = NoBits
              /\ \A k \in 1 .. Len(s) : g[k] = TakeBit(g[k - 1], s[k])
              /\ Unstuffing(s) = g[Len(s)].out
<1> DEFINE Eq(f) == f = [t \in SUBSET (DOMAIN s) |->
                           IF t = {} THEN NoBits ELSE TakeBit(f[t \ {Max(t)}], s[Max(t)])]
           rec == CHOOSE f : Eq(f)
           g == [k \in 0 .. Len(s) |-> rec[1 .. k]]
<1>1. Unstuffing(s) = rec[DOMAIN s].out
  BY DEF Unstuffing, FoldLeft, MapThenFoldSet, TakeBit, NoBits
<1>2. \E h \in [SUBSET (DOMAIN s) -> Stuffs] : Eq(h)
  <2> DEFINE F == [x \in Stuffs \X Bit |-> TakeBit(x[1], x[2])]
  <2>1. F \in [Stuffs \X Bit -> Stuffs]
    BY TakeBitType
  <2>2. NoBits \in Stuffs
    BY DEF NoBits, Stuffs
  <2>3. PICK h \in [SUBSET (DOMAIN s) -> Stuffs] :
            \A t \in SUBSET (DOMAIN s) :
               h[t] = IF t = {} THEN NoBits ELSE F[<<h[t \ {Max(t)}], s[Max(t)]>>]
    <3> HIDE DEF F
    <3>1. PICK h \in [SUBSET (DOMAIN s) -> Stuffs] : FoldsOver(h, s, NoBits, F)
      BY <2>1, <2>2, FoldExists
    <3> QED BY <3>1 DEF FoldsOver
  <2>4. ASSUME NEW t \in SUBSET (DOMAIN s), t # {}
        PROVE  F[<<h[t \ {Max(t)}], s[Max(t)]>>] = TakeBit(h[t \ {Max(t)}], s[Max(t)])
    <3>1. Max(t) \in 1 .. Len(s)
      <4>1. Len(s) \in Nat /\ t \in SUBSET (1 .. Len(s))
        OBVIOUS
      <4>2. Max(t) \in t
        BY <2>4, <4>1, MaxOf
      <4> QED BY <4>1, <4>2
    <3>2. s[Max(t)] \in Bit /\ h[t \ {Max(t)}] \in Stuffs
      BY <3>1
    <3> QED BY <3>2
  <2>5. \A t \in SUBSET (DOMAIN s) :
           h[t] = IF t = {} THEN NoBits ELSE TakeBit(h[t \ {Max(t)}], s[Max(t)])
    <3> HIDE DEF F
    <3> QED BY <2>3, <2>4
  <2> QED BY <2>5
<1>3. Eq(rec)
  <2> HIDE DEF Eq
  <2> QED BY <1>2
<1> HIDE DEF rec
<1>4. \A t \in SUBSET (DOMAIN s) :
         rec[t] = IF t = {} THEN NoBits ELSE TakeBit(rec[t \ {Max(t)}], s[Max(t)])
  BY <1>3
<1>5. DOMAIN s = 1 .. Len(s) /\ Len(s) \in Nat
  OBVIOUS
<1>6. g[0] = NoBits
  <2>1. 1 .. 0 = {} /\ 0 \in 0 .. Len(s)
    OBVIOUS
  <2> QED BY <1>4, <2>1
<1>7. ASSUME NEW k \in 1 .. Len(s) PROVE g[k] = TakeBit(g[k - 1], s[k])
  <2>a. k \in Nat /\ k # 0
    BY <1>5
  <2>1. 1 .. k \in SUBSET (DOMAIN s) /\ 1 .. k # {} /\ (1 .. k) \ {k} = 1 .. (k - 1)
    <3>1. \A i \in 1 .. k : i \in 1 .. Len(s)
      BY <1>5
    <3>2. 1 .. k \in SUBSET (DOMAIN s)
      BY <1>5, <3>1
    <3> QED BY <2>a, <3>2, PrefixSets, Zenon
  <2>2. Max(1 .. k) = k
    BY <2>a, LastOfPrefix
  <2>3. rec[1 .. k] = TakeBit(rec[1 .. (k - 1)], s[k])
    BY <1>4, <2>1, <2>2
  <2>4. k \in 0 .. Len(s) /\ k - 1 \in 0 .. Len(s)
    OBVIOUS
  <2> QED BY <2>3, <2>4
<1> HIDE DEF g
<1>8. 0 .. Len(s) \subseteq {k \in 0 .. Len(s) : g[k] \in Stuffs}
  <2>1. g[0] \in Stuffs
    BY <1>6 DEF NoBits, Stuffs
  <2>2. ASSUME NEW k \in 0 .. Len(s) - 1, g[k] \in Stuffs PROVE g[k + 1] \in Stuffs
    <3>1. k + 1 \in 1 .. Len(s) /\ (k + 1) - 1 = k /\ s[k + 1] \in Bit
      BY <1>5
    <3> QED BY <1>7, <2>2, <3>1, TakeBitType
  <2> DEFINE T == {k \in 0 .. Len(s) : g[k] \in Stuffs}
  <2>3. 0 \in T
    BY <1>5, <2>1
  <2>4. \A k \in 0 .. Len(s) - 1 : k \in T => k + 1 \in T
    BY <1>5, <2>2
  <2> HIDE DEF T
  <2>5. 0 .. Len(s) \subseteq T
    BY <1>5, <2>3, <2>4, UpTo
  <2> QED BY <2>5 DEF T
<1>9. g \in [0 .. Len(s) -> Stuffs]
  BY <1>8 DEF g
<1>10. Unstuffing(s) = g[Len(s)].out
  BY <1>1, <1>5 DEF g
<1> QED BY <1>6, <1>7, <1>9, <1>10

\* A sequence up to its n-th element.
LEMMA Beginning ==
    ASSUME NEW s \in Seq(Bit), NEW n \in 0 .. Len(s)
    PROVE  /\ SubSeq(s, 1, n) \in Seq(Bit) /\ Len(SubSeq(s, 1, n)) = n
           /\ \A i \in 1 .. n : SubSeq(s, 1, n)[i] = s[i]
<1>1. PICK w : w = SubSeq(s, 1, n)
  OBVIOUS
<1>2. w \in Seq(Bit) /\ Len(w) = n /\ \A i \in 1 .. n : w[i] = s[i]
  BY <1>1
<1> QED BY <1>1, <1>2

IsRun(g, s) == /\ g \in [0 .. Len(s) -> Stuffs] /\ g[0] = NoBits
               /\ \A k \in 1 .. Len(s) : g[k] = PutBit(g[k - 1], s[k])
IsUnrun(h, s) == /\ h \in [0 .. Len(s) -> Stuffs] /\ h[0] = NoBits
                 /\ \A k \in 1 .. Len(s) : h[k] = TakeBit(h[k - 1], s[k])

\* The bits that have been stuffed are those of the run so far.
LEMMA StuffingOfPrefix ==
    ASSUME NEW s \in Seq(Bit), NEW g, IsRun(g, s), NEW n \in 0 .. Len(s)
    PROVE  Stuffing(SubSeq(s, 1, n)) = g[n].out
<1>1. Len(s) \in Nat
  OBVIOUS
<1>2. PICK r \in Seq(Bit) : /\ r = SubSeq(s, 1, n) /\ Len(r) = n
                            /\ \A i \in 1 .. n : r[i] = s[i]
  BY Beginning
<1>3. PICK f \in [0 .. n -> Stuffs] : /\ f[0] = NoBits
                                      /\ \A k \in 1 .. n : f[k] = PutBit(f[k - 1], r[k])
                                      /\ Stuffing(r) = f[n].out
  BY <1>2, StuffingRun
<1> DEFINE T == {k \in 0 .. n : f[k] = g[k]}
<1>4. 0 \in T
  BY <1>1, <1>3 DEF IsRun
<1>5. ASSUME NEW k \in 0 .. n - 1, k \in T PROVE k + 1 \in T
  <2>1. k + 1 \in 1 .. n /\ k + 1 \in 1 .. Len(s) /\ (k + 1) - 1 = k /\ k + 1 \in 0 .. n
    BY <1>1
  <2>2. f[k + 1] = PutBit(f[k], r[k + 1])
    BY <1>3, <2>1
  <2>3. g[k + 1] = PutBit(g[k], s[k + 1])
    BY <2>1 DEF IsRun
  <2>4. r[k + 1] = s[k + 1] /\ f[k] = g[k]
    BY <1>2, <1>5, <2>1
  <2> QED BY <2>1, <2>2, <2>3, <2>4
<1>6. n \in T
  <2> HIDE DEF T
  <2>1. n \in Nat
    BY <1>1
  <2>2. 0 .. n \subseteq T
    BY <1>4, <1>5, <2>1, UpTo
  <2> QED BY <2>1, <2>2
<1> QED BY <1>2, <1>3, <1>6

\* A bit adds itself, and a zero after as many ones as make a run.
LEMMA OneBit ==
    ASSUME NEW s \in Seq(Bit), NEW g, IsRun(g, s), NEW k \in 0 .. Len(s) - 1
    PROVE  /\ g[k].out \in Seq(Bit) /\ g[k + 1].out \in Seq(Bit)
           /\ \A i \in 1 .. Len(g[k].out) : g[k + 1].out[i] = g[k].out[i]
           /\ g[k + 1].out[Len(g[k].out) + 1] = s[k + 1]
           /\ \/ /\ s[k + 1] = 1 /\ g[k].ones + 1 = Run /\ g[k + 1].ones = 0
                 /\ Len(g[k + 1].out) = Len(g[k].out) + 2
                 /\ g[k + 1].out[Len(g[k].out) + 2] = 0
              \/ /\ ~(s[k + 1] = 1 /\ g[k].ones + 1 = Run)
                 /\ g[k + 1].ones = (IF s[k + 1] = 1 THEN g[k].ones + 1 ELSE 0)
                 /\ Len(g[k + 1].out) = Len(g[k].out) + 1
<1>1. Len(s) \in Nat /\ k + 1 \in 1 .. Len(s) /\ (k + 1) - 1 = k
  OBVIOUS
<1>2. PICK a \in Stuffs, b \in Bit : a = g[k] /\ b = s[k + 1]
  BY <1>1 DEF IsRun
<1>3. g[k + 1] = PutBit(a, b)
  BY <1>1, <1>2 DEF IsRun
<1>4. PICK out \in Seq(Bit), ones \in Nat : out = a.out /\ ones = a.ones
  BY DEF Stuffs
<1>5. CASE b = 1 /\ ones + 1 = Run
  <2>1. PICK w : w = out \o <<1, 0>>
    OBVIOUS
  <2>2. /\ w \in Seq(Bit) /\ Len(w) = Len(out) + 2 /\ w[Len(out) + 1] = 1 /\ w[Len(out) + 2] = 0
        /\ \A i \in 1 .. Len(out) : w[i] = out[i]
    BY <2>1 DEF Bit
  <2>3. g[k + 1].out = w /\ g[k + 1].ones = 0
    BY <1>3, <1>4, <1>5, <2>1 DEF PutBit
  <2> QED BY <1>2, <1>4, <1>5, <2>2, <2>3
<1>6. CASE ~(b = 1 /\ ones + 1 = Run)
  <2>1. PICK w : w = Append(out, b)
    OBVIOUS
  <2>2. /\ w \in Seq(Bit) /\ Len(w) = Len(out) + 1 /\ w[Len(out) + 1] = b
        /\ \A i \in 1 .. Len(out) : w[i] = out[i]
    BY <2>1
  <2>3. g[k + 1].out = w /\ g[k + 1].ones = IF b = 1 THEN ones + 1 ELSE 0
    BY <1>3, <1>4, <1>6, <2>1 DEF PutBit
  <2> QED BY <1>2, <1>4, <1>6, <2>2, <2>3
<1> QED BY <1>5, <1>6

\* So what is written after some bits is the beginning of what is written after
\* more, at least as many bits longer, and the next bit comes right behind it.
LEMMA RunGrows ==
    ASSUME NEW s \in Seq(Bit), NEW g, IsRun(g, s), NEW m \in 0 .. Len(s), NEW k \in 0 .. m
    PROVE  /\ g[k].out \in Seq(Bit) /\ g[m].out \in Seq(Bit)
           /\ Len(g[m].out) >= Len(g[k].out) + (m - k)
           /\ \A i \in 1 .. Len(g[k].out) : g[m].out[i] = g[k].out[i]
<1>1. Len(s) \in Nat /\ m \in Nat
  OBVIOUS
<1>2. \A j \in 0 .. m : g[j].out \in Seq(Bit) /\ Len(g[j].out) \in Nat
  BY <1>1 DEF IsRun, Stuffs
<1> DEFINE T == {j \in 0 .. m : /\ Len(g[m].out) >= Len(g[j].out) + (m - j)
                                /\ \A i \in 1 .. Len(g[j].out) : g[m].out[i] = g[j].out[i]}
<1>3. m \in T
  BY <1>1, <1>2
<1>4. ASSUME NEW j \in 0 .. m - 1, j + 1 \in T PROVE j \in T
  <2>1. j \in 0 .. Len(s) - 1 /\ j \in 0 .. m /\ j + 1 \in 0 .. m
    BY <1>1
  <2>2. /\ Len(g[j + 1].out) >= Len(g[j].out) + 1
        /\ \A i \in 1 .. Len(g[j].out) : g[j + 1].out[i] = g[j].out[i]
    <3> HIDE DEF T
    <3>1. /\ \A i \in 1 .. Len(g[j].out) : g[j + 1].out[i] = g[j].out[i]
          /\ \/ Len(g[j + 1].out) = Len(g[j].out) + 2
             \/ Len(g[j + 1].out) = Len(g[j].out) + 1
      BY <2>1, OneBit
    <3>2. Len(g[j].out) \in Nat
      BY <1>2, <2>1
    <3> QED BY <3>1, <3>2
  <2>3. \A i \in 1 .. Len(g[j].out) : i \in 1 .. Len(g[j + 1].out)
    BY <1>2, <2>1, <2>2
  <2>4. \A i \in 1 .. Len(g[j].out) : g[m].out[i] = g[j].out[i]
    BY <1>4, <2>2, <2>3
  <2>5. Len(g[m].out) >= Len(g[j].out) + (m - j)
    <3>a. m \in 0 .. m
      BY <1>1
    <3>b. Len(g[j].out) \in Nat /\ Len(g[j + 1].out) \in Nat /\ Len(g[m].out) \in Nat
      <4> HIDE DEF T
      <4> QED BY <1>2, <2>1, <3>a
    <3>1. PICK a \in Nat, b \in Nat, c \in Nat :
             a = Len(g[j].out) /\ b = Len(g[j + 1].out) /\ c = Len(g[m].out)
      BY <3>b
    <3>2. b >= a + 1 /\ c >= b + (m - (j + 1))
      BY <1>4, <2>2, <3>1
    <3>3. j \in Nat /\ m \in Nat /\ c >= a + (m - j)
      BY <1>1, <2>1, <3>2
    <3> QED BY <3>1, <3>3
  <2> QED BY <2>1, <2>4, <2>5
<1>5. k \in T
  <2> HIDE DEF T
  <2>1. 0 .. m \subseteq T
    BY <1>1, <1>3, <1>4, DownTo
  <2> QED BY <2>1
<1>6. m \in 0 .. m
  BY <1>1
<1> QED BY <1>2, <1>5, <1>6

LEMMA RunExists == ASSUME NEW s \in Seq(Bit)
                   PROVE  \E g : IsRun(g, s) /\ Stuffing(s) = g[Len(s)].out
BY StuffingRun DEF IsRun

\* Zeros pass through the stuffing as they are.
LEMMA ZerosPass ==
    ASSUME NEW s \in Seq(Bit), NEW g, IsRun(g, s), NEW p \in 0 .. Len(s),
           \A i \in p + 1 .. Len(s) : s[i] = 0
    PROVE  /\ Len(g[Len(s)].out) = Len(g[p].out) + (Len(s) - p)
           /\ \A i \in Len(g[p].out) + 1 .. Len(g[Len(s)].out) : g[Len(s)].out[i] = 0
<1>1. Len(s) \in Nat /\ p \in Nat
  OBVIOUS
<1>2. PICK a \in Nat : a = Len(g[p].out)
  BY <1>1 DEF IsRun, Stuffs
<1>3. PICK z \in Nat : z = Len(s) - p /\ Len(s) = p + z
  BY <1>1
<1> DEFINE T == {k \in 0 .. z : /\ Len(g[p + k].out) = a + k
                                /\ \A i \in a + 1 .. a + k : g[p + k].out[i] = 0}
<1>4. 0 \in T
  BY <1>1, <1>2, <1>3
<1>5. ASSUME NEW k \in 0 .. z - 1, k \in T PROVE k + 1 \in T
  <2>1. PICK j \in 0 .. Len(s) - 1 : j = p + k /\ j + 1 = p + (k + 1) /\ k \in Nat
    BY <1>1, <1>3
  <2>2. s[j + 1] = 0
    BY <1>1, <1>3, <2>1
  <2>3. PICK x : x = g[j].out
    OBVIOUS
  <2>4. PICK y : y = g[j + 1].out
    OBVIOUS
  <2>5. Len(x) = a + k /\ \A i \in a + 1 .. a + k : x[i] = 0
    BY <1>5, <2>1, <2>3
  <2>6. /\ x \in Seq(Bit) /\ y \in Seq(Bit) /\ Len(y) = Len(x) + 1
        /\ \A i \in 1 .. Len(x) : y[i] = x[i]
        /\ y[Len(x) + 1] = 0
    BY <2>2, <2>3, <2>4, OneBit
  <2>7. Len(y) = a + (k + 1)
    BY <2>1, <2>5, <2>6
  <2>8. ASSUME NEW i \in a + 1 .. a + (k + 1) PROVE y[i] = 0
    <3>1. CASE i = a + (k + 1)
      <4>1. i = Len(x) + 1
        BY <2>1, <2>5, <3>1
      <4> QED BY <2>6, <4>1
    <3>2. CASE i # a + (k + 1)
      <4>1. i \in a + 1 .. a + k /\ i \in 1 .. Len(x)
        BY <2>1, <2>5, <3>2
      <4> QED BY <2>5, <2>6, <4>1
    <3> QED BY <3>1, <3>2
  <2>9. k + 1 \in 0 .. z
    OBVIOUS
  <2> QED BY <2>1, <2>4, <2>7, <2>8, <2>9
<1>6. z \in T
  <2> HIDE DEF T
  <2>1. 0 .. z \subseteq T
    BY <1>3, <1>4, <1>5, UpTo
  <2> QED BY <1>3, <2>1
<1> QED BY <1>1, <1>2, <1>3, <1>6

\* The bits of the padded sequence: as many zeros as complete a byte, or make one.
LEMMA PaddedIs ==
    ASSUME NEW s \in Seq(Bit)
    PROVE  \E z \in 1 .. Width :
              /\ IntListToBytes(s) = s \o Zeros(z)
              /\ Len(s) + z = (Len(s) \div Width + 1) * Width
<1>1. Width \in Nat \ {0} /\ Len(s) \in Nat
  BY FramingAssumption
<1>2. PICK r \in Nat : r = Len(s) % Width /\ r < Width
  BY <1>1, ModBelow
<1>3. PICK d \in Nat : d = Len(s) \div Width /\ Len(s) = Width * d + r
  BY <1>1, <1>2, Remainder
<1>4. PICK dw \in Nat : dw = d * Width /\ dw = Width * d /\ (d + 1) * Width = dw + Width
  <2>1. d * Width \in Nat /\ (d + 1) * Width = d * Width + Width
    BY <1>1, Times
  <2>2. d * Width = Width * d
    BY <1>1
  <2> QED BY <2>1, <2>2
<1>5. PICK z \in 1 .. Width : z = Width - r
  <2>1. Width \in Nat /\ r < Width
    BY <1>1, <1>2
  <2> QED BY <2>1
<1>6. Len(s) + z = dw + Width
  BY <1>1, <1>2, <1>3, <1>4, <1>5
<1>7. IntListToBytes(s) = s \o Zeros(z)
  BY <1>2, <1>5 DEF IntListToBytes
<1> QED BY <1>3, <1>4, <1>6, <1>7

\* A sequence and the zeros behind it.
LEMMA WithZeros ==
    ASSUME NEW s \in Seq(Bit), NEW z \in Nat
    PROVE  /\ s \o Zeros(z) \in Seq(Bit) /\ Len(s \o Zeros(z)) = Len(s) + z
           /\ \A i \in 1 .. Len(s) : (s \o Zeros(z))[i] = s[i]
           /\ \A i \in Len(s) + 1 .. Len(s) + z : (s \o Zeros(z))[i] = 0
<1>1. PICK y : y = Zeros(z)
  OBVIOUS
<1>2. y \in Seq(Bit) /\ Len(y) = z /\ \A i \in 1 .. z : y[i] = 0
  BY <1>1 DEF Zeros, Bit
<1>3. PICK w : w = s \o y
  OBVIOUS
<1>4. w \in Seq(Bit) /\ Len(w) = Len(s) + z /\ Len(s) \in Nat
  <2>1. Len(s) \in Nat
    OBVIOUS
  <2>2. w \in Seq(Bit) /\ Len(w) = Len(s) + z
    BY <1>2, <1>3, ConcatProperties
  <2> QED BY <2>1, <2>2
<1>5. \A i \in 1 .. Len(s) : w[i] = s[i]
  BY <1>2, <1>3
<1>6. ASSUME NEW i \in Len(s) + 1 .. Len(s) + z PROVE w[i] = 0
  <2>1. i - Len(s) \in 1 .. z /\ i \in 1 .. Len(s) + z /\ ~(i <= Len(s))
    BY <1>4
  <2>2. w[i] = y[i - Len(s)]
    BY <1>2, <1>3, <1>4, <2>1
  <2> QED BY <1>2, <2>1, <2>2
<1> QED BY <1>1, <1>3, <1>4, <1>5, <1>6

LEMMA SameBits == ASSUME NEW s \in Seq(Bit), NEW t \in Seq(Bit), Len(s) = Len(t),
                         \A i \in 1 .. Len(s) : s[i] = t[i]
                  PROVE  s = t
OBVIOUS

\* Padding what was stuffed is stuffing what was padded.
LEMMA PaddingIsStuffed ==
    ASSUME NEW f \in Seq(Bit), NEW z \in Nat, NEW g, IsRun(g, f \o Zeros(z))
    PROVE  /\ g[Len(f)].out = Stuffing(f)
           /\ g[Len(f) + z].out = Stuffing(f) \o Zeros(z)
<1>1. PICK s : s = f \o Zeros(z)
  OBVIOUS
<1>0. Len(f) \in Nat /\ IsRun(g, s)
  BY <1>1
<1>a. /\ s \in Seq(Bit) /\ Len(s) = Len(f) + z
      /\ \A i \in 1 .. Len(f) : s[i] = f[i]
      /\ \A i \in Len(f) + 1 .. Len(f) + z : s[i] = 0
  <2> HIDE DEF IsRun
  <2> QED BY <1>1, WithZeros
<1>2. /\ s \in Seq(Bit) /\ Len(s) = Len(f) + z /\ Len(f) \in Nat /\ IsRun(g, s)
      /\ \A i \in 1 .. Len(f) : s[i] = f[i]
      /\ \A i \in Len(f) + 1 .. Len(f) + z : s[i] = 0
  BY <1>0, <1>a
<1>3. Len(f) \in 0 .. Len(s)
  BY <1>2
<1>4. SubSeq(s, 1, Len(f)) = f
  <2>1. PICK w : w = SubSeq(s, 1, Len(f))
    OBVIOUS
  <2>2. w \in Seq(Bit) /\ Len(w) = Len(f) /\ \A i \in 1 .. Len(f) : w[i] = s[i]
    BY <1>2, <1>3, <2>1, Beginning
  <2> QED BY <1>2, <2>1, <2>2, SameBits
<1>5. g[Len(f)].out = Stuffing(f)
  <2>1. PICK n \in 0 .. Len(s) : n = Len(f)
    BY <1>3
  <2>2. Stuffing(SubSeq(s, 1, n)) = g[n].out
    BY <1>2, StuffingOfPrefix
  <2> QED BY <1>4, <2>1, <2>2
<1>6. PICK x : x = g[Len(f)].out
  OBVIOUS
<1>7. PICK y : y = g[Len(s)].out
  OBVIOUS
<1>8. /\ x \in Seq(Bit) /\ y \in Seq(Bit) /\ \A i \in 1 .. Len(x) : y[i] = x[i]
  <2>1. PICK m \in 0 .. Len(s) : m = Len(s)
    BY <1>2
  <2>2. PICK k \in 0 .. m : k = Len(f)
    BY <1>3, <2>1
  <2>3. /\ g[k].out \in Seq(Bit) /\ g[m].out \in Seq(Bit)
        /\ \A i \in 1 .. Len(g[k].out) : g[m].out[i] = g[k].out[i]
    BY <1>2, RunGrows
  <2> QED BY <1>6, <1>7, <2>1, <2>2, <2>3
<1>9. Len(y) = Len(x) + z /\ \A i \in Len(x) + 1 .. Len(y) : y[i] = 0
  <2>1. \A i \in Len(f) + 1 .. Len(s) : s[i] = 0
    BY <1>2
  <2>2. Len(s) - Len(f) = z
    BY <1>2
  <2> QED BY <1>2, <1>3, <1>6, <1>7, <2>1, <2>2, ZerosPass
<1>10. PICK v : v = x \o Zeros(z)
  OBVIOUS
<1>11. /\ v \in Seq(Bit) /\ Len(v) = Len(x) + z
       /\ \A i \in 1 .. Len(x) : v[i] = x[i]
       /\ \A i \in Len(x) + 1 .. Len(x) + z : v[i] = 0
  BY <1>8, <1>10, WithZeros
<1>12. ASSUME NEW i \in 1 .. Len(y) PROVE y[i] = v[i]
  <2>1. Len(x) \in Nat
    BY <1>8
  <2>2. i \in 1 .. Len(x) \/ i \in Len(x) + 1 .. Len(x) + z
    BY <1>9, <2>1
  <2> QED BY <1>8, <1>9, <1>11, <2>2
<1>13. y = v
  BY <1>8, <1>9, <1>11, <1>12, SameBits
<1> QED BY <1>2, <1>5, <1>6, <1>7, <1>10, <1>13

\* The count of ones stays below a run.
LEMMA RunCounts ==
    ASSUME NEW s \in Seq(Bit), NEW g, IsRun(g, s), NEW k \in 0 .. Len(s)
    PROVE  g[k].ones \in Nat /\ g[k].ones < Run
<1>1. Len(s) \in Nat
  OBVIOUS
<1> DEFINE T == {j \in 0 .. Len(s) : Counted(g[j])}
<1>2. 0 \in T
  <2>a. Run \in Nat /\ Run # 0
    BY FramingAssumption
  <2>b. NoLongRun(<<>>)
    BY <2>a DEF NoLongRun
  <2>1. Counted(NoBits)
    BY <2>a, <2>b DEF Counted, NoBits
  <2> QED BY <1>1, <2>1 DEF IsRun
<1>3. ASSUME NEW j \in 0 .. Len(s) - 1, j \in T PROVE j + 1 \in T
  <2>1. j + 1 \in 1 .. Len(s) /\ (j + 1) - 1 = j /\ s[j + 1] \in Bit /\ j + 1 \in 0 .. Len(s)
    BY <1>1
  <2>2. g[j] \in Stuffs /\ g[j + 1] = PutBit(g[j], s[j + 1])
    BY <1>1, <2>1 DEF IsRun
  <2>3. Counted(PutBit(g[j], s[j + 1]))
    BY <1>3, <2>1, <2>2, PutBitCounts
  <2> QED BY <2>1, <2>2, <2>3
<1>4. k \in T
  <2> HIDE DEF T
  <2>1. 0 .. Len(s) \subseteq T
    BY <1>1, <1>2, <1>3, UpTo
  <2> QED BY <2>1
<1>5. g[k] \in Stuffs
  BY DEF IsRun
<1> QED BY <1>4, <1>5 DEF Counted, Stuffs

\* Where the next bit is, in what is written in the end.
LEMMA Placed ==
    ASSUME NEW s \in Seq(Bit), NEW g, IsRun(g, s), NEW k \in 0 .. Len(s) - 1
    PROVE  /\ Len(g[k].out) \in Nat /\ Len(g[k + 1].out) \in {Len(g[k].out) + 1, Len(g[k].out) + 2}
           /\ Len(g[k + 1].out) \in 1 .. Len(g[Len(s)].out)
           /\ g[Len(s)].out[Len(g[k].out) + 1] = s[k + 1]
           /\ Len(g[k + 1].out) = Len(g[k].out) + 2 =>
                 /\ s[k + 1] = 1 /\ g[k].ones + 1 = Run /\ g[k + 1].ones = 0
                 /\ g[Len(s)].out[Len(g[k].out) + 2] = 0
           /\ Len(g[k + 1].out) = Len(g[k].out) + 1 =>
                 g[k + 1].ones = IF s[k + 1] = 1 THEN g[k].ones + 1 ELSE 0
<1>1. PICK m \in 0 .. Len(s) : m = Len(s) /\ m \in Nat
  OBVIOUS
<1>2. PICK j \in 0 .. m : j = k + 1
  BY <1>1
<1>3. PICK x : x = g[k].out
  OBVIOUS
<1>4. PICK y : y = g[k + 1].out
  OBVIOUS
<1>5. PICK z : z = g[m].out
  OBVIOUS
<1>6. /\ z \in Seq(Bit) /\ Len(z) >= Len(y) + (m - j)
      /\ \A i \in 1 .. Len(y) : z[i] = y[i]
  <2>1. /\ g[m].out \in Seq(Bit) /\ Len(g[m].out) >= Len(g[j].out) + (m - j)
        /\ \A i \in 1 .. Len(g[j].out) : g[m].out[i] = g[j].out[i]
    BY RunGrows
  <2> QED BY <1>2, <1>4, <1>5, <2>1
<1>7. /\ x \in Seq(Bit) /\ y \in Seq(Bit) /\ y[Len(x) + 1] = s[k + 1]
      /\ \/ /\ s[k + 1] = 1 /\ g[k].ones + 1 = Run /\ g[k + 1].ones = 0
            /\ Len(y) = Len(x) + 2 /\ y[Len(x) + 2] = 0
         \/ /\ g[k + 1].ones = (IF s[k + 1] = 1 THEN g[k].ones + 1 ELSE 0)
            /\ Len(y) = Len(x) + 1
  BY <1>3, <1>4, OneBit
<1>8. PICK n \in Nat : n = Len(x)
  BY <1>7
<1>9. PICK l \in Nat : l = Len(z)
  BY <1>6
<1>10. Len(y) \in {n + 1, n + 2} /\ Len(y) \in 1 .. l /\ m - j \in Nat
  BY <1>1, <1>2, <1>6, <1>7, <1>8, <1>9
<1>11. z[n + 1] = s[k + 1]
  <2>1. n + 1 \in 1 .. Len(y)
    BY <1>10
  <2> QED BY <1>6, <1>7, <1>8, <2>1
<1>12. ASSUME Len(y) = n + 2
       PROVE  s[k + 1] = 1 /\ g[k].ones + 1 = Run /\ g[k + 1].ones = 0 /\ z[n + 2] = 0
  <2>1. n + 2 \in 1 .. Len(y) /\ n + 2 # n + 1
    BY <1>12
  <2> QED BY <1>6, <1>7, <1>8, <1>12, <2>1
<1>13. ASSUME Len(y) = n + 1 PROVE g[k + 1].ones = IF s[k + 1] = 1 THEN g[k].ones + 1 ELSE 0
  <2>1. n + 2 # n + 1
    OBVIOUS
  <2> QED BY <1>7, <1>8, <1>13, <2>1
<1> QED BY <1>1, <1>3, <1>4, <1>5, <1>8, <1>9, <1>10, <1>11, <1>12, <1>13

\* A beginning, and the element behind it.
LEMMA OneMore ==
    ASSUME NEW s \in Seq(Bit), NEW k \in 0 .. Len(s) - 1
    PROVE  Append(SubSeq(s, 1, k), s[k + 1]) = SubSeq(s, 1, k + 1)
<1>1. k \in 0 .. Len(s) /\ k + 1 \in 0 .. Len(s) /\ s[k + 1] \in Bit /\ k \in Nat
  OBVIOUS
<1>2. PICK a : a = SubSeq(s, 1, k)
  OBVIOUS
<1>3. PICK b : b = SubSeq(s, 1, k + 1)
  OBVIOUS
<1>4. a \in Seq(Bit) /\ Len(a) = k /\ \A i \in 1 .. k : a[i] = s[i]
  BY <1>1, <1>2, Beginning
<1>5. b \in Seq(Bit) /\ Len(b) = k + 1 /\ \A i \in 1 .. k + 1 : b[i] = s[i]
  BY <1>1, <1>3, Beginning
<1>6. PICK c : c = Append(a, s[k + 1])
  OBVIOUS
<1>7. /\ c \in Seq(Bit) /\ Len(c) = k + 1 /\ c[k + 1] = s[k + 1]
      /\ \A i \in 1 .. k : c[i] = a[i]
  BY <1>1, <1>4, <1>6
<1>8. ASSUME NEW i \in 1 .. k + 1 PROVE c[i] = b[i]
  <2>1. CASE i = k + 1
    BY <1>5, <1>7, <2>1
  <2>2. CASE i # k + 1
    <3>1. i \in 1 .. k
      BY <1>1, <2>2
    <3> QED BY <1>4, <1>5, <1>7, <3>1
  <2> QED BY <2>1, <2>2
<1>9. c = b
  BY <1>5, <1>7, <1>8, SameBits
<1> QED BY <1>2, <1>3, <1>6, <1>9

\* What unstuffing has read when it has read what k bits were written as.
HasRead(h, g, s, k) == h[Len(g[k].out)] = [out |-> SubSeq(s, 1, k), ones |-> g[k].ones]

\* The next bit is read as itself.
LEMMA ReadNext ==
    ASSUME NEW s \in Seq(Bit), NEW g, IsRun(g, s), NEW p, p = g[Len(s)].out,
           NEW q \in 0 .. Len(p), NEW h, IsUnrun(h, SubSeq(p, 1, q)),
           NEW k \in 0 .. Len(s) - 1, HasRead(h, g, s, k), Len(g[k].out) + 1 <= q
    PROVE  h[Len(g[k].out) + 1] = [out  |-> SubSeq(s, 1, k + 1),
                                   ones |-> IF s[k + 1] = 1 THEN g[k].ones + 1 ELSE 0]
<1>1. Len(s) \in Nat /\ k \in 0 .. Len(s) /\ k + 1 \in 0 .. Len(s) /\ Len(s) \in 0 .. Len(s)
  <2>1. Len(s) \in Nat
    OBVIOUS
  <2> QED BY <2>1
<1>2. p \in Seq(Bit) /\ Len(p) \in Nat
  <2>1. g[Len(s)] \in Stuffs
    BY <1>1 DEF IsRun
  <2>2. p \in Seq(Bit)
    BY <2>1 DEF Stuffs
  <2> QED BY <2>2
<1>3. PICK w : w = SubSeq(p, 1, q)
  OBVIOUS
<1>4. w \in Seq(Bit) /\ Len(w) = q /\ \A i \in 1 .. q : w[i] = p[i]
  BY <1>2, <1>3, Beginning
<1>5. PICK n \in Nat : n = Len(g[k].out)
  BY <1>1 DEF IsRun, Stuffs
<1>6. PICK ones \in Nat : ones = g[k].ones /\ ones < Run
  BY <1>1, RunCounts
<1>7. n + 1 \in 1 .. q /\ (n + 1) - 1 = n /\ q \in Nat
  BY <1>2, <1>5
<1>8. p[n + 1] = s[k + 1]
  BY <1>5, Placed
<1>9. PICK a : a = h[n]
  OBVIOUS
<1>10. a.out = SubSeq(s, 1, k) /\ a.ones = ones
  BY <1>5, <1>6, <1>9 DEF HasRead
<1>11. h[n + 1] = TakeBit(a, s[k + 1])
  <2>1. h[n + 1] = TakeBit(h[n], w[n + 1])
    BY <1>3, <1>4, <1>7 DEF IsUnrun
  <2>2. w[n + 1] = s[k + 1]
    BY <1>4, <1>7, <1>8
  <2> QED BY <1>9, <2>1, <2>2
<1>12. a.ones # Run
  BY <1>6, <1>10, FramingAssumption
<1>13. h[n + 1] = [out |-> Append(a.out, s[k + 1]), ones |-> IF s[k + 1] = 1 THEN a.ones + 1 ELSE 0]
  BY <1>11, <1>12 DEF TakeBit
<1> QED BY <1>5, <1>6, <1>10, <1>13, OneMore

\* When as much has been read as some bits were written as, it is these bits.
LEMMA ReadBack ==
    ASSUME NEW s \in Seq(Bit), NEW g, IsRun(g, s), NEW p, p = g[Len(s)].out,
           NEW q \in 0 .. Len(p), NEW h, IsUnrun(h, SubSeq(p, 1, q)),
           NEW k \in 0 .. Len(s), Len(g[k].out) <= q
    PROVE  HasRead(h, g, s, k)
<1>1. Len(s) \in Nat /\ Len(s) \in 0 .. Len(s)
  OBVIOUS
<1>2. p \in Seq(Bit) /\ Len(p) \in Nat
  <2>1. g[Len(s)] \in Stuffs
    BY <1>1 DEF IsRun
  <2>2. p \in Seq(Bit)
    BY <2>1 DEF Stuffs
  <2> QED BY <2>2
<1>3. PICK w : w = SubSeq(p, 1, q)
  OBVIOUS
<1>4. w \in Seq(Bit) /\ Len(w) = q /\ \A i \in 1 .. q : w[i] = p[i]
  BY <1>2, <1>3, Beginning
<1> DEFINE T == {j \in 0 .. Len(s) : Len(g[j].out) <= q => HasRead(h, g, s, j)}
<1>5. 0 \in T
  <2>1. g[0] = NoBits /\ h[0] = NoBits
    BY DEF IsRun, IsUnrun
  <2>2. SubSeq(s, 1, 0) = <<>>
    OBVIOUS
  <2> QED BY <1>1, <2>1, <2>2 DEF HasRead, NoBits
<1>6. ASSUME NEW j \in 0 .. Len(s) - 1, j \in T PROVE j + 1 \in T
  <2> SUFFICES ASSUME Len(g[j + 1].out) <= q PROVE HasRead(h, g, s, j + 1)
    BY <1>1
  <2>1. j \in 0 .. Len(s) /\ j + 1 \in 0 .. Len(s)
    BY <1>1
  <2>2. PICK n : n = Len(g[j].out)
    OBVIOUS
  <2>3. /\ n \in Nat /\ Len(g[j + 1].out) \in {n + 1, n + 2}
        /\ Len(g[j + 1].out) = n + 2 => /\ s[j + 1] = 1 /\ g[j].ones + 1 = Run
                                        /\ g[j + 1].ones = 0 /\ p[n + 2] = 0
        /\ Len(g[j + 1].out) = n + 1 => g[j + 1].ones = IF s[j + 1] = 1 THEN g[j].ones + 1 ELSE 0
    BY <2>2, Placed
  <2>4. n + 1 <= q /\ n <= q
    <3>1. q \in Nat
      BY <1>2
    <3>2. CASE Len(g[j + 1].out) = n + 1
      BY <2>3, <3>1, <3>2
    <3>3. CASE Len(g[j + 1].out) = n + 2
      BY <2>3, <3>1, <3>3
    <3> QED BY <2>3, <3>2, <3>3
  <2>5. HasRead(h, g, s, j)
    BY <1>6, <2>2, <2>4
  <2>6. h[n + 1] = [out |-> SubSeq(s, 1, j + 1), ones |-> IF s[j + 1] = 1 THEN g[j].ones + 1 ELSE 0]
    BY <2>2, <2>4, <2>5, ReadNext
  <2>7. CASE Len(g[j + 1].out) = n + 1
    BY <2>3, <2>6, <2>7 DEF HasRead
  <2>8. CASE Len(g[j + 1].out) = n + 2
    <3>1. s[j + 1] = 1 /\ g[j].ones + 1 = Run /\ g[j + 1].ones = 0 /\ p[n + 2] = 0
      BY <2>3, <2>8
    <3>2. PICK a : a = h[n + 1]
      OBVIOUS
    <3>3. a.out = SubSeq(s, 1, j + 1) /\ a.ones = Run /\ a = [out |-> a.out, ones |-> a.ones]
      BY <2>6, <3>1, <3>2
    <3>4. n + 2 \in 1 .. q /\ (n + 2) - 1 = n + 1
      BY <1>2, <2>3, <2>8
    <3>5. h[n + 2] = TakeBit(h[n + 1], w[n + 2])
      BY <1>3, <1>4, <3>4 DEF IsUnrun
    <3>6. h[n + 2] = [a EXCEPT !.ones = 0]
      BY <3>2, <3>3, <3>5 DEF TakeBit
    <3>7. h[n + 2] = [out |-> SubSeq(s, 1, j + 1), ones |-> 0]
      BY <3>3, <3>6
    <3> QED BY <2>8, <3>1, <3>7 DEF HasRead
  <2> QED BY <2>3, <2>7, <2>8
<1>7. k \in T
  <2> HIDE DEF T
  <2>1. 0 .. Len(s) \subseteq T
    BY <1>1, <1>5, <1>6, UpTo
  <2> QED BY <2>1
<1> QED BY <1>7

\* A beginning of what was written is read as a beginning of what was stuffed: as
\* all the bits that are in it.
LEMMA ReadsBeginning ==
    ASSUME NEW s \in Seq(Bit), NEW g, IsRun(g, s), NEW p, p = g[Len(s)].out, NEW q \in 0 .. Len(p)
    PROVE  \E m \in 0 .. Len(s) :
              /\ Unstuffing(SubSeq(p, 1, q)) = SubSeq(s, 1, m)
              /\ m > 0 => Len(g[m - 1].out) + 1 <= q
              /\ \A i \in m .. Len(s) - 1 : Len(g[i].out) + 1 > q
<1>1. Len(s) \in Nat /\ Len(s) \in 0 .. Len(s) /\ 0 \in 0 .. Len(s)
  OBVIOUS
<1>2. p \in Seq(Bit) /\ Len(p) \in Nat
  <2>1. g[Len(s)] \in Stuffs
    BY <1>1 DEF IsRun
  <2>2. p \in Seq(Bit)
    BY <2>1 DEF Stuffs
  <2> QED BY <2>2
<1>3. PICK w : w = SubSeq(p, 1, q)
  OBVIOUS
<1>4. w \in Seq(Bit) /\ Len(w) = q
  BY <1>2, <1>3, Beginning
<1>5. PICK h : IsUnrun(h, w) /\ Unstuffing(w) = h[q].out
  BY <1>4, UnstuffingRun DEF IsUnrun
<1> DEFINE l(i) == Len(g[i].out)
<1>6. \A i \in 0 .. Len(s) : l(i) \in Nat
  BY DEF IsRun, Stuffs
<1>7. ASSUME NEW j \in 0 .. Len(s), NEW i \in 0 .. j PROVE l(j) >= l(i) + (j - i)
  BY RunGrows
<1>8. l(0) = 0
  BY DEF IsRun, NoBits
<1>9. PICK k \in 0 .. Len(s) : l(k) <= q /\ \A i \in 0 .. Len(s) : l(i) <= q => i <= k
  <2> DEFINE U == {n \in 0 .. Len(s) : l(Len(s) - n) <= q}
  <2>1. Len(s) \in U /\ U \in SUBSET Nat
    <3>1. Len(s) - Len(s) = 0
      BY <1>1
    <3> QED BY <1>1, <1>2, <1>8, <3>1
  <2>2. PICK n \in U : \A i \in U : n <= i
    <3> HIDE DEF U
    <3> QED BY <2>1, Least
  <2>3. PICK k \in 0 .. Len(s) : k = Len(s) - n /\ l(k) <= q
    BY <1>1, <2>2
  <2>4. ASSUME NEW i \in 0 .. Len(s), l(i) <= q PROVE i <= k
    <3>1. Len(s) - i \in 0 .. Len(s) /\ Len(s) - (Len(s) - i) = i
      BY <1>1
    <3>2. Len(s) - i \in U
      BY <2>4, <3>1
    <3>3. n <= Len(s) - i
      BY <2>2, <3>2
    <3> QED BY <1>1, <2>2, <2>3, <3>3
  <2> QED BY <2>3, <2>4
<1>10. PICK a \in Nat : a = l(k)
  BY <1>6
<1>11. q \in Nat /\ a <= q /\ k \in Nat
  BY <1>1, <1>2, <1>9, <1>10
<1>12. HasRead(h, g, s, k)
  BY <1>3, <1>5, <1>9, ReadBack
<1>13. ASSUME a = q PROVE Unstuffing(w) = SubSeq(s, 1, k)
  BY <1>5, <1>10, <1>12, <1>13 DEF HasRead
<1>14. k > 0 => l(k - 1) + 1 <= q
  <2> SUFFICES ASSUME k > 0 PROVE l(k - 1) + 1 <= q
    OBVIOUS
  <2>1. k - 1 \in 0 .. k /\ k - 1 \in 0 .. Len(s)
    BY <1>11
  <2>2. PICK b \in Nat : b = l(k - 1)
    BY <1>6, <2>1
  <2>3. a >= b + (k - (k - 1))
    BY <1>7, <1>10, <2>1, <2>2
  <2> QED BY <1>11, <2>2, <2>3
<1>15. CASE a = q
  <2>1. ASSUME NEW i \in k .. Len(s) - 1 PROVE l(i) + 1 > q
    <3>1. i \in 0 .. Len(s) /\ k \in 0 .. i /\ i - k \in Nat
      BY <1>1, <1>11
    <3>2. PICK b \in Nat : b = l(i)
      BY <1>6, <3>1
    <3>3. b >= a + (i - k)
      BY <1>7, <1>10, <3>1, <3>2
    <3> QED BY <1>11, <1>15, <3>1, <3>2, <3>3
  <2> QED BY <1>3, <1>13, <1>14, <1>15, <2>1
<1>16. CASE a # q
  <2>1. a < q
    BY <1>11, <1>16
  <2>2. l(Len(s)) = Len(p)
    OBVIOUS
  <2>3. k # Len(s)
    BY <1>2, <1>10, <2>1, <2>2
  <2>4. k \in 0 .. Len(s) - 1 /\ k + 1 \in 0 .. Len(s) /\ ~(k + 1 <= k)
    BY <1>1, <1>11, <2>3
  <2>5. PICK b \in Nat : b = l(k + 1)
    BY <1>6, <2>4
  <2>6. b > q
    BY <1>9, <1>11, <2>4, <2>5
  <2>7. b \in {a + 1, a + 2}
    BY <1>10, <2>4, <2>5, Placed
  <2>8. q = a + 1
    BY <1>11, <2>1, <2>6, <2>7
  <2>9. h[a + 1] = [out |-> SubSeq(s, 1, k + 1), ones |-> IF s[k + 1] = 1 THEN g[k].ones + 1 ELSE 0]
    <3>1. IsUnrun(h, SubSeq(p, 1, q)) /\ Len(g[k].out) = a
      BY <1>3, <1>5, <1>10
    <3>2. Len(g[k].out) + 1 <= q
      BY <1>11, <2>8, <3>1
    <3> HIDE DEF l
    <3>3. PICK j \in 0 .. Len(s) - 1 : j = k
      BY <2>4
    <3>4. HasRead(h, g, s, j) /\ Len(g[j].out) + 1 <= q
      BY <1>12, <3>2, <3>3
    <3>5. h[Len(g[j].out) + 1] = [out  |-> SubSeq(s, 1, j + 1),
                                  ones |-> IF s[j + 1] = 1 THEN g[j].ones + 1 ELSE 0]
      BY <3>1, <3>4, ReadNext
    <3> QED BY <3>1, <3>3, <3>5
  <2>10. Unstuffing(w) = SubSeq(s, 1, k + 1)
    BY <1>5, <2>8, <2>9
  <2>11. ASSUME NEW i \in k + 1 .. Len(s) - 1 PROVE l(i) + 1 > q
    <3>1. i \in 0 .. Len(s) /\ k + 1 \in 0 .. i /\ i - (k + 1) \in Nat
      BY <1>1, <1>11
    <3>2. PICK c \in Nat : c = l(i)
      BY <1>6, <3>1
    <3>3. c >= b + (i - (k + 1))
      BY <1>7, <2>5, <3>1, <3>2
    <3> QED BY <1>11, <2>6, <3>1, <3>2, <3>3
  <2>12. k + 1 > 0 => l((k + 1) - 1) + 1 <= q
    <3>1. (k + 1) - 1 = k
      BY <1>11
    <3> QED BY <1>10, <2>8, <3>1
  <2>13. PICK m \in 0 .. Len(s) : m = k + 1
    BY <2>4
  <2> QED BY <1>3, <2>10, <2>11, <2>12, <2>13
<1> QED BY <1>15, <1>16

\* The bits of a frame.
LEMMA FrameIs ==
    ASSUME NEW n \in Nat \ {0}, NEW f \in FramesOf(n)
    PROVE  /\ f \in Seq(Bit) /\ Len(f) = n * Width /\ n * Width \in Nat /\ n * Width >= Width
           /\ Bytes(f) = n /\ f[1] = 1
<1>1. PICK w \in Nat \ {0} : w = Width
  BY FramingAssumption
<1>2. PICK k \in Nat : k = n * w /\ k \div w = n
  BY WholeTimes
<1>3. f \in [1 .. k -> Bit] /\ f[1] = 1
  BY <1>1, <1>2 DEF FramesOf, Bits, Bit
<1>4. f \in Seq(Bit) /\ Len(f) = k
  BY <1>3, AsSeq
<1>5. k >= w
  <2>1. 1 * w <= n * w
    BY InOrder
  <2> QED BY <1>2, <2>1
<1> QED BY <1>1, <1>2, <1>3, <1>4, <1>5 DEF Bytes

\* How a frame is written: g stuffs it with the zeros that pad it, p are the bytes
\* that come of it, and the first t of them are left by rstrip.
Writes(f, z, g, p, t) ==
    /\ IsRun(g, f \o Zeros(z)) /\ p = g[Len(f) + z].out /\ p \in Seq(Bit)
    /\ t * Width \in 1 .. Len(p) /\ Stuff(f) = SubSeq(p, 1, t * Width)
    /\ \A j \in t * Width + 1 .. Len(p) : p[j] = 0
    /\ \E j \in (t - 1) * Width + 1 .. t * Width : p[j] # 0

\* Every frame is written like that, and as one byte at least.
LEMMA WritesFrame ==
    ASSUME NEW n \in Nat \ {0}, NEW f \in FramesOf(n)
    PROVE  \E z \in 1 .. Width : \E g, p : \E t \in Nat \ {0} : Writes(f, z, g, p, t)
<1>1. /\ f \in Seq(Bit) /\ Len(f) = n * Width /\ n * Width \in Nat /\ n * Width >= Width
      /\ f[1] = 1
  BY FrameIs
<1>2. PICK L \in Nat : L = Len(f) /\ L >= Width /\ Width \in Nat \ {0}
  BY <1>1, FramingAssumption
<1>3. PICK x \in Seq(Bit) : x = Stuffing(f)
  BY <1>1, StuffingHasNoLongRun
<1>4. PICK z \in 1 .. Width : /\ IntListToBytes(x) = x \o Zeros(z)
                              /\ Len(x) + z = (Len(x) \div Width + 1) * Width
  BY PaddedIs
<1>5. PICK d \in Nat : d = Len(x) \div Width
  <2>1. Len(x) \in Nat
    OBVIOUS
  <2> QED BY <1>2, <2>1, DivBelow
<1>6. PICK s : s = f \o Zeros(z)
  OBVIOUS
<1>a. z \in Nat
  BY <1>2
<1>7. /\ s \in Seq(Bit) /\ Len(s) = Len(f) + z
      /\ \A i \in 1 .. Len(f) : s[i] = f[i]
  <2>1. PICK y \in Nat : y = z
    BY <1>a
  <2>2. /\ f \o Zeros(y) \in Seq(Bit) /\ Len(f \o Zeros(y)) = Len(f) + y
        /\ \A i \in 1 .. Len(f) : (f \o Zeros(y))[i] = f[i]
    BY <1>1, WithZeros
  <2> QED BY <1>6, <2>1, <2>2
<1>8. PICK g : IsRun(g, s)
  BY <1>7, RunExists
<1>9. PICK p : p = g[Len(f) + z].out
  OBVIOUS
<1>10. p = IntListToBytes(x)
  <2>1. g[Len(f) + z].out = Stuffing(f) \o Zeros(z)
    BY <1>a, <1>1, <1>6, <1>8, PaddingIsStuffed
  <2> QED BY <1>3, <1>4, <1>9, <2>1
<1>11. p \in Seq(Bit) /\ Len(p) = (d + 1) * Width
  <2>1. x \o Zeros(z) \in Seq(Bit) /\ Len(x \o Zeros(z)) = Len(x) + z
    BY <1>a, WithZeros
  <2> QED BY <1>4, <1>5, <1>10, <2>1
<1>12. PICK e \in Nat : e = d + 1
  OBVIOUS
<1>13. PICK t \in 0 .. e : /\ t * Width \in 0 .. Len(p) /\ Rstrip(p) = SubSeq(p, 1, t * Width)
                           /\ \A j \in t * Width + 1 .. Len(p) : p[j] = 0
                           /\ t > 0 => \E j \in (t - 1) * Width + 1 .. t * Width : p[j] # 0
  BY <1>11, <1>12, RstripCuts
<1>14. p[1] = 1 /\ 1 \in 1 .. Len(p)
  <2>1. PICK k \in 0 .. Len(s) - 1 : k = 0
    BY <1>2, <1>7, <1>a
  <2>2. /\ Len(g[k + 1].out) \in 1 .. Len(g[Len(s)].out)
        /\ g[Len(s)].out[Len(g[k].out) + 1] = s[k + 1]
    <3>1. s \in Seq(Bit) /\ IsRun(g, s)
      BY <1>7, <1>8
    <3> QED BY <3>1, Placed
  <2>3. Len(g[k].out) = 0 /\ k + 1 = 1
    BY <1>8, <2>1 DEF IsRun, NoBits
  <2>4. s[1] = 1
    <3>1. 1 \in 1 .. Len(f)
      BY <1>2
    <3> QED BY <1>1, <1>7, <3>1
  <2>5. p = g[Len(s)].out
    BY <1>7, <1>9
  <2>6. Len(p) \in Nat /\ Len(g[k + 1].out) \in 1 .. Len(p)
    BY <1>11, <2>2, <2>5
  <2> QED BY <2>2, <2>3, <2>4, <2>5, <2>6
<1>15. t # 0
  <2> SUFFICES ASSUME t = 0 PROVE FALSE
    OBVIOUS
  <2>1. t * Width = 0
    BY <1>2
  <2>2. p[1] = 0
    BY <1>13, <1>14, <2>1
  <2> QED BY <1>14, <2>2
<1>16. t \in Nat \ {0} /\ t > 0
  BY <1>12, <1>15
<1>17. t * Width \in 1 .. Len(p)
  <2>1. t * Width \in Nat /\ 1 * Width <= t * Width
    BY <1>2, <1>16, InOrder
  <2>2. PICK tw \in Nat : tw = t * Width /\ tw >= Width
    BY <1>2, <2>1
  <2> QED BY <1>2, <1>13, <2>2
<1>18. Stuff(f) = SubSeq(p, 1, t * Width)
  BY <1>3, <1>10, <1>13 DEF Stuff
<1>19. Writes(f, z, g, p, t)
  BY <1>6, <1>8, <1>9, <1>11, <1>13, <1>16, <1>17, <1>18 DEF Writes
<1> QED BY <1>16, <1>19

\* What unstuffing reads of a frame: all of it but zeros at its end, and then less
\* than a byte of zeros.
LEMMA FrameIsRead ==
    ASSUME NEW n \in Nat \ {0}, NEW f \in FramesOf(n)
    PROVE  \E m \in Nat :
              /\ Unstuffing(Stuff(f)) \in Seq(Bit) /\ Len(Unstuffing(Stuff(f))) = m
              /\ m < Len(f) + Width
              /\ \A i \in 1 .. m : Unstuffing(Stuff(f))[i] = IF i <= Len(f) THEN f[i] ELSE 0
              /\ \A i \in 1 .. Len(f) : i > m => f[i] = 0
<1>1. f \in Seq(Bit) /\ Len(f) \in Nat
  BY FrameIs
<1>a. PICK z \in 1 .. Width : \E g, p : \E t \in Nat \ {0} : Writes(f, z, g, p, t)
  BY WritesFrame
<1>b. PICK g, p : \E t \in Nat \ {0} : Writes(f, z, g, p, t)
  BY <1>a
<1>2. PICK t \in Nat \ {0} : Writes(f, z, g, p, t)
  BY <1>b
<1>3. PICK W \in Nat \ {0} : W = Width
  BY FramingAssumption
<1>4. z \in Nat /\ z >= 1 /\ z <= W
  BY <1>3
<1>5. PICK L \in Nat : L = Len(f)
  BY <1>1
<1>6. PICK s : s = f \o Zeros(z)
  OBVIOUS
<1>7. /\ s \in Seq(Bit) /\ Len(s) = L + z
      /\ \A i \in 1 .. L : s[i] = f[i]
      /\ \A i \in L + 1 .. L + z : s[i] = 0
  BY <1>1, <1>4, <1>5, <1>6, WithZeros
<1>8. IsRun(g, s) /\ p = g[Len(s)].out /\ p \in Seq(Bit)
  BY <1>2, <1>5, <1>6, <1>7 DEF Writes
<1>9. PICK q \in 0 .. Len(p) : q = t * W
  <2>1. t * Width \in 1 .. Len(p) /\ Len(p) \in Nat
    BY <1>2, <1>8 DEF Writes
  <2> QED BY <1>3, <2>1
<1>10. /\ Stuff(f) = SubSeq(p, 1, q)
       /\ \A j \in q + 1 .. Len(p) : p[j] = 0
       /\ \E j \in (t - 1) * W + 1 .. q : p[j] # 0
  BY <1>2, <1>3, <1>9 DEF Writes
<1>11. PICK m \in 0 .. Len(s) : /\ Unstuffing(SubSeq(p, 1, q)) = SubSeq(s, 1, m)
                                /\ m > 0 => Len(g[m - 1].out) + 1 <= q
                                /\ \A i \in m .. Len(s) - 1 : Len(g[i].out) + 1 > q
  BY <1>7, <1>8, ReadsBeginning
<1>12. m \in Nat /\ m <= L + z
  BY <1>4, <1>7
<1>13. PICK u : u = Unstuffing(Stuff(f))
  OBVIOUS
<1>14. u \in Seq(Bit) /\ Len(u) = m /\ \A i \in 1 .. m : u[i] = s[i]
  <2>1. u = SubSeq(s, 1, m)
    BY <1>10, <1>11, <1>13
  <2> QED BY <1>7, <2>1, Beginning
<1>15. ASSUME NEW i \in 1 .. L, i > m PROVE f[i] = 0
  <2>1. PICK k \in 0 .. Len(s) - 1 : k + 1 = i
    <3>1. i - 1 \in 0 .. Len(s) - 1 /\ (i - 1) + 1 = i
      BY <1>4, <1>7
    <3> QED BY <3>1
  <2>2. k \in m .. Len(s) - 1
    BY <1>12, <1>15, <2>1
  <2>3. PICK l : l = Len(g[k].out)
    OBVIOUS
  <2>4. l \in Nat /\ l + 1 <= Len(p) /\ p[l + 1] = s[k + 1]
    <3>1. /\ Len(g[k].out) \in Nat /\ Len(g[k + 1].out) \in {Len(g[k].out) + 1, Len(g[k].out) + 2}
          /\ Len(g[k + 1].out) \in 1 .. Len(g[Len(s)].out)
          /\ g[Len(s)].out[Len(g[k].out) + 1] = s[k + 1]
      <4>1. s \in Seq(Bit) /\ IsRun(g, s)
        BY <1>7, <1>8
      <4> QED BY <4>1, Placed, SMTT(30)
    <3>2. PICK a \in Nat, b \in Nat : a = Len(p) /\ b = Len(g[k + 1].out)
      BY <1>8, <3>1
    <3>3. l \in Nat /\ b \in {l + 1, l + 2} /\ b \in 1 .. a
      BY <1>8, <2>3, <3>1, <3>2
    <3>4. l + 1 <= a
      BY <3>2, <3>3
    <3>5. p[l + 1] = s[k + 1]
      BY <1>8, <2>3, <3>1
    <3> QED BY <3>2, <3>3, <3>4, <3>5
  <2>5. l + 1 > q
    BY <1>11, <2>2, <2>3
  <2>6. l + 1 \in q + 1 .. Len(p)
    BY <1>8, <1>9, <2>4, <2>5
  <2>7. s[i] = f[i]
    BY <1>7
  <2> QED BY <1>10, <2>1, <2>4, <2>6, <2>7
<1>16. m < L + W
  <2> SUFFICES ASSUME ~(m < L + W) PROVE FALSE
    OBVIOUS
  <2>1. m = L + W /\ z = W
    BY <1>4, <1>12
  <2>2. PICK j \in 0 .. Len(s), k \in 0 .. Len(s) : j = m - 1 /\ k = L /\ j - k = W - 1
    <3>1. m - 1 \in 0 .. Len(s) /\ L \in 0 .. Len(s) /\ (m - 1) - L = W - 1
      BY <1>3, <1>4, <1>7, <2>1
    <3> QED BY <3>1
  <2>3. k \in 0 .. j
    BY <1>3, <2>1, <2>2
  <2>4. PICK a : a = Len(g[k].out)
    OBVIOUS
  <2>5. PICK b : b = Len(g[j].out)
    OBVIOUS
  <2>6. a \in Nat /\ b \in Nat
    BY <1>8, <2>4, <2>5 DEF IsRun, Stuffs
  <2>7. b >= a + (W - 1)
    <3>1. Len(g[j].out) >= Len(g[k].out) + (j - k)
      BY <1>7, <1>8, <2>3, RunGrows
    <3> QED BY <2>2, <2>4, <2>5, <3>1
  <2>8. b + 1 <= q
    BY <1>3, <1>11, <2>1, <2>2, <2>5
  <2>9. q >= a + W
    BY <1>3, <1>9, <2>6, <2>7, <2>8
  <2>10. \A i \in a + 1 .. Len(p) : p[i] = 0
    <3>1. \A i \in k + 1 .. Len(s) : s[i] = 0
      BY <1>7, <2>2
    <3>2. \A i \in Len(g[k].out) + 1 .. Len(g[Len(s)].out) : g[Len(s)].out[i] = 0
      <4>1. s \in Seq(Bit) /\ IsRun(g, s)
        BY <1>7, <1>8
      <4> QED BY <3>1, <4>1, ZerosPass, SMTT(30)
    <3> QED BY <1>8, <2>4, <3>2
  <2>11. PICK i \in (t - 1) * W + 1 .. q : p[i] # 0
    BY <1>10
  <2>12. (t - 1) * W + W = q /\ (t - 1) * W \in Nat
    <3>1. PICK c \in Nat : t = c + 1 /\ t - 1 = c
      <4>1. t - 1 \in Nat /\ t = (t - 1) + 1
        OBVIOUS
      <4> QED BY <4>1
    <3>2. (c + 1) * W = c * W + W /\ c * W \in Nat
      BY Times
    <3> QED BY <1>9, <3>1, <3>2
  <2>13. PICK c \in Nat : c = (t - 1) * W
    BY <2>12
  <2>14. i \in a + 1 .. Len(p)
    <3>1. i \in c + 1 .. q /\ c + W = q
      BY <2>11, <2>12, <2>13
    <3>2. Len(p) \in Nat /\ q <= Len(p)
      BY <1>8
    <3> QED BY <1>3, <2>6, <2>9, <3>1, <3>2
  <2> QED BY <2>10, <2>11, <2>14
<1>17. \A i \in 1 .. m : u[i] = IF i <= L THEN f[i] ELSE 0
  <2> TAKE i \in 1 .. m
  <2>1. CASE i <= L
    <3>1. i \in 1 .. L
      BY <2>1
    <3> QED BY <1>7, <1>14, <2>1, <3>1
  <2>2. CASE ~(i <= L)
    <3>1. i \in L + 1 .. L + z
      BY <1>12, <2>2
    <3> QED BY <1>7, <1>14, <2>2, <3>1
  <2> QED BY <2>1, <2>2
<1> QED BY <1>3, <1>5, <1>12, <1>13, <1>14, <1>15, <1>16, <1>17

\* An information frame survives unless more than a byte of zeros went with the
\* padding.
LEMMA LongFrame ==
    ASSUME NEW f \in FramesOf(FrameBytes)
    PROVE  Unstuff(Stuff(f)) = f <=> Len(f) - Len(Unstuffing(Stuff(f))) <= Width
<1>1. PICK n \in Nat \ {0} : n = FrameBytes
  BY FramingAssumption
<1>2. f \in FramesOf(n)
  BY <1>1
<1>3. PICK W \in Nat \ {0} : W = Width
  BY FramingAssumption
<1>4. PICK L \in Nat : L = Len(f) /\ L = n * W
  BY <1>2, <1>3, FrameIs
<1>5. f \in Seq(Bit)
  BY <1>2, FrameIs
<1>6. PICK v : v = Unstuffing(Stuff(f))
  OBVIOUS
<1>7. PICK m \in Nat : /\ v \in Seq(Bit) /\ Len(v) = m /\ m < L + W
                       /\ \A i \in 1 .. m : v[i] = IF i <= L THEN f[i] ELSE 0
                       /\ \A i \in 1 .. L : i > m => f[i] = 0
  BY <1>2, <1>3, <1>4, <1>6, FrameIsRead
<1>8. PICK d \in Nat : d = m \div W /\ d * W <= m /\ m < d * W + W
  BY DivBelow
<1>9. PICK z \in 1 .. W : IntListToBytes(v) = v \o Zeros(z) /\ m + z = (d + 1) * W
  BY <1>3, <1>7, <1>8, PaddedIs
<1>10. PICK u : u = IntListToBytes(v)
  OBVIOUS
<1>11. PICK e \in Nat : e = (d + 1) * W /\ (d + 1) * W = d * W + W
  BY Times
<1>12. /\ u \in Seq(Bit) /\ Len(u) = e
       /\ \A i \in 1 .. m : u[i] = v[i]
       /\ \A i \in m + 1 .. e : u[i] = 0
  <2>1. PICK y \in Nat : y = z
    OBVIOUS
  <2>2. /\ v \o Zeros(y) \in Seq(Bit) /\ Len(v \o Zeros(y)) = Len(v) + y
        /\ \A i \in 1 .. Len(v) : (v \o Zeros(y))[i] = v[i]
        /\ \A i \in Len(v) + 1 .. Len(v) + y : (v \o Zeros(y))[i] = 0
    BY <1>7, WithZeros
  <2>3. u = v \o Zeros(y) /\ Len(v) = m /\ m + y = e
    BY <1>7, <1>9, <1>10, <1>11, <2>1
  <2> QED BY <2>2, <2>3
<1>13. ASSUME NEW i \in 1 .. e PROVE u[i] = IF i <= L THEN f[i] ELSE 0
  <2>1. CASE i <= m
    <3>1. i \in 1 .. m
      BY <2>1
    <3> QED BY <1>7, <1>12, <3>1
  <2>2. CASE ~(i <= m)
    <3>1. i \in m + 1 .. e /\ i > m
      BY <2>2
    <3>2. i <= L => f[i] = 0
      BY <1>7, <3>1
    <3> QED BY <1>12, <3>1, <3>2
  <2> QED BY <2>1, <2>2
<1>14. Bytes(u) = d + 1
  <2>1. PICK c \in Nat : c = d + 1
    OBVIOUS
  <2>2. (c * W) \div W = c
    BY WholeTimes
  <2> QED BY <1>3, <1>11, <1>12, <2>1, <2>2 DEF Bytes
<1>15. PICK x \in Nat : x = d * W /\ e = x + W /\ x <= m /\ m < e
  <2>1. d * W \in Nat
    BY Times
  <2> QED BY <1>8, <1>11, <2>1
<1>16. CASE d + 1 < n
  <2>1. e < L
    <3>1. ~(n <= d + 1) /\ d + 1 \in Nat
      BY <1>16
    <3>2. ~(n * W <= (d + 1) * W)
      BY <3>1, InOrder
    <3> QED BY <1>4, <1>11, <3>2
  <2>2. ~(L - m <= W)
    <3>1. e + W <= L
      <4>1. PICK c \in Nat : c = d + 1
        OBVIOUS
      <4>2. (c + 1) * W <= n * W
        <5>1. c + 1 <= n /\ c + 1 \in Nat
          BY <1>16, <4>1
        <5> QED BY <5>1, InOrder
      <4>3. (c + 1) * W = c * W + W
        BY Times
      <4> QED BY <1>4, <1>11, <4>1, <4>2, <4>3
    <3> QED BY <1>15, <3>1
  <2>3. Unstuff(Stuff(f)) = u
    <3>1. ~(Bytes(u) > FrameBytes)
      BY <1>1, <1>14, <1>16
    <3> QED BY <1>6, <1>10, <3>1 DEF Unstuff
  <2>4. u # f
    <3>1. Len(u) < Len(f)
      BY <1>4, <1>12, <2>1
    <3>2. Len(f) \in Nat
      BY <1>4
    <3> QED BY <3>1, <3>2
  <2> QED BY <1>3, <1>4, <1>6, <1>7, <2>2, <2>3, <2>4
<1>17. CASE d + 1 = n
  <2>1. e = L
    BY <1>4, <1>11, <1>17
  <2>2. Unstuff(Stuff(f)) = u
    <3>1. ~(Bytes(u) > FrameBytes)
      BY <1>1, <1>14, <1>17
    <3> QED BY <1>6, <1>10, <3>1 DEF Unstuff
  <2>3. u = f
    <3>1. \A i \in 1 .. L : u[i] = f[i]
      BY <1>13, <2>1
    <3> QED BY <1>4, <1>5, <1>12, <2>1, <3>1, SameBits
  <2>4. L - m <= W
    BY <1>15, <2>1
  <2> QED BY <1>3, <1>4, <1>6, <1>7, <2>2, <2>3, <2>4
<1>18. CASE d + 1 > n
  <2>1. d = n
    <3> SUFFICES ASSUME d # n PROVE FALSE
      OBVIOUS
    <3>1. n + 1 <= d
      BY <1>18
    <3>2. (n + 1) * W <= d * W
      BY <3>1, InOrder
    <3>3. (n + 1) * W = n * W + W
      BY Times
    <3> QED BY <1>4, <1>7, <1>15, <3>2, <3>3
  <2>2. x = L /\ e = L + W
    BY <1>4, <1>15, <2>1
  <2>3. Byte(u, Bytes(u)) = Zeros(Width)
    <3>a. PICK c \in Nat : c = d + 1
      OBVIOUS
    <3>1. PICK i \in 1 .. c : i = d + 1 /\ i - 1 = d
      <4>1. c \in 1 .. c /\ c = d + 1 /\ c - 1 = d
        BY <3>a
      <4> QED BY <4>1
    <3>2. \A j \in L + 1 .. e : u[j] = 0
      BY <1>13, <2>2
    <3>3. Len(u) = c * Width /\ (i - 1) * Width = L /\ i * Width = e
      BY <1>3, <1>11, <1>12, <1>15, <2>2, <3>a, <3>1
    <3>4. Byte(u, i) = Zeros(Width)
      BY <1>12, <3>2, <3>3, ByteIsZero
    <3> QED BY <1>14, <3>a, <3>1, <3>4
  <2>4. Unstuff(Stuff(f)) = SubSeq(u, 1, L)
    <3>1. Bytes(u) > FrameBytes
      BY <1>1, <1>14, <1>18
    <3>2. Len(u) - Width = L
      BY <1>3, <1>12, <2>2
    <3> QED BY <1>6, <1>10, <2>3, <3>1, <3>2 DEF Unstuff
  <2>5. PICK r : r = SubSeq(u, 1, L)
    OBVIOUS
  <2>6. r \in Seq(Bit) /\ Len(r) = L /\ \A i \in 1 .. L : r[i] = u[i]
    <3>1. L \in 0 .. Len(u)
      BY <1>12, <2>2
    <3> QED BY <1>12, <2>5, <3>1, Beginning
  <2>7. r = f
    <3>1. \A i \in 1 .. L : r[i] = f[i]
      BY <1>13, <2>2, <2>6
    <3> QED BY <1>4, <1>5, <2>6, <3>1, SameBits
  <2>8. L - m <= W
    BY <1>15, <2>2
  <2> QED BY <1>3, <1>4, <1>6, <1>7, <2>4, <2>5, <2>7, <2>8
<1>19. d + 1 < n \/ d + 1 = n \/ d + 1 > n
  OBVIOUS
<1> QED BY <1>16, <1>17, <1>18, <1>19

\* The zeros behind the last one of a frame.
LEMMA LastOne ==
    ASSUME NEW n \in Nat \ {0}, NEW f \in FramesOf(n)
    PROVE  \E a \in 1 .. Len(f) : /\ f[a] = 1 /\ \A j \in a + 1 .. Len(f) : f[j] = 0
                                  /\ UpToLastOne(f) = SubSeq(f, 1, a - 1)
<1>1. f \in Seq(Bit) /\ f[1] = 1
  BY FrameIs
<1>2. PICK L \in Nat : L = Len(f) /\ L >= 1
  <2>1. Len(f) = n * Width /\ n * Width \in Nat /\ n * Width >= Width
    BY FrameIs
  <2>2. PICK k \in Nat : k = n * Width
    BY <2>1
  <2>3. Width \in Nat \ {0}
    BY FramingAssumption
  <2> QED BY <2>1, <2>2, <2>3
<1> DEFINE T == {i \in 1 .. L : f[i] = 1}
<1>3. PICK a \in T : \A i \in T : i <= a
  <2>1. T # {} /\ T \in SUBSET (1 .. L)
    BY <1>1, <1>2
  <2> HIDE DEF T
  <2>2. Max(T) \in T /\ \A i \in T : i <= Max(T)
    BY <2>1, MaxOf
  <2> QED BY <2>2
<1>4. ASSUME NEW j \in a + 1 .. L PROVE f[j] = 0
  <2>1. j \in 1 .. L /\ ~(j <= a)
    OBVIOUS
  <2>2. f[j] \in Bit /\ f[j] # 1
    BY <1>1, <1>2, <1>3, <2>1
  <2> QED BY <2>2 DEF Bit
<1>5. {i \in 1 .. Len(f) : \A j \in i .. Len(f) : f[j] = 0} = a + 1 .. L
  <2>1. ASSUME NEW i \in 1 .. L, \A j \in i .. L : f[j] = 0 PROVE i \in a + 1 .. L
    <3>1. ~(i <= a)
      <4>1. a \in 1 .. L /\ f[a] = 1
        OBVIOUS
      <4>2. f[a] # 0
        BY <4>1
      <4> QED BY <2>1, <4>1, <4>2
    <3> QED BY <3>1
  <2>2. ASSUME NEW i \in a + 1 .. L PROVE i \in 1 .. L /\ \A j \in i .. L : f[j] = 0
    <3>1. \A j \in i .. L : j \in a + 1 .. L
      OBVIOUS
    <3> QED BY <1>4, <3>1
  <2> QED BY <1>2, <2>1, <2>2
<1>6. TrailingZeros(f) = L - a
  <2>1. PICK b \in Int : b = a + 1
    OBVIOUS
  <2>2. Cardinality(b .. L) = IF b > L THEN 0 ELSE L - b + 1
    BY FS_Interval
  <2>3. (IF b > L THEN 0 ELSE L - b + 1) = L - a
    BY <2>1
  <2> QED BY <1>5, <2>1, <2>2, <2>3 DEF TrailingZeros
<1>7. Len(f) - TrailingZeros(f) - 1 = a - 1
  BY <1>2, <1>6
<1> HIDE DEF T
<1>8. a \in 1 .. L /\ f[a] = 1
  BY DEF T
<1> QED BY <1>2, <1>4, <1>7, <1>8 DEF UpToLastOne

\* A control frame, which is not unstuffed, survives if nothing was stuffed before
\* its last one and no byte of it was stripped.
LEMMA ShortFrame ==
    ASSUME NEW n \in Nat \ {0}, NEW f \in FramesOf(n)
    PROVE  Stuff(f) = f <=> /\ Stuffing(UpToLastOne(f)) = UpToLastOne(f)
                            /\ Byte(f, n) # Zeros(Width)
<1>1. f \in Seq(Bit)
  BY FrameIs
<1>a. PICK z \in 1 .. Width : \E g, p : \E t \in Nat \ {0} : Writes(f, z, g, p, t)
  BY WritesFrame
<1>b. PICK g, p : \E t \in Nat \ {0} : Writes(f, z, g, p, t)
  BY <1>a
<1>2. PICK t \in Nat \ {0} : Writes(f, z, g, p, t)
  BY <1>b
<1>3. PICK W \in Nat \ {0} : W = Width
  BY FramingAssumption
<1>4. z \in Nat /\ z >= 1
  BY <1>3
<1>5. PICK L \in Nat : L = Len(f) /\ L = n * W
  BY <1>3, FrameIs
<1>6. PICK s : s = f \o Zeros(z)
  OBVIOUS
<1>7. /\ s \in Seq(Bit) /\ Len(s) = L + z
      /\ \A i \in 1 .. L : s[i] = f[i]
      /\ \A i \in L + 1 .. L + z : s[i] = 0
  <2>1. PICK y \in Nat : y = z
    BY <1>4
  <2>2. /\ f \o Zeros(y) \in Seq(Bit) /\ Len(f \o Zeros(y)) = Len(f) + y
        /\ \A i \in 1 .. Len(f) : (f \o Zeros(y))[i] = f[i]
        /\ \A i \in Len(f) + 1 .. Len(f) + y : (f \o Zeros(y))[i] = 0
    BY <1>1, WithZeros
  <2> QED BY <1>5, <1>6, <2>1, <2>2
<1>8. IsRun(g, s) /\ p = g[Len(s)].out /\ p \in Seq(Bit)
  BY <1>2, <1>5, <1>6, <1>7 DEF Writes
<1>9. PICK P \in Nat : P = Len(p)
  BY <1>8
<1>10. PICK q \in 0 .. P : q = t * W
  <2>1. t * Width \in 1 .. Len(p)
    BY <1>2 DEF Writes
  <2> QED BY <1>3, <1>9, <2>1
<1>11. PICK c \in Nat : c = (t - 1) * W /\ q = c + W
  <2>1. PICK b \in Nat : t = b + 1 /\ t - 1 = b
    <3>1. t - 1 \in Nat /\ t = (t - 1) + 1
      OBVIOUS
    <3> QED BY <3>1
  <2>2. (b + 1) * W = b * W + W /\ b * W \in Nat
    BY Times
  <2> QED BY <1>10, <2>1, <2>2
<1>12. /\ Stuff(f) = SubSeq(p, 1, q)
       /\ \A j \in q + 1 .. P : p[j] = 0
       /\ \E j \in c + 1 .. q : p[j] # 0
  BY <1>2, <1>3, <1>9, <1>10, <1>11 DEF Writes
<1>13. PICK a \in 1 .. L : /\ f[a] = 1 /\ \A j \in a + 1 .. L : f[j] = 0
                           /\ UpToLastOne(f) = SubSeq(f, 1, a - 1)
  BY <1>5, LastOne
<1>14. PICK k \in 0 .. Len(s) - 1 : k = a - 1 /\ k + 1 = a /\ k < L
  <2>1. a - 1 \in 0 .. Len(s) - 1 /\ (a - 1) + 1 = a /\ a - 1 < L
    BY <1>4, <1>7
  <2> QED BY <2>1
<1>15. PICK l : l = Len(g[k].out)
  OBVIOUS
<1>16. PICK b : b = Len(g[k + 1].out)
  OBVIOUS
<1>17. /\ l \in Nat /\ b \in {l + 1, l + 2} /\ b \in 1 .. P
       /\ p[l + 1] = 1
       /\ b = l + 2 => p[l + 2] = 0
  <2>1. /\ Len(g[k].out) \in Nat /\ Len(g[k + 1].out) \in {Len(g[k].out) + 1, Len(g[k].out) + 2}
        /\ Len(g[k + 1].out) \in 1 .. Len(g[Len(s)].out)
        /\ g[Len(s)].out[Len(g[k].out) + 1] = s[k + 1]
        /\ Len(g[k + 1].out) = Len(g[k].out) + 2 => g[Len(s)].out[Len(g[k].out) + 2] = 0
    <3>1. s \in Seq(Bit) /\ IsRun(g, s)
      BY <1>7, <1>8
    <3> QED BY <3>1, Placed
  <2>2. s[k + 1] = 1
    BY <1>7, <1>13, <1>14
  <2> QED BY <1>8, <1>9, <1>15, <1>16, <2>1, <2>2
<1>18. ASSUME NEW j \in l + 2 .. P PROVE p[j] = 0
  <2>1. PICK y \in 0 .. Len(s) : y = k + 1 /\ y = a
    <3>1. k + 1 \in 0 .. Len(s)
      BY <1>7
    <3> QED BY <1>14, <3>1
  <2>2. ASSUME NEW i \in y + 1 .. Len(s) PROVE s[i] = 0
    <3>1. CASE i <= L
      <4>1. i \in a + 1 .. L /\ i \in 1 .. L
        BY <1>7, <2>1, <3>1
      <4> QED BY <1>7, <1>13, <4>1
    <3>2. CASE ~(i <= L)
      <4>1. i \in L + 1 .. L + z
        BY <1>7, <2>1, <3>2
      <4> QED BY <1>7, <4>1
    <3> QED BY <3>1, <3>2
  <2>3. \A i \in Len(g[y].out) + 1 .. Len(g[Len(s)].out) : g[Len(s)].out[i] = 0
    <3>1. s \in Seq(Bit) /\ IsRun(g, s)
      BY <1>7, <1>8
    <3> QED BY <2>2, <3>1, ZerosPass
  <2>4. \A i \in b + 1 .. P : p[i] = 0
    BY <1>8, <1>9, <1>16, <2>1, <2>3
  <2>5. CASE j \in b + 1 .. P
    BY <2>4, <2>5
  <2>6. CASE j \notin b + 1 .. P
    <3>1. b = l + 2 /\ j = l + 2
      BY <1>17, <2>6
    <3> QED BY <1>17, <3>1
  <2> QED BY <2>5, <2>6
<1>19. l + 1 \in 1 .. P /\ l + 1 <= q /\ c < l + 1
  <2>1. l + 1 \in 1 .. P
    BY <1>17
  <2>2. l + 1 <= q
    <3> SUFFICES ASSUME ~(l + 1 <= q) PROVE FALSE
      OBVIOUS
    <3>1. l + 1 \in q + 1 .. P
      BY <2>1
    <3>2. p[l + 1] = 0
      BY <1>12, <3>1
    <3> QED BY <1>17, <3>2
  <2>3. c < l + 1
    <3>1. PICK j \in c + 1 .. q : p[j] # 0
      BY <1>12
    <3>2. j \notin l + 2 .. P
      BY <1>18, <3>1
    <3> QED BY <1>17, <3>1, <3>2
  <2> QED BY <2>1, <2>2, <2>3
<1>20. PICK r : r = UpToLastOne(f)
  OBVIOUS
<1>21. r \in Seq(Bit) /\ Len(r) = k /\ \A i \in 1 .. k : r[i] = f[i]
  <2>1. r = SubSeq(f, 1, k) /\ k \in 0 .. Len(f)
    BY <1>5, <1>13, <1>14, <1>20
  <2> QED BY <1>1, <2>1, Beginning
<1>22. PICK x : x = g[k].out
  OBVIOUS
<1>23. x = Stuffing(r)
  <2>1. PICK y \in 0 .. Len(s) : y = k
    BY <1>7
  <2>2. PICK e : e = SubSeq(s, 1, y)
    OBVIOUS
  <2>3. e \in Seq(Bit) /\ Len(e) = y /\ \A i \in 1 .. y : e[i] = s[i]
    BY <1>7, <2>2, Beginning
  <2>4. \A i \in 1 .. y : e[i] = r[i]
    <3>1. \A i \in 1 .. k : i \in 1 .. L
      BY <1>14
    <3> QED BY <1>7, <1>21, <2>1, <2>3, <3>1
  <2>5. e = r
    BY <1>21, <2>1, <2>3, <2>4, SameBits
  <2>6. Stuffing(SubSeq(s, 1, y)) = g[y].out
    BY <1>7, <1>8, StuffingOfPrefix
  <2> QED BY <1>22, <2>1, <2>2, <2>5, <2>6
<1>24. x \in Seq(Bit) /\ Len(x) = l /\ l >= k /\ \A i \in 1 .. l : p[i] = x[i]
  <2>a. PICK m \in 0 .. Len(s) : m = Len(s)
    BY <1>7
  <2>b. PICK y \in 0 .. m : y = k
    BY <1>7, <2>a
  <2>c. PICK o \in 0 .. y : o = 0
    BY <2>b
  <2>1. m = Len(s) /\ y = k /\ o = 0
    BY <2>a, <2>b, <2>c
  <2>2. g[y].out \in Seq(Bit) /\ \A i \in 1 .. Len(g[y].out) : g[m].out[i] = g[y].out[i]
    <3>1. s \in Seq(Bit) /\ IsRun(g, s)
      BY <1>7, <1>8
    <3> QED BY <3>1, RunGrows, SMTT(30)
  <2>3. Len(g[y].out) >= Len(g[o].out) + (y - o)
    <3>1. y \in 0 .. Len(s)
      BY <1>7, <2>1
    <3>2. s \in Seq(Bit) /\ IsRun(g, s)
      BY <1>7, <1>8
    <3> QED BY <3>1, <3>2, RunGrows
  <2>4. Len(g[o].out) = 0 /\ y - o = k
    BY <1>8, <2>1 DEF IsRun, NoBits
  <2> QED BY <1>8, <1>15, <1>22, <2>1, <2>2, <2>3, <2>4
<1>25. PICK v : v = Stuff(f)
  OBVIOUS
<1>26. v \in Seq(Bit) /\ Len(v) = q /\ \A i \in 1 .. q : v[i] = p[i]
  <2>1. v = SubSeq(p, 1, q) /\ q \in 0 .. Len(p)
    BY <1>9, <1>12, <1>25
  <2> QED BY <1>8, <2>1, Beginning
<1>27. PICK N \in Nat : L = N + W /\ N = (n - 1) * W
  <2>1. PICK e \in Nat : n = e + 1 /\ n - 1 = e
    <3>1. n - 1 \in Nat /\ n = (n - 1) + 1
      OBVIOUS
    <3> QED BY <3>1
  <2>2. (e + 1) * W = e * W + W /\ e * W \in Nat
    BY Times
  <2> QED BY <1>5, <2>1, <2>2
<1>28. Byte(f, n) = Zeros(Width) <=> \A j \in N + 1 .. L : f[j] = 0
  <2>1. n \in Nat /\ n \in 1 .. n /\ Len(f) = n * Width
    BY <1>3, <1>5
  <2>2. Byte(f, n) = Zeros(Width) <=> \A j \in (n - 1) * Width + 1 .. n * Width : f[j] = 0
    BY <1>1, <2>1, ByteIsZero
  <2> QED BY <1>3, <1>5, <1>27, <2>2
<1>29. ASSUME x = r, Byte(f, n) # Zeros(Width) PROVE v = f
  <2>1. l = k
    BY <1>21, <1>24, <1>29
  <2>2. PICK j \in N + 1 .. L : f[j] # 0
    BY <1>28, <1>29
  <2>3. N < a
    <3>1. j \notin a + 1 .. L
      BY <1>13, <2>2
    <3> QED BY <1>27, <2>2, <3>1
  <2>4. q = L
    <3>1. N < q /\ c < L
      BY <1>14, <1>19, <2>1, <2>3
    <3>2. PICK e \in Nat : n = e + 1 /\ n - 1 = e /\ N = e * W
      <4>1. n - 1 \in Nat /\ n = (n - 1) + 1
        OBVIOUS
      <4> QED BY <1>27, <4>1
    <3>3. PICK y \in Nat : t = y + 1 /\ t - 1 = y /\ c = y * W
      <4>1. t - 1 \in Nat /\ t = (t - 1) + 1
        OBVIOUS
      <4> QED BY <1>11, <4>1
    <3>4. ~(t <= e)
      <4>1. ~(t * W <= e * W)
        BY <1>10, <3>1, <3>2
      <4>2. t \in Nat
        OBVIOUS
      <4> QED BY <4>1, <4>2, InOrder
    <3>5. ~(n <= y)
      <4>1. ~(n * W <= y * W)
        BY <1>5, <3>1, <3>3
      <4>2. n \in Nat
        OBVIOUS
      <4> QED BY <4>1, <4>2, InOrder
    <3>6. t = n
      BY <3>2, <3>3, <3>4, <3>5
    <3> QED BY <1>5, <1>10, <3>6
  <2>5. ASSUME NEW i \in 1 .. L PROVE v[i] = f[i]
    <3>1. v[i] = p[i]
      BY <1>26, <2>4
    <3>2. CASE i <= k
      <4>1. i \in 1 .. k /\ i \in 1 .. l
        BY <2>1, <3>2
      <4> QED BY <1>21, <1>24, <1>29, <3>1, <4>1
    <3>3. CASE i = a
      BY <1>13, <1>14, <1>17, <2>1, <3>1, <3>3
    <3>4. CASE i > a
      <4>1. i \in a + 1 .. L /\ i \in l + 2 .. P
        BY <1>14, <2>1, <2>4, <3>4
      <4> QED BY <1>13, <1>18, <3>1, <4>1
    <3> QED BY <1>14, <3>2, <3>3, <3>4
  <2> QED BY <1>1, <1>5, <1>26, <2>4, <2>5, SameBits
<1>30. ASSUME v = f PROVE x = r /\ Byte(f, n) # Zeros(Width)
  <2>1. q = L
    BY <1>5, <1>26, <1>30
  <2>2. \A i \in 1 .. L : p[i] = f[i]
    BY <1>26, <1>30, <2>1
  <2>3. l = k
    <3>1. l + 1 \in 1 .. L
      BY <1>19, <2>1
    <3>2. f[l + 1] # 0
      BY <1>17, <2>2, <3>1
    <3>3. l + 1 \notin a + 1 .. L
      BY <1>13, <3>2
    <3> QED BY <1>14, <1>17, <1>24, <3>1, <3>3
  <2>4. x = r
    <3>1. ASSUME NEW i \in 1 .. k PROVE x[i] = r[i]
      <4>1. i \in 1 .. L /\ i \in 1 .. l
        BY <1>14, <2>3
      <4> QED BY <1>21, <1>24, <2>2, <4>1
    <3> QED BY <1>21, <1>24, <2>3, <3>1, SameBits
  <2>5. Byte(f, n) # Zeros(Width)
    <3>1. PICK j \in c + 1 .. q : p[j] # 0
      BY <1>12
    <3>2. j \in N + 1 .. L /\ j \in 1 .. L
      BY <1>11, <1>27, <2>1
    <3>3. f[j] # 0
      BY <2>2, <3>1, <3>2
    <3> QED BY <1>28, <3>2, <3>3
  <2> QED BY <2>4, <2>5
<1> QED BY <1>20, <1>23, <1>25, <1>29, <1>30

\* The frame is of one of the two lengths, what is on the wire was written for it,
\* and what was received was taken from the wire.
FramingInv ==
    /\ frame # <<>> => /\ \E n \in {FrameBytes, ShortBytes} : frame \in FramesOf(n)
                       /\ wire = FrameWritten(frame)
    /\ received # <<>> => frame # <<>> /\ received = FrameTaken(wire, Bytes(frame))

\* An information frame comes back unless more than a byte of zeros went with its
\* padding, and a control frame unless a zero was stuffed before its last one or its
\* last byte is zero; in all these cases it does not.  For every frame, every width
\* of a byte and every length of a run.
THEOREM FramesComeBack == FramingSpec => []FramesSurvive
<1>1. FramingInit => FramingInv
  BY DEF FramingInit, FramingInv
<1>2. FramingInv /\ [FramingNext]_framingVars => FramingInv'
  <2> SUFFICES ASSUME FramingInv, [FramingNext]_framingVars PROVE FramingInv'
    OBVIOUS
  <2>1. ASSUME NEW n \in {FrameBytes, ShortBytes}, SendFrame(n) PROVE FramingInv'
    <3>1. frame = <<>> /\ frame' \in FramesOf(n) /\ wire' = FrameWritten(frame') /\ received' = received
      BY <2>1 DEF SendFrame
    <3>2. received' = <<>>
      BY <3>1 DEF FramingInv
    <3> QED BY <3>1, <3>2 DEF FramingInv
  <2>2. CASE ReceiveFrame
    BY <2>2 DEF ReceiveFrame, FramingInv
  <2>3. CASE NextFrame
    BY <2>3 DEF NextFrame, FramingInv
  <2>4. CASE UNCHANGED framingVars
    BY <2>4 DEF framingVars, FramingInv
  <2> QED BY <2>1, <2>2, <2>3, <2>4 DEF FramingNext
<1>3. FramingInv => FramesSurvive
  <2> SUFFICES ASSUME FramingInv, received # <<>>
               PROVE  received = frame <=>
                         IF Bytes(frame) = FrameBytes
                         THEN Len(frame) - Len(Unstuffing(wire)) <= Width
                         ELSE /\ Stuffing(UpToLastOne(frame)) = UpToLastOne(frame)
                              /\ Byte(frame, ShortBytes) # Zeros(Width)
    BY DEF FramesSurvive
  <2>1. PICK n \in {FrameBytes, ShortBytes} : frame \in FramesOf(n)
    BY DEF FramingInv
  <2>2. wire = Stuff(frame) /\ received = FrameTaken(wire, Bytes(frame))
    BY DEF FramingInv, FrameWritten
  <2>3. FrameBytes \in Nat \ {0} /\ ShortBytes \in Nat \ {0} /\ FrameBytes # ShortBytes
    BY FramingAssumption
  <2>4. n \in Nat \ {0}
    BY <2>3
  <2>5. Bytes(frame) = n
    BY <2>1, <2>4, FrameIs
  <2>6. CASE n = FrameBytes
    <3>1. received = Unstuff(Stuff(frame))
      BY <2>2, <2>3, <2>5, <2>6 DEF FrameTaken
    <3>2. Unstuff(Stuff(frame)) = frame <=> Len(frame) - Len(Unstuffing(Stuff(frame))) <= Width
      BY <2>1, <2>6, LongFrame
    <3> QED BY <2>2, <2>5, <2>6, <3>1, <3>2
  <2>7. CASE n = ShortBytes
    <3>1. received = Stuff(frame)
      BY <2>2, <2>5, <2>7 DEF FrameTaken
    <3>2. Stuff(frame) = frame <=> /\ Stuffing(UpToLastOne(frame)) = UpToLastOne(frame)
                                   /\ Byte(frame, n) # Zeros(Width)
      BY <2>1, <2>4, ShortFrame
    <3> QED BY <2>3, <2>5, <2>7, <3>1, <3>2
  <2> QED BY <2>6, <2>7
<1> QED BY <1>1, <1>2, <1>3, PTL DEF FramingSpec

-----------------------------------------------------------------------------
(* Side by side.  A step of one part leaves the variables of the others as *)
(* they are, so each part behaves in the whole as it does alone.           *)

\* The whole implements each of its parts: its link, its pipeline, its state
\* machine, its coding of commands and its framing are behaviours of theirs.
THEOREM StationImplementsItsParts ==
    Spec => LinkSpec /\ PipeSpec /\ MachineSpec /\ UplinkSpec /\ FramingSpec
<1>1. Init => LinkInit /\ PipeInit /\ MachineInit /\ UplinkInit /\ FramingInit
  BY DEF Init
<1>2. [Next]_<<linkVars, codeVars, machineVars>> =>
         /\ [LinkNext]_linkVars /\ [PipeNext]_pipeVars /\ [MachineNext]_machineVars
         /\ [UplinkNext]_uplinkVars /\ [FramingNext]_framingVars
  BY DEF Next, CodeNext, codeVars
<1> QED BY <1>1, <1>2, PTL DEF Spec, LinkSpec, PipeSpec, MachineSpec, UplinkSpec, FramingSpec

\* So whatever the other parts do, what was shown of each holds in the station.
THEOREM StationKeepsItsPromises ==
    Spec => /\ [](AnswersMatch /\ BlocksUnpack /\ TypedIsExecuted /\ FramesSurvive /\ FlagsDelimit)
            /\ [](OnlyDataIsCorrected /\ UplinkAcknowledged) /\ ImplementsContact
BY StationImplementsItsParts, AnswersAreOwed, BlocksGiveBack, TypedArrives, FramesComeBack,
   WireHasNoFlag, DecodedIsWhatWasSent, UplinkIsAcknowledged, StateMachineImplementsContact, PTL
=============================================================================
