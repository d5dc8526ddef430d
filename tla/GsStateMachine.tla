--------------------------- MODULE GsStateMachine ---------------------------
(***************************************************************************)
(* The state machine of the ground station                                 *)
(*   state-manager/src/impls/state_machine.go                              *)
(* over the states and events of src/enums.  Nothing in the repository     *)
(* raises the events yet, so any of them may come at any time.             *)
(***************************************************************************)

VARIABLES
  State,              \* StateMachine.State
  TransitionalState,  \* StateMachine.TransitionalState: the last event
  heard               \* history: the events since Disconnected was left

machineVars == <<State, TransitionalState, heard>>

Contacting == {"AttemptingConnection", "AwaitingAck"}
Working == {"Uplinking", "Downlinking"}
Parting == {"AwaitingDisconnect", "SendDisconnectAck"}
Emergency == {"EnteringEmergency", "AwaitingConnection", "SendConnectionAck", "EmergencyUplink"}
MachineStates == {"Disconnected", "ServerSideError"} \union Contacting \union Working
                   \union Parting \union Emergency

TransitionStates ==
    {"Error", "BeginUplink", "ConnectionEstablished", "AckReceived", "UplinkFinished",
     "DownlinkingFinished", "Disconnecting", "DisconnectCMDReceived", "DisconnectComplete",
     "EnterEmergency", "EmergencyInitiated", "ConnectionReceived", "ConnectionAckSent",
     "EmergencyUplinkFinished", "NoTransitionTriggered"}

\* The cases of SwitchState that name an event other than Error.
Cases == {<<"Disconnected", "EnterEmergency", "EnteringEmergency">>,
          <<"Disconnected", "BeginUplink", "AttemptingConnection">>,
          <<"AttemptingConnection", "ConnectionEstablished", "AwaitingAck">>,
          <<"AwaitingAck", "AckReceived", "Uplinking">>,
          <<"Uplinking", "UplinkFinished", "Downlinking">>,
          <<"Uplinking", "Disconnecting", "AwaitingDisconnect">>,
          <<"AwaitingDisconnect", "DisconnectCMDReceived", "SendDisconnectAck">>,
          <<"SendDisconnectAck", "DisconnectComplete", "Disconnected">>,
          <<"Downlinking", "DownlinkingFinished", "Uplinking">>,
          <<"EnteringEmergency", "EmergencyInitiated", "AwaitingConnection">>,
          <<"AwaitingConnection", "ConnectionReceived", "SendConnectionAck">>,
          <<"SendConnectionAck", "ConnectionAckSent", "EmergencyUplink">>,
          <<"EmergencyUplink", "EmergencyUplinkFinished", "Disconnected">>}

MachineInit == /\ State = "Disconnected"
               /\ TransitionalState = "NoTransitionTriggered"
               /\ heard = {}

Targets(s, e) == {c[3] : c \in {x \in Cases : x[1] = s /\ x[2] = e}}

\* Mutant: ServerSideError is left like the other states.
SwitchedRecovers(s, e, t) ==
    IF Targets(s, e) # {} THEN t \in Targets(s, e)
    ELSE t = IF e = "Error" /\ s # "Disconnected" THEN "Disconnected" ELSE "ServerSideError"

\* Mutant: an acknowledgement is taken whether or not one is awaited.
SwitchedAnyAck(s, e, t) ==
    IF s \in Contacting /\ e = "AckReceived" THEN t = "Uplinking"
    ELSE SwitchedRecovers(s, e, t)

\* The switch: t follows s on the event e.  The outer switch has no case for
\* ServerSideError, and the inner one of Disconnected none for Error.
Switched(s, e, t) ==
    IF Targets(s, e) # {} THEN t \in Targets(s, e)
    ELSE t = IF e = "Error" /\ s \notin {"Disconnected", "ServerSideError"}
             THEN "Disconnected" ELSE "ServerSideError"

SwitchState(e) ==
    /\ TransitionalState' = e
    /\ \E t \in MachineStates : Switched(State, e, t) /\ State' = t
    /\ heard' = IF State' \in {"Disconnected", "ServerSideError"} THEN {} ELSE heard \union {e}

MachineNext == \E e \in TransitionStates : SwitchState(e)

MachineSpec == MachineInit /\ [][MachineNext]_machineVars

-----------------------------------------------------------------------------
(* Properties *)

\* The station sends up only within a contact that the satellite has accepted:
\* since it was last disconnected the connection was established and
\* acknowledged, or an emergency was initiated and its connection acknowledged,
\* and never a bit of both.
UplinkAcknowledged ==
    /\ State \in Working \union Parting =>
          /\ {"BeginUplink", "ConnectionEstablished", "AckReceived"} \subseteq heard
          /\ "EnterEmergency" \notin heard
    /\ State = "EmergencyUplink" =>
          heard = {"EnterEmergency", "EmergencyInitiated", "ConnectionReceived", "ConnectionAckSent"}

\* What GsContact calls the states.
Phase == IF State = "Disconnected" THEN "none"
         ELSE IF State \in {"AttemptingConnection", "EnteringEmergency", "AwaitingConnection"} THEN "opening"
         ELSE IF State \in {"AwaitingAck", "SendConnectionAck"} THEN "accepted"
         ELSE IF State \in Working \union {"EmergencyUplink"} THEN "up"
         ELSE IF State \in Parting THEN "closing"
         ELSE "failed"
Mode == IF State \in Emergency THEN "emergency"
        ELSE IF State \in Contacting \union Working \union Parting THEN "normal"
        ELSE "none"

Contact == INSTANCE GsContact WITH phase <- Phase, mode <- Mode

\* The state machine keeps what GsContact promises.
ImplementsContact == Contact!Spec
=============================================================================
