--------------------------- MODULE GroundStation ---------------------------
(***************************************************************************)
(* The parts of the state manager that exist so far: commands and frames   *)
(* as they are coded, the calls that use the port, and the state machine.  *)
(* They share no variable, and the last is not called by the others yet.   *)
(* So what holds of the variables of one holds whatever the others do, and *)
(* it is enough to let each of them run while the others stand still at    *)
(* their beginning.                                                        *)
(***************************************************************************)
EXTENDS GroundLink, CommandUplink, GsStateMachine, Ax25Framing, FramePipeline

Init == LinkInit /\ UplinkInit /\ PipeInit /\ FramingInit /\ MachineInit

codeVars == <<uplinkVars, pipeVars, framingVars>>
CodeInit == UplinkInit /\ PipeInit /\ FramingInit

\* Commands, frames or bits are coded.
CodeNext == \/ /\ PipeInit /\ FramingInit
               /\ UplinkNext /\ UNCHANGED <<pipeVars, framingVars>>
            \/ /\ UplinkInit /\ FramingInit
               /\ PipeNext /\ UNCHANGED <<uplinkVars, framingVars>>
            \/ /\ UplinkInit /\ PipeInit
               /\ FramingNext /\ UNCHANGED <<uplinkVars, pipeVars>>

Next == \/ /\ CodeInit /\ MachineInit
           /\ LinkNext /\ UNCHANGED <<codeVars, machineVars>>
        \/ /\ LinkInit /\ MachineInit
           /\ CodeNext /\ UNCHANGED <<linkVars, machineVars>>
        \/ /\ LinkInit /\ CodeInit
           /\ MachineNext /\ UNCHANGED <<linkVars, codeVars>>

Spec == Init /\ [][Next]_<<linkVars, codeVars, machineVars>>
=============================================================================
