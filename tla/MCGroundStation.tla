-------------------------- MODULE MCGroundStation --------------------------
(* A small instance of GroundStation for TLC. *)
EXTENDS GroundStation

Typed(command, rtc, timestamp) ==
    [command |-> command, lnp |-> <<>>, rtc |-> rtc, timestamp |-> timestamp]

\* A probe, a reset, and a synchronisation for later.
SomeInputs == {Typed(CMD_I2C_PROBE, <<>>, <<>>), Typed(CMD_EXEC_OBC_RESET, <<>>, <<>>),
               Typed(CMD_RTC_SYNC, <<3>>, <<2>>)}
SomeValues == -1 .. 5
=============================================================================
