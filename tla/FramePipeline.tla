--------------------------- MODULE FramePipeline ---------------------------
(***************************************************************************)
(* Encryption, error correction and checksum of the link to the satellite: *)
(*   state-manager/src/interfaces/utils/command_packaging.py (the copy of  *)
(*   encode_decode.py), .../obc_gs_interface/aes128, fec and ax25          *)
(* from the data of a frame to the bytes that Ax25Framing stuffs, and back.*)
(* The satellite has the like of them.                                     *)
(*                                                                         *)
(* A part of a frame is its value and the number of its bytes that are     *)
(* damaged.  A checksum is the value it was taken of: that two values may  *)
(* have one checksum is left out.                                          *)
(***************************************************************************)
EXTENDS Naturals

CONSTANTS Payloads,     \* data of RS_DECODED_DATA_SIZE bytes
          Correctable,  \* damaged bytes that Reed-Solomon corrects: 16
          MaxDamage     \* bound: damaged bytes of a part

ASSUME PipelineAssumption == Correctable \in Nat /\ MaxDamage \in Nat

VARIABLES
  plain,    \* what is being sent: Data(d), SABM, or None
  air,      \* its frame
  outcome   \* None, Refused, or what decode_frame returned

pipeVars == <<plain, air, outcome>>

None == [kind |-> "none"]
SABM == [kind |-> "SABM"]   \* a connection request, which has no data
Data(d) == [kind |-> "I", data |-> d]
Refused == [kind |-> "refused"]
Taken(v) == [kind |-> "taken", data |-> v]

Whole(v) == [value |-> v, damage |-> 0]
Parts == {"header", "data", "parity", "fcs"}
Silence == [p \in Parts |-> Whole(None)]

PipeInit == plain = None /\ air = Silence /\ outcome = None

-----------------------------------------------------------------------------
(* The layers. *)

\* AES128.encrypt: CTR, with one key and one counter for all frames.
Encrypt(d) == [kind |-> "encrypted", data |-> d]

\* AX25.encode_frame: the checksum of all that comes before it.
AxEncode(header, data, parity) ==
    [header |-> Whole(header), data |-> Whole(data), parity |-> Whole(parity),
     fcs |-> Whole(<<Whole(header), Whole(data), Whole(parity)>>)]

\* Mutant: the checksum of what was corrected is not compared.
AxAcceptsAny(f) == f.header.damage = 0

\* AX25.decode_frame raises when the checksum is not that of the frame.
AxAccepts(f) == f.fcs = Whole(<<f.header, f.data, f.parity>>)

\* FEC.encode: 32 bytes of parity, here named by the data they are of.
FecEncode(v) == [kind |-> "parity", data |-> v]

\* FEC.decode: what it may make of the data.  Too much damage makes it raise or
\* take the data for other data.  The parity is handed back as it came.
FecDecode(f) ==
    IF f.data.damage + f.parity.damage <= Correctable THEN {Whole(f.data.value)}
    ELSE {Whole(Encrypt(d)) : d \in Payloads} \ {Whole(f.data.value)}

\* CommandPackaging.encode_frame
EncodeFrame(p) == IF p = SABM THEN AxEncode(SABM, None, None)
                  ELSE AxEncode(None, Encrypt(p.data), FecEncode(Encrypt(p.data)))

-----------------------------------------------------------------------------
(* One frame after the other. *)

Transmit(p) == /\ plain = None
               /\ plain' = p
               /\ air' = EncodeFrame(p)
               /\ UNCHANGED outcome

\* A byte of a part is damaged; a connection request has neither data nor parity.
Damage(part) == /\ plain # None /\ outcome = None
                /\ plain = SABM => part \in {"header", "fcs"}
                /\ air[part].damage < MaxDamage
                /\ air' = [air EXCEPT ![part].damage = @ + 1]
                /\ UNCHANGED <<plain, outcome>>

\* CommandPackaging.decode_frame.  Nothing decrypts what was received.
Receive ==
    /\ plain # None /\ outcome = None
    /\ IF plain = SABM
       THEN outcome' = IF AxAccepts(air) THEN Taken(None) ELSE Refused
       ELSE \/ \E data \in FecDecode(air) :
                 LET f == [air EXCEPT !.data = data] IN
                 outcome' = IF AxAccepts(f) THEN Taken(data.value) ELSE Refused
            \/ /\ air.data.damage + air.parity.damage > Correctable
               /\ outcome' = Refused
    /\ UNCHANGED <<plain, air>>

Turn == /\ outcome # None
        /\ plain' = None /\ air' = Silence /\ outcome' = None

PipeNext == \/ \E d \in Payloads : Transmit(Data(d))
            \/ Transmit(SABM)
            \/ \E part \in Parts : Damage(part)
            \/ Receive \/ Turn

PipeSpec == PipeInit /\ [][PipeNext]_pipeVars

-----------------------------------------------------------------------------
(* Properties *)

\* decode_frame returns what the sender put behind the encryption or raises,
\* however much was damaged and however it was corrected.  And it corrects less
\* than Reed-Solomon can: damage to the parity, the header or the checksum,
\* be it one byte, costs the frame, because the checksum is compared with the
\* parity as it came.
OnlyDataIsCorrected ==
    outcome # None =>
      IF /\ \A p \in {"header", "parity", "fcs"} : air[p].damage = 0
         /\ air.data.damage <= Correctable
      THEN outcome = Taken(IF plain = SABM THEN None ELSE Encrypt(plain.data))
      ELSE outcome = Refused
=============================================================================
