---------------------------- MODULE Ax25Framing ----------------------------
(***************************************************************************)
(* The AX.25 frames of the ground side of the link to the satellite        *)
(*   state-manager/src/interfaces/obc_gs_interface/ax25/__init__.py        *)
(*   state-manager/src/interfaces/utils/encode_decode.py, and its copy     *)
(*   command_packaging.py                                                  *)
(* from a frame to the bytes written to the port and back.                 *)
(*                                                                         *)
(* Bytes are the sequence of their bits, Width to the byte.  A frame stands*)
(* for everything between its flags, checksum included: what comes back    *)
(* changed fails the checksum, and decode_frame raises.                    *)
(* Encryption and error correction map 223 bytes to 255 and leave the      *)
(* length of a frame alone, which is all that matters here.                *)
(***************************************************************************)
EXTENDS Naturals, Sequences, FiniteSets, SequencesExt

CONSTANTS Width,       \* bits to a byte: 8
          Run,         \* ones after which a zero is stuffed: 5
          FrameBytes,  \* bytes of an information frame: 273
          ShortBytes   \* bytes of a control frame, which are fewer than 255

ASSUME FramingAssumption == /\ Run \in Nat \ {0}
                            /\ Width = Run + 3
                            /\ FrameBytes \in Nat /\ ShortBytes \in 1 .. FrameBytes - 1

Bits(n) == [1 .. n * Width -> 0 .. 1]
Zeros(n) == [i \in 1 .. n |-> 0]
Bytes(s) == Len(s) \div Width
Byte(s, i) == SubSeq(s, (i - 1) * Width + 1, i * Width)

\* 0x7e: a run longer than any that stuffing leaves.
Flag == <<0>> \o [i \in 1 .. Run + 1 |-> 1] \o <<0>>

\* A frame begins with a capital letter of a callsign, shifted left by one bit.
FramesOf(n) == {f \in Bits(n) : f[1] = 1 /\ f[Width] = 0}

-----------------------------------------------------------------------------
(* pyStuffing. *)

\* Mutant: a zero after one more.
StuffingLate(s) ==
    LET Put(a, b) == IF b = 1 /\ a.ones = Run
                       THEN [out |-> a.out \o <<1, 0>>, ones |-> 0]
                       ELSE [out |-> Append(a.out, b), ones |-> IF b = 1 THEN a.ones + 1 ELSE 0]
    IN  FoldLeft(Put, [out |-> <<>>, ones |-> 0], s).out

Stuffing(s) ==
    LET Put(a, b) == IF b = 1 /\ a.ones + 1 = Run
                     THEN [out |-> a.out \o <<1, 0>>, ones |-> 0]
                     ELSE [out |-> Append(a.out, b), ones |-> IF b = 1 THEN a.ones + 1 ELSE 0]
    IN  FoldLeft(Put, [out |-> <<>>, ones |-> 0], s).out

Unstuffing(s) ==
    LET Take(a, b) == IF a.ones = Run
                      THEN [a EXCEPT !.ones = 0]
                      ELSE [out |-> Append(a.out, b), ones |-> IF b = 1 THEN a.ones + 1 ELSE 0]
    IN  FoldLeft(Take, [out |-> <<>>, ones |-> 0], s).out

-----------------------------------------------------------------------------
(* AX25. *)

\* _int_list_to_bytes: a whole byte of zeros when the bits fill theirs.
IntListToBytes(s) == s \o Zeros(Width - (Len(s) % Width))

\* rstrip(b"\x00")
Rstrip(s) ==
    LET last == {i \in 1 .. Bytes(s) : /\ Byte(s, i) # Zeros(Width)
                                       /\ \A j \in i + 1 .. Bytes(s) : Byte(s, j) = Zeros(Width)}
    IN  SubSeq(s, 1, Width * (IF last = {} THEN 0 ELSE CHOOSE i \in last : TRUE))

Stuff(f) == Rstrip(IntListToBytes(Stuffing(f)))

\* Mutant: the byte that the padding may add is left.
UnstuffKeepsByte(d) == IntListToBytes(Unstuffing(d))

\* The byte that the padding may have added is dropped.  The other condition of
\* the code is for frames shorter than 255 bytes, which are not unstuffed.
Unstuff(d) ==
    LET u == IntListToBytes(Unstuffing(d)) IN
    IF Byte(u, Bytes(u)) = Zeros(Width) /\ Bytes(u) > FrameBytes
    THEN SubSeq(u, 1, Len(u) - Width)
    ELSE u

\* CommsPipeline: frames of either kind are stuffed, and what is received is
\* unstuffed only when it is longer than 255 bytes.  (That an information frame
\* could lose that many zeros is left out.)
FrameWritten(f) == Stuff(f)

FrameTaken(d, n) == IF n = ShortBytes THEN d ELSE Unstuff(d)

-----------------------------------------------------------------------------
(* One frame after the other. *)

VARIABLES frame,     \* the frame that is being sent, <<>>: none
          wire,      \* what was written to the port, without the flags
          received   \* what the receiver makes of it

framingVars == <<frame, wire, received>>

FramingInit == frame = <<>> /\ wire = <<>> /\ received = <<>>

SendFrame(n) == /\ frame = <<>>
                /\ frame' \in FramesOf(n)
                /\ wire' = FrameWritten(frame')
                /\ UNCHANGED received

ReceiveFrame == /\ frame # <<>> /\ received = <<>>
                /\ received' = FrameTaken(wire, Bytes(frame))
                /\ UNCHANGED <<frame, wire>>

NextFrame == /\ received # <<>>
             /\ frame' = <<>> /\ wire' = <<>> /\ received' = <<>>

FramingNext == SendFrame(FrameBytes) \/ SendFrame(ShortBytes) \/ ReceiveFrame \/ NextFrame

FramingSpec == FramingInit /\ [][FramingNext]_framingVars

-----------------------------------------------------------------------------
(* Properties *)

TrailingZeros(f) == Cardinality({i \in 1 .. Len(f) : \A j \in i .. Len(f) : f[j] = 0})
UpToLastOne(f) == SubSeq(f, 1, Len(f) - TrailingZeros(f) - 1)

\* The receiver gets back the frame that was sent, except: an information frame
\* of which more than a byte of zeros was stripped with the padding, since
\* _int_list_to_bytes puts back a byte at most (the comment at
\* ax25/__init__.py:122 has only the last byte of the checksum in mind); and a
\* control frame with a zero stuffed before its last one or a zero byte at its
\* end, which is not unstuffed.
FramesSurvive ==
    received # <<>> =>
       (received = frame <=>
          IF Bytes(frame) = FrameBytes
          THEN Len(frame) - Len(Unstuffing(wire)) <= Width
          ELSE /\ Stuffing(UpToLastOne(frame)) = UpToLastOne(frame)
               /\ Byte(frame, ShortBytes) # Zeros(Width))

\* No byte between the flags looks like one, so the first and the last flag of
\* what was read delimit a frame (command_utils.py:74).
FlagsDelimit == \A i \in 1 .. Bytes(wire) : Byte(wire, i) # Flag
=============================================================================
