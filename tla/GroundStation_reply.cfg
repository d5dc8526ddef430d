\* The instance of GroundStation_link.cfg, asked what send_command returns for bytes
\* that are no whole answer.
SPECIFICATION Spec
CONSTANTS
  Octet = 2
  Half = 3
  Word = 4
  RS_DECODED_DATA_SIZE = 15
  Values <- SomeValues
  MaxBatch = 4
  Inputs <- SomeInputs
  Strays = {10, 13}
  Chunks = 3
  MaxSent = 2
  MaxLine = 4
  Payloads = {d1, d2}
  Correctable = 2
  MaxDamage = 3
  Width = 5
  Run = 2
  FrameBytes = 3
  ShortBytes = 2
INVARIANT DecodedOrNone
