\* Two frames on the line, answers in three pieces and room for four, numbers of
\* one bit and of two, frames of three bytes of five bits, batches of four commands
\* in blocks of 15 bytes, and three bytes damaged of which two can be corrected.
SPECIFICATION Spec
CONSTANTS
  Octet = 2
  Half = 3
  Word = 4
  RS_DECODED_DATA_SIZE = 15
  Values <- SomeValues
  MaxBatch = 4
  Inputs <- SomeInputs
  Strays = {10, 13}
  Chunks = 3
  MaxSent = 2
  MaxLine = 4
  Payloads = {d1, d2}
  Correctable = 2
  MaxDamage = 3
  Width = 5
  Run = 2
  FrameBytes = 3
  ShortBytes = 2
INVARIANTS AnswersMatch TypedIsExecuted BlocksUnpack OnlyDataIsCorrected FramesSurvive FlagsDelimit UplinkAcknowledged
PROPERTY ImplementsContact
