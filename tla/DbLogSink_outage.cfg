\* Five records, of which two are unwritable and one is filtered, batches of two, a
\* queue of two and a database that may refuse any commit or lose
\* its answer.
SPECIFICATION Spec
CONSTANTS
  a = a
  b = b
  c = c
  d = d
  e = e
  Records = {a, b, c, d, e}
  content <- SomeContent
  BatchSize = 2
  QueueMax = 2
  Sentinel = Sentinel
INVARIANTS TypeOK NoDuplicates LoggingOrder Accounted FlushedAtStop OnlyOffendersLost
PROPERTIES StopReturns AdmittedAreSettled
