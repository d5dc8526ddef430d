\* One session, three concurrent requests, a chain of up to three tokens.
SPECIFICATION Spec
CONSTANTS
  Users = {u1}
  Families = {f1}
  Tokens = {t1, t2, t3}
  Requests = {r1, r2, r3}
  NoToken = NoToken
  NoUser = NoUser
  NoFamily = NoFamily
SYMMETRY Symmetry
INVARIANTS TypeOK NoFork OneUnrotated NoFalseAlarm NoOrphans
PROPERTY ImplementsSession
