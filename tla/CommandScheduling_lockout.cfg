\* Two sessions that lock out one after the other, two commands.
SPECIFICATION Spec
CONSTANTS
  s1 = s1
  s2 = s2
  Sessions = {s1, s2}
  Commands = {c1, c2}
  Contents = {v1, v2}
  Requests = {r1, r2}
  Start <- StartTimes
  Lockout = 1
  Horizon = 2
  NoSession = NoSession
  NoCommand = NoCommand
  NoContent = NoContent
SYMMETRY Symmetry
PROPERTY FrozenOnceDrained
