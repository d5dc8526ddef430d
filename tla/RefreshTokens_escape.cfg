\* A logout (or the reuse alarm) against a rotation that is under way.
SPECIFICATION Spec
CONSTANTS
  Users = {u1}
  Families = {f1}
  Tokens = {t1, t2, t3}
  Requests = {r1, r2}
  NoToken = NoToken
  NoUser = NoUser
  NoFamily = NoFamily
SYMMETRY Symmetry
INVARIANT RevokeKillsDescendants
