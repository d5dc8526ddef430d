\* One tab, two calls, two logins, of one user or of two, or one that is rotated; handlers
\* die and pages are left.
SPECIFICATION ClientSpec
CONSTANTS
  Users = {u1, u2}
  Families = {f1, f2}
  Tokens = {t1, t2}
  Requests = {r1, r2}
  Tabs = {p1}
  Calls = {c1, c2}
  NoToken = NoToken
  NoUser = NoUser
  NoFamily = NoFamily
  NoTab = NoTab
  Faults = {"crash", "unload"}
SYMMETRY Symmetry
INVARIANTS AlarmOnlyIfSevered KeepsSession WaitersAreServed OneOwner
