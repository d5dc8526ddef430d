\* One tab, one call, a network that loses messages, tokens that expire.
SPECIFICATION FairClientSpec
CONSTANTS
  Users = {u1}
  Families = {f1}
  Tokens = {t1, t2}
  Requests = {r1, r2}
  Tabs = {p1}
  Calls = {c1}
  NoToken = NoToken
  NoUser = NoUser
  NoFamily = NoFamily
  NoTab = NoTab
  Faults = {"expiry"}
PROPERTY CallsSettle
