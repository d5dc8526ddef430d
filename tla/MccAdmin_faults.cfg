\* One admin, one applicant, and one profile with two updates at a time;
\* Keycloak calls fail and handlers die.
\* The system stops when every account is deleted.
SPECIFICATION MissionSpec
CONSTANTS
  Users = {a, u}
  Admins = {a}
  Requests = {r1, r2, r3}
  NoUser = NoUser
  Faults = {"keycloak", "crash"}
  Emails = {e1, e2}
  Names = {n1}
  Updates = {s1, s2}
  None = None
SYMMETRY Symmetry
INVARIANTS ApprovedIsAdmin Solicited StoresAgree
PROPERTY DeletionIsFinal
CHECK_DEADLOCK FALSE
