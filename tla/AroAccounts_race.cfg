\* Two accounts, one address, two requests at once.
SPECIFICATION Spec
CONSTANTS
  Ids = {i1, i2}
  Emails = {e1}
  MaxHash = 3
  Requests = {r1, r2}
  NoId = NoId
  NoEmail = NoEmail
SYMMETRY Symmetry
INVARIANTS TypeOK RegistrationTakes StrandedHasCause VerifiedOwnsMail
PROPERTY ResetTokenIsSpent
