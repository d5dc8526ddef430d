\* The same instance, for the deletion of an account that has placed orders.
SPECIFICATION Spec
CONSTANTS
  Ids = {i1, i2}
  Emails = {e1}
  MaxHash = 3
  Requests = {r1, r2}
  NoId = NoId
  NoEmail = NoEmail
SYMMETRY Symmetry
INVARIANT DeletionSparesOrders
