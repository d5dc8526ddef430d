\* Three pictures of two users, pages of one, two requests at once.
SPECIFICATION Spec
CONSTANTS
  Users = {u1, u2}
  Pictures = {p1, p2, p3}
  Packets = {k1}
  Requests = {r1, r2}
  Count = 1
  NoUser = NoUser
  NoPicture = NoPicture
  NoPacket = NoPacket
SYMMETRY Symmetry
INVARIANTS DownloadFindsPacket RemovalHidesOne
PROPERTY OwnerDeletesOnlyOpen
