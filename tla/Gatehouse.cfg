\* Failed handshakes of one address, two at a time, and two command lines on the database.
SPECIFICATION FairSpec
CONSTANTS
  Users = {u1, u2}
  Domains = {d1}
  Clerks = {k1, k2}
  None = None
  MaxIssued = 2
  Addresses = {a1}
  Handshakes = {x1, x2}
  Limit = 2
  Window = 2
INVARIANTS
  CountBounded
  ConfirmedIsOwner
PROPERTIES
  LockLifts
