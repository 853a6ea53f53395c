SPECIFICATION Spec
CONSTANTS
  c1 = c1  c2 = c2  c3 = c3
  u1 = u1  u2 = u2
  h1 = h1  h2 = h2
  n1 = n1  n2 = n2
  None = None
  Conns = {c1, c2}
  Users = {u1}
  Hosts = {h1, h2}
  Names = {n1, n2}
  Ports = {1, 2}
  PortLo = 1
  PortHi = 2
  Busy = {}
  Wanted = {None, 1, 3}
  MissedHeartbeats = 1
  MaxOpens = 2
  UserOf <- MCUserOf
  MaxTunnels <- MCTwoTunnels
  HostFor <- MCHostFor
  Domains <- MCDomains
INVARIANTS
  ReleasedPortBinds
SYMMETRY MCSymmetry
CHECK_DEADLOCK FALSE
