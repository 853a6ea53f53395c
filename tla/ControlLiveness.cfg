SPECIFICATION FairSpec
CONSTANTS
  c1 = c1  c2 = c2  c3 = c3
  u1 = u1  u2 = u2
  h1 = h1  h2 = h2
  n1 = n1  n2 = n2
  None = None
  Conns = {c1, c2}
  Users = {u1}
  Hosts = {h1, h2}
  Names = {n1, n2}
  Ports = {1, 2}
  PortLo = 1
  PortHi = 2
  Busy = {1}
  Wanted = {None, 2}
  MissedHeartbeats = 1
  MaxOpens = 1
  UserOf <- MCUserOf
  MaxTunnels <- MCTwoTunnels
  HostFor <- MCHostFor
  Domains <- MCDomains
INVARIANTS
  IInv
PROPERTIES
  KeepsPromises
  KickedLeaves
  SilentLeaves
  PortsComeBack
  OpenAnswered
CHECK_DEADLOCK FALSE
