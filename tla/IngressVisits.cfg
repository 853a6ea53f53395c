\* Visitors at both doors while tunnels and sessions come and go.
SPECIFICATION IngressSpec
CONSTANTS
  c1 = c1  c2 = c2
  u1 = u1
  h1 = h1  h2 = h2
  n1 = n1  n2 = n2
  old = old  new = new
  None = None
  Conns = {c1, c2}
  Users = {u1}
  Hosts = {h1, h2}
  Names = {n1, n2}
  Ports = {1}
  PortLo = 1
  PortHi = 1
  Busy = {}
  Wanted = {None}
  MissedHeartbeats = 1
  MaxOpens = 2
  UserOf <- MCUserOf
  MaxTunnels <- MCTwoTunnels
  HostFor <- MCHostFor
  Domains <- MCNoDomains
  Visitors = {v1}
  Passwords = {old, new}
  GateOf <- MCGateOf
INVARIANTS
  ReachesItsTunnel
  GateHolds
  AskedOnce
CHECK_DEADLOCK FALSE
