SPECIFICATION Spec
CONSTANTS
  c1 = c1  c2 = c2  c3 = c3
  u1 = u1  u2 = u2
  h1 = h1  h2 = h2
  n1 = n1  n2 = n2
  None = None
  Conns = {c1, c2, c3}
  Users = {u1, u2}
  Hosts = {h1, h2}
  Names = {n1, n2}
  Ports = {1}
  PortLo = 1
  PortHi = 1
  Busy = {}
  Wanted = {None}
  MissedHeartbeats = 1
  MaxOpens = 1
  UserOf <- MCUserOf
  MaxTunnels <- MCMaxTunnels
  HostFor <- MCSharedHost
  Domains <- MCDomains
INVARIANTS
  TypeOK
  NoOrphanRoute
  IndexExact
  UserLimit
  NoPortLeak
  NoDeadTunnel
  TunnelHoldsPort
  ListenersRouteHome
  ReservationStays
PROPERTIES
  NothingTakenOver
SYMMETRY MCSymmetry
CHECK_DEADLOCK FALSE
