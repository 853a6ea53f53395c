\* The control loop, the data plane and the request book of one connection.
SPECIFICATION FairSpec
CONSTANTS
  api = api
  web = web
  v1 = v1
  v2 = v2
  own = own
  domain = domain
  other = other
  Hosts = {own, domain, other}
  HostsOf <- ApiAtTwoHosts
  AsksFor <- FirstAsksForApi
  Names = {api, web}
  Visitors = {v1, v2}
  None = None
  PerTunnelLimit = 1
  MaxOpens = 2
INVARIANTS
  DeliveredHome
  AnnouncedIsServed
  EndsAgree
  ResponseOnOwnRecord
PROPERTIES
  OthersRecordsKept
  OpensAnswered
CHECK_DEADLOCK FALSE
