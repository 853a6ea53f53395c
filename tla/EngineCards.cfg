SPECIFICATION Spec
CONSTANTS
  None = None
  Torn = Torn
  n1 = n1
  d1 = d1
  a1 = a1
  t1 = t1
  Names = {n1}
  LocalPorts = {1, 2}
  Auths = {a1}
  Domains = {d1}
  Tokens = {t1}
  Heartbeat = 1
  MissedHeartbeats = 0
  TakenRetryHeartbeats = 2
  SavesThatFail = {"Remove"}
  OthersAt = {n1}
  MaxAttempt = 1
INVARIANTS
  SwitchedOffStaysListed
