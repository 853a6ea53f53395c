------------------------- MODULE ControlPlaneProofs -------------------------
(***************************************************************************)
(* Proofs about ControlPlane: the inductive invariant, the safety          *)
(* properties that follow from it, and that the control plane implements   *)
(* TunnelService.  One lemma per action, one step per conjunct of IInv.    *)
(***************************************************************************)
EXTENDS ControlPlane, TLAPS, FiniteSetTheorems

-----------------------------------------------------------------------------
(* The initial states. *)

\* The invariant holds before the first connection.
LEMMA InitIInv == Init => IInv
<1> SUFFICES ASSUME Init PROVE IInv
  OBVIOUS
<1> USE RegistryAssumption, PortPoolAssumption, ControlAssumption
        DEF Init, RegistryInit, PoolInit
<1>1. TypeOK
  <2>1. RegistryTypeOK /\ PoolTypeOK
    BY DEF RegistryTypeOK, PoolTypeOK
  <2>2. 0 \in 0..MissedHeartbeats
    OBVIOUS
  <2>3. QED
    BY <2>1, <2>2 DEF TypeOK, Phases
<1>2. NoOrphanRoute /\ IndexExact
  BY DEF NoOrphanRoute, Registered, IndexExact
<1>3. JobInv /\ IdInv
  BY DEF JobInv, Opening, IdInv
<1>4. NoPortLeak /\ NoDeadTunnel /\ TunnelHoldsPort /\ ListenersRouteHome
  BY DEF NoPortLeak, NoDeadTunnel, TunnelHoldsPort, ListenersRouteHome
<1>5. ReleaseInv /\ ListenerInv
  BY DEF ReleaseInv, ListenerInv
<1>6. QED
  BY <1>1, <1>2, <1>3, <1>4, <1>5 DEF IInv

-----------------------------------------------------------------------------
(* Steps that touch no table, no port and no request: the handshake, the   *)
(* heartbeat, the client's link, and the kick, which only sets a flag.     *)

\* A step that changes no table, port or request keeps the invariant, whether
\* the task stays where it is or is still shaking hands.
LEMMA QuietStepKeeps ==
  ASSUME IInv, TypeOK',
         UNCHANGED <<sessions, by_user, hosts, poolVars, job, to_release, next_id>>,
         \A c \in Conns : \/ pc'[c] = pc[c]
                          \/ /\ pc[c] \in {"idle", "hello"}
                             /\ pc'[c] \in {"hello", "authed", "done"}
  PROVE  IInv'
<1> USE DEF IInv, poolVars
<1>1. NoOrphanRoute' /\ IndexExact'
  BY DEF NoOrphanRoute, Registered, IndexExact
<1>2. JobInv'
  BY DEF JobInv, Opening, IsTunnel, HeldBy, LeaseOf
<1>3. IdInv'
  BY DEF IdInv
<1>4. NoPortLeak'
  BY DEF TypeOK, PoolTypeOK, Lease, NoPortLeak, Leasing, IsTunnel, HeldBy, LeaseOf
<1>5. TunnelHoldsPort'
  BY DEF TypeOK, RegistryTypeOK, Tunnel, TunnelHoldsPort, Ending, TunnelLease
<1>6. ReleaseInv'
  BY DEF TypeOK, RegistryTypeOK, Tunnel, ReleaseInv, Ending, TunnelLease
<1>7. ListenerInv'
  BY DEF TypeOK, PoolTypeOK, Lease, ListenerInv, Opening, LeaseOf
<1>8. ListenersRouteHome'
  BY DEF ListenersRouteHome, IsTunnel, HeldBy
<1>9. NoDeadTunnel'
  BY DEF TypeOK, RegistryTypeOK, Tunnel, NoDeadTunnel, Opening
<1>10. QED
  BY <1>1, <1>2, <1>3, <1>4, <1>5, <1>6, <1>7, <1>8, <1>9

\* Accepting a connection, failing it and authenticating it.
LEMMA HandshakeKeeps ==
  ASSUME IInv, NEW c \in Conns, Handshake(c) \/ Authenticate(c)
  PROVE  IInv'
<1> USE DEF Handshake, Accept, HandshakeFails, Authenticate, Go, registryVars
<1>1. TypeOK'
  BY DEF IInv, TypeOK, RegistryTypeOK, PoolTypeOK, poolVars, Phases
<1>2. QED
  BY <1>1, QuietStepKeeps DEF IInv, TypeOK

\* The heartbeat, and whatever becomes of the client's link.
LEMMA HeartbeatKeeps ==
  ASSUME IInv, NEW c \in Conns, HeartbeatTick(c) \/ Pong(c) \/ Environment(c)
  PROVE  IInv'
<1> USE DEF HeartbeatTick, Pong, Environment, PeerMutes, PeerReturns, PeerLeaves,
            registryVars
<1>1. /\ 0 \in 0..MissedHeartbeats
      /\ \A n \in 0..MissedHeartbeats :
           n < MissedHeartbeats => n + 1 \in 0..MissedHeartbeats
  BY ControlAssumption
<1>2. RegistryTypeOK' /\ PoolTypeOK'
  BY DEF IInv, TypeOK, RegistryTypeOK, PoolTypeOK, poolVars
<1>3. TypeOK'
  BY <1>1, <1>2 DEF IInv, TypeOK
<1>4. QED
  BY <1>3, QuietStepKeeps DEF IInv, TypeOK

\* A kick sets flags, a shutdown one flag.
LEMMA AdminKeeps ==
  ASSUME IInv, Admin
  PROVE  IInv'
<1> USE DEF Admin, Shutdown, Kick, KickUser, registryVars, taskVars
<1>1. TypeOK'
  BY DEF IInv, TypeOK, RegistryTypeOK, PoolTypeOK, poolVars
<1>2. QED
  BY <1>1, QuietStepKeeps DEF IInv, TypeOK

-----------------------------------------------------------------------------
(* A session comes and goes. *)

\* A session enters both indexes at once.
LEMMA RegisterSessionKeeps ==
  ASSUME IInv, NEW c \in Conns, RegisterSession(c)
  PROVE  IInv'
<1> USE RegistryAssumption
        DEF IInv, RegisterSession, Register, Go, registryVars, poolVars
<1>1. TypeOK'
  BY DEF TypeOK, RegistryTypeOK, PoolTypeOK, Phases
<1>2. NoOrphanRoute'
  BY DEF TypeOK, RegistryTypeOK, NoOrphanRoute, Registered
<1>3. IndexExact'
  BY DEF TypeOK, RegistryTypeOK, IndexExact
<1>4. JobInv'
  BY DEF TypeOK, JobInv, Opening, IsTunnel, HeldBy, LeaseOf
<1>5. IdInv'
  BY DEF IdInv
<1>6. NoPortLeak'
  BY DEF TypeOK, PoolTypeOK, Lease, NoPortLeak, Leasing, IsTunnel, HeldBy, LeaseOf
<1>7. TunnelHoldsPort'
  BY DEF TypeOK, RegistryTypeOK, Tunnel, TunnelHoldsPort, Ending, TunnelLease
<1>8. ReleaseInv'
  BY DEF TypeOK, RegistryTypeOK, Tunnel, ReleaseInv, Ending, TunnelLease
<1>9. ListenerInv'
  BY DEF TypeOK, PoolTypeOK, Lease, ListenerInv, Opening, LeaseOf
<1>10. ListenersRouteHome'
  BY DEF ListenersRouteHome, IsTunnel, HeldBy
<1>11. NoDeadTunnel'
  BY DEF TypeOK, RegistryTypeOK, Tunnel, NoDeadTunnel, Opening
<1>12. QED
  BY <1>1, <1>2, <1>3, <1>4, <1>5, <1>6, <1>7, <1>8, <1>9, <1>10, <1>11

\* The lease of a tunnel of the table.
LEMMA TunnelLeaseIs ==
  ASSUME TypeOK, NEW h \in Hosts, hosts[h] # None
  PROVE  /\ TunnelLease(h) \in Lease
         /\ TunnelLease(h) # None
         /\ TunnelLease(h).session = hosts[h].session
         /\ TunnelLease(h).id = hosts[h].id
         /\ TunnelLease(h).host = h
BY PortPoolAssumption
DEF TypeOK, RegistryTypeOK, Tunnel, Lease, TunnelLease

\* The ports of a session's tunnels, spelt out.
LEMMA TcpPortsOfIs ==
  ASSUME NEW c, NEW p
  PROVE  p \in TcpPortsOf(c) <=>
           p # None /\ \E h \in Hosts : HeldBy(h, c) /\ hosts[h].port = p
BY DEF TcpPortsOf

\* The list of ports to give back is exactly that of the session's tunnels.
LEMMA EnterCleanupKeeps ==
  ASSUME IInv, NEW c \in Conns, EnterCleanup(c)
  PROVE  IInv'
<1> USE RegistryAssumption
        DEF IInv, EnterCleanup, Disconnect, Go, poolVars
<1>1. TypeOK'
  <2>1. RegistryTypeOK' /\ PoolTypeOK'
    BY DEF TypeOK, RegistryTypeOK, PoolTypeOK
  <2>2. TcpPortsOf(c) \subseteq Ports
    BY TcpPortsOfIs DEF TypeOK, RegistryTypeOK, Tunnel, HeldBy
  <2>3. 0 \in 0..MissedHeartbeats
    BY ControlAssumption
  <2>4. QED
    BY <2>1, <2>2, <2>3 DEF TypeOK, Phases
<1>2. NoOrphanRoute'
  BY DEF TypeOK, RegistryTypeOK, NoOrphanRoute, Registered
<1>3. IndexExact'
  BY DEF IndexExact
<1>4. JobInv'
  BY DEF TypeOK, JobInv, Opening, IsTunnel, HeldBy, LeaseOf
<1>5. IdInv'
  BY DEF IdInv
<1>6. NoPortLeak'
  BY DEF TypeOK, PoolTypeOK, Lease, NoPortLeak, Leasing, IsTunnel, HeldBy, LeaseOf
<1>7. TunnelHoldsPort'
  BY DEF TypeOK, RegistryTypeOK, Tunnel, TunnelHoldsPort, Ending, TunnelLease
<1>8. ReleaseInv'
  <2>1. \A p \in to_release'[c] : leased[p] # None /\ leased[p].session = c
    <3> SUFFICES ASSUME NEW p \in TcpPortsOf(c)
                 PROVE  leased[p] # None /\ leased[p].session = c
      BY DEF TypeOK
    <3>1. PICK h \in Hosts : HeldBy(h, c) /\ hosts[h].port = p /\ p # None
      BY TcpPortsOfIs
    <3>2. ~Ending(h) /\ hosts[h] # None
      BY <3>1 DEF HeldBy, Ending
    <3>3. leased[p] = TunnelLease(h) /\ p \in Ports
      BY <3>1, <3>2 DEF TunnelHoldsPort, TypeOK, RegistryTypeOK, Tunnel
    <3>4. QED
      BY <3>1, <3>3, TunnelLeaseIs DEF HeldBy
  <2>2. ASSUME NEW h \in Hosts, hosts[h] # None, hosts[h].session = c, Ending(h)',
               NEW p \in Ports
        PROVE  leased[p] # TunnelLease(h)
    <3> SUFFICES ASSUME leased[p] = TunnelLease(h) PROVE FALSE
      OBVIOUS
    <3>1. leased[p] # None /\ leased[p].session = c /\ leased[p].host = h
      BY <2>2, TunnelLeaseIs
    <3>2. hosts[h].port = p
      BY <3>1 DEF NoPortLeak, Leasing
    <3>3. p \in TcpPortsOf(c)
      BY <2>2, <3>2, TcpPortsOfIs DEF HeldBy
    <3>4. QED
      BY <2>2, <3>2, <3>3 DEF Ending, TypeOK
  <2>3. QED
    BY <2>1, <2>2 DEF TypeOK, RegistryTypeOK, Tunnel, ReleaseInv, Ending, TunnelLease
<1>9. ListenerInv'
  BY DEF TypeOK, PoolTypeOK, Lease, ListenerInv, Opening, LeaseOf
<1>10. ListenersRouteHome'
  BY DEF ListenersRouteHome, IsTunnel, HeldBy
<1>11. NoDeadTunnel'
  BY DEF TypeOK, RegistryTypeOK, Tunnel, NoDeadTunnel, Opening
<1>12. QED
  BY <1>1, <1>2, <1>3, <1>4, <1>5, <1>6, <1>7, <1>8, <1>9, <1>10, <1>11

\* A port on the list is its session's own; giving it back leaves the others
\* alone.
LEMMA CleanupReleaseKeeps ==
  ASSUME IInv, NEW c \in Conns, CleanupRelease(c)
  PROVE  IInv'
<1> USE RegistryAssumption, PortPoolAssumption DEF IInv, registryVars
<1> PICK p \in to_release[c] :
           /\ Release(p)
           /\ to_release' = [to_release EXCEPT ![c] = @ \ {p}]
  BY DEF CleanupRelease
<1> USE DEF CleanupRelease, Release
<1> DEFINE l == leased[p]
<1>1. p \in Ports /\ l \in Lease /\ l.session = c
  BY DEF TypeOK, PoolTypeOK, ReleaseInv
<1>2. IsTunnel(l.host, c, l.id) /\ hosts[l.host].port = p
  BY <1>1 DEF NoPortLeak, Leasing
<1>3. TypeOK'
  BY <1>1 DEF TypeOK, RegistryTypeOK, PoolTypeOK, Phases
<1>4. NoOrphanRoute' /\ IndexExact'
  BY DEF NoOrphanRoute, Registered, IndexExact
<1>5. JobInv'
  BY <1>1 DEF TypeOK, PoolTypeOK, JobInv, Opening, IsTunnel, HeldBy, LeaseOf
<1>6. IdInv'
  BY DEF IdInv
<1>7. NoPortLeak'
  BY <1>1 DEF TypeOK, PoolTypeOK, NoPortLeak, Leasing, IsTunnel, HeldBy, LeaseOf
<1>8. TunnelHoldsPort'
  <2> SUFFICES ASSUME NEW h \in Hosts, hosts[h] # None, hosts[h].port # None, ~Ending(h)'
               PROVE  /\ leased'[hosts[h].port] = TunnelLease(h)
                      /\ bound[hosts[h].port] = TunnelLease(h)
                      /\ TunnelLease(h) \notin cancelled'
    BY DEF TunnelHoldsPort, TunnelLease
  <2>1. ~Ending(h)
    BY DEF Ending, TypeOK
  <2>2. /\ leased[hosts[h].port] = TunnelLease(h)
        /\ bound[hosts[h].port] = TunnelLease(h)
        /\ TunnelLease(h) \notin cancelled
        /\ hosts[h].port \in Ports
    BY <2>1 DEF TunnelHoldsPort, TypeOK, RegistryTypeOK, Tunnel
  <2>3. hosts[h].port # p
    BY <1>1, <2>2 DEF Ending, TunnelLease, TypeOK
  <2>4. TunnelLease(h) # l
    BY <1>2, <2>3 DEF TunnelLease
  <2>5. QED
    BY <2>2, <2>3, <2>4 DEF TypeOK, PoolTypeOK
<1>9. ReleaseInv'
  <2>1. ASSUME NEW h \in Hosts, hosts[h] # None, Ending(h)', NEW q \in Ports
        PROVE  leased'[q] # TunnelLease(h)
    <3> SUFFICES ASSUME leased'[q] = TunnelLease(h) PROVE FALSE
      OBVIOUS
    <3>1. /\ TunnelLease(h) # None
          /\ TunnelLease(h).host = h
          /\ TunnelLease(h).session = hosts[h].session
      BY <2>1, TunnelLeaseIs
    <3>2. q # p /\ leased[q] = TunnelLease(h)
      BY <1>1, <3>1 DEF TypeOK, PoolTypeOK
    <3>3. ~Ending(h)
      BY <2>1, <3>2 DEF ReleaseInv
    <3>4. hosts[h].session = c /\ hosts[h].port = p
      BY <2>1, <3>3 DEF Ending, TypeOK
    <3>5. hosts[h].port = q
      <4>1. pc[c] = "cleanup"
        OBVIOUS
      <4>2. leased[q] # None /\ leased[q].host = h /\ leased[q].session = c
        BY <3>1, <3>2, <3>4
      <4>3. hosts[h].port = q \/ Leasing(leased[q], q)
        BY <4>2 DEF NoPortLeak
      <4>4. QED
        BY <4>1, <4>2, <4>3 DEF Leasing
    <3>6. QED
      BY <3>2, <3>4, <3>5
  <2>2. QED
    BY <1>1, <2>1 DEF ReleaseInv, TypeOK, PoolTypeOK, TunnelLease
<1>10. ListenerInv'
  BY <1>1, <1>2 DEF TypeOK, PoolTypeOK, Lease, ListenerInv, IdInv, IsTunnel, HeldBy,
                    Opening, LeaseOf
<1>11. ListenersRouteHome'
  BY <1>1 DEF TypeOK, PoolTypeOK, ListenersRouteHome, IsTunnel, HeldBy
<1>12. NoDeadTunnel'
  BY DEF NoDeadTunnel, Opening
<1>13. QED
  BY <1>3, <1>4, <1>5, <1>6, <1>7, <1>8, <1>9, <1>10, <1>11, <1>12

\* When the list is empty no port of the session is left in the books, so its
\* routes can go.
LEMMA CleanupUnregisterKeeps ==
  ASSUME IInv, NEW c \in Conns, CleanupUnregister(c)
  PROVE  IInv'
<1> USE RegistryAssumption
        DEF IInv, CleanupUnregister, Unregister, Go, poolVars
<1>1. ASSUME NEW p \in Ports, leased[p] # None
      PROVE  leased[p].session # c
  <2> SUFFICES ASSUME leased[p].session = c PROVE FALSE
    OBVIOUS
  <2> DEFINE h == leased[p].host
  <2>1. h \in Hosts /\ leased[p] \in Lease
    BY <1>1 DEF TypeOK, PoolTypeOK, Lease
  <2>2. IsTunnel(h, c, leased[p].id) /\ hosts[h].port = p
    BY <1>1 DEF NoPortLeak, Leasing
  <2>3. hosts[h] # None /\ Ending(h) /\ TunnelLease(h) = leased[p]
    BY <2>1, <2>2 DEF IsTunnel, HeldBy, Ending, TunnelLease, Lease
  <2>4. QED
    BY <2>1, <2>3 DEF ReleaseInv
<1>2. TypeOK'
  BY DEF TypeOK, RegistryTypeOK, PoolTypeOK, Phases
<1>3. NoOrphanRoute'
  BY DEF TypeOK, RegistryTypeOK, NoOrphanRoute, Registered, HeldBy
<1>4. IndexExact'
  BY DEF TypeOK, RegistryTypeOK, IndexExact
<1>5. JobInv'
  BY DEF TypeOK, RegistryTypeOK, Job, JobInv, Opening, IsTunnel, HeldBy, LeaseOf
<1>6. IdInv'
  BY DEF IdInv
<1>7. NoPortLeak'
  BY <1>1 DEF TypeOK, PoolTypeOK, Lease, NoPortLeak, Leasing, IsTunnel, HeldBy, LeaseOf
<1>8. TunnelHoldsPort'
  BY DEF TypeOK, RegistryTypeOK, Tunnel, TunnelHoldsPort, Ending, TunnelLease, HeldBy
<1>9. ReleaseInv'
  BY DEF TypeOK, RegistryTypeOK, Tunnel, ReleaseInv, Ending, TunnelLease, HeldBy
<1>10. ListenerInv'
  BY DEF TypeOK, PoolTypeOK, Lease, ListenerInv, Opening, LeaseOf
<1>11. ListenersRouteHome'
  BY <1>1 DEF TypeOK, PoolTypeOK, Lease, ListenersRouteHome, IsTunnel, HeldBy
<1>12. NoDeadTunnel'
  BY DEF TypeOK, RegistryTypeOK, Tunnel, NoDeadTunnel, Opening, HeldBy
<1>13. QED
  BY <1>2, <1>3, <1>4, <1>5, <1>6, <1>7, <1>8, <1>9, <1>10, <1>11, <1>12

-----------------------------------------------------------------------------
(* Opening a tunnel. *)

\* The lease of a tunnel being opened.
LEMMA LeaseOfIs ==
  ASSUME TypeOK, NEW c \in Conns, job[c] # None
  PROVE  /\ job[c] \in Job
         /\ LeaseOf(c) \in Lease
         /\ LeaseOf(c) # None
         /\ LeaseOf(c).session = c
         /\ LeaseOf(c).id = job[c].id
         /\ LeaseOf(c).host = job[c].host
BY PortPoolAssumption DEF TypeOK, Lease, Job, LeaseOf

\* What a claim does to the table: nothing, or one free host is taken by a
\* tunnel that has no port.
LEMMA OpenTunnelIs ==
  ASSUME TypeOK, NEW c \in Conns, NEW h \in Hosts, NEW k \in Kinds,
         OpenTunnel(h, c, next_id[c], k)
  PROVE  /\ UNCHANGED <<sessions, by_user, cancel>>
         /\ \/ OpenOutcome(h, c) # "Opened" /\ hosts' = hosts
            \/ /\ OpenOutcome(h, c) = "Opened"
               /\ hosts[h] = None
               /\ hosts'[h] # None
               /\ hosts'[h].session = c
               /\ hosts'[h].id = next_id[c]
               /\ hosts'[h].kind = k
               /\ hosts'[h].port = None
               /\ \A g \in Hosts \ {h} : hosts'[g] = hosts[g]
         /\ RegistryTypeOK'
<1>1. CASE OpenOutcome(h, c) # "Opened"
  BY <1>1 DEF OpenTunnel, TypeOK, RegistryTypeOK
<1>2. CASE OpenOutcome(h, c) = "Opened"
  <2>1. hosts[h] = None
    BY <1>2 DEF OpenOutcome
  <2>2. [session |-> c, id |-> next_id[c], kind |-> k, port |-> None] \in Tunnel
    BY DEF TypeOK, Tunnel
  <2>3. [session |-> c, id |-> next_id[c], kind |-> k, port |-> None] # None
    BY <2>2, RegistryAssumption DEF Tunnel
  <2>4. QED
    BY <1>2, <2>1, <2>2, <2>3 DEF OpenTunnel, TypeOK, RegistryTypeOK
<1>3. QED
  BY <1>1, <1>2

\* Both kinds of open request, as far as the invariant can tell.
LEMMA ClaimKeeps ==
  ASSUME IInv, TypeOK', NEW c \in Conns, NEW h \in Hosts, NEW k \in Kinds,
         pc[c] = "loop",
         OpenTunnel(h, c, next_id[c], k),
         next_id' = [next_id EXCEPT ![c] = @ + 1],
         UNCHANGED <<poolVars, to_release>>,
         \/ UNCHANGED <<pc, job>> /\ (OpenOutcome(h, c) = "Opened" => k = "http")
         \/ /\ OpenOutcome(h, c) = "Opened"
            /\ k = "tcp"
            /\ pc' = [pc EXCEPT ![c] = "lease"]
            /\ job'[c] # None
            /\ job'[c].id = next_id[c]
            /\ job'[c].host = h
            /\ \A d \in Conns \ {c} : job'[d] = job[d]
  PROVE  IInv'
<1> USE DEF IInv, poolVars
<1>0. /\ UNCHANGED <<sessions, by_user, cancel>>
      /\ \/ OpenOutcome(h, c) # "Opened" /\ hosts' = hosts
         \/ /\ OpenOutcome(h, c) = "Opened"
            /\ hosts[h] = None
            /\ hosts'[h] # None
            /\ hosts'[h].session = c
            /\ hosts'[h].id = next_id[c]
            /\ hosts'[h].kind = k
            /\ hosts'[h].port = None
            /\ \A g \in Hosts \ {h} : hosts'[g] = hosts[g]
  BY OpenTunnelIs
<1> USE <1>0
<1>1. TypeOK
  OBVIOUS
<1>2. next_id[c] \in Nat /\ next_id'[c] = next_id[c] + 1
  BY DEF TypeOK
<1>3. c \in sessions
  BY DEF NoOrphanRoute, Registered
<1>4. \A g \in Hosts : hosts[g] # None => hosts'[g] = hosts[g]
  OBVIOUS
<1>5. NoOrphanRoute'
  BY <1>3 DEF TypeOK, NoOrphanRoute, Registered
<1>6. IndexExact'
  BY DEF IndexExact
<1>7. JobInv'
  <2>1. ASSUME NEW d \in Conns, d # c
        PROVE  /\ job'[d] # None <=> Opening(d)' \/ (pc[d] = "close")'
               /\ job'[d] # None =>
                    /\ IsTunnel(job[d].host, d, job[d].id)'
                    /\ Opening(d)' => /\ hosts'[job'[d].host].kind = "tcp"
                                      /\ hosts'[job'[d].host].port = None
               /\ pc'[d] \in {"bind", "set_port"} =>
                    job'[d].port \in Ports /\ leased'[job'[d].port] = LeaseOf(d)'
               /\ pc'[d] = "set_port" => bound'[job'[d].port] = LeaseOf(d)'
    <3>1. pc'[d] = pc[d] /\ job'[d] = job[d]
      BY <2>1 DEF TypeOK
    <3>2. job[d] # None => job[d].host \in Hosts
      BY DEF TypeOK, Job
    <3>3. QED
      BY <3>1, <3>2, <1>4 DEF JobInv, Opening, IsTunnel, HeldBy, LeaseOf
  <2>2. CASE UNCHANGED <<pc, job>>
    <3>1. job'[c] = None /\ pc'[c] = "loop"
      BY <2>2 DEF JobInv, Opening
    <3>2. QED
      BY <2>1, <3>1 DEF JobInv, Opening
  <2>3. CASE ~UNCHANGED <<pc, job>>
    <3>1. /\ job'[c] # None
          /\ IsTunnel(job[c].host, c, job[c].id)'
          /\ hosts'[job'[c].host].kind = "tcp"
          /\ hosts'[job'[c].host].port = None
          /\ pc'[c] = "lease"
      BY <2>3 DEF IsTunnel, HeldBy, TypeOK
    <3>2. QED
      BY <2>1, <3>1 DEF JobInv, Opening
  <2>4. QED
    BY <2>2, <2>3
<1>8. IdInv'
  <2>1. \A g \in Hosts : hosts[g] # None =>
          hosts[g].id \in Nat /\ hosts[g].session \in Conns
    BY DEF TypeOK, RegistryTypeOK, Tunnel
  <2>2. \A g \in Hosts : hosts'[g] # None => hosts'[g].id < next_id'[hosts'[g].session]
    BY <1>2, <2>1 DEF TypeOK, IdInv
  <2>3. \A g \in Hosts : hosts[g] # None /\ hosts[g].session = c => hosts[g].id # next_id[c]
    BY <1>2, <2>1 DEF IdInv
  <2>4. QED
    BY <2>2, <2>3 DEF IdInv
<1>9. NoPortLeak'
  <2> SUFFICES ASSUME NEW p \in Ports, leased[p] # None
               PROVE  LET l == leased[p] IN
                      /\ IsTunnel(l.host, l.session, l.id)'
                      /\ hosts'[l.host].port = p \/ Leasing(l, p)'
    BY DEF NoPortLeak, Leasing, IsTunnel, HeldBy, LeaseOf
  <2> DEFINE l == leased[p]
  <2>1. l \in Lease
    BY DEF TypeOK, PoolTypeOK
  <2>2. IsTunnel(l.host, l.session, l.id) /\ (hosts[l.host].port = p \/ Leasing(l, p))
    BY DEF NoPortLeak
  <2>3. IsTunnel(l.host, l.session, l.id)' /\ hosts'[l.host] = hosts[l.host]
    BY <1>4, <2>1, <2>2 DEF IsTunnel, HeldBy, Lease
  <2>4. Leasing(l, p) => Leasing(l, p)'
    BY <2>1 DEF Leasing, LeaseOf, Lease, TypeOK
  <2>5. QED
    BY <2>2, <2>3, <2>4
<1>10. \A g \in Hosts : hosts[g] # None /\ Ending(g)' => Ending(g)
  BY <1>4 DEF TypeOK, RegistryTypeOK, Tunnel, Ending
<1>11. \A g \in Hosts : hosts[g] # None /\ Ending(g) => Ending(g)'
  BY <1>4 DEF TypeOK, RegistryTypeOK, Tunnel, Ending
<1>12. TunnelHoldsPort'
  BY <1>4, <1>11 DEF TunnelHoldsPort, TunnelLease
<1>13. hosts'[h] # None /\ hosts[h] = None => ~Ending(h)'
  BY DEF Ending, TypeOK
<1>14. ReleaseInv'
  BY <1>4, <1>10, <1>13 DEF TypeOK, ReleaseInv, TunnelLease
<1>15. ListenerInv'
  <2>1. \A l \in cancelled : l.id < next_id'[l.session]
    BY <1>2 DEF ListenerInv, TypeOK, PoolTypeOK, Lease
  <2>2. \A l \in cancelled : ~(Opening(l.session) /\ job[l.session].id = l.id)'
    BY DEF ListenerInv, TypeOK, PoolTypeOK, Lease, Opening
  <2>3. \A p \in Ports : bound[p] # None /\ bound[p].session = c => bound[p].id < next_id[c]
    BY DEF ListenersRouteHome, ListenerInv, IdInv, IsTunnel, HeldBy, TypeOK,
           PoolTypeOK, Lease
  <2>4. ASSUME NEW d \in Conns, (pc[d] \in {"lease", "bind", "roll_back"})',
               NEW p \in Ports
        PROVE  bound[p] # LeaseOf(d)'
    <3>1. CASE d = c
      <4>1. LeaseOf(d)'.session = c /\ LeaseOf(d)'.id = next_id[c]
        BY <2>4, <3>1 DEF LeaseOf
      <4>2. LeaseOf(d)' # None
        BY <2>4, <3>1, <1>2, PortPoolAssumption DEF LeaseOf, Lease
      <4>3. QED
        BY <2>3, <4>1, <4>2, <1>2
    <3>2. CASE d # c
      BY <2>4, <3>2 DEF ListenerInv, LeaseOf, TypeOK
    <3>3. QED
      BY <3>1, <3>2
  <2>5. QED
    BY <2>1, <2>2, <2>4 DEF ListenerInv, LeaseOf
<1>16. ListenersRouteHome'
  BY <1>4 DEF ListenersRouteHome, IsTunnel, HeldBy, TypeOK, PoolTypeOK, Lease
<1>17. NoDeadTunnel'
  BY <1>4 DEF TypeOK, RegistryTypeOK, Tunnel, NoDeadTunnel, Opening, Kinds
<1>18. QED
  BY <1>5, <1>6, <1>7, <1>8, <1>9, <1>12, <1>14, <1>15, <1>16, <1>17

\* An HTTP tunnel is a claim and nothing else.
LEMMA OpenHttpKeeps ==
  ASSUME IInv, NEW c \in Conns, NEW h \in Hosts, OpenHttp(c, h)
  PROVE  IInv'
<1> USE DEF OpenHttp, Request, NewId
<1>1. 0 \in 0..MissedHeartbeats /\ "http" \in Kinds
  BY ControlAssumption DEF Kinds
<1>2. TypeOK'
  BY <1>1, OpenTunnelIs DEF IInv, TypeOK, PoolTypeOK, poolVars
<1>3. QED
  BY <1>1, <1>2, ClaimKeeps

\* A TCP tunnel is a claim that leaves the task looking for a port.
LEMMA OpenTcpKeeps ==
  ASSUME IInv, NEW c \in Conns, NEW h \in Hosts, NEW w \in Wanted, OpenTcp(c, h, w)
  PROVE  IInv'
<1> USE DEF OpenTcp, Request, NewId
<1> DEFINE j == [id |-> next_id[c], host |-> h, wanted |-> w,
                 port |-> IF w = None THEN PortLo ELSE w]
<1>1. 0 \in 0..MissedHeartbeats /\ "tcp" \in Kinds
  BY ControlAssumption DEF Kinds
<1>2. j \in Job /\ j # None
  BY ControlAssumption, PortPoolAssumption DEF IInv, TypeOK, Job
<1>3. TypeOK'
  BY <1>1, <1>2, OpenTunnelIs DEF IInv, TypeOK, PoolTypeOK, poolVars, Phases
<1>4. \/ UNCHANGED <<pc, job>> /\ OpenOutcome(h, c) # "Opened"
      \/ /\ OpenOutcome(h, c) = "Opened"
         /\ pc' = [pc EXCEPT ![c] = "lease"]
         /\ job' = [job EXCEPT ![c] = j]
  OBVIOUS
<1>5. job' = [job EXCEPT ![c] = j] =>
        /\ job'[c] # None
        /\ job'[c].id = next_id[c]
        /\ job'[c].host = h
        /\ \A d \in Conns \ {c} : job'[d] = job[d]
  BY <1>2 DEF IInv, TypeOK
<1>6. QED
  BY <1>1, <1>3, <1>4, <1>5, ClaimKeeps

-----------------------------------------------------------------------------
(* The hunt for a port. *)

\* After a port that will not do: the tunnel is the same, and still opening.
LEMMA NextPortIs ==
  ASSUME TypeOK, NEW c \in Conns, pc[c] \in {"lease", "bind"}, job[c] # None, NextPort(c)
  PROVE  /\ pc'[c] \in {"lease", "roll_back"}
         /\ job'[c] # None
         /\ job'[c].id = job[c].id
         /\ job'[c].host = job[c].host
         /\ \A d \in Conns \ {c} : pc'[d] = pc[d] /\ job'[d] = job[d]
         /\ pc' \in [Conns -> Phases]
         /\ job' \in [Conns -> Job \cup {None}]
<1> USE DEF NextPort, TypeOK
<1>1. job[c] \in Job
  OBVIOUS
<1>2. [job[c] EXCEPT !.port = @ + 1] \in Job /\ [job[c] EXCEPT !.port = @ + 1] # None
  BY <1>1, ControlAssumption DEF Job
<1>3. CASE job[c].wanted = None
  <2>1. job' = [job EXCEPT ![c] = [job[c] EXCEPT !.port = @ + 1]]
    BY <1>3
  <2>2. [job[c] EXCEPT !.port = @ + 1].id = job[c].id
        /\ [job[c] EXCEPT !.port = @ + 1].host = job[c].host
    BY <1>1 DEF Job
  <2>3. QED
    BY <1>2, <1>3, <2>1, <2>2 DEF Phases
<1>4. CASE job[c].wanted # None
  BY <1>4 DEF Phases
<1>5. QED
  BY <1>3, <1>4

\* A step of the hunt that leaves the pool alone.
LEMMA HuntKeeps ==
  ASSUME IInv, TypeOK', NEW c \in Conns,
         pc[c] \in {"lease"},
         pc'[c] \in {"lease", "roll_back"},
         job'[c] # None,
         job'[c].id = job[c].id,
         job'[c].host = job[c].host,
         \A d \in Conns \ {c} : pc'[d] = pc[d] /\ job'[d] = job[d],
         UNCHANGED <<registryVars, poolVars, to_release, next_id>>
  PROVE  IInv'
<1> USE DEF IInv, registryVars, poolVars
<1>1. job[c] # None /\ LeaseOf(c)' = LeaseOf(c)
  BY DEF JobInv, Opening, LeaseOf
<1>2. NoOrphanRoute' /\ IndexExact'
  BY DEF NoOrphanRoute, Registered, IndexExact
<1>3. JobInv'
  BY DEF JobInv, Opening, IsTunnel, HeldBy, LeaseOf
<1>4. IdInv'
  BY DEF IdInv
<1>5. NoPortLeak'
  BY DEF TypeOK, PoolTypeOK, Lease, NoPortLeak, Leasing, IsTunnel, HeldBy, LeaseOf
<1>6. TunnelHoldsPort'
  BY DEF TypeOK, RegistryTypeOK, Tunnel, TunnelHoldsPort, Ending, TunnelLease
<1>7. ReleaseInv'
  BY DEF TypeOK, RegistryTypeOK, Tunnel, ReleaseInv, Ending, TunnelLease
<1>8. ListenerInv'
  BY <1>1 DEF TypeOK, PoolTypeOK, Lease, ListenerInv, Opening, LeaseOf
<1>9. ListenersRouteHome'
  BY DEF ListenersRouteHome, IsTunnel, HeldBy
<1>10. NoDeadTunnel'
  BY DEF TypeOK, RegistryTypeOK, Tunnel, NoDeadTunnel, Opening
<1>11. QED
  BY <1>2, <1>3, <1>4, <1>5, <1>6, <1>7, <1>8, <1>9, <1>10

\* A port found taken, and a pool found exhausted.
LEMMA LeaseTakenKeeps ==
  ASSUME IInv, NEW c \in Conns, LeaseTaken(c) \/ LeaseExhausted(c)
  PROVE  IInv'
<1> USE DEF IInv, LeaseTaken, LeaseExhausted, Go
<1>1. pc[c] = "lease" /\ job[c] # None
  BY DEF JobInv, Opening
<1>2. /\ pc'[c] \in {"lease", "roll_back"}
      /\ job'[c] # None
      /\ job'[c].id = job[c].id
      /\ job'[c].host = job[c].host
      /\ \A d \in Conns \ {c} : pc'[d] = pc[d] /\ job'[d] = job[d]
      /\ pc' \in [Conns -> Phases]
      /\ job' \in [Conns -> Job \cup {None}]
  BY <1>1, NextPortIs DEF TypeOK, Phases
<1>3. TypeOK'
  BY <1>2 DEF TypeOK, RegistryTypeOK, PoolTypeOK, registryVars, poolVars
<1>4. QED
  BY <1>1, <1>2, <1>3, HuntKeeps

\* The reservation is the tunnel's, and no other tunnel names the port.
LEMMA LeaseReserveKeeps ==
  ASSUME IInv, NEW c \in Conns, LeaseReserve(c)
  PROVE  IInv'
<1> USE DEF IInv, LeaseReserve, Reserve, registryVars
<1> DEFINE p == job[c].port
<1>1. /\ job[c] # None
      /\ IsTunnel(job[c].host, c, job[c].id)
      /\ hosts[job[c].host].port = None
  BY DEF JobInv, Opening
<1>2. /\ LeaseOf(c) \in Lease
      /\ LeaseOf(c) # None
      /\ LeaseOf(c).session = c
      /\ LeaseOf(c).id = job[c].id
      /\ LeaseOf(c).host = job[c].host
  BY <1>1, LeaseOfIs
<1>3. /\ leased'[p] = LeaseOf(c)
      /\ \A q \in Ports \ {p} : leased'[q] = leased[q]
      /\ LeaseOf(c)' = LeaseOf(c)
  BY DEF TypeOK, PoolTypeOK, LeaseOf
<1>4. TypeOK'
  BY <1>2 DEF TypeOK, RegistryTypeOK, PoolTypeOK, Phases
<1>5. NoOrphanRoute' /\ IndexExact'
  BY DEF TypeOK, NoOrphanRoute, Registered, IndexExact
<1>6. JobInv'
  <2>1. ASSUME NEW d \in Conns, d # c, pc[d] \in {"bind", "set_port"}
        PROVE  job[d].port # p
    BY <2>1, LeaseOfIs DEF JobInv, Opening
  <2>2. QED
    BY <1>1, <1>3, <2>1 DEF TypeOK, JobInv, Opening, IsTunnel, HeldBy, LeaseOf
<1>7. IdInv'
  BY DEF IdInv
<1>8. NoPortLeak'
  <2>1. ASSUME NEW q \in Ports \ {p}, leased[q] # None
        PROVE  LET l == leased[q] IN
               /\ IsTunnel(l.host, l.session, l.id)'
               /\ hosts'[l.host].port = q \/ Leasing(l, q)'
    BY <2>1 DEF NoPortLeak, Leasing, IsTunnel, HeldBy, LeaseOf, TypeOK, PoolTypeOK, Lease
  <2>2. IsTunnel(LeaseOf(c).host, c, LeaseOf(c).id)' /\ Leasing(LeaseOf(c), p)'
    BY <1>1, <1>2, <1>3 DEF Leasing, IsTunnel, HeldBy, TypeOK
  <2>3. QED
    BY <1>2, <1>3, <2>1, <2>2 DEF NoPortLeak, Leasing, IsTunnel, HeldBy, LeaseOf
<1>9. \A h \in Hosts : hosts[h] # None => (Ending(h)' <=> Ending(h))
  BY DEF TypeOK, RegistryTypeOK, Tunnel, Ending
<1>10. TunnelHoldsPort'
  <2> SUFFICES ASSUME NEW h \in Hosts, hosts[h] # None, hosts[h].port # None, ~Ending(h)
               PROVE  leased'[hosts[h].port] = TunnelLease(h)
    BY <1>9 DEF TunnelHoldsPort, TunnelLease
  <2>1. leased[hosts[h].port] = TunnelLease(h) /\ TunnelLease(h) # None
    BY TunnelLeaseIs DEF TunnelHoldsPort
  <2>2. hosts[h].port \in Ports \ {p}
    BY <2>1 DEF TypeOK, RegistryTypeOK, Tunnel
  <2>3. QED
    BY <1>3, <2>1, <2>2
<1>11. ReleaseInv'
  <2>1. \A h \in Hosts : hosts[h] # None /\ Ending(h) => LeaseOf(c) # TunnelLease(h)
    BY <1>2, TunnelLeaseIs DEF Ending
  <2>2. QED
    BY <1>3, <1>9, <2>1 DEF ReleaseInv, TunnelLease, TypeOK
<1>12. ListenerInv'
  BY DEF TypeOK, PoolTypeOK, Lease, ListenerInv, Opening, LeaseOf
<1>13. ListenersRouteHome'
  BY <1>3 DEF ListenersRouteHome, IsTunnel, HeldBy
<1>14. NoDeadTunnel'
  BY DEF TypeOK, RegistryTypeOK, Tunnel, NoDeadTunnel, Opening
<1>15. QED
  BY <1>4, <1>5, <1>6, <1>7, <1>8, <1>10, <1>11, <1>12, <1>13, <1>14

\* The listener is the only one of its tunnel.
LEMMA LeaseBindsKeeps ==
  ASSUME IInv, NEW c \in Conns, LeaseBinds(c)
  PROVE  IInv'
<1> USE DEF IInv, LeaseBinds, Bind, CanBind, Go, registryVars
<1> DEFINE p == job[c].port
<1>1. /\ job[c] # None
      /\ IsTunnel(job[c].host, c, job[c].id)
      /\ p \in Ports
      /\ leased[p] = LeaseOf(c)
  BY DEF JobInv, Opening
<1>2. /\ LeaseOf(c) \in Lease
      /\ LeaseOf(c) # None
      /\ LeaseOf(c).session = c
      /\ LeaseOf(c).id = job[c].id
      /\ LeaseOf(c).host = job[c].host
  BY <1>1, LeaseOfIs
<1>3. /\ bound[p] = None
      /\ bound'[p] = LeaseOf(c)
      /\ \A q \in Ports \ {p} : bound'[q] = bound[q]
      /\ LeaseOf(c)' = LeaseOf(c)
  BY <1>1 DEF TypeOK, PoolTypeOK, LeaseOf
<1>4. TypeOK'
  BY <1>2 DEF TypeOK, RegistryTypeOK, PoolTypeOK, Phases
<1>5. NoOrphanRoute' /\ IndexExact'
  BY DEF TypeOK, NoOrphanRoute, Registered, IndexExact
<1>6. JobInv'
  <2>1. ASSUME NEW d \in Conns, d # c, pc[d] = "set_port"
        PROVE  bound'[job[d].port] = LeaseOf(d)
    <3>1. job[d].port \in Ports /\ bound[job[d].port] = LeaseOf(d) /\ job[d] # None
      BY <2>1 DEF JobInv, Opening
    <3>2. LeaseOf(d) # None
      BY <3>1, LeaseOfIs
    <3>3. QED
      BY <1>3, <3>1, <3>2
  <2>2. QED
    BY <1>1, <1>3, <2>1 DEF TypeOK, JobInv, Opening, IsTunnel, HeldBy, LeaseOf
<1>7. IdInv'
  BY DEF IdInv
<1>8. NoPortLeak'
  BY DEF TypeOK, PoolTypeOK, Lease, NoPortLeak, Leasing, IsTunnel, HeldBy, LeaseOf
<1>9. \A h \in Hosts : hosts[h] # None => (Ending(h)' <=> Ending(h))
  BY DEF TypeOK, RegistryTypeOK, Tunnel, Ending
<1>10. TunnelHoldsPort'
  <2> SUFFICES ASSUME NEW h \in Hosts, hosts[h] # None, hosts[h].port # None, ~Ending(h)
               PROVE  bound'[hosts[h].port] = TunnelLease(h)
    BY <1>9 DEF TunnelHoldsPort, TunnelLease
  <2>1. bound[hosts[h].port] = TunnelLease(h) /\ TunnelLease(h) # None
    BY TunnelLeaseIs DEF TunnelHoldsPort
  <2>2. hosts[h].port \in Ports \ {p}
    BY <1>3, <2>1 DEF TypeOK, RegistryTypeOK, Tunnel
  <2>3. QED
    BY <1>3, <2>1, <2>2
<1>11. ReleaseInv'
  BY <1>9 DEF ReleaseInv, TunnelLease, TypeOK
<1>12. ListenerInv'
  <2>1. \A q \in Ports : bound[q] # LeaseOf(c)
    BY DEF ListenerInv
  <2>2. \A q, r \in Ports : bound'[q] # None /\ bound'[q] = bound'[r] => q = r
    BY <1>3, <2>1 DEF ListenerInv
  <2>3. ASSUME NEW d \in Conns, d # c, pc[d] \in {"lease", "bind", "roll_back"},
               NEW q \in Ports
        PROVE  bound'[q] # LeaseOf(d)
    BY <1>2, <1>3, <2>3 DEF ListenerInv, LeaseOf
  <2>4. QED
    BY <2>2, <2>3 DEF TypeOK, PoolTypeOK, Lease, ListenerInv, Opening, LeaseOf
<1>13. ListenersRouteHome'
  BY <1>1, <1>2, <1>3 DEF ListenersRouteHome, IsTunnel, HeldBy
<1>14. NoDeadTunnel'
  BY DEF TypeOK, RegistryTypeOK, Tunnel, NoDeadTunnel, Opening
<1>15. QED
  BY <1>4, <1>5, <1>6, <1>7, <1>8, <1>10, <1>11, <1>12, <1>13, <1>14

\* The reservation struck out is the task's own, and had no listener.
LEMMA LeaseBindFailsKeeps ==
  ASSUME IInv, NEW c \in Conns, LeaseBindFails(c)
  PROVE  IInv'
<1> USE DEF IInv, LeaseBindFails, Unreserve, registryVars
<1> DEFINE p == job[c].port
<1>1. /\ job[c] # None
      /\ IsTunnel(job[c].host, c, job[c].id)
      /\ hosts[job[c].host].port = None
      /\ p \in Ports
      /\ leased[p] = LeaseOf(c)
  BY DEF JobInv, Opening
<1>2. /\ LeaseOf(c) \in Lease
      /\ LeaseOf(c) # None
      /\ LeaseOf(c).session = c
      /\ LeaseOf(c).id = job[c].id
      /\ LeaseOf(c).host = job[c].host
  BY <1>1, LeaseOfIs
<1>3. /\ leased'[p] = None
      /\ \A q \in Ports \ {p} : leased'[q] = leased[q]
  BY <1>1 DEF TypeOK, PoolTypeOK
<1>4. /\ pc'[c] \in {"lease", "roll_back"}
      /\ job'[c] # None
      /\ job'[c].id = job[c].id
      /\ job'[c].host = job[c].host
      /\ \A d \in Conns \ {c} : pc'[d] = pc[d] /\ job'[d] = job[d]
      /\ pc' \in [Conns -> Phases]
      /\ job' \in [Conns -> Job \cup {None}]
      /\ LeaseOf(c)' = LeaseOf(c)
  BY <1>1, NextPortIs DEF LeaseOf
<1>5. TypeOK'
  BY <1>4 DEF TypeOK, RegistryTypeOK, PoolTypeOK
<1>6. NoOrphanRoute' /\ IndexExact'
  BY <1>4 DEF NoOrphanRoute, Registered, IndexExact
<1>7. JobInv'
  <2>1. ASSUME NEW d \in Conns, d # c, pc[d] \in {"bind", "set_port"}
        PROVE  job[d].port # p
    <3>1. job[d] # None /\ leased[job[d].port] = LeaseOf(d)
      BY <2>1 DEF JobInv, Opening
    <3>2. QED
      BY <1>1, <1>2, <2>1, <3>1, LeaseOfIs
  <2>2. QED
    BY <1>1, <1>3, <1>4, <2>1 DEF JobInv, Opening, IsTunnel, HeldBy, LeaseOf
<1>8. IdInv'
  BY DEF IdInv
<1>9. NoPortLeak'
  BY <1>3, <1>4 DEF TypeOK, PoolTypeOK, Lease, NoPortLeak, Leasing, IsTunnel, HeldBy, LeaseOf
<1>10. \A h \in Hosts : hosts[h] # None => (Ending(h)' <=> Ending(h))
  BY <1>4 DEF TypeOK, RegistryTypeOK, Tunnel, Ending
<1>11. TunnelHoldsPort'
  <2> SUFFICES ASSUME NEW h \in Hosts, hosts[h] # None, hosts[h].port # None, ~Ending(h)
               PROVE  leased'[hosts[h].port] = TunnelLease(h)
    BY <1>10 DEF TunnelHoldsPort, TunnelLease
  <2>1. leased[hosts[h].port] = TunnelLease(h) /\ TunnelLease(h).host = h
    BY TunnelLeaseIs DEF TunnelHoldsPort
  <2>2. hosts[h].port \in Ports \ {p}
    BY <1>1, <1>2, <2>1 DEF TypeOK, RegistryTypeOK, Tunnel
  <2>3. QED
    BY <1>3, <2>1, <2>2
<1>12. ReleaseInv'
  <2>1. \A d \in Conns : to_release[d] # {} => d # c
    BY DEF ReleaseInv
  <2>2. \A d \in Conns : p \notin to_release[d]
    BY <1>1, <1>2, <2>1 DEF ReleaseInv
  <2>3. \A h \in Hosts : hosts[h] # None => TunnelLease(h) # None
    BY TunnelLeaseIs
  <2>4. QED
    BY <1>3, <1>4, <1>10, <2>2, <2>3 DEF ReleaseInv, TunnelLease, TypeOK
<1>13. ListenerInv'
  BY <1>4 DEF TypeOK, PoolTypeOK, Lease, ListenerInv, Opening, LeaseOf
<1>14. ListenersRouteHome'
  <2>1. bound[p] # LeaseOf(c)
    BY <1>1 DEF ListenerInv
  <2>2. QED
    BY <1>1, <1>3, <2>1 DEF ListenersRouteHome, IsTunnel, HeldBy
<1>15. NoDeadTunnel'
  BY <1>4 DEF TypeOK, RegistryTypeOK, Tunnel, NoDeadTunnel, Opening
<1>16. QED
  BY <1>5, <1>6, <1>7, <1>8, <1>9, <1>11, <1>12, <1>13, <1>14, <1>15

\* The port noted in the table is the one leased and bound for the tunnel.
LEMMA FinishOpenKeeps ==
  ASSUME IInv, NEW c \in Conns, FinishOpen(c)
  PROVE  IInv'
<1> USE DEF IInv, FinishOpen, SetTcpPort, Go, poolVars
<1> PICK p, h : p = job[c].port /\ h = job[c].host
  OBVIOUS
<1>1. /\ job[c] # None
      /\ h \in Hosts
      /\ IsTunnel(h, c, job[c].id)
      /\ hosts[h].kind = "tcp"
      /\ hosts[h].port = None
      /\ p \in Ports
      /\ leased[p] = LeaseOf(c)
      /\ bound[p] = LeaseOf(c)
      /\ LeaseOf(c) \notin cancelled
  BY DEF JobInv, Opening, TypeOK, Job, ListenerInv, LeaseOf
<1>2. /\ LeaseOf(c) \in Lease
      /\ LeaseOf(c) # None
      /\ LeaseOf(c).session = c
      /\ LeaseOf(c).id = job[c].id
      /\ LeaseOf(c).host = h
  BY <1>1, LeaseOfIs
<1>3. /\ hosts' = [hosts EXCEPT ![h] = [hosts[h] EXCEPT !.port = p]]
      /\ hosts[h] \in Tunnel
  BY <1>1 DEF IsTunnel, HeldBy, TypeOK, RegistryTypeOK
<1>4. /\ hosts'[h] \in Tunnel
      /\ hosts'[h] # None
      /\ hosts'[h].session = c
      /\ hosts'[h].id = job[c].id
      /\ hosts'[h].kind = "tcp"
      /\ hosts'[h].port = p
      /\ \A g \in Hosts \ {h} : hosts'[g] = hosts[g]
  BY <1>1, <1>3, RegistryAssumption DEF Tunnel, IsTunnel, HeldBy, TypeOK, RegistryTypeOK
<1>5. hosts[h] # None /\ hosts[h].session = c /\ hosts[h].id = job[c].id
  BY <1>1 DEF IsTunnel, HeldBy
<1>6. \A g \in Hosts : /\ (hosts'[g] # None <=> hosts[g] # None)
                       /\ hosts[g] # None =>
                            /\ hosts'[g].session = hosts[g].session
                            /\ hosts'[g].id = hosts[g].id
                            /\ TunnelLease(g)' = TunnelLease(g)
  BY <1>4, <1>5 DEF TunnelLease
<1>7. TypeOK'
  BY <1>3, <1>4 DEF TypeOK, RegistryTypeOK, PoolTypeOK, Phases
<1>8. NoOrphanRoute' /\ IndexExact'
  BY <1>6 DEF TypeOK, NoOrphanRoute, Registered, IndexExact
<1>9. JobInv'
  <2>1. ASSUME NEW d \in Conns, d # c, job[d] # None
        PROVE  job[d].host \in Hosts \ {h}
    BY <1>5, <2>1 DEF JobInv, IsTunnel, HeldBy, TypeOK, Job
  <2>2. QED
    BY <1>4, <2>1 DEF TypeOK, JobInv, Opening, IsTunnel, HeldBy, LeaseOf
<1>10. IdInv'
  BY <1>6 DEF IdInv
<1>11. NoPortLeak'
  <2> SUFFICES ASSUME NEW q \in Ports, leased[q] # None
               PROVE  LET l == leased[q] IN
                      /\ IsTunnel(l.host, l.session, l.id)'
                      /\ hosts'[l.host].port = q \/ Leasing(l, q)'
    BY DEF NoPortLeak, Leasing, IsTunnel, HeldBy, LeaseOf
  <2> DEFINE l == leased[q]
  <2>1. l \in Lease /\ l.host \in Hosts /\ l.session \in Conns
    BY DEF TypeOK, PoolTypeOK, Lease
  <2>2. IsTunnel(l.host, l.session, l.id) /\ (hosts[l.host].port = q \/ Leasing(l, q))
    BY DEF NoPortLeak
  <2>3. IsTunnel(l.host, l.session, l.id)'
    BY <1>6, <2>1, <2>2 DEF IsTunnel, HeldBy
  <2>4. CASE l.session = c
    <3>1. CASE Leasing(l, q)
      BY <1>2, <1>4, <2>3, <2>4, <3>1 DEF Leasing
    <3>2. CASE hosts[l.host].port = q
      <4>1. l.host # h
        BY <1>1, <3>2, RegistryAssumption
      <4>2. QED
        BY <1>4, <2>1, <2>3, <3>2, <4>1
    <3>3. QED
      BY <2>2, <3>1, <3>2
  <2>5. CASE l.session # c
    <3>1. l.host # h
      BY <1>5, <2>2, <2>5 DEF IsTunnel, HeldBy
    <3>2. Leasing(l, q) => Leasing(l, q)'
      BY <2>1, <2>5 DEF Leasing, LeaseOf, TypeOK
    <3>3. QED
      BY <1>4, <2>1, <2>2, <2>3, <3>1, <3>2
  <2>6. QED
    BY <2>4, <2>5
<1>12. \A g \in Hosts : hosts[g] # None /\ g # h => (Ending(g)' <=> Ending(g))
  BY <1>4 DEF TypeOK, RegistryTypeOK, Tunnel, Ending
<1>13. ~Ending(h)'
  <2>1. pc'[c] = "loop"
    BY DEF TypeOK
  <2>2. QED
    BY <1>4, <2>1 DEF Ending
<1>14. TunnelHoldsPort'
  <2>1. TunnelLease(h) = LeaseOf(c)
    BY <1>5 DEF TunnelLease, LeaseOf
  <2>2. QED
    BY <1>1, <1>4, <1>6, <1>12, <2>1 DEF TunnelHoldsPort
<1>15. ReleaseInv'
  <2>1. \A g \in Hosts : hosts'[g] # None /\ Ending(g)' =>
          \A q \in Ports : leased[q] # TunnelLease(g)'
    BY <1>6, <1>12, <1>13 DEF ReleaseInv
  <2>2. \A d \in Conns : pc'[d] # "cleanup" => to_release[d] = {}
    BY DEF ReleaseInv, TypeOK
  <2>3. QED
    BY <2>1, <2>2 DEF ReleaseInv
<1>16. ListenerInv'
  BY DEF TypeOK, PoolTypeOK, Lease, ListenerInv, Opening, LeaseOf
<1>17. ListenersRouteHome'
  BY <1>6 DEF TypeOK, PoolTypeOK, Lease, ListenersRouteHome, IsTunnel, HeldBy
<1>18. NoDeadTunnel'
  <2>1. \A g \in Hosts \ {h} : hosts[g] # None /\ hosts[g].session = c
          => hosts[g].id # job[c].id
    BY <1>1, <1>5 DEF IdInv
  <2>2. p # None
    BY <1>1, RegistryAssumption
  <2>3. QED
    BY <1>4, <2>1, <2>2 DEF TypeOK, RegistryTypeOK, Tunnel, NoDeadTunnel, Opening
<1>19. QED
  BY <1>7, <1>8, <1>9, <1>10, <1>11, <1>14, <1>15, <1>16, <1>17, <1>18

-----------------------------------------------------------------------------
(* A tunnel leaves the table: after a lease that failed, or on request. *)

\* What giving up the tunnel of a request does to the table.
LEMMA CloseTunnelIs ==
  ASSUME IInv, NEW c \in Conns, job[c] # None, CloseTunnel(c, job[c].id)
  PROVE  /\ UNCHANGED <<sessions, by_user, cancel>>
         /\ job[c].host \in Hosts
         /\ hosts'[job[c].host] = None
         /\ \A g \in Hosts \ {job[c].host} : hosts'[g] = hosts[g]
         /\ RegistryTypeOK'
<1> USE DEF IInv
<1>1. job[c].host \in Hosts /\ IsTunnel(job[c].host, c, job[c].id)
  BY DEF JobInv, TypeOK, Job
<1>2. \A g \in Hosts : IsTunnel(g, c, job[c].id) => g = job[c].host
  BY <1>1 DEF IdInv, IsTunnel, HeldBy
<1>3. QED
  BY <1>1, <1>2 DEF CloseTunnel, TypeOK, RegistryTypeOK

\* A tunnel leaves the table when nothing in the books points at it.
LEMMA GiveUpKeeps ==
  ASSUME IInv, TypeOK', NEW c \in Conns,
         pc[c] \in {"roll_back", "close"},
         pc' = [pc EXCEPT ![c] = "loop"],
         CloseTunnel(c, job[c].id),
         job' = [job EXCEPT ![c] = None],
         UNCHANGED <<poolVars, to_release, next_id>>
  PROVE  IInv'
<1> USE DEF IInv, poolVars
<1> DEFINE h == job[c].host
<1>1. /\ job[c] # None
      /\ IsTunnel(h, c, job[c].id)
      /\ pc[c] = "roll_back" => hosts[h].port = None
      /\ pc[c] = "close" => Ending(h)
  BY DEF JobInv, Opening, IsTunnel, HeldBy, Ending
<1>2. /\ UNCHANGED <<sessions, by_user, cancel>>
      /\ h \in Hosts
      /\ hosts'[h] = None
      /\ \A g \in Hosts \ {h} : hosts'[g] = hosts[g]
  BY <1>1, CloseTunnelIs
<1>3. hosts[h] # None /\ hosts[h].session = c /\ hosts[h].id = job[c].id
  BY <1>1 DEF IsTunnel, HeldBy
<1>4. \A p \in Ports : leased[p] # None => leased[p].host # h
  <2> SUFFICES ASSUME NEW p \in Ports, leased[p] # None, leased[p].host = h
               PROVE  FALSE
    OBVIOUS
  <2>1. /\ IsTunnel(h, leased[p].session, leased[p].id)
        /\ hosts[h].port = p \/ Leasing(leased[p], p)
    BY DEF NoPortLeak
  <2>2. leased[p].session = c /\ leased[p].id = job[c].id /\ leased[p] \in Lease
    BY <1>3, <2>1 DEF IsTunnel, HeldBy, TypeOK, PoolTypeOK
  <2>3. hosts[h].port = p
    BY <2>1, <2>2 DEF Leasing
  <2>4. leased[p] = TunnelLease(h)
    BY <1>3, <2>2 DEF TunnelLease, Lease
  <2>5. CASE pc[c] = "roll_back"
    BY <1>1, <2>3, <2>5, RegistryAssumption
  <2>6. CASE pc[c] = "close"
    BY <1>1, <1>2, <1>3, <2>4, <2>6 DEF ReleaseInv
  <2>7. QED
    BY <2>5, <2>6
<1>5. NoOrphanRoute' /\ IndexExact'
  BY <1>2 DEF TypeOK, NoOrphanRoute, Registered, IndexExact
<1>6. JobInv'
  <2>1. ASSUME NEW d \in Conns, d # c, job[d] # None
        PROVE  job[d].host \in Hosts \ {h}
    BY <1>3, <2>1 DEF JobInv, IsTunnel, HeldBy, TypeOK, Job
  <2>2. QED
    BY <1>2, <2>1 DEF TypeOK, JobInv, Opening, IsTunnel, HeldBy, LeaseOf
<1>7. IdInv'
  BY <1>2 DEF IdInv
<1>8. NoPortLeak'
  <2> SUFFICES ASSUME NEW q \in Ports, leased[q] # None
               PROVE  LET l == leased[q] IN
                      /\ IsTunnel(l.host, l.session, l.id)'
                      /\ hosts'[l.host].port = q \/ Leasing(l, q)'
    BY DEF NoPortLeak, Leasing, IsTunnel, HeldBy, LeaseOf
  <2> DEFINE l == leased[q]
  <2>1. l.host \in Hosts \ {h} /\ l.session \in Conns
    BY <1>4 DEF TypeOK, PoolTypeOK, Lease
  <2>2. IsTunnel(l.host, l.session, l.id) /\ (hosts[l.host].port = q \/ Leasing(l, q))
    BY DEF NoPortLeak
  <2>3. Leasing(l, q) => Leasing(l, q)'
    BY <2>1 DEF Leasing, LeaseOf, TypeOK
  <2>4. QED
    BY <1>2, <2>1, <2>2, <2>3 DEF IsTunnel, HeldBy
<1>9. \A g \in Hosts \ {h} : hosts[g] # None => (Ending(g)' <=> Ending(g))
  <2>1. \A g \in Hosts \ {h} : hosts[g] # None /\ hosts[g].session = c
          => hosts[g].id # job[c].id
    BY <1>2, <1>3 DEF IdInv
  <2>2. QED
    BY <1>2, <2>1 DEF TypeOK, RegistryTypeOK, Tunnel, Ending
<1>10. TunnelHoldsPort'
  BY <1>2, <1>9 DEF TunnelHoldsPort, TunnelLease
<1>11. ReleaseInv'
  BY <1>2, <1>9 DEF ReleaseInv, TunnelLease, TypeOK
<1>12. ListenerInv'
  BY DEF TypeOK, PoolTypeOK, Lease, ListenerInv, Opening, LeaseOf
<1>13. ListenersRouteHome'
  BY <1>2, <1>4 DEF TypeOK, PoolTypeOK, Lease, ListenersRouteHome, IsTunnel, HeldBy
<1>14. NoDeadTunnel'
  BY <1>2, <1>3 DEF TypeOK, RegistryTypeOK, Tunnel, NoDeadTunnel, Opening, IdInv
<1>15. QED
  BY <1>5, <1>6, <1>7, <1>8, <1>10, <1>11, <1>12, <1>13, <1>14

\* A failed open and the end of a close.
LEMMA RollBackKeeps ==
  ASSUME IInv, NEW c \in Conns, RollBack(c) \/ FinishClose(c)
  PROVE  IInv'
<1> USE DEF RollBack, FinishClose, Go
<1>1. job[c] # None
  BY DEF IInv, JobInv, Opening
<1>2. TypeOK'
  BY <1>1, CloseTunnelIs DEF IInv, TypeOK, PoolTypeOK, poolVars, Phases
<1>3. QED
  BY <1>2, GiveUpKeeps DEF IInv, TypeOK

\* The port of a tunnel being closed goes back before its name.
LEMMA CloseRequestKeeps ==
  ASSUME IInv, NEW c \in Conns, NEW h \in Hosts, CloseRequest(c, h)
  PROVE  IInv'
<1> USE DEF IInv, CloseRequest, Request, HeldBy, registryVars
<1> DEFINE p == hosts[h].port
           j == [id |-> hosts[h].id, host |-> h, wanted |-> None, port |-> PortLo]
<1>1. hosts[h] # None /\ hosts[h].session = c /\ hosts[h] \in Tunnel
  BY DEF TypeOK, RegistryTypeOK
<1>2. j \in Job /\ j # None
  BY <1>1, PortPoolAssumption, ControlAssumption DEF Job, Tunnel
<1>3. job'[c] = j /\ pc'[c] = "close"
      /\ \A d \in Conns \ {c} : pc'[d] = pc[d] /\ job'[d] = job[d]
  BY DEF TypeOK
<1>4. /\ TunnelLease(h) \in Lease
      /\ TunnelLease(h) # None
      /\ TunnelLease(h).session = c
      /\ TunnelLease(h).id = hosts[h].id
      /\ TunnelLease(h).host = h
  BY <1>1, TunnelLeaseIs
<1>5. ~Ending(h)
  BY <1>1 DEF Ending
<1>6. \/ p = None /\ UNCHANGED poolVars
      \/ /\ p \in Ports
         /\ leased[p] = TunnelLease(h)
         /\ leased'[p] = None
         /\ \A q \in Ports \ {p} : leased'[q] = leased[q]
         /\ leased' \in [Ports -> Lease \cup {None}]
         /\ cancelled' = cancelled \cup {TunnelLease(h)}
         /\ bound' = bound
  <2>1. CASE p = None
    BY <2>1
  <2>2. CASE p # None
    <3>1. p \in Ports /\ leased[p] = TunnelLease(h)
      BY <1>1, <1>5, <2>2 DEF TunnelHoldsPort, Tunnel
    <3>2. QED
      BY <1>4, <2>2, <3>1 DEF Release, TypeOK, PoolTypeOK
  <2>3. QED
    BY <2>1, <2>2
<1>7. \A q \in Ports : leased[q] = TunnelLease(h) => q = p
  BY <1>1, <1>4 DEF NoPortLeak, Leasing
<1>8. \A q \in Ports : leased'[q] # TunnelLease(h)
  BY <1>4, <1>6, <1>7, RegistryAssumption DEF poolVars
<1>9. TypeOK'
  <2>1. PoolTypeOK'
    BY <1>4, <1>6 DEF TypeOK, PoolTypeOK, poolVars
  <2>2. 0 \in 0..MissedHeartbeats
    BY ControlAssumption
  <2>3. QED
    BY <1>2, <2>1, <2>2 DEF TypeOK, RegistryTypeOK, Phases
<1>10. NoOrphanRoute' /\ IndexExact'
  BY <1>3 DEF NoOrphanRoute, Registered, IndexExact
<1>11. JobInv'
  <2>1. ASSUME NEW d \in Conns, d # c, pc[d] \in {"bind", "set_port"}
        PROVE  leased'[job[d].port] = LeaseOf(d) /\ bound'[job[d].port] = bound[job[d].port]
    <3>1. job[d] # None /\ job[d].port \in Ports /\ leased[job[d].port] = LeaseOf(d)
      BY <2>1 DEF JobInv, Opening
    <3>2. LeaseOf(d) # TunnelLease(h)
      BY <1>4, <2>1, <3>1, LeaseOfIs
    <3>3. QED
      BY <1>6, <3>1, <3>2 DEF poolVars
  <2>2. IsTunnel(h, c, hosts[h].id)
    BY <1>1 DEF IsTunnel
  <2>3. QED
    BY <1>2, <1>3, <2>1, <2>2 DEF JobInv, Opening, IsTunnel, LeaseOf
<1>12. IdInv'
  BY DEF IdInv
<1>13. \A q \in Ports : leased'[q] # None => leased'[q] = leased[q]
  BY <1>6 DEF poolVars
<1>14. NoPortLeak'
  BY <1>3, <1>13 DEF TypeOK, PoolTypeOK, Lease, NoPortLeak, Leasing, IsTunnel, LeaseOf
<1>15. \A g \in Hosts \ {h} : hosts[g] # None => (Ending(g)' <=> Ending(g))
  <2>1. \A g \in Hosts \ {h} : hosts[g] # None /\ hosts[g].session = c
          => hosts[g].id # hosts[h].id
    BY <1>1 DEF IdInv
  <2>2. QED
    BY <1>1, <1>3, <2>1 DEF TypeOK, RegistryTypeOK, Tunnel, Ending
<1>16. Ending(h)'
  BY <1>1, <1>3 DEF Ending
<1>17. TunnelHoldsPort'
  <2> SUFFICES ASSUME NEW g \in Hosts \ {h}, hosts[g] # None, hosts[g].port # None,
                      ~Ending(g)
               PROVE  /\ leased'[hosts[g].port] = TunnelLease(g)
                      /\ bound'[hosts[g].port] = TunnelLease(g)
                      /\ TunnelLease(g) \notin cancelled'
    BY <1>15, <1>16 DEF TunnelHoldsPort, TunnelLease
  <2>1. /\ leased[hosts[g].port] = TunnelLease(g)
        /\ bound[hosts[g].port] = TunnelLease(g)
        /\ TunnelLease(g) \notin cancelled
        /\ hosts[g].port \in Ports
    BY DEF TunnelHoldsPort, TypeOK, RegistryTypeOK, Tunnel
  <2>2. TunnelLease(g) # TunnelLease(h)
    BY <1>4, TunnelLeaseIs
  <2>3. QED
    BY <1>6, <2>1, <2>2 DEF poolVars
<1>18. ReleaseInv'
  <2>1. \A g \in Hosts \ {h} : hosts[g] # None /\ Ending(g)' =>
          \A q \in Ports : leased'[q] # TunnelLease(g)
    <3>1. \A g \in Hosts : hosts[g] # None => TunnelLease(g) # None
      BY TunnelLeaseIs
    <3>2. QED
      BY <1>13, <1>15, <3>1 DEF ReleaseInv
  <2>2. \A d \in Conns : to_release[d] # {} => pc[d] = "cleanup" /\ d # c
    BY DEF ReleaseInv
  <2>3. \A d \in Conns : \A q \in to_release[d] : q \in Ports /\ leased'[q] = leased[q]
    BY <1>4, <1>6, <2>2 DEF ReleaseInv, TypeOK, poolVars
  <2>4. QED
    BY <1>3, <1>8, <2>1, <2>2, <2>3 DEF ReleaseInv, TunnelLease
<1>19. ListenerInv'
  <2>1. hosts[h].id < next_id[c]
    BY <1>1 DEF IdInv
  <2>2. bound' = bound /\ cancelled' \subseteq cancelled \cup {TunnelLease(h)}
    BY <1>6 DEF poolVars
  <2>3. \A l \in cancelled' : /\ l.id < next_id[l.session]
                              /\ ~(Opening(l.session) /\ job[l.session].id = l.id)'
    BY <1>3, <1>4, <2>1, <2>2 DEF ListenerInv, Opening, TypeOK, PoolTypeOK, Lease
  <2>4. QED
    BY <1>3, <2>2, <2>3 DEF ListenerInv, LeaseOf
<1>20. ListenersRouteHome'
  BY <1>6, <1>13 DEF ListenersRouteHome, IsTunnel, poolVars
<1>21. NoDeadTunnel'
  BY <1>1, <1>3 DEF TypeOK, RegistryTypeOK, Tunnel, NoDeadTunnel, Opening
<1>22. QED
  BY <1>9, <1>10, <1>11, <1>12, <1>14, <1>17, <1>18, <1>19, <1>20, <1>21

-----------------------------------------------------------------------------
(* A listener stops. *)

\* Only a listener that was told to stop does.
LEMMA ListenerKeeps ==
  ASSUME IInv, NEW p \in Ports, ListenerTask(p)
  PROVE  IInv'
<1> USE DEF IInv, ListenerTask, ListenerStops, registryVars, taskVars
<1>1. TypeOK'
  BY DEF TypeOK, RegistryTypeOK, PoolTypeOK
<1>2. /\ bound[p] # None
      /\ bound[p] \in cancelled
      /\ bound'[p] = None
      /\ \A q \in Ports \ {p} : bound'[q] = bound[q]
      /\ \A q \in Ports \ {p} : bound[q] # bound[p]
  BY DEF TypeOK, PoolTypeOK, ListenerInv
<1>3. NoOrphanRoute' /\ IndexExact'
  BY DEF NoOrphanRoute, Registered, IndexExact
<1>4. JobInv'
  <2>1. ASSUME NEW c \in Conns, pc[c] = "set_port"
        PROVE  bound'[job[c].port] = LeaseOf(c)
    <3>1. job[c] # None /\ job[c].port \in Ports /\ bound[job[c].port] = LeaseOf(c)
      BY <2>1 DEF JobInv, Opening
    <3>2. LeaseOf(c) \notin cancelled
      BY <2>1, <3>1, LeaseOfIs DEF ListenerInv, Opening
    <3>3. QED
      BY <1>2, <3>1, <3>2
  <2>2. QED
    BY <2>1 DEF JobInv, Opening, IsTunnel, HeldBy, LeaseOf
<1>5. IdInv'
  BY DEF IdInv
<1>6. NoPortLeak'
  BY DEF NoPortLeak, Leasing, IsTunnel, HeldBy, LeaseOf
<1>7. TunnelHoldsPort'
  BY <1>2 DEF TypeOK, RegistryTypeOK, Tunnel, TunnelHoldsPort, Ending, TunnelLease
<1>8. ReleaseInv'
  BY DEF ReleaseInv, Ending, TunnelLease
<1>9. ListenerInv'
  <2>1. \A c \in Conns : pc[c] \in {"lease", "bind", "roll_back"} =>
          job[c] # None /\ LeaseOf(c) # None
    BY LeaseOfIs DEF JobInv, Opening
  <2>2. QED
    BY <1>2, <2>1 DEF ListenerInv, Opening, LeaseOf
<1>10. ListenersRouteHome'
  BY <1>2 DEF ListenersRouteHome, IsTunnel, HeldBy
<1>11. NoDeadTunnel'
  BY DEF NoDeadTunnel, Opening
<1>12. QED
  BY <1>1, <1>3, <1>4, <1>5, <1>6, <1>7, <1>8, <1>9, <1>10, <1>11

-----------------------------------------------------------------------------
(* The invariant, and the safety properties that follow from it. *)

\* Whatever a connection's task does by itself.
LEMMA TaskKeeps ==
  ASSUME IInv, NEW c \in Conns, Task(c)
  PROVE  IInv'
<1>1. CASE LoopEnds(c)
  BY <1>1, EnterCleanupKeeps
  DEF LoopEnds, LoopCancelled, LoopShutdown, LoopPeerGone, LoopHeartbeatLost
<1>2. CASE HeartbeatTick(c)
  BY <1>2, HeartbeatKeeps
<1>3. CASE Work(c)
  <2>1. CASE RegisterSession(c)
    BY <2>1, RegisterSessionKeeps
  <2>2. CASE CleanupRelease(c)
    BY <2>2, CleanupReleaseKeeps
  <2>3. CASE CleanupUnregister(c)
    BY <2>3, CleanupUnregisterKeeps
  <2>4. CASE LeaseReserve(c)
    BY <2>4, LeaseReserveKeeps
  <2>5. CASE LeaseTaken(c) \/ LeaseExhausted(c)
    BY <2>5, LeaseTakenKeeps
  <2>6. CASE LeaseBinds(c)
    BY <2>6, LeaseBindsKeeps
  <2>7. CASE LeaseBindFails(c)
    BY <2>7, LeaseBindFailsKeeps
  <2>8. CASE FinishOpen(c)
    BY <2>8, FinishOpenKeeps
  <2>9. CASE RollBack(c) \/ FinishClose(c)
    BY <2>9, RollBackKeeps
  <2>10. QED
    BY <1>3, <2>1, <2>2, <2>3, <2>4, <2>5, <2>6, <2>7, <2>8, <2>9 DEF Work
<1>4. QED
  BY <1>1, <1>2, <1>3 DEF Task

\* The host of an account's tunnel name, as the message loop computes it.
LEMMA HostForIs ==
  ASSUME NEW c \in Conns, NEW n \in Names
  PROVE  HostFor[UserOf[c]][n] \in Hosts
<1>1. UserOf[c] \in Users
  BY RegistryAssumption
<1>2. HostFor[UserOf[c]] \in [Names -> Hosts]
  BY <1>1, ControlAssumption
<1>3. QED
  BY <1>2

\* Whatever a client asks for.
LEMMA MessageKeeps ==
  ASSUME IInv, NEW c \in Conns, Message(c)
  PROVE  IInv'
<1>1. CASE Pong(c)
  BY <1>1, HeartbeatKeeps
<1>2. CASE \E h \in Hosts : OpenHttp(c, h)
  BY <1>2, OpenHttpKeeps
<1>3. CASE \E n \in Names, w \in Wanted : OpenTcp(c, HostFor[UserOf[c]][n], w)
  BY <1>3, OpenTcpKeeps, HostForIs
<1>4. CASE \E h \in Hosts : CloseRequest(c, h)
  BY <1>4, CloseRequestKeeps
<1>5. QED
  BY <1>1, <1>2, <1>3, <1>4 DEF Message

\* The invariant is inductive.
LEMMA NextIInv == IInv /\ [Next]_vars => IInv'
<1> SUFFICES ASSUME IInv, [Next]_vars PROVE IInv'
  OBVIOUS
<1>1. CASE \E c \in Conns : Handshake(c) \/ Authenticate(c)
  BY <1>1, HandshakeKeeps
<1>2. CASE \E c \in Conns : Task(c)
  BY <1>2, TaskKeeps
<1>3. CASE \E c \in Conns : Message(c)
  BY <1>3, MessageKeeps
<1>4. CASE \E c \in Conns : Environment(c)
  BY <1>4, HeartbeatKeeps
<1>5. CASE \E p \in Ports : ListenerTask(p)
  BY <1>5, ListenerKeeps
<1>6. CASE Admin
  BY <1>6, AdminKeeps
<1>7. CASE UNCHANGED vars
  <2> USE <1>7 DEF vars, taskVars, registryVars, poolVars, IInv
  <2>1. TypeOK'
    BY DEF TypeOK, RegistryTypeOK, PoolTypeOK
  <2>2. QED
    BY <2>1, QuietStepKeeps
<1>8. QED
  BY <1>1, <1>2, <1>3, <1>4, <1>5, <1>6, <1>7 DEF Next

\* The inductive invariant holds in every reachable state, for any number of
\* connections, accounts, hosts and ports, and any tunnel limits.
THEOREM ControlInvariant == Spec => []IInv
<1>1. Init => IInv
  BY InitIInv
<1>2. IInv /\ [Next]_vars => IInv'
  BY NextIInv
<1>3. QED
  BY <1>1, <1>2, PTL DEF Spec

\* Every variable keeps its type; in particular the heartbeat counter never
\* passes its limit and a tunnel's port is one of the pool's.
THEOREM ControlTypes == Spec => []TypeOK
<1>1. IInv => TypeOK
  BY DEF IInv
<1>2. QED
  BY <1>1, ControlInvariant, PTL

\* A host never routes to a session that has ended, and a kick finds every
\* session of the account.
THEOREM RoutesAndIndex == Spec => [](NoOrphanRoute /\ IndexExact)
<1>1. IInv => NoOrphanRoute /\ IndexExact
  BY DEF IInv
<1>2. QED
  BY <1>1, ControlInvariant, PTL

\* No port leaks: whatever order requests, failures, kicks and clean-ups come
\* in, a port in the books belongs to a tunnel that names it or is about to.
THEOREM PortsDoNotLeak == Spec => []NoPortLeak
<1>1. IInv => NoPortLeak
  BY DEF IInv
<1>2. QED
  BY <1>1, ControlInvariant, PTL

\* The port that a client was told works, and is its tunnel's alone.
THEOREM PortsAreHeld == Spec => [](TunnelHoldsPort /\ ListenersRouteHome)
<1>1. IInv => TunnelHoldsPort /\ ListenersRouteHome
  BY DEF IInv
<1>2. QED
  BY <1>1, ControlInvariant, PTL

\* Every way an open request can fail takes its tunnel out again.
THEOREM NoTunnelIsDead == Spec => []NoDeadTunnel
<1>1. IInv => NoDeadTunnel
  BY DEF IInv
<1>2. QED
  BY <1>1, ControlInvariant, PTL

\* The expect() in lease() cannot fail.
THEOREM LeaseDoesNotPanic == Spec => []ReservationStays
<1>1. IInv => ReservationStays
  BY DEF IInv, JobInv, ReservationStays
<1>2. QED
  BY <1>1, ControlInvariant, PTL

-----------------------------------------------------------------------------
(* What any step may do to the table and to the books, from which the rest *)
(* follows: each step is one of six kinds. *)

\* A step that leaves every host to its tunnel and every port to its lease.
Settled ==
  /\ sessions' = sessions
  /\ \A h \in Hosts : /\ hosts'[h] = None <=> hosts[h] = None
                      /\ hosts[h] # None => /\ hosts'[h].session = hosts[h].session
                                            /\ hosts'[h].id = hosts[h].id
  /\ leased' = leased

\* c registers.
LogsIn(c) ==
  /\ c \notin sessions
  /\ sessions' = sessions \cup {c}
  /\ UNCHANGED <<hosts, leased>>

\* c leaves, with no port in the books that is its own.
LogsOut(c) ==
  /\ c \in sessions
  /\ sessions' = sessions \ {c}
  /\ \A p \in Ports : leased[p] # None => leased[p].session # c
  /\ hosts' = [h \in Hosts |-> IF HeldBy(h, c) THEN None ELSE hosts[h]]
  /\ leased' = leased
  /\ pc'[c] # pc[c]

\* c takes the free host h, within its account's limit.
Claims(c, h) ==
  /\ c \in sessions
  /\ hosts[h] = None
  /\ Cardinality(UsedBy(UserOf[c])) < MaxTunnels[UserOf[c]]
  /\ hosts'[h] # None
  /\ hosts'[h].session = c
  /\ \A g \in Hosts \ {h} : hosts'[g] = hosts[g]
  /\ UNCHANGED <<sessions, leased>>

\* c gives up its host h, on which no port is lent.
GivesUp(c, h) ==
  /\ HeldBy(h, c)
  /\ hosts'[h] = None
  /\ \A g \in Hosts \ {h} : hosts'[g] = hosts[g]
  /\ \A p \in Ports : leased[p] # None => leased[p].host # h
  /\ UNCHANGED <<sessions, leased>>
  /\ pc'[c] # pc[c]

\* c takes the free port p for its host h, on which no port is lent.
Borrows(c, p, h) ==
  /\ hosts[h] # None
  /\ leased[p] = None
  /\ \A q \in Ports : leased[q] # None => leased[q].host # h
  /\ leased'[p] # None
  /\ leased'[p].host = h
  /\ \A q \in Ports \ {p} : leased'[q] = leased[q]
  /\ UNCHANGED <<sessions, hosts>>

\* c gives back its port p.
Returns(c, p) ==
  /\ leased[p] # None
  /\ leased[p].session = c
  /\ leased'[p] = None
  /\ \A q \in Ports \ {p} : leased'[q] = leased[q]
  /\ UNCHANGED <<sessions, hosts>>
  /\ OwnStep(c)

StepKind ==
  \/ Settled
  \/ \E c \in Conns :
       \/ LogsIn(c) \/ LogsOut(c)
       \/ \E h \in Hosts : \/ Claims(c, h) \/ GivesUp(c, h)
                           \/ \E p \in Ports : Borrows(c, p, h)
       \/ \E p \in Ports : Returns(c, p)

\* An open request claims a free host within the limit, or changes nothing.
LEMMA OpenKind ==
  ASSUME IInv, NEW c \in Conns, NEW h \in Hosts, NEW k \in Kinds, Request(c),
         OpenTunnel(h, c, next_id[c], k), UNCHANGED poolVars
  PROVE  Settled \/ Claims(c, h)
<1>1. TypeOK /\ c \in sessions
  BY DEF IInv, NoOrphanRoute, Registered, Request
<1>2. CASE OpenOutcome(h, c) # "Opened"
  BY <1>1, <1>2, OpenTunnelIs DEF Settled, poolVars
<1>3. CASE OpenOutcome(h, c) = "Opened"
  <2>1. UsedBy(UserOf[c]) \subseteq Hosts
    BY DEF UsedBy
  <2>2. Cardinality(UsedBy(UserOf[c])) \in Nat
    BY <2>1, RegistryAssumption, FS_Subset, FS_CardinalityType
  <2>3. MaxTunnels[UserOf[c]] \in Nat
    BY RegistryAssumption
  <2>4. Cardinality(UsedBy(UserOf[c])) < MaxTunnels[UserOf[c]]
    BY <1>3, <2>2, <2>3 DEF OpenOutcome
  <2>5. QED
    BY <1>1, <1>3, <2>4, OpenTunnelIs DEF Claims, poolVars
<1>4. QED
  BY <1>2, <1>3

\* A failed open, or the end of a close, gives up the request's host.
LEMMA GiveUpKind ==
  ASSUME IInv, NEW c \in Conns, RollBack(c) \/ FinishClose(c)
  PROVE  GivesUp(c, job[c].host) /\ job[c].host \in Hosts
<1> USE DEF RollBack, FinishClose, Go
<1> DEFINE h == job[c].host
<1>1. job[c] # None
  BY DEF IInv, JobInv, Opening
<1>2. /\ UNCHANGED <<sessions, by_user, cancel>>
      /\ h \in Hosts
      /\ hosts'[h] = None
      /\ \A g \in Hosts \ {h} : hosts'[g] = hosts[g]
  BY <1>1, CloseTunnelIs
<1>3. IInv'
  BY RollBackKeeps
<1>4. HeldBy(h, c)
  BY <1>1 DEF IInv, JobInv, IsTunnel
<1>5. ASSUME NEW p \in Ports, leased[p] # None
      PROVE  leased[p].host # h
  <2>1. leased' = leased
    BY DEF poolVars
  <2>2. hosts'[leased[p].host] # None
    BY <1>3, <1>5, <2>1 DEF IInv, NoPortLeak, IsTunnel, HeldBy
  <2>3. QED
    BY <1>2, <2>2
<1>6. pc'[c] # pc[c]
  BY DEF IInv, TypeOK
<1>7. QED
  BY <1>2, <1>4, <1>5, <1>6 DEF GivesUp, poolVars

\* A reservation borrows a free port.
LEMMA ReserveKind ==
  ASSUME IInv, NEW c \in Conns, LeaseReserve(c)
  PROVE  Borrows(c, job[c].port, job[c].host) /\ job[c].host \in Hosts
<1> USE DEF IInv, LeaseReserve, Reserve
<1> DEFINE h == job[c].host
           p == job[c].port
<1>1. /\ job[c] # None
      /\ h \in Hosts
      /\ IsTunnel(h, c, job[c].id)
      /\ hosts[h].port = None
  BY DEF JobInv, Opening, TypeOK, Job
<1>2. LeaseOf(c) # None /\ LeaseOf(c).host = h
  BY <1>1, LeaseOfIs
<1>3. ASSUME NEW q \in Ports, leased[q] # None
      PROVE  leased[q].host # h
  <2> SUFFICES ASSUME leased[q].host = h PROVE FALSE
    OBVIOUS
  <2>1. /\ leased[q].session = c
        /\ hosts[h].port = q \/ Leasing(leased[q], q)
    BY <1>1, <1>3 DEF NoPortLeak, IsTunnel, HeldBy
  <2>2. QED
    BY <1>1, <2>1, RegistryAssumption DEF Leasing
<1>4. QED
  BY <1>1, <1>2, <1>3 DEF Borrows, IsTunnel, HeldBy, TypeOK, PoolTypeOK, registryVars

\* A port given back is the task's own.
LEMMA ReturnKind ==
  ASSUME IInv, NEW c \in Conns,
         \/ CleanupRelease(c)
         \/ LeaseBindFails(c)
         \/ \E h \in Hosts : CloseRequest(c, h)
  PROVE  Settled \/ \E p \in Ports : Returns(c, p)
<1> USE DEF IInv
<1>1. CASE CleanupRelease(c)
  <2>1. PICK p \in to_release[c] :
               Release(p) /\ to_release' = [to_release EXCEPT ![c] = @ \ {p}]
    BY <1>1 DEF CleanupRelease
  <2>2. p \in Ports /\ leased[p] # None /\ leased[p].session = c
    BY <2>1 DEF ReleaseInv, TypeOK
  <2>3. to_release'[c] # to_release[c]
    BY <2>1 DEF TypeOK
  <2>4. Returns(c, p)
    BY <1>1, <2>1, <2>2, <2>3
    DEF Returns, OwnStep, CleanupRelease, Release, TypeOK, PoolTypeOK, registryVars
  <2>5. QED
    BY <2>2, <2>4
<1>2. CASE LeaseBindFails(c)
  <2>1. /\ job[c] # None
        /\ job[c].port \in Ports
        /\ leased[job[c].port] = LeaseOf(c)
        /\ pc[c] = "bind"
    BY <1>2 DEF LeaseBindFails, JobInv, Opening
  <2>2. pc'[c] \in {"lease", "roll_back"}
    BY <1>2, <2>1, NextPortIs DEF LeaseBindFails
  <2>3. LeaseOf(c) # None /\ LeaseOf(c).session = c
    BY <2>1, LeaseOfIs
  <2>4. Returns(c, job[c].port)
    BY <1>2, <2>1, <2>2, <2>3
    DEF Returns, OwnStep, LeaseBindFails, Unreserve, TypeOK, PoolTypeOK, registryVars
  <2>5. QED
    BY <2>1, <2>4
<1>3. CASE \E h \in Hosts : CloseRequest(c, h)
  <2>1. PICK h \in Hosts : CloseRequest(c, h)
    BY <1>3
  <2> USE <2>1 DEF CloseRequest, Request, HeldBy, registryVars
  <2>2. CASE hosts[h].port = None
    BY <2>2 DEF Settled, poolVars
  <2>3. CASE hosts[h].port # None
    <3>1. ~Ending(h)
      BY DEF Ending
    <3>2. leased[hosts[h].port] = TunnelLease(h) /\ hosts[h].port \in Ports
      BY <2>3, <3>1 DEF TunnelHoldsPort, TypeOK, RegistryTypeOK, Tunnel
    <3>3. TunnelLease(h) # None /\ TunnelLease(h).session = c
      BY TunnelLeaseIs
    <3>4. pc'[c] # pc[c]
      BY DEF TypeOK
    <3>5. Returns(c, hosts[h].port)
      BY <2>3, <3>2, <3>3, <3>4 DEF Returns, OwnStep, Release, TypeOK, PoolTypeOK
    <3>6. QED
      BY <3>2, <3>5
  <2>4. QED
    BY <2>2, <2>3
<1>4. QED
  BY <1>1, <1>2, <1>3

\* A session goes with no port in the books.
LEMMA UnregisterKind ==
  ASSUME IInv, NEW c \in Conns, CleanupUnregister(c)
  PROVE  LogsOut(c)
<1> USE DEF IInv, CleanupUnregister, Unregister, Go
<1>1. IInv'
  BY CleanupUnregisterKeeps
<1>2. leased' = leased
  BY DEF poolVars
<1>3. ASSUME NEW p \in Ports, leased[p] # None
      PROVE  leased[p].session # c
  <2>1. IsTunnel(leased[p].host, leased[p].session, leased[p].id)'
    BY <1>1, <1>2, <1>3 DEF NoPortLeak, IsTunnel, HeldBy
  <2>2. leased[p].host \in Hosts
    BY <1>3 DEF TypeOK, PoolTypeOK, Lease
  <2>3. QED
    BY <1>2, <2>1, <2>2 DEF IsTunnel, HeldBy
<1>4. pc'[c] # pc[c]
  BY DEF TypeOK
<1>5. QED
  BY <1>2, <1>3, <1>4 DEF LogsOut

\* Every step is of one of the six kinds.
LEMMA NextKind == IInv /\ [Next]_vars => StepKind
<1> SUFFICES ASSUME IInv, [Next]_vars PROVE StepKind
  OBVIOUS
<1> USE DEF registryVars, poolVars
<1>1. CASE \E c \in Conns : Handshake(c) \/ Authenticate(c)
  BY <1>1 DEF StepKind, Settled, Handshake, Accept, HandshakeFails, Authenticate
<1>2. ASSUME NEW c \in Conns, Task(c)
      PROVE  StepKind
  <2>1. CASE LoopEnds(c)
    BY <2>1 DEF StepKind, Settled, LoopEnds, LoopCancelled, LoopShutdown, LoopPeerGone,
                LoopHeartbeatLost, EnterCleanup, Disconnect
  <2>2. CASE HeartbeatTick(c)
    BY <2>2 DEF StepKind, Settled, HeartbeatTick
  <2>3. CASE RegisterSession(c)
    BY <2>3 DEF StepKind, LogsIn, RegisterSession, Register, Go, IInv, NoOrphanRoute,
                Registered
  <2>4. CASE CleanupUnregister(c)
    BY <2>4, UnregisterKind DEF StepKind
  <2>5. CASE CleanupRelease(c) \/ LeaseBindFails(c)
    BY <2>5, ReturnKind DEF StepKind
  <2>6. CASE LeaseReserve(c)
    BY <2>6, ReserveKind DEF StepKind, LeaseReserve
  <2>7. CASE LeaseTaken(c) \/ LeaseExhausted(c) \/ LeaseBinds(c)
    BY <2>7 DEF StepKind, Settled, LeaseTaken, LeaseExhausted, LeaseBinds, Bind
  <2>8. CASE FinishOpen(c)
    <3>1. job[c] # None /\ job[c].host \in Hosts /\ hosts[job[c].host] \in Tunnel
      BY <2>8 DEF FinishOpen, Go, IInv, JobInv, Opening, TypeOK, RegistryTypeOK, Job,
                  IsTunnel, HeldBy
    <3>2. hosts' = [hosts EXCEPT ![job[c].host] =
                      [hosts[job[c].host] EXCEPT !.port = job[c].port]]
      BY <2>8, <3>1, RegistryAssumption DEF FinishOpen, SetTcpPort, Tunnel
    <3>3. job[c].port \in Ports
      BY <2>8 DEF FinishOpen, Go, IInv, JobInv
    <3>4. [hosts[job[c].host] EXCEPT !.port = job[c].port] \in Tunnel
      BY <3>1, <3>3 DEF Tunnel
    <3>5. Settled
      BY <2>8, <3>1, <3>2, <3>4, RegistryAssumption
      DEF Settled, FinishOpen, SetTcpPort, IInv, TypeOK, RegistryTypeOK, Tunnel
    <3>6. QED
      BY <3>5 DEF StepKind
  <2>9. CASE RollBack(c) \/ FinishClose(c)
    BY <2>9, GiveUpKind DEF StepKind
  <2>10. QED
    BY <1>2, <2>1, <2>2, <2>3, <2>4, <2>5, <2>6, <2>7, <2>8, <2>9 DEF Task, Work
<1>3. ASSUME NEW c \in Conns, Message(c)
      PROVE  StepKind
  <2>1. CASE Pong(c)
    BY <2>1 DEF StepKind, Settled, Pong
  <2>2. CASE \E h \in Hosts : OpenHttp(c, h)
    <3>1. "http" \in Kinds
      BY DEF Kinds
    <3>2. QED
      BY <2>2, <3>1, OpenKind DEF StepKind, OpenHttp
  <2>3. CASE \E n \in Names, w \in Wanted : OpenTcp(c, HostFor[UserOf[c]][n], w)
    <3>1. "tcp" \in Kinds
      BY DEF Kinds
    <3>2. QED
      BY <2>3, <3>1, OpenKind, HostForIs DEF StepKind, OpenTcp
  <2>4. CASE \E h \in Hosts : CloseRequest(c, h)
    BY <2>4, ReturnKind DEF StepKind
  <2>5. QED
    BY <1>3, <2>1, <2>2, <2>3, <2>4 DEF Message
<1>4. CASE \E c \in Conns : Environment(c)
  BY <1>4 DEF StepKind, Settled, Environment, PeerMutes, PeerReturns, PeerLeaves
<1>5. CASE \E p \in Ports : ListenerTask(p)
  BY <1>5 DEF StepKind, Settled, ListenerTask, ListenerStops
<1>6. CASE Admin
  BY <1>6 DEF StepKind, Settled, Admin, Shutdown, Kick, KickUser
<1>7. CASE UNCHANGED vars
  BY <1>7 DEF StepKind, Settled, vars
<1>8. QED
  BY <1>1, <1>2, <1>3, <1>4, <1>5, <1>6, <1>7 DEF Next

-----------------------------------------------------------------------------
(* An account stays within its limit. *)

\* The hosts of an account can be counted.
LEMMA UsedByIsFinite ==
  ASSUME NEW u
  PROVE  IsFiniteSet(UsedBy(u)) /\ Cardinality(UsedBy(u)) \in Nat
<1>1. UsedBy(u) \subseteq Hosts
  BY DEF UsedBy
<1>2. QED
  BY <1>1, RegistryAssumption, FS_Subset, FS_CardinalityType

\* Only a claim adds to the hosts of an account, and it looks at the limit.
LEMMA NextUserLimit == IInv /\ UserLimit /\ [Next]_vars => UserLimit'
<1> SUFFICES ASSUME IInv, UserLimit, [Next]_vars, NEW u \in Users
             PROVE  Cardinality(UsedBy(u)') <= MaxTunnels[u]
  BY DEF UserLimit
<1>1. MaxTunnels[u] \in Nat /\ Cardinality(UsedBy(u)) <= MaxTunnels[u]
  BY RegistryAssumption DEF UserLimit
<1>2. IsFiniteSet(UsedBy(u)) /\ Cardinality(UsedBy(u)) \in Nat
  BY UsedByIsFinite
<1>3. CASE UsedBy(u)' \subseteq UsedBy(u)
  <2>1. Cardinality(UsedBy(u)') \in Nat /\ Cardinality(UsedBy(u)') <= Cardinality(UsedBy(u))
    BY <1>2, <1>3, FS_Subset, FS_CardinalityType
  <2>2. QED
    BY <1>1, <1>2, <2>1
<1>4. CASE \E c \in Conns, h \in Hosts : Claims(c, h)
  <2>1. PICK c \in Conns, h \in Hosts : Claims(c, h)
    BY <1>4
  <2>2. CASE UserOf[c] # u
    <3>1. UsedBy(u)' \subseteq UsedBy(u)
      BY <2>1, <2>2 DEF Claims, UsedBy
    <3>2. QED
      BY <1>3, <3>1
  <2>3. CASE UserOf[c] = u
    <3>1. UsedBy(u)' = UsedBy(u) \cup {h}
      BY <2>1, <2>3 DEF Claims, UsedBy
    <3>2. Cardinality(UsedBy(u) \cup {h}) \in {Cardinality(UsedBy(u)),
                                               Cardinality(UsedBy(u)) + 1}
      BY <1>2, FS_AddElement
    <3>3. Cardinality(UsedBy(u)) < MaxTunnels[u]
      BY <2>1, <2>3 DEF Claims
    <3>4. QED
      BY <1>1, <1>2, <3>1, <3>2, <3>3
  <2>4. QED
    BY <2>2, <2>3
<1>5. StepKind
  BY NextKind
<1>6. CASE Settled
  BY <1>3, <1>6 DEF Settled, UsedBy
<1>7. ASSUME NEW c \in Conns,
             LogsIn(c) \/ LogsOut(c) \/ \E h \in Hosts : GivesUp(c, h)
      PROVE  UsedBy(u)' \subseteq UsedBy(u)
  BY <1>7 DEF LogsIn, LogsOut, GivesUp, UsedBy
<1>8. ASSUME NEW c \in Conns, NEW p \in Ports,
             Returns(c, p) \/ \E h \in Hosts : Borrows(c, p, h)
      PROVE  UsedBy(u)' \subseteq UsedBy(u)
  BY <1>8 DEF Returns, Borrows, UsedBy
<1>9. QED
  BY <1>3, <1>4, <1>5, <1>6, <1>7, <1>8 DEF StepKind

\* An account never holds more tunnels than it may, over all its sessions.
THEOREM UsersKeepTheirLimit == Spec => []UserLimit
<1>1. Init => UserLimit
  <2> SUFFICES ASSUME Init, NEW u \in Users
               PROVE  Cardinality(UsedBy(u)) <= MaxTunnels[u]
    BY DEF UserLimit
  <2>1. UsedBy(u) = {}
    BY DEF Init, RegistryInit, UsedBy
  <2>2. QED
    BY <2>1, FS_EmptySet, RegistryAssumption
<1>2. IInv /\ UserLimit /\ [Next]_vars => UserLimit'
  BY NextUserLimit
<1>3. QED
  BY <1>1, <1>2, ControlInvariant, PTL DEF Spec

-----------------------------------------------------------------------------
(* Nobody takes what another session holds. *)

\* No kind of step takes a host or a port from its holder.
LEMMA NextNoTakeover == IInv /\ [Next]_vars => NoTakeover
<1> SUFFICES ASSUME IInv, [Next]_vars PROVE NoTakeover
  OBVIOUS
<1>1. StepKind
  BY NextKind
<1>2. CASE Settled
  BY <1>2 DEF Settled, NoTakeover, HeldBy
<1>3. ASSUME NEW c \in Conns, LogsIn(c) \/ LogsOut(c)
      PROVE  NoTakeover
  BY <1>3 DEF LogsIn, LogsOut, NoTakeover, HeldBy, OwnStep
<1>4. ASSUME NEW c \in Conns, NEW h \in Hosts, Claims(c, h) \/ GivesUp(c, h)
      PROVE  NoTakeover
  BY <1>4 DEF Claims, GivesUp, NoTakeover, HeldBy, OwnStep
<1>5. ASSUME NEW c \in Conns, NEW p \in Ports,
             Returns(c, p) \/ \E h \in Hosts : Borrows(c, p, h)
      PROVE  NoTakeover
  BY <1>5 DEF Borrows, Returns, NoTakeover, HeldBy, OwnStep
<1>6. QED
  BY <1>1, <1>2, <1>3, <1>4, <1>5 DEF StepKind

\* A host or a port changes hands only after a step of its holder's own task
\* has given it up: not by another session's request, nor by a kick.
THEOREM TakesNothingOver == Spec => NothingTakenOver
<1>1. IInv /\ [Next]_vars => [NoTakeover]_vars
  BY NextNoTakeover
<1>2. QED
  BY <1>1, ControlInvariant, PTL DEF Spec, NothingTakenOver

-----------------------------------------------------------------------------
(* The control plane implements TunnelService. *)

\* Each kind of step is a step of TunnelService, or a stutter.
LEMMA NextRefines == IInv /\ [Next]_vars => [Service!Next]_(Service!serviceVars)
<1> SUFFICES ASSUME IInv, [Next]_vars
             PROVE  Service!Next \/ UNCHANGED Service!serviceVars
  OBVIOUS
<1> USE DEF Service!Next
<1>1. StepKind
  BY NextKind
<1>2. \A h \in Hosts : hosts[h] # None => hosts[h].session \in Conns \ {None}
  BY RegistryAssumption DEF IInv, TypeOK, RegistryTypeOK, Tunnel
<1>3. \A p \in Ports : leased[p] # None =>
        /\ leased[p].host \in Hosts \ {None}
        /\ hosts[leased[p].host] # None
        /\ hosts[leased[p].host].session = leased[p].session
  BY RegistryAssumption
  DEF IInv, TypeOK, PoolTypeOK, Lease, NoPortLeak, IsTunnel, HeldBy
<1>4. CASE Settled
  BY <1>4 DEF Settled, Service!serviceVars
<1>5. ASSUME NEW c \in Conns, LogsIn(c)
      PROVE  Service!Next
  BY <1>5 DEF LogsIn, Service!Login
<1>6. ASSUME NEW c \in Conns, LogsOut(c)
      PROVE  Service!Next
  <2>1. \A p \in Ports : leased[p] # None => hosts[leased[p].host].session # c
    BY <1>3, <1>6 DEF LogsOut
  <2>2. Service!Logout(c)
    BY <1>2, <1>3, <1>6, <2>1, RegistryAssumption DEF LogsOut, HeldBy, Service!Logout
  <2>3. QED
    BY <2>2
<1>7. ASSUME NEW c \in Conns, NEW h \in Hosts, Claims(c, h)
      PROVE  Service!Next
  <2>1. Service!HeldByUser(UserOf[c]) = UsedBy(UserOf[c])
    BY <1>2 DEF Service!HeldByUser, UsedBy
  <2>2. [g \in Hosts |-> IF hosts'[g] = None THEN None ELSE hosts'[g].session]
          = [[g \in Hosts |-> IF hosts[g] = None THEN None ELSE hosts[g].session]
               EXCEPT ![h] = c]
    <3>1. (IF hosts'[h] = None THEN None ELSE hosts'[h].session) = c
      BY <1>7 DEF Claims
    <3>2. \A g \in Hosts \ {h} : hosts'[g] = hosts[g]
      BY <1>7 DEF Claims
    <3>3. QED
      BY <3>1, <3>2
  <2>3. leased' = leased /\ sessions' = sessions /\ c \in sessions /\ hosts[h] = None
        /\ Cardinality(UsedBy(UserOf[c])) < MaxTunnels[UserOf[c]]
    BY <1>7 DEF Claims
  <2>4. Service!Cardinality(UsedBy(UserOf[c])) = Cardinality(UsedBy(UserOf[c]))
    BY DEF Service!Cardinality, Cardinality
  <2>5. Service!Claim(h, c)
    BY <2>1, <2>2, <2>3, <2>4 DEF Service!Claim
  <2>6. QED
    BY <2>5
<1>8. ASSUME NEW c \in Conns, NEW h \in Hosts, GivesUp(c, h)
      PROVE  Service!Next
  <2>1. [g \in Hosts |-> IF hosts'[g] = None THEN None ELSE hosts'[g].session]
          = [[g \in Hosts |-> IF hosts[g] = None THEN None ELSE hosts[g].session]
               EXCEPT ![h] = None]
    BY <1>8 DEF GivesUp
  <2>2. hosts[h] # None /\ hosts[h].session # None /\ h # None
        /\ leased' = leased /\ sessions' = sessions
    BY <1>2, <1>8, RegistryAssumption DEF GivesUp, HeldBy
  <2>3. \A p \in Ports : (IF leased[p] = None THEN None ELSE leased[p].host) # h
    BY <1>8, <2>2 DEF GivesUp
  <2>4. Service!Yield(h)
    BY <2>1, <2>2, <2>3 DEF Service!Yield
  <2>5. QED
    BY <2>4
<1>9. ASSUME NEW c \in Conns, NEW h \in Hosts, NEW p \in Ports, Borrows(c, p, h)
      PROVE  Service!Next
  <2>1. [q \in Ports |-> IF leased'[q] = None THEN None ELSE leased'[q].host]
          = [[q \in Ports |-> IF leased[q] = None THEN None ELSE leased[q].host]
               EXCEPT ![p] = h]
    <3>1. (IF leased'[p] = None THEN None ELSE leased'[p].host) = h
      BY <1>9 DEF Borrows
    <3>2. \A q \in Ports \ {p} : leased'[q] = leased[q]
      BY <1>9 DEF Borrows
    <3>3. QED
      BY <3>1, <3>2
  <2>2. hosts[h] # None /\ hosts[h].session # None /\ h # None /\ leased[p] = None
        /\ hosts' = hosts /\ sessions' = sessions
    BY <1>2, <1>9, RegistryAssumption DEF Borrows
  <2>3. \A q \in Ports : (IF leased[q] = None THEN None ELSE leased[q].host) # h
    BY <1>9, <2>2 DEF Borrows
  <2>4. Service!Lend(p, h)
    BY <2>1, <2>2, <2>3 DEF Service!Lend
  <2>5. QED
    BY <2>4
<1>10. ASSUME NEW c \in Conns, NEW p \in Ports, Returns(c, p)
       PROVE  Service!Next
  <2>1. Service!TakeBack(p)
    BY <1>3, <1>10 DEF Returns, Service!TakeBack
  <2>2. QED
    BY <2>1
<1>11. QED
  BY <1>1, <1>4, <1>5, <1>6, <1>7, <1>8, <1>9, <1>10 DEF StepKind

\* Every behaviour of the tasks is a behaviour of TunnelService.
THEOREM ImplementsService == Spec => KeepsPromises
<1>1. Init => Service!Init
  BY DEF Init, RegistryInit, PoolInit, Service!Init
<1>2. IInv /\ [Next]_vars => [Service!Next]_(Service!serviceVars)
  BY NextRefines
<1>3. QED
  BY <1>1, <1>2, ControlInvariant, PTL DEF Spec, KeepsPromises, Service!Spec
=============================================================================
