--------------------------- MODULE IngressProofs ---------------------------
(***************************************************************************)
(* Proofs about Ingress: a stream goes to the tunnel that its visitor came *)
(* to, and nobody passes a gate, or is asked at one, who should not be.    *)
(* The control plane's own invariant holds beside the visitors, and is     *)
(* what the first of the three rests on.                                   *)
(***************************************************************************)
EXTENDS Ingress, ControlPlaneProofs

\* A stream that is being opened names a tunnel id its session has given out
\* already, and in that session no host but the visitor's own has it.
StreamInv ==
  \A v \in Visitors : visit[v].at = "forwarded" /\ ~visit[v].late =>
    /\ visit[v].session \in Conns
    /\ visit[v].id < next_id[visit[v].session]
    /\ Meant(v) \subseteq {visit[v].host}

\* A visitor's cookie at a host is that of the password which brought it the last
\* answer there; who is past a gate gave its password now or then, and who is
\* asked did not.
Kept(visiting, held, answered) ==
  /\ \A h \in Hosts, g \in Passwords \ {None} : <<h, g>> \in held[h] <=> answered[h] = g
  /\ visiting.at \in {"forwarded", "reached"} =>
       /\ visiting.kind = "http" /\ Gate(visiting) # None =>
            Gate(visiting) \in {visiting.basic, answered[visiting.host]}
       /\ visiting.basic # None =>
            visiting.kind = "http" /\ visiting.basic = Gate(visiting)
  /\ visiting.at = "asked" => answered[visiting.host] # Gate(visiting)

GateInv == \A v \in Visitors : Kept(visit[v], tickets[v], let_in[v])

\* The visitors' variables: a visit has its fields; cookies and passwords are for hosts.
Visits == [at : {"away", "asked", "forwarded", "reached"}, kind : {"http", "tcp", None},
           host : Hosts \cup {None}, session : Conns \cup {None}, id : Nat,
           basic : Passwords \cup {None}, late : BOOLEAN]

VisitorsTypeOK ==
  /\ visit \in [Visitors -> Visits]
  /\ tickets \in [Visitors -> [Hosts -> SUBSET (Hosts \X (Passwords \cup {None}))]]
  /\ let_in \in [Visitors -> [Hosts -> Passwords \cup {None}]]

\* The ids of the tunnels are those that requests are counted by.
IdsInRange ==
  /\ \A c \in Conns : next_id[c] \in 1..(MaxOpens + 1)
  /\ \A h \in Hosts : hosts[h] # None => hosts[h].id \in 1..MaxOpens

-----------------------------------------------------------------------------
\* Every step of the two is one of the control plane, or none.
LEMMA IngressNextIsNext == [IngressNext]_ingressVars => [Next]_vars
<1> SUFFICES ASSUME [IngressNext]_ingressVars PROVE [Next]_vars
  OBVIOUS
<1>1. CASE ControlStep
  BY <1>1 DEF ControlStep, Next, Handshake, Task, Message, Environment, LoopEnds
<1>2. ASSUME NEW v \in Visitors, Visit(v)
      PROVE  UNCHANGED vars
  <2>1. UNCHANGED controlVars
    BY <1>2 DEF Visit, HttpPasses, HttpUnlocks, HttpAsked, TcpAccepted, Reaches, Fails,
                Answered, TurnsAway
  <2>2. QED
    BY <2>1 DEF controlVars, vars
<1>3. CASE UNCHANGED ingressVars
  BY <1>3 DEF ingressVars
<1>4. QED
  BY <1>1, <1>2, <1>3 DEF IngressNext

\* The control plane's invariant holds beside the visitors as well.
LEMMA ControlHolds == IngressSpec => []IInv
<1>1. IngressInit => IInv
  BY InitIInv DEF IngressInit
<1>2. IInv /\ [IngressNext]_ingressVars => IInv'
  BY IngressNextIsNext, NextIInv
<1>3. QED
  BY <1>1, <1>2, PTL DEF IngressSpec

-----------------------------------------------------------------------------
(* Tunnel ids are used once. *)

\* What a host leads to after a step is what it led to before, or a tunnel that
\* has just got an id its session had not given out.
OldOrFresh(h) ==
  \A c \in Conns, i \in Nat :
    IsTunnel(h, c, i)' => IsTunnel(h, c, i) \/ i >= next_id[c]

\* A step of the control plane brings no id back, and takes none back.
LEMMA IdsAreUsedOnce ==
  ASSUME IInv, [Next]_vars
  PROVE  /\ \A h \in Hosts : OldOrFresh(h)
         /\ \A c \in Conns : next_id[c] \in Nat /\ next_id'[c] \in Nat /\ next_id[c] <= next_id'[c]
<1>1. TypeOK /\ TypeOK'
  BY NextIInv DEF IInv
<1> USE <1>1 DEF TypeOK, OldOrFresh, IsTunnel, HeldBy, registryVars
<1>2. CASE UNCHANGED <<hosts, next_id>>
  BY <1>2
<1>3. ASSUME NEW c \in Conns, NEW h \in Hosts, NEW k,
             NewId(c), OpenTunnel(h, c, next_id[c], k)
      PROVE  /\ \A g \in Hosts : OldOrFresh(g)
             /\ \A d \in Conns : next_id[d] <= next_id'[d]
  BY <1>3 DEF NewId, OpenTunnel, RegistryTypeOK
<1>4. ASSUME NEW c \in Conns, NEW i, CloseTunnel(c, i) \/ Unregister(c), UNCHANGED next_id
      PROVE  \A g \in Hosts : OldOrFresh(g)
  BY <1>4 DEF CloseTunnel, Unregister
<1>5. ASSUME NEW h, NEW p, SetTcpPort(h, p), UNCHANGED next_id
      PROVE  \A g \in Hosts : OldOrFresh(g)
  BY <1>5 DEF SetTcpPort, RegistryTypeOK, Tunnel
<1>6. ASSUME NEW c \in Conns, Handshake(c) \/ Authenticate(c) \/ Environment(c) \/ LoopEnds(c)
                                \/ HeartbeatTick(c) \/ Pong(c)
      PROVE  UNCHANGED <<hosts, next_id>>
  BY <1>6 DEF Handshake, Accept, HandshakeFails, Authenticate, Environment, PeerMutes,
              PeerReturns, PeerLeaves, LoopEnds, LoopCancelled, LoopShutdown, LoopPeerGone,
              LoopHeartbeatLost, EnterCleanup, Disconnect, HeartbeatTick, Pong
<1>7. ASSUME NEW c \in Conns, Work(c)
      PROVE  UNCHANGED next_id /\ \A g \in Hosts : OldOrFresh(g)
  <2>1. CASE \/ LeaseReserve(c) \/ LeaseTaken(c) \/ LeaseExhausted(c) \/ LeaseBinds(c)
             \/ LeaseBindFails(c) \/ RegisterSession(c) \/ CleanupRelease(c)
    BY <2>1 DEF LeaseReserve, LeaseTaken, LeaseExhausted, LeaseBinds, LeaseBindFails,
                RegisterSession, Register, CleanupRelease
  <2>2. CASE CleanupUnregister(c)
    BY <2>2, <1>4 DEF CleanupUnregister
  <2>3. CASE FinishOpen(c)
    BY <2>3, <1>5 DEF FinishOpen
  <2>4. CASE RollBack(c) \/ FinishClose(c)
    BY <2>4, <1>4 DEF RollBack, FinishClose
  <2>5. QED
    BY <1>7, <2>1, <2>2, <2>3, <2>4 DEF Work
<1>8. ASSUME NEW c \in Conns, NEW h \in Hosts,
             \/ OpenHttp(c, h) \/ CloseRequest(c, h)
             \/ \E w \in Wanted : OpenTcp(c, h, w)
      PROVE  /\ \A g \in Hosts : OldOrFresh(g)
             /\ \A d \in Conns : next_id[d] <= next_id'[d]
  BY <1>8, <1>3 DEF OpenHttp, OpenTcp, CloseRequest
<1>9. CASE Admin \/ (\E p \in Ports : ListenerTask(p)) \/ UNCHANGED vars
  BY <1>9, <1>2 DEF Admin, Shutdown, Kick, KickUser, ListenerTask, taskVars, vars
<1>10. QED
  BY <1>2, <1>6, <1>7, <1>8, <1>9, HostForIs DEF Next, Task, Message

-----------------------------------------------------------------------------
(* The streams. *)

\* A stream under way keeps to its host while sessions and tunnels come and go.
LEMMA ControlKeepsStreams ==
  ASSUME IInv, StreamInv, VisitorsTypeOK, [Next]_vars, UNCHANGED visit
  PROVE  StreamInv'
<1> SUFFICES ASSUME NEW v \in Visitors, visit[v].at = "forwarded", ~visit[v].late
             PROVE  /\ visit[v].session \in Conns
                    /\ visit[v].id < next_id'[visit[v].session]
                    /\ \A h \in Hosts :
                         IsTunnel(h, visit[v].session, visit[v].id)' => h = visit[v].host
  BY DEF StreamInv, Meant
<1> QED
  BY IdsAreUsedOnce DEF StreamInv, Meant, OldOrFresh, VisitorsTypeOK, Visits

\* A new stream is for the tunnel that the visitor's host or port led to.
LEMMA VisitKeepsStreams ==
  ASSUME IInv, StreamInv, VisitorsTypeOK, NEW v \in Visitors, Visit(v)
  PROVE  StreamInv'
<1>0. UNCHANGED <<hosts, next_id>>
  BY DEF Visit, HttpPasses, HttpUnlocks, HttpAsked, TcpAccepted, Reaches, Fails,
         Answered, TurnsAway, controlVars, registryVars, taskVars
<1> SUFFICES ASSUME visit'[v].at = "forwarded", ~visit'[v].late,
                    \A w \in Visitors \ {v} : visit'[w] = visit[w]
             PROVE  /\ visit'[v].session \in Conns
                    /\ visit'[v].id < next_id[visit'[v].session]
                    /\ \A h \in Hosts :
                         IsTunnel(h, visit'[v].session, visit'[v].id) => h = visit'[v].host
  <2>1. \A w \in Visitors \ {v} : visit'[w] = visit[w]
    BY DEF Visit, HttpPasses, HttpUnlocks, HttpAsked, TcpAccepted, Reaches, Fails,
           Answered, TurnsAway, Forwarded, VisitorsTypeOK
  <2>2. QED
    BY <1>0, <2>1 DEF StreamInv, Meant, IsTunnel, HeldBy
<1>1. \A h \in Hosts : hosts[h] # None =>
        /\ hosts[h].session \in Conns
        /\ hosts[h].id < next_id[hosts[h].session]
        /\ \A g \in Hosts : IsTunnel(g, hosts[h].session, hosts[h].id) => g = h
  BY DEF IInv, TypeOK, RegistryTypeOK, Tunnel, IdInv, IsTunnel, HeldBy
<1>2. CASE \E h \in Hosts : HttpPasses(v, h) \/ HttpUnlocks(v, h)
  BY <1>1, <1>2 DEF HttpPasses, HttpUnlocks, Forwarded, Lookup, VisitorsTypeOK
<1>3. CASE \E p \in Ports : TcpAccepted(v, p)
  <2>1. PICK p \in Ports : TcpAccepted(v, p)
    BY <1>3
  <2>2. /\ bound[p] # None /\ bound[p] \notin cancelled
        /\ visit'[v].host = bound[p].host /\ visit'[v].id = bound[p].id
        /\ visit'[v].session = hosts[bound[p].host].session
    BY <2>1 DEF TcpAccepted, Forwarded, Lookup, VisitorsTypeOK
  <2>3. IsTunnel(bound[p].host, bound[p].session, bound[p].id)
    BY <2>2 DEF IInv, ListenersRouteHome
  <2>4. bound[p].host \in Hosts
    BY <2>2 DEF IInv, TypeOK, PoolTypeOK, Lease
  <2>5. QED
    BY <1>1, <2>2, <2>3, <2>4 DEF IsTunnel, HeldBy
<1>4. CASE \E h \in Hosts : HttpAsked(v, h)
  BY <1>4 DEF HttpAsked, Away, VisitorsTypeOK
<1>5. CASE Reaches(v)
  BY <1>5 DEF Reaches, VisitorsTypeOK, Visits
<1>6. CASE Fails(v) \/ Answered(v) \/ TurnsAway(v)
  BY <1>6 DEF Fails, Answered, TurnsAway, Away, VisitorsTypeOK
<1>7. QED
  BY <1>2, <1>3, <1>4, <1>5, <1>6 DEF Visit

-----------------------------------------------------------------------------
(* The gates. *)

\* The ids stay in range, and with them the gates that are read.
LEMMA IdsStayInRange ==
  ASSUME IInv, IdsInRange, [Next]_vars
  PROVE  IdsInRange'
<1>1. TypeOK /\ TypeOK' /\ MaxOpens \in Nat
  BY NextIInv, ControlAssumption DEF IInv
<1> USE <1>1 DEF TypeOK, IdsInRange, registryVars
<1>2. CASE UNCHANGED <<hosts, next_id>>
  BY <1>2
<1>3. ASSUME NEW c \in Conns, NEW h \in Hosts, NEW k,
             NewId(c), OpenTunnel(h, c, next_id[c], k)
      PROVE  IdsInRange'
  BY <1>3 DEF NewId, OpenTunnel, RegistryTypeOK
<1>4. ASSUME NEW c \in Conns, NEW i, CloseTunnel(c, i) \/ Unregister(c), UNCHANGED next_id
      PROVE  IdsInRange'
  BY <1>4 DEF CloseTunnel, Unregister
<1>5. ASSUME NEW h, NEW p, SetTcpPort(h, p), UNCHANGED next_id
      PROVE  IdsInRange'
  BY <1>5 DEF SetTcpPort, RegistryTypeOK, Tunnel
<1>6. ASSUME NEW c \in Conns, Handshake(c) \/ Authenticate(c) \/ Environment(c) \/ LoopEnds(c)
                                \/ HeartbeatTick(c) \/ Pong(c)
      PROVE  UNCHANGED <<hosts, next_id>>
  BY <1>6 DEF Handshake, Accept, HandshakeFails, Authenticate, Environment, PeerMutes,
              PeerReturns, PeerLeaves, LoopEnds, LoopCancelled, LoopShutdown, LoopPeerGone,
              LoopHeartbeatLost, EnterCleanup, Disconnect, HeartbeatTick, Pong
<1>7. ASSUME NEW c \in Conns, Work(c)
      PROVE  IdsInRange'
  <2>1. CASE \/ LeaseReserve(c) \/ LeaseTaken(c) \/ LeaseExhausted(c) \/ LeaseBinds(c)
             \/ LeaseBindFails(c) \/ RegisterSession(c) \/ CleanupRelease(c)
    BY <2>1, <1>2 DEF LeaseReserve, LeaseTaken, LeaseExhausted, LeaseBinds, LeaseBindFails,
                RegisterSession, Register, CleanupRelease
  <2>2. CASE CleanupUnregister(c)
    BY <2>2, <1>4 DEF CleanupUnregister
  <2>3. CASE FinishOpen(c)
    BY <2>3, <1>5 DEF FinishOpen
  <2>4. CASE RollBack(c) \/ FinishClose(c)
    BY <2>4, <1>4 DEF RollBack, FinishClose
  <2>5. QED
    BY <1>7, <2>1, <2>2, <2>3, <2>4 DEF Work
<1>8. ASSUME NEW c \in Conns, NEW h \in Hosts,
             \/ OpenHttp(c, h) \/ CloseRequest(c, h)
             \/ \E w \in Wanted : OpenTcp(c, h, w)
      PROVE  IdsInRange'
  BY <1>8, <1>2, <1>3 DEF OpenHttp, OpenTcp, CloseRequest
<1>9. CASE Admin \/ (\E p \in Ports : ListenerTask(p)) \/ UNCHANGED vars
  BY <1>9, <1>2 DEF Admin, Shutdown, Kick, KickUser, ListenerTask, taskVars, vars
<1>10. QED
  BY <1>2, <1>6, <1>7, <1>8, <1>9, HostForIs DEF Next, Task, Message

\* What a host leads to, and the password of its tunnel.
LEMMA HostLeadsTo ==
  ASSUME IInv, IdsInRange, NEW h \in Hosts, hosts[h] # None
  PROVE  /\ hosts[h].session \in Conns
         /\ hosts[h].id \in Nat
         /\ Gate(hosts[h]) \in Passwords \cup {None}
<1>1. hosts[h].session \in Conns /\ hosts[h].id \in Nat
  BY DEF IInv, TypeOK, RegistryTypeOK, Tunnel
<1>2. hosts[h].id \in 1..MaxOpens
  BY DEF IdsInRange
<1>3. QED
  BY <1>1, <1>2, IngressAssumption DEF Gate

\* A visitor's step keeps what is known of passwords and cookies, and asks
\* nobody again who has had an answer.
LEMMA VisitKeepsGates ==
  ASSUME IInv, IdsInRange, GateInv, VisitorsTypeOK, NEW v \in Visitors, Visit(v)
  PROVE  GateInv'
<1>1. Kept(visit[v], tickets[v], let_in[v])
  BY DEF GateInv
<1>2. ASSUME NEW w \in Visitors, w # v
      PROVE  visit'[w] = visit[w] /\ tickets'[w] = tickets[w] /\ let_in'[w] = let_in[w]
  BY <1>2 DEF Visit, HttpPasses, HttpUnlocks, HttpAsked, TcpAccepted, Reaches, Fails,
              Answered, TurnsAway, Forwarded, VisitorsTypeOK
<1>3. ASSUME NEW h \in Hosts, HttpPasses(v, h)
      PROVE  Kept(visit'[v], tickets'[v], let_in'[v])
  <2>1. /\ visit'[v].at = "forwarded" /\ visit'[v].host = h /\ visit'[v].basic = None
        /\ visit'[v].session = hosts[h].session /\ visit'[v].id = hosts[h].id
        /\ UNCHANGED <<tickets, let_in>>
    BY <1>3 DEF HttpPasses, Forwarded, Lookup, VisitorsTypeOK
  <2>2. Gate(visit'[v]) = Gate(hosts[h])
    BY <2>1 DEF Gate
  <2>3. Gate(hosts[h]) = None \/ let_in[v][h] = Gate(hosts[h])
    <3>1. Gate(hosts[h]) \in Passwords \cup {None}
      BY <1>3, HostLeadsTo DEF HttpPasses, Lookup
    <3>2. Gate(hosts[h]) = None \/ <<h, Gate(hosts[h])>> \in tickets[v][h]
      BY <1>3 DEF HttpPasses, HasTicket, Token, Lookup
    <3>3. QED
      BY <1>1, <3>1, <3>2 DEF Kept
  <2>4. QED
    BY <1>1, <2>1, <2>2, <2>3 DEF Kept
<1>4. ASSUME NEW h \in Hosts, HttpUnlocks(v, h)
      PROVE  Kept(visit'[v], tickets'[v], let_in'[v])
  <2>1. /\ visit'[v].at = "forwarded" /\ visit'[v].kind = "http" /\ visit'[v].host = h
        /\ visit'[v].basic = Gate(hosts[h])
        /\ visit'[v].session = hosts[h].session /\ visit'[v].id = hosts[h].id
        /\ UNCHANGED <<tickets, let_in>>
    BY <1>4 DEF HttpUnlocks, Forwarded, Lookup, VisitorsTypeOK
  <2>2. Gate(visit'[v]) = Gate(hosts[h])
    BY <2>1 DEF Gate
  <2>3. QED
    BY <1>1, <2>1, <2>2 DEF Kept
<1>5. ASSUME NEW h \in Hosts, HttpAsked(v, h)
      PROVE  Kept(visit'[v], tickets'[v], let_in'[v])
  <2>1. /\ visit'[v].at = "asked" /\ visit'[v].host = h
        /\ visit'[v].session = hosts[h].session /\ visit'[v].id = hosts[h].id
        /\ UNCHANGED <<tickets, let_in>>
    BY <1>5 DEF HttpAsked, Away, Lookup, VisitorsTypeOK
  <2>2. Gate(visit'[v]) = Gate(hosts[h])
    BY <2>1 DEF Gate
  <2>3. let_in[v][h] # Gate(hosts[h])
    <3>1. Gate(hosts[h]) \in Passwords \ {None}
      BY <1>5, HostLeadsTo DEF HttpAsked, Lookup
    <3>2. <<h, Gate(hosts[h])>> \notin tickets[v][h]
      BY <1>5 DEF HttpAsked, HasTicket, Token, Lookup
    <3>3. QED
      BY <1>1, <3>1, <3>2 DEF Kept
  <2>4. QED
    BY <1>1, <2>1, <2>2, <2>3 DEF Kept
<1>6. ASSUME NEW p \in Ports, TcpAccepted(v, p)
      PROVE  Kept(visit'[v], tickets'[v], let_in'[v])
  <2>1. /\ visit'[v].at = "forwarded" /\ visit'[v].kind = "tcp" /\ visit'[v].basic = None
        /\ UNCHANGED <<tickets, let_in>>
    BY <1>6 DEF TcpAccepted, Forwarded, VisitorsTypeOK
  <2>2. QED
    BY <1>1, <2>1 DEF Kept
<1>7. ASSUME Reaches(v)
      PROVE  Kept(visit'[v], tickets'[v], let_in'[v])
  <2>1. /\ visit[v].at = "forwarded" /\ visit'[v].at = "reached"
        /\ visit'[v].kind = visit[v].kind /\ visit'[v].host = visit[v].host
        /\ visit'[v].session = visit[v].session /\ visit'[v].id = visit[v].id
        /\ visit'[v].basic = visit[v].basic
        /\ UNCHANGED <<tickets, let_in>>
    BY <1>7 DEF Reaches, VisitorsTypeOK, Visits
  <2>2. Gate(visit'[v]) = Gate(visit[v])
    BY <2>1 DEF Gate
  <2>3. QED
    BY <1>1, <2>1, <2>2 DEF Kept
<1>8. ASSUME Fails(v) \/ TurnsAway(v)
      PROVE  Kept(visit'[v], tickets'[v], let_in'[v])
  <2>1. visit'[v].at = "away" /\ UNCHANGED <<tickets, let_in>>
    BY <1>8 DEF Fails, TurnsAway, Away, VisitorsTypeOK
  <2>2. QED
    BY <1>1, <2>1 DEF Kept
<1>9. ASSUME Answered(v)
      PROVE  Kept(visit'[v], tickets'[v], let_in'[v])
  <2>1. visit[v].at = "reached" /\ visit'[v].at = "away"
    BY <1>9 DEF Answered, Away, VisitorsTypeOK
  <2>2. CASE visit[v].basic = None
    BY <1>1, <1>9, <2>1, <2>2 DEF Answered, Kept
  <2>3. CASE visit[v].basic # None
    <3>1. /\ tickets'[v] = [tickets[v] EXCEPT ![visit[v].host] =
                              {<<visit[v].host, Gate(visit[v])>>}]
          /\ let_in'[v] = [let_in[v] EXCEPT ![visit[v].host] = visit[v].basic]
      BY <1>9, <2>3 DEF Answered, Token, VisitorsTypeOK
    <3>2. visit[v].basic = Gate(visit[v])
      BY <1>1, <2>1, <2>3 DEF Kept
    <3>3. ASSUME NEW h \in Hosts, NEW g \in Passwords \ {None}
          PROVE  <<h, g>> \in tickets'[v][h] <=> let_in'[v][h] = g
      BY <1>1, <3>1, <3>2 DEF Kept, VisitorsTypeOK
    <3>4. QED
      BY <2>1, <3>3 DEF Kept
  <2>4. QED
    BY <2>2, <2>3
<1>10. Kept(visit'[v], tickets'[v], let_in'[v])
  BY <1>3, <1>4, <1>5, <1>6, <1>7, <1>8, <1>9 DEF Visit
<1>11. QED
  BY <1>2, <1>10 DEF GateInv

\* The visitors' variables keep their types.
LEMMA VisitKeepsTypes ==
  ASSUME IInv, IdsInRange, GateInv, VisitorsTypeOK, NEW v \in Visitors, Visit(v)
  PROVE  VisitorsTypeOK'
<1> USE DEF VisitorsTypeOK, Forwarded, Lookup
<1>1. ASSUME NEW h \in Hosts, HttpPasses(v, h) \/ HttpUnlocks(v, h) \/ HttpAsked(v, h)
      PROVE  VisitorsTypeOK'
  <2>1. /\ hosts[h].session \in Conns /\ hosts[h].id \in Nat
        /\ Gate(hosts[h]) \in Passwords \cup {None}
    BY <1>1, HostLeadsTo DEF HttpPasses, HttpUnlocks, HttpAsked
  <2>2. CASE HttpPasses(v, h)
    BY <2>1, <2>2 DEF HttpPasses, Visits
  <2>3. CASE HttpUnlocks(v, h)
    BY <2>1, <2>3 DEF HttpUnlocks, Visits
  <2>4. CASE HttpAsked(v, h)
    BY <2>1, <2>4 DEF HttpAsked, Away, Visits
  <2>5. QED
    BY <1>1, <2>2, <2>3, <2>4
<1>2. ASSUME NEW p \in Ports, TcpAccepted(v, p)
      PROVE  VisitorsTypeOK'
  <2>1. bound[p].host \in Hosts /\ bound[p].id \in Nat /\ hosts[bound[p].host] # None
    BY <1>2 DEF TcpAccepted, IInv, TypeOK, PoolTypeOK, Lease
  <2>2. hosts[bound[p].host].session \in Conns
    BY <2>1, HostLeadsTo
  <2>3. QED
    BY <1>2, <2>1, <2>2 DEF TcpAccepted, Visits
<1>3. CASE Reaches(v)
  <2>1. [visit[v] EXCEPT !.at = "reached"] \in Visits
    BY DEF Visits
  <2>2. QED
    BY <1>3, <2>1 DEF Reaches
<1>4. CASE Fails(v) \/ TurnsAway(v)
  <2>1. Away \in Visits
    BY DEF Away, Visits
  <2>2. QED
    BY <1>4, <2>1 DEF Fails, TurnsAway
<1>5. CASE Answered(v)
  <2>1. Away \in Visits
    BY DEF Away, Visits
  <2>2. CASE visit[v].basic = None
    BY <1>5, <2>1, <2>2 DEF Answered
  <2>3. CASE visit[v].basic # None
    <3> DEFINE h == visit[v].host
               held == tickets[v]
               given == let_in[v]
    <3>1. Gate(visit[v]) = visit[v].basic /\ visit[v].basic \in Passwords \cup {None}
      BY <1>5, <2>3 DEF Answered, GateInv, Kept, Visits
    <3>2. [held EXCEPT ![h] = {<<h, Gate(visit[v])>>}]
            \in [Hosts -> SUBSET (Hosts \X (Passwords \cup {None}))]
      <4>1. held \in [Hosts -> SUBSET (Hosts \X (Passwords \cup {None}))]
        OBVIOUS
      <4>2. h \in Hosts => {<<h, Gate(visit[v])>>} \subseteq Hosts \X (Passwords \cup {None})
        BY <3>1
      <4> HIDE DEF held, h
      <4>3. QED
        BY <4>1, <4>2
    <3>3. [given EXCEPT ![h] = visit[v].basic] \in [Hosts -> Passwords \cup {None}]
      BY <3>1
    <3>4. /\ visit' = [visit EXCEPT ![v] = Away]
          /\ tickets' = [tickets EXCEPT ![v] = [held EXCEPT ![h] = {<<h, Gate(visit[v])>>}]]
          /\ let_in' = [let_in EXCEPT ![v] = [given EXCEPT ![h] = visit[v].basic]]
      BY <1>5, <2>3 DEF Answered, Token
    <3>5. QED
      BY <2>1, <3>2, <3>3, <3>4
  <2>4. QED
    BY <2>2, <2>3
<1>6. QED
  BY <1>1, <1>2, <1>3, <1>4, <1>5 DEF Visit

-----------------------------------------------------------------------------
(* The invariant, and what follows. *)

VisitInv == IdsInRange /\ VisitorsTypeOK /\ StreamInv /\ GateInv

\* No visitor is anywhere at first.
LEMMA InitVisitInv == IngressInit => VisitInv
<1> SUFFICES ASSUME IngressInit PROVE VisitInv
  OBVIOUS
<1>1. IdsInRange
  BY ControlAssumption DEF IngressInit, Init, RegistryInit, IdsInRange
<1>2. Away \in Visits /\ Away.at = "away"
  BY DEF Away, Visits
<1>3. VisitorsTypeOK /\ StreamInv /\ GateInv
  BY <1>2 DEF IngressInit, VisitorsTypeOK, StreamInv, GateInv, Kept
<1>4. QED
  BY <1>1, <1>3 DEF VisitInv

\* Every step keeps the visitors' invariant where the control plane's holds.
LEMMA NextVisitInv == IInv /\ VisitInv /\ [IngressNext]_ingressVars => VisitInv'
<1> SUFFICES ASSUME IInv, VisitInv, [IngressNext]_ingressVars PROVE VisitInv'
  OBVIOUS
<1>1. IdsInRange'
  BY IngressNextIsNext, IdsStayInRange DEF VisitInv
<1>2. CASE UNCHANGED visitorVars
  <2>1. StreamInv'
    BY <1>2, IngressNextIsNext, ControlKeepsStreams DEF visitorVars, VisitInv
  <2>2. VisitorsTypeOK'
    BY <1>2 DEF visitorVars, VisitInv, VisitorsTypeOK
  <2>3. GateInv'
    BY <1>2 DEF visitorVars, VisitInv, GateInv, Kept, Gate
  <2>4. QED
    BY <1>1, <2>1, <2>2, <2>3 DEF VisitInv
<1>3. ASSUME NEW v \in Visitors, Visit(v)
      PROVE  VisitInv'
  BY <1>1, <1>3, VisitKeepsTypes, VisitKeepsStreams, VisitKeepsGates DEF VisitInv
<1>4. QED
  BY <1>2, <1>3 DEF IngressNext, ControlStep, ingressVars

\* The invariant of the visitors.
THEOREM VisitInvariant == IngressSpec => []VisitInv
<1>1. IngressInit => VisitInv
  BY InitVisitInv
<1>2. IInv /\ VisitInv /\ [IngressNext]_ingressVars => VisitInv'
  BY NextVisitInv
<1>3. QED
  BY <1>1, <1>2, ControlHolds, PTL DEF IngressSpec

\* A visitor reaches the tunnel of the host or of the port it came to, unless
\* it came by a listener that had been told to stop.
THEOREM StreamsGoHome == IngressSpec => []ReachesItsTunnel
<1>1. VisitInv => ReachesItsTunnel
  BY DEF VisitInv, StreamInv, ReachesItsTunnel
<1>2. QED
  BY <1>1, VisitInvariant, PTL

\* Nobody gets past a gate without its password.
THEOREM GatesHold == IngressSpec => []GateHolds
<1>1. VisitInv => GateHolds
  BY DEF VisitInv, GateInv, Kept, GateHolds
<1>2. QED
  BY <1>1, VisitInvariant, PTL

\* A visitor who last got in with a password is not asked for it again.
THEOREM NobodyIsAskedTwice == IngressSpec => []AskedOnce
<1>1. VisitInv => AskedOnce
  BY DEF VisitInv, GateInv, Kept, AskedOnce
<1>2. QED
  BY <1>1, VisitInvariant, PTL
=============================================================================
