---------------------------- MODULE ControlPlane ----------------------------
(***************************************************************************)
(* The server's control plane (crates/cy-server/src/control.rs): one task  *)
(* per client connection, which authenticates the client, registers a      *)
(* session, serves its requests to open and close tunnels, watches its     *)
(* heartbeat, and cleans up after it.  The tasks meet in the session table *)
(* (Registry) and in the port pool (PortPool).  Which credentials the      *)
(* account database accepts is left open here: module Revocation says it.  *)
(*                                                                         *)
(* A step of a task ends where it lets others in between: at an await, or  *)
(* between two critical sections whose order matters.                      *)
(***************************************************************************)
EXTENDS PortPool

CONSTANTS
  Names,             \* tunnel names
  HostFor,           \* naming::host_for: the host of an account's tunnel name
  Domains,           \* custom_domains: the domains registered to an account
  Wanted,            \* the remote_port values that clients send: None for any
                     \* port, PortHi + 1 for those outside the pool
  MissedHeartbeats,  \* MISSED_HEARTBEATS
  MaxOpens           \* bound: open requests per connection

ASSUME ControlAssumption ==
  /\ HostFor \in [Users -> [Names -> Hosts]]
  /\ Domains \in [Users -> SUBSET Hosts]
  /\ Wanted \subseteq PortLo..(PortHi + 1) \cup {None}
  /\ MissedHeartbeats \in Nat \ {0}
  /\ MaxOpens \in Nat
  /\ None \notin [id : Nat, host : Hosts, wanted : Wanted \cup {None}, port : Nat]

VARIABLES
  pc,           \* where the connection's task is
  job,          \* the open or close request the task is working on, or None
  to_release,   \* the ports the clean-up still has to give back
  next_id,      \* the client's tunnel counter, part of each request
  unanswered,   \* heartbeats sent since the client was last heard of
  peer,         \* the client as the task sees it: "up", "mute" (half-open) or "gone"
  shutdown      \* the server's shutdown token

taskVars == <<pc, job, to_release, next_id, unanswered, peer>>
vars == <<registryVars, poolVars, taskVars, shutdown>>

Phases == {"idle", "hello", "authed", "loop", "lease", "bind", "set_port",
           "roll_back", "close", "cleanup", "done"}

\* A request in progress: tunnel id, host key, the port the client asked for
\* and the port being tried.
Job == [id : Nat, host : Hosts, wanted : Wanted \cup {None}, port : Nat]

TypeOK ==
  /\ RegistryTypeOK
  /\ PoolTypeOK
  /\ pc \in [Conns -> Phases]
  /\ job \in [Conns -> Job \cup {None}]
  /\ to_release \in [Conns -> SUBSET Ports]
  /\ next_id \in [Conns -> Nat]
  /\ unanswered \in [Conns -> 0..MissedHeartbeats]
  /\ peer \in [Conns -> {"up", "mute", "gone"}]
  /\ shutdown \in BOOLEAN

Init ==
  /\ RegistryInit
  /\ PoolInit
  /\ pc = [c \in Conns |-> "idle"]
  /\ job = [c \in Conns |-> None]
  /\ to_release = [c \in Conns |-> {}]
  /\ next_id = [c \in Conns |-> 1]
  /\ unanswered = [c \in Conns |-> 0]
  /\ peer = [c \in Conns |-> "up"]
  /\ shutdown = FALSE

Go(c, from, to) == pc[c] = from /\ pc' = [pc EXCEPT ![c] = to]

-----------------------------------------------------------------------------
(* A connection's life up to its message loop. *)

\* serve() accepts the connection; it has opened its control stream.
Accept(c) ==
  /\ ~shutdown
  /\ Go(c, "idle", "hello")
  /\ UNCHANGED <<registryVars, poolVars, job, to_release, next_id, unanswered, peer, shutdown>>

\* No hello in time, a wrong version, or a credential that does not pass.
HandshakeFails(c) ==
  /\ Go(c, "hello", "done")
  /\ peer' = [peer EXCEPT ![c] = "gone"]
  /\ UNCHANGED <<registryVars, poolVars, job, to_release, next_id, unanswered, shutdown>>

\* store.authenticate() answered Ok.
Authenticate(c) ==
  /\ peer[c] = "up"
  /\ Go(c, "hello", "authed")
  /\ UNCHANGED <<registryVars, poolVars, job, to_release, next_id, unanswered, peer, shutdown>>

\* The session enters the table, whatever became of the account meanwhile.
RegisterSession(c) ==
  /\ Go(c, "authed", "loop")
  /\ Register(c)
  /\ UNCHANGED <<poolVars, job, to_release, next_id, unanswered, peer, shutdown>>

-----------------------------------------------------------------------------
(* The message loop ends and the task cleans up: the ports first, while    *)
(* the table still tells which they are, then the session.  The loop's     *)
(* counter is gone with it, and nobody reads from the client any more.     *)

EnterCleanup(c) ==
  /\ Go(c, "loop", "cleanup")
  /\ Disconnect(c)
  /\ to_release' = [to_release EXCEPT ![c] = TcpPortsOf(c)]
  /\ unanswered' = [unanswered EXCEPT ![c] = 0]
  /\ peer' = [peer EXCEPT ![c] = "gone"]
  /\ UNCHANGED <<poolVars, job, next_id, shutdown>>

LoopCancelled(c) == cancel[c] /\ EnterCleanup(c)

LoopShutdown(c) == shutdown /\ EnterCleanup(c)

LoopPeerGone(c) == peer[c] = "gone" /\ EnterCleanup(c)

\* Mutant: one heartbeat too late, which is never.
LoopHeartbeatLostLate(c) == unanswered[c] > MissedHeartbeats /\ EnterCleanup(c)

LoopHeartbeatLost(c) == unanswered[c] >= MissedHeartbeats /\ EnterCleanup(c)

\* Mutant: a port given back stays on the list, and is given back again.
CleanupReleaseTwice(c) ==
  /\ pc[c] = "cleanup"
  /\ \E p \in to_release[c] :
       /\ Release(p)
       /\ to_release' \in {to_release, [to_release EXCEPT ![c] = @ \ {p}]}
  /\ UNCHANGED <<registryVars, pc, job, next_id, unanswered, peer, shutdown>>

CleanupRelease(c) ==
  /\ pc[c] = "cleanup"
  /\ \E p \in to_release[c] :
       /\ Release(p)
       /\ to_release' = [to_release EXCEPT ![c] = @ \ {p}]
  /\ UNCHANGED <<registryVars, pc, job, next_id, unanswered, peer, shutdown>>

\* Mutant: the session leaves the table before its ports are given back.
CleanupUnregisterFirst(c) ==
  /\ Go(c, "cleanup", "done")
  /\ Unregister(c)
  /\ to_release' = [to_release EXCEPT ![c] = {}]
  /\ UNCHANGED <<poolVars, job, next_id, unanswered, peer, shutdown>>

CleanupUnregister(c) ==
  /\ to_release[c] = {}
  /\ Go(c, "cleanup", "done")
  /\ Unregister(c)
  /\ UNCHANGED <<poolVars, job, to_release, next_id, unanswered, peer, shutdown>>

-----------------------------------------------------------------------------
(* Heartbeat. *)

\* Mutant: the counter is not looked at.
HeartbeatTickUnbounded(c) ==
  /\ pc[c] = "loop"
  /\ unanswered' = [unanswered EXCEPT ![c] = @ + 1]
  /\ UNCHANGED <<registryVars, poolVars, pc, job, to_release, next_id, peer, shutdown>>

HeartbeatTick(c) ==
  /\ pc[c] = "loop"
  /\ unanswered[c] < MissedHeartbeats
  /\ unanswered' = [unanswered EXCEPT ![c] = @ + 1]
  /\ UNCHANGED <<registryVars, poolVars, pc, job, to_release, next_id, peer, shutdown>>

\* A pong, or a message of a newer client that is skipped.
Pong(c) ==
  /\ pc[c] = "loop"
  /\ peer[c] = "up"
  /\ unanswered[c] > 0
  /\ unanswered' = [unanswered EXCEPT ![c] = 0]
  /\ UNCHANGED <<registryVars, poolVars, pc, job, to_release, next_id, peer, shutdown>>

-----------------------------------------------------------------------------
(* Opening a tunnel.  Every request takes the next id of its connection.   *)

Request(c) ==
  /\ pc[c] = "loop"
  /\ peer[c] = "up"
  /\ unanswered' = [unanswered EXCEPT ![c] = 0]

\* Mutant: tunnel ids are not used up.
NewIdReused(c) ==
  /\ next_id[c] <= MaxOpens
  /\ UNCHANGED next_id

NewId(c) ==
  /\ next_id[c] <= MaxOpens
  /\ next_id' = [next_id EXCEPT ![c] = @ + 1]

\* The hosts an account may ask for over HTTP: those of its tunnel names and
\* the custom domains registered to it.
HttpHosts(u) == {HostFor[u][n] : n \in Names} \cup Domains[u]

OpenHttp(c, h) ==
  /\ Request(c)
  /\ NewId(c)
  /\ h \in HttpHosts(UserOf[c])
  /\ OpenTunnel(h, c, next_id[c], "http")
  /\ UNCHANGED <<poolVars, pc, job, to_release, peer, shutdown>>

\* A TCP tunnel claims its name before it looks for a port.
OpenTcp(c, h, w) ==
  /\ Request(c)
  /\ NewId(c)
  /\ OpenTunnel(h, c, next_id[c], "tcp")
  /\ IF OpenOutcome(h, c) = "Opened"
       THEN /\ pc' = [pc EXCEPT ![c] = "lease"]
            /\ job' = [job EXCEPT ![c] =
                 [id |-> next_id[c], host |-> h, wanted |-> w,
                  port |-> IF w = None THEN PortLo ELSE w]]
       ELSE UNCHANGED <<pc, job>>
  /\ UNCHANGED <<poolVars, to_release, peer, shutdown>>

\* Working on an open request.
Opening(c) == pc[c] \in {"lease", "bind", "set_port", "roll_back"}

LeaseOf(c) == [session |-> c, id |-> job[c].id, host |-> job[c].host]

\* Mutant: the hunt starts over at the end of the pool.
NextPortWraps(c) ==
  IF job[c].wanted = None
    THEN /\ pc' = [pc EXCEPT ![c] = "lease"]
         /\ job' = [job EXCEPT ![c].port = IF @ = PortHi THEN PortLo ELSE @ + 1]
    ELSE /\ pc' = [pc EXCEPT ![c] = "roll_back"]
         /\ UNCHANGED job

\* The port being tried will not do: take the next one, unless the client
\* asked for this one.
NextPort(c) ==
  IF job[c].wanted = None
    THEN /\ pc' = [pc EXCEPT ![c] = "lease"]
         /\ job' = [job EXCEPT ![c].port = @ + 1]
    ELSE /\ pc' = [pc EXCEPT ![c] = "roll_back"]
         /\ UNCHANGED job

\* Mutant: the books are not looked at before they are written.
LeaseReserveBlind(c) ==
  /\ pc[c] = "lease"
  /\ job[c].port \in Ports
  /\ leased' = [leased EXCEPT ![job[c].port] = LeaseOf(c)]
  /\ pc' = [pc EXCEPT ![c] = "bind"]
  /\ UNCHANGED <<registryVars, cancelled, bound, job, to_release, next_id, unanswered, peer, shutdown>>

\* lease() comes to the next candidate; past the end of the pool it reports
\* Exhausted (or OutOfRange).
LeaseReserve(c) ==
  /\ pc[c] = "lease"
  /\ job[c].port \in Ports
  /\ leased[job[c].port] = None
  /\ Reserve(job[c].port, LeaseOf(c))
  /\ pc' = [pc EXCEPT ![c] = "bind"]
  /\ UNCHANGED <<registryVars, job, to_release, next_id, unanswered, peer, shutdown>>

LeaseTaken(c) ==
  /\ pc[c] = "lease"
  /\ job[c].port \in Ports
  /\ leased[job[c].port] # None
  /\ NextPort(c)
  /\ UNCHANGED <<registryVars, poolVars, to_release, next_id, unanswered, peer, shutdown>>

LeaseExhausted(c) ==
  /\ job[c] # None
  /\ job[c].port \notin Ports
  /\ Go(c, "lease", "roll_back")
  /\ UNCHANGED <<registryVars, poolVars, job, to_release, next_id, unanswered, peer, shutdown>>

LeaseBinds(c) ==
  /\ Go(c, "bind", "set_port")
  /\ Bind(job[c].port, LeaseOf(c))
  /\ UNCHANGED <<registryVars, job, to_release, next_id, unanswered, peer, shutdown>>

LeaseBindFails(c) ==
  /\ pc[c] = "bind"
  /\ ~CanBind(job[c].port)
  /\ Unreserve(job[c].port)
  /\ NextPort(c)
  /\ UNCHANGED <<registryVars, to_release, next_id, unanswered, peer, shutdown>>

\* The lease succeeded: the table learns the port and the client the address.
FinishOpen(c) ==
  /\ Go(c, "set_port", "loop")
  /\ SetTcpPort(job[c].host, job[c].port)
  /\ job' = [job EXCEPT ![c] = None]
  /\ UNCHANGED <<poolVars, to_release, next_id, unanswered, peer, shutdown>>

\* Mutant: the name is not given back.
RollBackKeepsName(c) ==
  /\ Go(c, "roll_back", "loop")
  /\ job' = [job EXCEPT ![c] = None]
  /\ UNCHANGED <<registryVars, poolVars, to_release, next_id, unanswered, peer, shutdown>>

\* The lease failed: the name goes back, the client gets an error.
RollBack(c) ==
  /\ Go(c, "roll_back", "loop")
  /\ CloseTunnel(c, job[c].id)
  /\ job' = [job EXCEPT ![c] = None]
  /\ UNCHANGED <<poolVars, to_release, next_id, unanswered, peer, shutdown>>

-----------------------------------------------------------------------------
(* Closing a tunnel: its port first, then its name. *)

CloseRequest(c, h) ==
  /\ Request(c)
  /\ HeldBy(h, c)
  /\ IF hosts[h].port = None THEN UNCHANGED poolVars ELSE Release(hosts[h].port)
  /\ pc' = [pc EXCEPT ![c] = "close"]
  /\ job' = [job EXCEPT ![c] =
       [id |-> hosts[h].id, host |-> h, wanted |-> None, port |-> PortLo]]
  /\ UNCHANGED <<registryVars, to_release, next_id, peer, shutdown>>

FinishClose(c) ==
  /\ Go(c, "close", "loop")
  /\ CloseTunnel(c, job[c].id)
  /\ job' = [job EXCEPT ![c] = None]
  /\ UNCHANGED <<poolVars, to_release, next_id, unanswered, peer, shutdown>>

-----------------------------------------------------------------------------
(* The environment: clients' machines, the administrator, and the accept   *)
(* loops of the pool. *)

Connected(c) == pc[c] \notin {"idle", "cleanup", "done"}

PeerMutes(c) ==
  /\ Connected(c) /\ peer[c] = "up"
  /\ peer' = [peer EXCEPT ![c] = "mute"]
  /\ UNCHANGED <<registryVars, poolVars, pc, job, to_release, next_id, unanswered, shutdown>>

PeerReturns(c) ==
  /\ Connected(c) /\ peer[c] = "mute"
  /\ peer' = [peer EXCEPT ![c] = "up"]
  /\ UNCHANGED <<registryVars, poolVars, pc, job, to_release, next_id, unanswered, shutdown>>

PeerLeaves(c) ==
  /\ Connected(c) /\ peer[c] # "gone"
  /\ peer' = [peer EXCEPT ![c] = "gone"]
  /\ UNCHANGED <<registryVars, poolVars, pc, job, to_release, next_id, unanswered, shutdown>>

\* POST /kick/<user>.
Kick(u) ==
  /\ KickUser(u)
  /\ UNCHANGED <<poolVars, taskVars, shutdown>>

Shutdown ==
  /\ ~shutdown
  /\ shutdown' = TRUE
  /\ UNCHANGED <<registryVars, poolVars, taskVars>>

ListenerTask(p) ==
  /\ ListenerStops(p)
  /\ UNCHANGED <<registryVars, taskVars, shutdown>>

-----------------------------------------------------------------------------
\* A branch of the select! that leaves the message loop.
LoopEnds(c) ==
  \/ LoopCancelled(c)
  \/ LoopShutdown(c)
  \/ LoopPeerGone(c)
  \/ LoopHeartbeatLost(c)

\* Work the task does in one go, once it has begun.
Work(c) ==
  \/ RegisterSession(c)
  \/ CleanupRelease(c)
  \/ CleanupUnregister(c)
  \/ LeaseReserve(c)
  \/ LeaseTaken(c)
  \/ LeaseExhausted(c)
  \/ LeaseBinds(c)
  \/ LeaseBindFails(c)
  \/ FinishOpen(c)
  \/ RollBack(c)
  \/ FinishClose(c)

\* What a connection's task does by itself, with no message from the client.
Task(c) == LoopEnds(c) \/ HeartbeatTick(c) \/ Work(c)

\* The client's side of the handshake, short of a credential that passes.
Handshake(c) == Accept(c) \/ HandshakeFails(c)

\* The steps a message of a logged-in client causes.
Message(c) ==
  \/ Pong(c)
  \/ \E h \in Hosts : OpenHttp(c, h)
  \/ \E n \in Names, w \in Wanted : OpenTcp(c, HostFor[UserOf[c]][n], w)
  \/ \E h \in Hosts : CloseRequest(c, h)

Environment(c) == PeerMutes(c) \/ PeerReturns(c) \/ PeerLeaves(c)

Admin == Shutdown \/ \E u \in Users : Kick(u)

Next ==
  \/ \E c \in Conns :
       Handshake(c) \/ Authenticate(c) \/ Task(c) \/ Message(c) \/ Environment(c)
  \/ \E p \in Ports : ListenerTask(p)
  \/ Admin

Spec == Init /\ [][Next]_vars

-----------------------------------------------------------------------------
(* Safety. *)

\* A connection's task has a session in the table from registration to the
\* end of its clean-up.
Registered == {c \in Conns : pc[c] \notin {"idle", "hello", "authed", "done"}}

\* A public host never routes to a session that has ended: an ingress that
\* looks it up finds a connection that is still being served or cleaned up.
NoOrphanRoute ==
  /\ sessions = Registered
  /\ \A h \in Hosts : hosts[h] # None => hosts[h].session \in sessions

\* The per-account index that Kick walks lists exactly the account's sessions,
\* so a kick misses none of those registered, however many machines the
\* account is logged in from and in whatever order they come and go.
IndexExact ==
  \A u \in Users : by_user[u] = {c \in sessions : UserOf[c] = u}

\* An account never holds more tunnels than it may, over all its sessions.
UserLimit ==
  \A u \in Users : Cardinality(UsedBy(u)) <= MaxTunnels[u]

\* The task is between reserving the port for the tunnel and telling the
\* table about it.
Leasing(l, p) ==
  /\ pc[l.session] \in {"bind", "set_port"}
  /\ job[l.session].port = p
  /\ LeaseOf(l.session) = l

\* No port leaks: a port in the books belongs to a tunnel of the table that
\* names it, or will in the next step of the owner's task.
NoPortLeak ==
  \A p \in Ports : leased[p] # None =>
    LET l == leased[p] IN
    /\ IsTunnel(l.host, l.session, l.id)
    /\ hosts[l.host].port = p \/ Leasing(l, p)

\* The owner of the tunnel at h has given its port back and is about to take
\* the tunnel out of the table.
Ending(h) ==
  LET c == hosts[h].session IN
  \/ pc[c] = "close" /\ job[c].id = hosts[h].id
  \/ pc[c] = "cleanup" /\ hosts[h].port \notin to_release[c]

\* The lease of the tunnel at h.
TunnelLease(h) == [session |-> hosts[h].session, id |-> hosts[h].id, host |-> h]

\* A tunnel that names a port holds that port's lease, and the socket bound to
\* the port is its own and has not been told to stop: the address its client
\* was given works, no port is promised to two tunnels, and a port in use is
\* never lent again.
TunnelHoldsPort ==
  \A h \in Hosts : hosts[h] # None /\ hosts[h].port # None /\ ~Ending(h) =>
    /\ leased[hosts[h].port] = TunnelLease(h)
    /\ bound[hosts[h].port] = TunnelLease(h)
    /\ TunnelLease(h) \notin cancelled

\* No tunnel is left behind that can never work: a TCP tunnel with no port is
\* one whose request is still being worked on, whichever way its lease fails.
\* An HTTP tunnel never gets a port.
NoDeadTunnel ==
  \A h \in Hosts : hosts[h] # None =>
    IF hosts[h].kind = "http"
      THEN hosts[h].port = None
      ELSE hosts[h].port = None =>
             LET c == hosts[h].session IN Opening(c) /\ job[c].id = hosts[h].id

\* An accept loop that has not been told to stop holds the lease of its port,
\* and the host key it looks up for every visitor leads to the very tunnel
\* whose id it writes into the stream header.
ListenersRouteHome ==
  \A p \in Ports : bound[p] # None /\ bound[p] \notin cancelled =>
    /\ leased[p] = bound[p]
    /\ IsTunnel(bound[p].host, bound[p].session, bound[p].id)

\* lease() finds its own reservation after the bind: the expect() there never
\* panics, whatever ran during the await.
ReservationStays ==
  \A c \in Conns : pc[c] = "bind" => leased[job[c].port] = LeaseOf(c)

\* The step is one of c's own task.
OwnStep(c) == pc'[c] # pc[c] \/ to_release'[c] # to_release[c]

\* Nobody takes what another session holds: a host or a port changes hands
\* only after a step of its holder has given it up.
NoTakeover ==
  /\ \A h \in Hosts : hosts[h] # None =>
       \/ HeldBy(h, hosts[h].session)' /\ hosts'[h].id = hosts[h].id
       \/ hosts'[h] = None /\ OwnStep(hosts[h].session)
  /\ \A p \in Ports : leased[p] # None /\ leased'[p] # leased[p] =>
       leased'[p] = None /\ OwnStep(leased[p].session)

NothingTakenOver == [][NoTakeover]_vars

-----------------------------------------------------------------------------
(* Liveness.  The runtime schedules every task, select! polls its branches *)
(* in random order, so none that stays ready is passed over for ever, and  *)
(* a client that does not say hello in time is dropped.  Nothing is        *)
(* assumed of clients and administrators.                                  *)

HandshakeTimesOut(c) == peer[c] # "up" /\ HandshakeFails(c)

Fairness ==
  /\ \A c \in Conns :
       /\ WF_vars(HandshakeTimesOut(c))
       /\ WF_vars(Work(c))
       /\ WF_vars(LoopEnds(c))
       /\ WF_vars(HeartbeatTick(c))
  /\ \A p \in Ports : WF_vars(ListenerTask(p))

FairSpec == Spec /\ Fairness

\* A kicked session is gone in the end, whatever it was doing when the kick
\* came: the signal is not lost while a lease is being made.
KickedLeaves == \A c \in Conns : cancel[c] ~> pc[c] = "done"

\* A client that falls silent and stays so (asleep, unplugged, its network
\* gone) is dropped without anyone's help.
SilentLeaves == \A c \in Conns : []<>(peer[c] = "up") \/ <>(pc[c] = "done")

\* The public ports of a client that has left can be bound again in the end.
PortsComeBack ==
  \A c \in Conns, p \in Ports :
    leased[p] # None /\ leased[p].session = c /\ peer[c] = "gone"
      ~> /\ bound[p] = None \/ bound[p].session # c
         /\ leased[p] = None \/ leased[p].session # c

\* Every request to open a tunnel is answered, however often the port hunt
\* loses a port to another session.
OpenAnswered == \A c \in Conns : Opening(c) ~> pc[c] = "loop"

-----------------------------------------------------------------------------
(* The inductive invariant behind the safety properties. *)

\* A task has a job exactly while it opens or closes a tunnel, and that tunnel
\* is in the table all the while; a tunnel being opened names no port.
JobInv ==
  \A c \in Conns :
    /\ job[c] # None <=> Opening(c) \/ pc[c] = "close"
    /\ job[c] # None =>
         /\ IsTunnel(job[c].host, c, job[c].id)
         /\ Opening(c) => /\ hosts[job[c].host].kind = "tcp"
                          /\ hosts[job[c].host].port = None
    /\ pc[c] \in {"bind", "set_port"} =>
         job[c].port \in Ports /\ leased[job[c].port] = LeaseOf(c)
    /\ pc[c] = "set_port" => bound[job[c].port] = LeaseOf(c)

\* A connection's tunnel ids are its own past ones, all different.
IdInv ==
  /\ \A h \in Hosts : hosts[h] # None => hosts[h].id < next_id[hosts[h].session]
  /\ \A g, h \in Hosts :
       /\ hosts[g] # None /\ hosts[h] # None
       /\ hosts[g].session = hosts[h].session
       /\ hosts[g].id = hosts[h].id
       => g = h

\* The ports still to be given back are those of the session's tunnels, and a
\* tunnel whose port has been given back holds no lease any more.
ReleaseInv ==
  /\ \A c \in Conns : pc[c] # "cleanup" => to_release[c] = {}
  /\ \A c \in Conns : \A p \in to_release[c] :
       leased[p] # None /\ leased[p].session = c
  /\ \A h \in Hosts : hosts[h] # None /\ Ending(h) =>
       \A p \in Ports : leased[p] # TunnelLease(h)

\* A cancelled lease is a past one, of a tunnel that is not being opened; a
\* tunnel still looking for a port has no listener; a listener belongs to one
\* port.
ListenerInv ==
  /\ \A l \in cancelled :
       /\ l.id < next_id[l.session]
       /\ ~(Opening(l.session) /\ job[l.session].id = l.id)
  /\ \A c \in Conns : pc[c] \in {"lease", "bind", "roll_back"} =>
       \A p \in Ports : bound[p] # LeaseOf(c)
  /\ \A p, q \in Ports : bound[p] # None /\ bound[p] = bound[q] => p = q

IInv ==
  /\ TypeOK
  /\ NoOrphanRoute
  /\ IndexExact
  /\ JobInv
  /\ IdInv
  /\ NoPortLeak
  /\ NoDeadTunnel
  /\ TunnelHoldsPort
  /\ ReleaseInv
  /\ ListenerInv
  /\ ListenersRouteHome

-----------------------------------------------------------------------------
(* The promise the control plane implements. *)

Service == INSTANCE TunnelService WITH
  online <- sessions,
  holder <- [h \in Hosts |-> IF hosts[h] = None THEN None ELSE hosts[h].session],
  lent <- [p \in Ports |-> IF leased[p] = None THEN None ELSE leased[p].host]

\* Every step of the tasks keeps the promises of TunnelService: a name or a
\* port has one holder, and a session goes after its names and ports.
KeepsPromises == Service!Spec

-----------------------------------------------------------------------------
(* What the comments say of released ports. *)

\* A port given back stops accepting at once: whoever leases it next can bind
\* it.
ReleasedPortBinds ==
  \A c \in Conns : pc[c] = "bind" /\ job[c].port \notin Busy => CanBind(job[c].port)
=============================================================================
