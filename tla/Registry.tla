------------------------------ MODULE Registry ------------------------------
(***************************************************************************)
(* The server's table of live sessions and of the host names they hold     *)
(* (crates/cy-server/src/registry.rs).  The table is passive: every        *)
(* operation below is one critical section of its RwLock, and the tasks of *)
(* ControlPlane decide when each is called.                                *)
(*                                                                         *)
(* A session is named by the connection it belongs to: session ids are     *)
(* never reused, and neither are the elements of Conns.                    *)
(***************************************************************************)
EXTENDS Integers, FiniteSets

CONSTANTS
  Conns,        \* client connections, each used once
  Users,        \* accounts
  UserOf,       \* the account whose credential a connection presents
  Hosts,        \* public host names, the keys of the routing table
  Ports,        \* public TCP ports of the pool
  MaxTunnels,   \* users.max_tunnels, per account
  None          \* Option::None

Kinds == {"http", "tcp"}

ASSUME RegistryAssumption ==
  /\ UserOf \in [Conns -> Users]
  /\ MaxTunnels \in [Users -> Nat]
  /\ IsFiniteSet(Hosts)
  /\ None \notin Ports \cup Hosts \cup Conns
  /\ None \notin [session : Conns, id : Nat, kind : Kinds, port : Ports \cup {None}]

VARIABLES
  sessions,     \* Inner.sessions: the registered sessions
  by_user,      \* Inner.by_user: account -> its registered sessions
  hosts,        \* Inner.hosts: host name -> the tunnel that holds it, or None
  cancel        \* Session.cancel: has the session been told to disconnect?

registryVars == <<sessions, by_user, hosts, cancel>>

Tunnel == [session : Conns, id : Nat, kind : Kinds, port : Ports \cup {None}]

RegistryTypeOK ==
  /\ sessions \in SUBSET Conns
  /\ by_user \in [Users -> SUBSET Conns]
  /\ hosts \in [Hosts -> Tunnel \cup {None}]
  /\ cancel \in [Conns -> BOOLEAN]

RegistryInit ==
  /\ sessions = {}
  /\ by_user = [u \in Users |-> {}]
  /\ hosts = [h \in Hosts |-> None]
  /\ cancel = [c \in Conns |-> FALSE]

-----------------------------------------------------------------------------
(* Reading the table. *)

HeldBy(h, c) == hosts[h] # None /\ hosts[h].session = c

IsTunnel(h, c, i) == HeldBy(h, c) /\ hosts[h].id = i

UsedBy(u) == {h \in Hosts : hosts[h] # None /\ UserOf[hosts[h].session] = u}

\* The public ports of a session's tunnels.
TcpPortsOf(c) == {hosts[h].port : h \in {g \in Hosts : HeldBy(g, c)}} \ {None}

\* Mutant: the limit is counted per session.
OpenOutcomePerSession(h, c) ==
  IF hosts[h] # None THEN "Taken"
  ELSE IF Cardinality({g \in Hosts : HeldBy(g, c)}) >= MaxTunnels[UserOf[c]]
    THEN "LimitReached"
    ELSE "Opened"

OpenOutcome(h, c) ==
  IF hosts[h] # None THEN "Taken"
  ELSE IF Cardinality(UsedBy(UserOf[c])) >= MaxTunnels[UserOf[c]]
    THEN "LimitReached"
    ELSE "Opened"

-----------------------------------------------------------------------------
(* Writing it. *)

Register(c) ==
  /\ by_user' = [by_user EXCEPT ![UserOf[c]] = @ \cup {c}]
  /\ sessions' = sessions \cup {c}
  /\ UNCHANGED <<hosts, cancel>>

\* Mutant: tunnels are dropped for the whole account, not for the one session.
UnregisterByUser(c) ==
  /\ c \in sessions
  /\ sessions' = sessions \ {c}
  /\ by_user' = [by_user EXCEPT ![UserOf[c]] = @ \ {c}]
  /\ hosts' = [h \in Hosts |-> IF h \in UsedBy(UserOf[c]) THEN None ELSE hosts[h]]
  /\ UNCHANGED cancel

\* Mutant: the account's index loses all its sessions, not just this one.
UnregisterClearsIndex(c) ==
  /\ c \in sessions
  /\ sessions' = sessions \ {c}
  /\ by_user' = [by_user EXCEPT ![UserOf[c]] = {}]
  /\ hosts' = [h \in Hosts |-> IF HeldBy(h, c) THEN None ELSE hosts[h]]
  /\ UNCHANGED cancel

\* Mutant: the session goes and its routes stay.
UnregisterKeepsRoutes(c) ==
  /\ c \in sessions
  /\ sessions' = sessions \ {c}
  /\ by_user' = [by_user EXCEPT ![UserOf[c]] = @ \ {c}]
  /\ UNCHANGED <<hosts, cancel>>

\* A session ends: it leaves both indexes and takes its own tunnels with it,
\* never those of another session of the same account.
Unregister(c) ==
  /\ c \in sessions
  /\ sessions' = sessions \ {c}
  /\ by_user' = [by_user EXCEPT ![UserOf[c]] = @ \ {c}]
  /\ hosts' = [h \in Hosts |-> IF HeldBy(h, c) THEN None ELSE hosts[h]]
  /\ UNCHANGED cancel

\* Mutant: an occupied name is handed to whoever asks last.
OpenTunnelOverwrites(h, c, i, k) ==
  /\ hosts' = [hosts EXCEPT ![h] = [session |-> c, id |-> i, kind |-> k, port |-> None]]
  /\ UNCHANGED <<sessions, by_user, cancel>>

\* Claim host h for tunnel i of session c, of kind k, if the outcome is "Opened".
OpenTunnel(h, c, i, k) ==
  /\ hosts' = IF OpenOutcome(h, c) = "Opened"
                THEN [hosts EXCEPT ![h] = [session |-> c, id |-> i, kind |-> k, port |-> None]]
                ELSE hosts
  /\ UNCHANGED <<sessions, by_user, cancel>>

\* Give up the host of tunnel i of session c.  A connection numbers its
\* tunnels apart, so at most one host matches.
CloseTunnel(c, i) ==
  /\ hosts' = [h \in Hosts |-> IF IsTunnel(h, c, i) THEN None ELSE hosts[h]]
  /\ UNCHANGED <<sessions, by_user, cancel>>

\* Note the public port that the tunnel at h has leased.
SetTcpPort(h, p) ==
  /\ hosts' = IF hosts[h] = None THEN hosts ELSE [hosts EXCEPT ![h].port = p]
  /\ UNCHANGED <<sessions, by_user, cancel>>

\* Tell every session of an account to disconnect.  Only a signal: each
\* connection's own task cleans up after itself.
KickUser(u) ==
  /\ cancel' = [c \in Conns |-> cancel[c] \/ c \in by_user[u] \cap sessions]
  /\ UNCHANGED <<sessions, by_user, hosts>>

\* Cancel one session's token.
Disconnect(c) ==
  /\ cancel' = [cancel EXCEPT ![c] = TRUE]
  /\ UNCHANGED <<sessions, by_user, hosts>>
=============================================================================
