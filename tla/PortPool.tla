------------------------------ MODULE PortPool ------------------------------
(***************************************************************************)
(* The pool of public TCP ports (crates/cy-server/src/ingress_tcp.rs).     *)
(*                                                                         *)
(* Three facts about a port are kept apart because the code keeps them     *)
(* apart: the pool's own books (leased, a map under a mutex), the          *)
(* cancellation token the books give to a listener (cancelled), and the    *)
(* listening socket itself (bound), which lives in the accept loop's task  *)
(* and is closed only when that task gets to run.                          *)
(*                                                                         *)
(* A lease is named by the tunnel it was made for: its session, its tunnel *)
(* id and the host key, all three captured by the accept loop.             *)
(***************************************************************************)
EXTENDS Registry

CONSTANTS
  PortLo,       \* PortPool.range: the pool is PortLo..PortHi
  PortHi,
  Busy          \* ports of the pool that other programs of the machine hold

Lease == [session : Conns, id : Nat, host : Hosts]

ASSUME PortPoolAssumption ==
  /\ PortLo \in Nat
  /\ PortHi \in Nat
  /\ Ports = PortLo..PortHi
  /\ Busy \subseteq Ports
  /\ None \notin Lease

VARIABLES
  leased,       \* PortPool.leased: port -> the lease in the books
  cancelled,    \* the leases whose cancellation token has fired
  bound         \* port -> the lease whose listening socket holds it

poolVars == <<leased, cancelled, bound>>

PoolTypeOK ==
  /\ leased \in [Ports -> Lease \cup {None}]
  /\ cancelled \in SUBSET Lease
  /\ bound \in [Ports -> Lease \cup {None}]

PoolInit ==
  /\ leased = [p \in Ports |-> None]
  /\ cancelled = {}
  /\ bound = [p \in Ports |-> None]

-----------------------------------------------------------------------------
\* lease(), first critical section: write the port down before binding it.
Reserve(p, l) ==
  /\ leased[p] = None
  /\ leased' = [leased EXCEPT ![p] = l]
  /\ UNCHANGED <<cancelled, bound>>

CanBind(p) == bound[p] = None /\ p \notin Busy

\* lease(): the bind succeeded and the accept loop is spawned, holding the
\* token found in the books.
Bind(p, l) ==
  /\ CanBind(p)
  /\ bound' = [bound EXCEPT ![p] = l]
  /\ UNCHANGED <<leased, cancelled>>

\* lease(): the bind failed and the reservation is struck out.
Unreserve(p) ==
  /\ leased' = [leased EXCEPT ![p] = None]
  /\ UNCHANGED <<cancelled, bound>>

\* Mutant: the entry is struck out and the listener never told.
ReleaseForgetsToken(p) ==
  /\ leased' = [leased EXCEPT ![p] = None]
  /\ UNCHANGED <<cancelled, bound>>

\* release(): strike the port out and fire its token.  The socket stays
\* bound until the accept loop's task sees the token.
Release(p) ==
  /\ leased' = [leased EXCEPT ![p] = None]
  /\ cancelled' = cancelled \cup ({leased[p]} \ {None})
  /\ UNCHANGED bound

\* accept_loop() sees its token and returns: the socket is closed, the token
\* dropped.
ListenerStops(p) ==
  /\ bound[p] # None
  /\ bound[p] \in cancelled
  /\ bound' = [bound EXCEPT ![p] = None]
  /\ cancelled' = cancelled \ {bound[p]}
  /\ UNCHANGED leased
=============================================================================
