---------------------------- MODULE TunnelService ----------------------------
(***************************************************************************)
(* What the server promises about names and ports, without tasks, locks or *)
(* sockets.  A host name is held by at most one tunnel, of a session that  *)
(* is online; an account holds no more tunnels than it may; a public port  *)
(* is lent to at most one tunnel and comes back before the tunnel's name   *)
(* does, so that no name ever goes while a port still points at it.        *)
(*                                                                         *)
(* ControlPlane implements this specification.                             *)
(***************************************************************************)
EXTENDS Integers, FiniteSets

CONSTANTS Conns, Users, UserOf, Hosts, Ports, MaxTunnels, None

VARIABLES
  online,   \* the sessions that may hold tunnels
  holder,   \* host -> the session that holds it, or None
  lent      \* port -> the host whose tunnel it is lent to, or None

serviceVars == <<online, holder, lent>>

Init ==
  /\ online = {}
  /\ holder = [h \in Hosts |-> None]
  /\ lent = [p \in Ports |-> None]

Login(c) ==
  /\ c \notin online
  /\ online' = online \cup {c}
  /\ UNCHANGED <<holder, lent>>

HeldByUser(u) == {h \in Hosts : holder[h] # None /\ UserOf[holder[h]] = u}

Claim(h, c) ==
  /\ c \in online
  /\ holder[h] = None
  /\ Cardinality(HeldByUser(UserOf[c])) < MaxTunnels[UserOf[c]]
  /\ holder' = [holder EXCEPT ![h] = c]
  /\ UNCHANGED <<online, lent>>

Lend(p, h) ==
  /\ holder[h] # None
  /\ \A q \in Ports : lent[q] # h
  /\ lent[p] = None
  /\ lent' = [lent EXCEPT ![p] = h]
  /\ UNCHANGED <<online, holder>>

TakeBack(p) ==
  /\ lent[p] # None
  /\ lent' = [lent EXCEPT ![p] = None]
  /\ UNCHANGED <<online, holder>>

Yield(h) ==
  /\ holder[h] # None
  /\ \A p \in Ports : lent[p] # h
  /\ holder' = [holder EXCEPT ![h] = None]
  /\ UNCHANGED <<online, lent>>

Logout(c) ==
  /\ c \in online
  /\ \A p \in Ports : lent[p] # None => holder[lent[p]] # c
  /\ online' = online \ {c}
  /\ holder' = [h \in Hosts |-> IF holder[h] = c THEN None ELSE holder[h]]
  /\ UNCHANGED lent

Next ==
  \/ \E c \in Conns : Login(c) \/ Logout(c) \/ \E h \in Hosts : Claim(h, c)
  \/ \E h \in Hosts : Yield(h) \/ \E p \in Ports : Lend(p, h)
  \/ \E p \in Ports : TakeBack(p)

Spec == Init /\ [][Next]_serviceVars
=============================================================================
