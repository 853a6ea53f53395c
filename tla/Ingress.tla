------------------------------ MODULE Ingress ------------------------------
(***************************************************************************)
(* The server's two doors (crates/cy-server/src/ingress_http.rs and the    *)
(* accept loops of ingress_tcp.rs): a visitor's host name or public port   *)
(* is looked up in the session table, a stream is opened to the client     *)
(* that holds the tunnel, and its header says which tunnel it is for.      *)
(* Sessions and tunnels come and go between any two of these steps.        *)
(*                                                                         *)
(* What the client does with the id in the header is in Link; here a       *)
(* stream reaches the tunnel that has the id in the session it was opened  *)
(* to, or is dropped.  Of the control plane's steps those that count       *)
(* heartbeats, fail a handshake, kick or shut down are left out: a session *)
(* ends because its client has gone.                                       *)
(***************************************************************************)
EXTENDS ControlPlane

CONSTANTS
  Visitors,   \* browsers, or programs that connect to public ports
  Passwords,
  GateOf      \* Tunnel.auth: the password of a connection's tunnel, or None

ASSUME IngressAssumption ==
  GateOf \in [Conns -> [1..MaxOpens -> Passwords \cup {None}]]

VARIABLES
  visit,      \* what each visitor is at
  tickets,    \* its cookie at each host, if it has one
  let_in      \* the password that brought it the last answer with a cookie there

visitorVars == <<visit, tickets, let_in>>
ingressVars == <<vars, visitorVars>>
controlVars == <<registryVars, poolVars, taskVars, shutdown>>

\* A visit: the host asked for, or the one the port was leased for; the session
\* its stream goes to and the id in the header; the password given with it; and
\* whether it came by a listener that had been told to stop.
Away == [at |-> "away", kind |-> None, host |-> None, session |-> None, id |-> 0,
         basic |-> None, late |-> FALSE]

IngressInit ==
  /\ Init
  /\ visit = [v \in Visitors |-> Away]
  /\ tickets = [v \in Visitors |-> [h \in Hosts |-> {}]]
  /\ let_in = [v \in Visitors |-> [h \in Hosts |-> None]]

-----------------------------------------------------------------------------
(* The HTTP door. *)

\* request_host() and the look-up: neither the port nor the case of the letters
\* in the Host header counts.
Lookup(h) == hosts[h]

\* The password of the tunnel a host leads to.
Gate(t) == GateOf[t.session][t.id]

\* Mutant: the cookie is for the host, whatever its password.
TokenOfHost(h, t) == <<h>>

\* Mutant: the cookie is for the session that holds the host.
TokenOfSession(h, t) == <<h, t.session, Gate(t)>>

\* gate_token(): an HMAC over the host and the hash of the password.
Token(h, t) == <<h, Gate(t)>>

\* gate_cookie_ok(): the cookie that the browser sends is good here.
HasTicket(v, h) == Token(h, Lookup(h)) \in tickets[v][h]

Forwarded(v, kind, h, session, id, basic, late) ==
  visit' = [visit EXCEPT ![v] =
    [at |-> "forwarded", kind |-> kind, host |-> h, session |-> session, id |-> id,
     basic |-> basic, late |-> late]]

\* handle(): no gate, or past it with a cookie; an Authorization header that is
\* not the gate's own goes on to the tunnel.
HttpPasses(v, h) ==
  /\ visit[v].at = "away" /\ Lookup(h) # None
  /\ Gate(Lookup(h)) = None \/ HasTicket(v, h)
  /\ Forwarded(v, "http", h, Lookup(h).session, Lookup(h).id, None, FALSE)
  /\ UNCHANGED <<controlVars, tickets, let_in>>

\* Past the gate with the password; the cookie comes with the answer.
HttpUnlocks(v, h) ==
  /\ visit[v].at = "away" /\ Lookup(h) # None
  /\ Gate(Lookup(h)) # None /\ ~HasTicket(v, h)
  /\ Forwarded(v, "http", h, Lookup(h).session, Lookup(h).id, Gate(Lookup(h)), FALSE)
  /\ UNCHANGED <<controlVars, tickets, let_in>>

\* 401: no cookie that is good here, and no password or another.
HttpAsked(v, h) ==
  /\ visit[v].at = "away" /\ Lookup(h) # None
  /\ Gate(Lookup(h)) # None /\ ~HasTicket(v, h)
  /\ visit' = [visit EXCEPT ![v] = [Away EXCEPT
       !.at = "asked", !.host = h, !.session = Lookup(h).session, !.id = Lookup(h).id]]
  /\ UNCHANGED <<controlVars, tickets, let_in>>

-----------------------------------------------------------------------------
(* The TCP door. *)

\* accept_loop(): the select! may take a connection when the token has fired
\* already.  The host key is looked up anew; the id is that of the lease.
TcpAccepted(v, p) ==
  /\ visit[v].at = "away" /\ bound[p] # None
  /\ LET l == bound[p] IN
       /\ Lookup(l.host) # None
       /\ Forwarded(v, "tcp", l.host, Lookup(l.host).session, l.id, None, l \in cancelled)
  /\ UNCHANGED <<controlVars, tickets, let_in>>

-----------------------------------------------------------------------------
(* The stream. *)

\* The hosts whose tunnel the stream's header names in its session.
Meant(v) == {h \in Hosts : IsTunnel(h, visit[v].session, visit[v].id)}

\* mux.open(), and the client finds the tunnel.
Reaches(v) ==
  /\ visit[v].at = "forwarded"
  /\ Meant(v) # {}
  /\ visit' = [visit EXCEPT ![v].at = "reached"]
  /\ UNCHANGED <<controlVars, tickets, let_in>>

\* The connection is gone, or the client does not know the tunnel, or cannot
\* reach its local service: 502, or a closed socket.
Fails(v) ==
  /\ visit[v].at = "forwarded"
  /\ visit' = [visit EXCEPT ![v] = Away]
  /\ UNCHANGED <<controlVars, tickets, let_in>>

\* The answer, with a cookie for whoever gave the password.  Its name and path
\* are always the same (gate_cookie_header()): it takes the place of the one the
\* browser had from this host.
Answered(v) ==
  /\ visit[v].at = "reached"
  /\ visit' = [visit EXCEPT ![v] = Away]
  /\ IF visit[v].basic = None THEN UNCHANGED <<tickets, let_in>>
     ELSE LET h == visit[v].host IN
          /\ tickets' = [tickets EXCEPT ![v][h] = {Token(h, visit[v])}]
          /\ let_in' = [let_in EXCEPT ![v][h] = visit[v].basic]
  /\ UNCHANGED controlVars

TurnsAway(v) ==
  /\ visit[v].at = "asked"
  /\ visit' = [visit EXCEPT ![v] = Away]
  /\ UNCHANGED <<controlVars, tickets, let_in>>

Visit(v) ==
  \/ \E h \in Hosts : HttpPasses(v, h) \/ HttpUnlocks(v, h) \/ HttpAsked(v, h)
  \/ \E p \in Ports : TcpAccepted(v, p)
  \/ Reaches(v) \/ Fails(v) \/ Answered(v) \/ TurnsAway(v)

-----------------------------------------------------------------------------

ControlStep ==
  /\ \/ \E c \in Conns :
          \/ Accept(c) \/ Authenticate(c) \/ Work(c)
          \/ PeerLeaves(c) \/ LoopPeerGone(c)
          \/ \E h \in Hosts : OpenHttp(c, h) \/ CloseRequest(c, h)
          \/ \E n \in Names, w \in Wanted : OpenTcp(c, HostFor[UserOf[c]][n], w)
     \/ \E p \in Ports : ListenerTask(p)
  /\ UNCHANGED visitorVars

IngressNext == ControlStep \/ \E v \in Visitors : Visit(v)

IngressSpec == IngressInit /\ [][IngressNext]_ingressVars

-----------------------------------------------------------------------------

\* A visitor reaches the tunnel of the host or of the port it came to and no
\* other, though that tunnel be closed, its session gone and its name opened
\* anew while the stream is being opened.  The one exception: a listener that has
\* been told to stop may still take a visitor, look up its host key, find a
\* session that came after, and send the id of the tunnel that is gone.
ReachesItsTunnel ==
  \A v \in Visitors :
    visit[v].at = "forwarded" /\ ~visit[v].late => Meant(v) \subseteq {visit[v].host}

\* Nobody gets past a gate who has not given that very password, with this
\* request or with the one whose answer brought the cookie of that host: a cookie
\* got before the password was changed, or at another tunnel, is worth nothing,
\* and one that a later cookie replaced is not sent any more.
GateHolds ==
  \A v \in Visitors :
    visit[v].at = "reached" /\ visit[v].kind = "http" /\ Gate(visit[v]) # None =>
      Gate(visit[v]) \in {visit[v].basic, let_in[v][visit[v].host]}

\* A visitor is asked for a password once: whoever last got in with it at a host is
\* not asked there again as long as it is the password, whatever sessions and
\* tunnel ids have come and gone, and whatever else the request authorises itself
\* with.  Who got in with another password since is asked again, though the old
\* one came back.
AskedOnce ==
  \A v \in Visitors :
    visit[v].at = "asked" => let_in[v][visit[v].host] # Gate(visit[v])
=============================================================================
