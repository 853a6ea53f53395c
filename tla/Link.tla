-------------------------------- MODULE Link --------------------------------
(***************************************************************************)
(* One connection between a client and the server, from the client's side  *)
(* (crates/cy-core/src/client.rs over crates/cy-proto/src/mux.rs): the     *)
(* control loop, which turns the engine's calls into messages and the      *)
(* answers into routes, and the data plane, which takes the visitors'      *)
(* streams to the local ports.  The control stream keeps its order; a      *)
(* visitor's stream is ordered with nothing on it.                         *)
(*                                                                         *)
(* The engine makes one call at a time and waits for the answer to an      *)
(* open.  The server is its message loop and the visitors at its door;     *)
(* heartbeats are in ControlPlane.  A route, the local port and the name   *)
(* that go with an id, is the name it was opened for.  The client goes by  *)
(* the name of a tunnel, the server by its host: the account's own for the *)
(* name, or a custom domain.                                               *)
(***************************************************************************)
EXTENDS Inspector

CONSTANTS
  None,
  Hosts,
  HostsOf,      \* the hosts that a tunnel may be opened at
  AsksFor,      \* bound: the hosts a visitor may ask for
  MaxOpens      \* bound: calls of open_tunnel() on this connection

ASSUME LinkAssumption ==
  /\ MaxOpens \in Nat \ {0}
  /\ None \notin Names
  /\ HostsOf \in [Names -> SUBSET Hosts]
  /\ AsksFor \in [Visitors -> SUBSET Hosts]

Ids == 1..MaxOpens
NoId == 0

VARIABLES
  calls,        \* the command channel
  calling,      \* the open the engine is waiting for, or None
  promised,     \* the id behind the address last given to the engine for a name
                \* it has not closed since, or NoId; none once the loop has ended
  control,      \* the control loop: "running", "replying" or "ended"
  cancelled,    \* the connection's token
  data_plane,   \* the data plane: "running" or "ended"
  next_id,
  pending,      \* id -> the open it was sent for
  by_name,      \* name -> id of the open tunnel
  superseded,   \* history: the ids that lost their name in it to a later open
  ports,        \* id -> Route
  answered,     \* the id whose open is being replied to, or NoId
  to_server,    \* control messages on their way
  to_client,
  mux,          \* the connection under the streams: "up" or "gone"
  server,       \* its message loop: "up", "leaving" or "gone"
  tunnels,      \* the server's registry: host -> tunnel of this session
  visitor       \* where each visitor is

controlVars == <<control, cancelled, next_id, pending, by_name, superseded, ports, answered>>
engineVars == <<calls, calling, promised>>
serverVars == <<server, tunnels>>
wireVars == <<to_server, to_client, mux>>
vars == <<engineVars, controlVars, data_plane, wireVars, serverVars, visitor, inspectorVars>>

NoTunnel == [id |-> NoId, name |-> None]

\* A visitor: the tunnel found at the host it asked for, by name and by id, and
\* whether that is the one promised; the tunnel it was taken to; and its record's
\* number.
Nowhere == [at |-> "away", name |-> None, id |-> NoId, promised |-> FALSE,
            taken_to |-> None, record |-> 0]

\* Answered, turned away or cut off.
Gone == [Nowhere EXCEPT !.at = "gone"]

Init ==
  /\ InspectorInit
  /\ calls = <<>> /\ calling = None
  /\ promised = [n \in Names |-> NoId]
  /\ control = "running" /\ cancelled = FALSE /\ data_plane = "running"
  /\ next_id = 1
  /\ pending = [i \in Ids |-> None]
  /\ by_name = [n \in Names |-> NoId]
  /\ superseded = {}
  /\ ports = [i \in Ids |-> None]
  /\ answered = NoId
  /\ to_server = <<>> /\ to_client = <<>> /\ mux = "up"
  /\ server = "up"
  /\ tunnels = [h \in Hosts |-> NoTunnel]
  /\ visitor = [v \in Visitors |-> Nowhere]

\* An open says at which host: by its custom domain, or by having none.
Message(type, id, name, host) == [type |-> type, id |-> id, name |-> name, host |-> host]
Eof == Message("eof", NoId, None, None)

\* Nothing is put on a stream after its end.
Close(channel) ==
  IF channel # <<>> /\ Last(channel) = Eof THEN channel ELSE Append(channel, Eof)

-----------------------------------------------------------------------------
(* The engine's calls (Connection). *)

\* A place in the command channel.
Command(cmd, n, h) == [cmd |-> cmd, name |-> n, host |-> h]

\* open_tunnel(): the call is answered at once when the loop is no more.  A name
\* that is open already may be opened again, at the same host or at another.
CallOpen(n, h) ==
  /\ calling = None /\ ~cancelled /\ control # "ended"
  /\ next_id <= MaxOpens
  /\ calls' = Append(calls, Command("open", n, h))
  /\ calling' = n
  /\ UNCHANGED <<promised, controlVars, data_plane, wireVars, serverVars, visitor, inspectorVars>>

\* close_tunnel(): not awaited beyond its place in the channel.
CallClose(n) ==
  /\ calling = None /\ ~cancelled /\ control # "ended"
  /\ promised[n] # NoId
  /\ calls' = Append(calls, Command("close", n, None))
  /\ promised' = [promised EXCEPT ![n] = NoId]
  /\ UNCHANGED <<calling, controlVars, data_plane, wireVars, serverVars, visitor, inspectorVars>>

\* disconnect() or close(), from an engine that is not waiting for an open.
Disconnect ==
  /\ calling = None /\ ~cancelled
  /\ cancelled' = TRUE
  /\ UNCHANGED <<engineVars, control, next_id, pending, by_name, superseded, ports, answered,
                 data_plane, wireVars, serverVars, visitor, inspectorVars>>

Engine ==
  \/ \E n \in Names : CallClose(n) \/ \E h \in HostsOf[n] : CallOpen(n, h)
  \/ Disconnect

-----------------------------------------------------------------------------
(* The control loop. *)

\* The control loop's own variables go with it; so do its ends of the channels.
LoopGone ==
  /\ control' = "ended"
  /\ cancelled' = TRUE
  /\ next_id' = 1
  /\ pending' = [i \in Ids |-> None]
  /\ by_name' = [n \in Names |-> NoId]
  /\ superseded' = {}
  /\ calls' = <<>> /\ to_client' = <<>>
  /\ promised' = [n \in Names |-> NoId]
  /\ to_server' = IF server = "gone" THEN <<>> ELSE Close(to_server)
  /\ UNCHANGED <<ports, answered, data_plane, mux, serverVars, visitor, inspectorVars>>

\* Mutant: those who wait for an answer are left waiting.
EndLoopSilently == LoopGone /\ UNCHANGED calling

\* The loop breaks: the token is cancelled, whoever still waits is told so, be
\* the open sent or still in the channel, and the control stream is closed.
EndLoop == LoopGone /\ calling' = None

SeesCancel == control = "running" /\ cancelled /\ EndLoop

\* Mutant: the lowest number not in use, in place of a counter.
FreshIdReused ==
  CHOOSE i \in Ids :
    /\ ports[i] = None /\ pending[i] = None
    /\ \A j \in Ids : ports[j] = None /\ pending[j] = None => i <= j

\* format!("t{}", next_id.fetch_add(1)).
FreshId == next_id

SendOpen ==
  /\ control = "running" /\ calls # <<>> /\ Head(calls).cmd = "open"
  /\ mux = "up"
  /\ LET id == FreshId
         call == Head(calls) IN
       /\ pending' = [pending EXCEPT ![id] = call.name]
       /\ to_server' = IF server = "gone" THEN to_server
                       ELSE Append(to_server, Message("open", id, call.name, call.host))
  /\ next_id' = next_id + 1
  /\ calls' = Tail(calls)
  /\ UNCHANGED <<calling, promised, control, cancelled, by_name, superseded, ports, answered,
                 data_plane, to_client, mux, serverVars, visitor, inspectorVars>>

\* The open cannot be sent: the caller is told, and the loop ends.
SendFails ==
  /\ control = "running" /\ calls # <<>> /\ Head(calls).cmd = "open"
  /\ mux = "gone"
  /\ EndLoop

\* Mutant: the tunnel is forgotten, and the server is not told.
SendCloseNothing ==
  /\ control = "running" /\ calls # <<>> /\ Head(calls).cmd = "close"
  /\ LET n == Head(calls).name IN
       /\ by_name' = [by_name EXCEPT ![n] = NoId]
       /\ ports' = [i \in Ids |-> IF i = by_name[n] THEN None ELSE ports[i]]
  /\ calls' = Tail(calls)
  /\ UNCHANGED <<calling, promised, control, cancelled, next_id, pending, superseded, answered,
                 data_plane, wireVars, serverVars, visitor, inspectorVars>>

\* The route goes first, the message to the server after it.
SendClose ==
  /\ control = "running" /\ calls # <<>> /\ Head(calls).cmd = "close"
  /\ LET n == Head(calls).name id == by_name[n] IN
       IF id = NoId THEN UNCHANGED <<by_name, ports, to_server>>
       ELSE /\ by_name' = [by_name EXCEPT ![n] = NoId]
            /\ ports' = [ports EXCEPT ![id] = None]
            /\ to_server' = IF mux = "up" /\ server # "gone"
                              THEN Append(to_server, Message("close", id, n, None)) ELSE to_server
  /\ calls' = Tail(calls)
  /\ UNCHANGED <<calling, promised, control, cancelled, next_id, pending, superseded, answered,
                 data_plane, to_client, mux, serverVars, visitor, inspectorVars>>

Receives(type) ==
  /\ control = "running"
  /\ to_client # <<>> /\ Head(to_client).type = type
  /\ to_client' = Tail(to_client)

\* TunnelOpened: the route is there before anybody is told the address.  A name
\* that was open already, at another host, has the new id only; the route of the
\* old one stays.
Opened ==
  /\ Receives("opened")
  /\ LET id == Head(to_client).id IN
       IF pending[id] = None THEN UNCHANGED <<control, pending, by_name, superseded, ports, answered>>
       ELSE /\ ports' = [ports EXCEPT ![id] = pending[id]]
            /\ by_name' = [by_name EXCEPT ![pending[id]] = id]
            /\ superseded' = superseded \cup ({by_name[pending[id]]} \ {NoId})
            /\ pending' = [pending EXCEPT ![id] = None]
            /\ control' = "replying"
            /\ answered' = id
  /\ UNCHANGED <<engineVars, cancelled, next_id, data_plane, to_server, mux,
                 serverVars, visitor, inspectorVars>>

Reply ==
  /\ control = "replying"
  /\ promised' = [promised EXCEPT ![calling] = answered]
  /\ calling' = None
  /\ control' = "running"
  /\ answered' = NoId
  /\ UNCHANGED <<calls, cancelled, next_id, pending, by_name, superseded, ports,
                 data_plane, wireVars, serverVars, visitor, inspectorVars>>

\* Mutant: a failed open clears what the name had.
RefusedClearsName ==
  /\ Receives("error")
  /\ LET id == Head(to_client).id n == Head(to_client).name IN
       /\ pending' = [pending EXCEPT ![id] = None]
       /\ ports' = [i \in Ids |-> IF i = by_name[n] THEN None ELSE ports[i]]
  /\ calling' = None
  /\ UNCHANGED <<calls, promised, control, cancelled, next_id, by_name, superseded, answered,
                 data_plane, to_server, mux, serverVars, visitor, inspectorVars>>

\* Error with an id: that open has failed.
Refused ==
  /\ Receives("error")
  /\ pending' = [pending EXCEPT ![Head(to_client).id] = None]
  /\ calling' = None
  /\ UNCHANGED <<calls, promised, control, cancelled, next_id, by_name, superseded, ports, answered,
                 data_plane, to_server, mux, serverVars, visitor, inspectorVars>>

\* A kick, or the end of the control stream.
Dismissed ==
  /\ control = "running"
  /\ to_client # <<>> /\ Head(to_client).type \in {"kick", "eof"}
  /\ EndLoop

ControlLoop ==
  \/ SeesCancel \/ SendOpen \/ SendFails \/ SendClose
  \/ Opened \/ Reply \/ Refused \/ Dismissed

-----------------------------------------------------------------------------
(* The server's message loop, and its end. *)

\* The writer's messages go nowhere when the client has closed its end.
ToClient(m) == to_client' = IF control = "ended" THEN to_client ELSE Append(to_client, m)

ServerReceives(type) ==
  /\ server = "up"
  /\ to_server # <<>> /\ Head(to_server).type = type
  /\ to_server' = Tail(to_server)

\* The host is free: nobody minds that the name is open at another.
ServerOpens ==
  /\ ServerReceives("open")
  /\ LET m == Head(to_server) IN
       /\ tunnels[m.host] = NoTunnel
       /\ tunnels' = [tunnels EXCEPT ![m.host] = [id |-> m.id, name |-> m.name]]
       /\ ToClient(Message("opened", m.id, m.name, None))
  /\ UNCHANGED <<engineVars, controlVars, data_plane, mux, server, visitor, inspectorVars>>

\* The host is taken, by this session or another, or the open is not allowed.
ServerRefuses ==
  /\ ServerReceives("open")
  /\ LET m == Head(to_server) IN ToClient(Message("error", m.id, m.name, None))
  /\ UNCHANGED <<engineVars, controlVars, data_plane, mux, serverVars, visitor, inspectorVars>>

\* Registry::close_tunnel() goes by the id.
ServerCloses ==
  /\ ServerReceives("close")
  /\ tunnels' = [h \in Hosts |->
       IF tunnels[h].id = Head(to_server).id THEN NoTunnel ELSE tunnels[h]]
  /\ UNCHANGED <<engineVars, controlVars, data_plane, to_client, mux, server, visitor, inspectorVars>>

\* Cancelled by the administrator: a kick is sent, and the session goes on for
\* a moment before it is cleaned up.
ServerKicks ==
  /\ server = "up" /\ mux = "up"
  /\ server' = "leaving"
  /\ ToClient(Message("kick", NoId, None, None))
  /\ UNCHANGED <<engineVars, controlVars, data_plane, to_server, mux, tunnels, visitor, inspectorVars>>

\* The clean-up, after a kick, at the end of the stream, or when the heartbeats
\* go unanswered or the server shuts down.
ServerLeaves ==
  /\ server # "gone"
  /\ server' = "gone"
  /\ tunnels' = [h \in Hosts |-> NoTunnel]
  /\ to_client' = IF control = "ended" THEN <<>> ELSE Close(to_client)
  /\ to_server' = <<>>
  /\ UNCHANGED <<engineVars, controlVars, data_plane, mux, visitor, inspectorVars>>

Server ==
  \/ ServerOpens \/ ServerRefuses \/ ServerCloses
  \/ ServerKicks \/ ServerLeaves

\* What makes the server leave for certain.
ServerMustLeave == server = "leaving" \/ (to_server # <<>> /\ Head(to_server) = Eof)

-----------------------------------------------------------------------------
(* The connection under the streams. *)

\* Opens in the queue of the server's mux driver are answered with an error, and
\* streams nobody has taken up yet are reset.
VisitorsCutOff ==
  visitor' = [v \in Visitors |->
    IF visitor[v].at = "stream" THEN Gone ELSE visitor[v]]

\* The connection breaks: of the messages on their way, the last ones are lost.
Breaks ==
  /\ mux = "up"
  /\ mux' = "gone"
  /\ IF control = "ended" THEN UNCHANGED to_client
     ELSE \E k \in 0..Len(to_client) : to_client' = Close(SubSeq(to_client, 1, k))
  /\ IF server = "gone" THEN UNCHANGED to_server
     ELSE \E k \in 0..Len(to_server) : to_server' = Close(SubSeq(to_server, 1, k))
  /\ VisitorsCutOff
  /\ UNCHANGED <<engineVars, controlVars, data_plane, serverVars, inspectorVars>>

-----------------------------------------------------------------------------
(* The data plane, and the visitors. *)

Moves(v, from, to) == visitor[v].at = from /\ visitor' = [visitor EXCEPT ![v].at = to]
Leaves(v, from) == visitor[v].at = from /\ visitor' = [visitor EXCEPT ![v] = Gone]

\* The header of a stream: the id found for the host is all that the client is
\* told.
StreamHeader(h) == tunnels[h].id

\* The ingress looks the tunnel up, and has the mux driver open a stream to its
\* client.
Arrives(v, h) ==
  /\ visitor[v].at = "away"
  /\ tunnels[h] # NoTunnel
  /\ visitor' = [visitor EXCEPT ![v] =
       IF mux = "gone" THEN Gone
       ELSE [Nowhere EXCEPT !.at = "stream", !.name = tunnels[h].name, !.id = StreamHeader(h),
                            !.promised = promised[tunnels[h].name] = StreamHeader(h)]]
  /\ UNCHANGED <<engineVars, controlVars, data_plane, wireVars, serverVars, inspectorVars>>

\* data_plane() starts a task for the stream.
Accepts(v) ==
  /\ data_plane = "running"
  /\ Moves(v, "stream", "accepted")
  /\ UNCHANGED <<engineVars, controlVars, data_plane, wireVars, serverVars, inspectorVars>>

\* data_plane() sees the cancelled token; its end of the streams is dropped.
DataPlaneEnds ==
  /\ data_plane = "running" /\ cancelled
  /\ data_plane' = "ended"
  /\ UNCHANGED <<engineVars, controlVars, wireVars, serverVars, visitor, inspectorVars>>

\* Nobody takes streams any more: the client's mux driver stops at the next
\* one, and with it the connection.
DriverStops(v) ==
  /\ data_plane = "ended" /\ visitor[v].at = "stream"
  /\ mux = "up"
  /\ mux' = "gone"
  /\ to_client' = IF control = "ended" THEN to_client ELSE Close(to_client)
  /\ to_server' = IF server = "gone" THEN to_server ELSE Close(to_server)
  /\ VisitorsCutOff
  /\ UNCHANGED <<engineVars, controlVars, data_plane, serverVars, inspectorVars>>

\* forward() finds the route of the stream's tunnel, or drops the visitor.
Routes(v) ==
  /\ visitor[v].at = "accepted"
  /\ LET route == ports[visitor[v].id] IN
       IF route = None THEN visitor' = [visitor EXCEPT ![v].at = "dropped"]
       ELSE visitor' = [visitor EXCEPT ![v] =
              [Nowhere EXCEPT !.at = "served", !.name = visitor[v].name, !.taken_to = route]]
  /\ UNCHANGED <<engineVars, controlVars, data_plane, wireVars, serverVars, inspectorVars>>

\* The local service cannot be reached, the tunnel is a TCP one, or what came was
\* no request: there is no record.
LeavesUnrecorded(v) ==
  /\ Leaves(v, "served")
  /\ UNCHANGED <<engineVars, controlVars, data_plane, wireVars, serverVars, inspectorVars>>

\* The exchange is over, and is recorded under the tunnel's name.
DrawsRecord(v) ==
  /\ visitor[v].at = "served"
  /\ DrawRecordId
  /\ visitor' = [visitor EXCEPT ![v].at = "drawn", ![v].record = next_record + 1]
  /\ UNCHANGED <<engineVars, controlVars, data_plane, wireVars, serverVars>>

Records(v) ==
  /\ visitor[v].at = "drawn"
  /\ visitor' = [visitor EXCEPT ![v] =
       [Nowhere EXCEPT !.at = "recorded", !.record = visitor[v].record]]
  /\ RecordRequest(visitor[v].record, visitor[v].taken_to, v)
  /\ UNCHANGED <<engineVars, controlVars, data_plane, wireVars, serverVars>>

\* The status of the response, where there is one: the visitor's own.
RecordsStatus(v) ==
  /\ Leaves(v, "recorded")
  /\ RecordResponse(visitor[v].record, v) \/ UNCHANGED inspectorVars
  /\ UNCHANGED <<engineVars, controlVars, data_plane, wireVars, serverVars>>

Visitor(v) ==
  \/ \E h \in AsksFor[v] : Arrives(v, h)
  \/ Accepts(v) \/ DriverStops(v) \/ Routes(v)
  \/ LeavesUnrecorded(v) \/ DrawsRecord(v) \/ Records(v) \/ RecordsStatus(v)

UserClears ==
  /\ ClearAll \/ \E n \in Names : Clear(n)
  /\ UNCHANGED <<engineVars, controlVars, data_plane, wireVars, serverVars, visitor>>

-----------------------------------------------------------------------------

Next ==
  \/ Engine \/ ControlLoop \/ Server \/ Breaks \/ DataPlaneEnds \/ UserClears
  \/ \E v \in Visitors : Visitor(v)

Spec == Init /\ [][Next]_vars

\* Both loops take what is there for them; the server leaves when it is told to
\* or finds the stream closed.  Nothing is asked of the engine, the visitors or
\* the network.
Fairness ==
  /\ WF_vars(ControlLoop)
  /\ WF_vars(ServerOpens \/ ServerRefuses \/ ServerCloses)
  /\ WF_vars(ServerMustLeave /\ ServerLeaves)

FairSpec == Spec /\ Fairness

-----------------------------------------------------------------------------

\* A visitor is taken to the local port of the tunnel it asked for and to no
\* other, although its stream may arrive when that tunnel has been closed and
\* others opened since it was looked up (forward() goes by the id alone).
DeliveredHome ==
  \A v \in Visitors :
    visitor[v].taken_to \in {None, visitor[v].name}

\* A visitor who came when the address had been given out is not dropped as one
\* for an unknown tunnel unless the engine has closed the tunnel since: the
\* route is there before the reply, a failed open takes none away, nor does an
\* open of the name at another host.
AnnouncedIsServed ==
  \A v \in Visitors :
    visitor[v].at = "dropped" /\ visitor[v].promised
      => visitor[v].id \notin superseded \cup {promised[visitor[v].name]}

\* The server has the tunnel at some host.
Serves(id) == \E h \in Hosts : tunnels[h].id = id

\* The two ends agree, but for what is on its way: a tunnel the server has is one
\* the client has open, has asked for, or has asked to close; and while the session
\* lasts, one the client has open is one the server has.  One exception: a tunnel
\* whose name was opened at another host is one that the client cannot close any
\* more, and both ends have it till the connection ends.
EndsAgree ==
  server = "up" /\ mux = "up" /\ control # "ended" =>
    /\ \A h \in Hosts : tunnels[h] # NoTunnel =>
         \/ by_name[tunnels[h].name] = tunnels[h].id
         \/ pending[tunnels[h].id] # None
         \/ \E k \in DOMAIN to_server :
              to_server[k].type = "close" /\ to_server[k].id = tunnels[h].id
         \/ tunnels[h].id \in superseded
    /\ \A n \in Names : by_name[n] # NoId => Serves(by_name[n]) /\ ports[by_name[n]] = n
    /\ \A id \in superseded : Serves(id) /\ ports[id] # None

\* An engine that waits for an open is answered, by the server or because the
\* connection ends: open_tunnel() itself never gives up.
OpensAnswered == calling # None ~> calling = None
=============================================================================
