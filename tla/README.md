# chuanyun: specifications, model checks and proofs

chuanyun exposes programs on developers' machines under public names. A client
(desktop application or headless engine) keeps one TLS connection to the server
and multiplexes it. One stream is the control channel, on which the client opens and
closes *tunnels*; every visitor of a tunnel gets a stream of his own. An HTTP
tunnel is reached by its host name, a TCP tunnel by a public port leased from a
pool.

This directory holds TLA+ models of that program, TLC configurations that check
them on small instances, and proofs for instances of every size. The models cover
the server (control plane, accounts, both doors for visitors), one connection seen
from its client (control loop, data plane, request book), the client's engine with its
state on disk, and the desktop application as a set of processes that must not run two
engines at once.

## 1. The system

| Component | State it keeps | Operations | Talks to |
|---|---|---|---|
| **Session table**, `cy-server/registry.rs` | `sessions`, `hosts` (host to tunnel), `by_user` (account to session ids), behind one RwLock | register, unregister, open_tunnel, close_tunnel, set_tcp_port, tcp_port_of, tcp_ports_of_session, lookup, kick_user | called by the control plane, both ingresses and the admin API |
| **Port pool**, `ingress_tcp.rs` | `leased` (port to cancellation token), behind a mutex; one listening socket per accept-loop task | lease, release, accept_loop, pipe | called by the control plane; looks routes up in the table |
| **Control plane**, `control.rs` | per connection: the heartbeat counter, the request in progress, the outbox, the session's `CancellationToken` | serve, handle_connection, message_loop, open_tunnel, open_tcp_tunnel, clean-up; FailureTracker | table, pool, account database, client |
| **Accounts**, `store.rs` | SQLite: users (credential hash, expiry, revocation, limit), custom domains, audit | add, reissue, revoke, authenticate, domains, audit | read once per connection; written by the command line, a process of its own |
| **Command line and admin API**, `main.rs`, `admin.rs` | none | user add/reissue/revoke, domain add, kick, status, downloads | writes the database, then posts `/kick/<user>` to the server |
| **HTTP ingress**, `ingress_http.rs` | none of its own | handle, gate (tunnel password), forward | looks hosts up, opens a stream on the owner's session |
| **Mux**, `cy-proto/mux.rs`, `stream.rs` | queue of open requests, driver task | open, poll order, exit | both ends of the connection |
| **Protocol**, `cy-proto/control.rs`, `codec.rs`, `naming.rs`, `guard.rs` | none | messages, line codec, name rules, `host_for` | everywhere |
| **Client connection**, `cy-core/client.rs` | pending opens, route table (tunnel id to local port), names | connect, open, close, control_loop, data_plane, forward | server; events to the engine |
| **Engine**, `engine.rs`, `backoff.rs`, `state.rs` | desired tunnels (on disk), actual status, login, retry timers | supervisor, session loop, commands, taken-name retries, load and save | client connection, local API, desktop shell |
| **Inspector**, `inspector.rs` | ring of recorded requests per tunnel | record_request, record_response | forward() |
| **Local API, connects, verifier, updater** | active local connects | HTTP handlers that become engine commands; certificate pins; updates | engine |
| **Desktop shell**, `cy-desktop` | window state; `instance.rs`: which copy is running | bridge, single-instance hand-over, quit | engine, local API |
| Vite plugin, scripts, packaging, deploy | none | glue | local API |

What makes each part correct, and what makes it hard:

* **Table.** Hosts never route to sessions that have ended; the per-account index
  misses nobody; limits hold over all sessions of an account; one session never
  takes what another holds. Hard: an account's sessions overlap (a reconnection is
  logged in before the server has noticed that the old connection is dead), so their
  steps come in any order.
* **Pool.** No leak, no port lent twice, no listener that outlives its lease for
  ever. Hard: `lease()` has two critical sections around an await, and three
  records of a port (books, token, socket) change at different times.
* **Control plane.** Whatever ends a connection (kick, shutdown, reset, silence),
  at whatever point of a request, everything it held comes back. Hard: the select
  loop sees nothing while a request is being worked on.
* **Accounts and command line.** A credential taken away stops working at once; a
  domain reported as registered stays registered. Hard: two processes, one of which
  reads the database once and caches the answer in the form of a session; commands that
  read and then write.
* **Handshakes.** An address that fails too often is shut out for a while and not for
  ever. Hard: the question is asked when a connection is accepted and the failure counted at its end.
* **Ingress.** A visitor reaches the tunnel whose name he used, past its gate if it has
  one, or nobody. Hard: a clone of the route is used across awaits, and cookies outlive
  passwords, sessions and tunnels.
* **Client connection.** A stream goes to the local port of its tunnel; the two ends agree
  on what is open; whoever waits for an answer gets one. Hard: streams and control messages are
  ordered with nothing, and the connection can end at any of them.
* **Engine.** What is shown is open, what is open is shown, what is wanted is open or says
  why not, and what was said to be set up survives a crash. Hard: commands, answers, ticks,
  saves that fail, a server that still holds the host for the connection before, and
  one name that may have two hosts.
* **Desktop.** One engine per configuration. Hard: processes of three kinds of release,
  a lock and a port that need not agree, timeouts, and processes that die at any point.

`PROJECT.json` lists the places where this code is exposed ("hazards"), with the
properties that cover each.

## 2. The modules

| Module | Models | Stands on |
|---|---|---|
| `Registry` | the session table; every operator is one critical section | |
| `PortPool` | the pool's books, tokens and sockets | `Registry` |
| `ControlPlane` | one task per connection, accept loops, clients, administrator; properties, fairness and the inductive invariant | `PortPool` |
| `TunnelService` | the abstract promise: sessions, holders of names, loans of ports; no tasks | |
| `Revocation` | the credentials and the command line beside the control plane | `ControlPlane` |
| `Ingress` | visitors at the HTTP and TCP doors, gates and cookies | `ControlPlane` |
| `Accounts` | the account database under concurrent command lines | |
| `Gatehouse` | the failure tracker under concurrent handshakes | `Accounts` |
| `Inspector` | the request book | |
| `Link` | one connection: control loop, data plane, mux, the server's loop | `Inspector` |
| `ClientState` | the client's state in memory and in its file | |
| `Engine` | the engine's task, its commands, its view of the server | `ClientState` |
| `Desktop` | the processes of the application on one machine | |
| `MCControlPlane`, `MCRevocation`, `MCIngress`, `MCLink`, `MCEngine`, `MCDesktop` | the instances TLC checks (`Gatehouse` needs none) | |
| `ControlPlaneProofs`, `RevocationProofs`, `IngressProofs`, `GatehouseProofs`, `LinkProofs`, `InspectorProofs`, `EngineProofs`, `DesktopProofs` | the theorems | the module they are about |

A module that stands on another extends it when the code calls the other directly: each
action names the operation of the table, pool, book or state it performs and adds what
the task itself does. `Ingress` and `Revocation` let every step of `ControlPlane` interleave
with their own. The seams between the large models are narrow, and are stated from both sides:

* `Ingress` ends where a stream with an id in its header is opened to a session, and says whose
  tunnel that id is there; `Link` begins at that stream and says to which local port it goes.
* `ControlPlane` has the client as `peer`, heard or not; `Link` has the server as its message loop
  without heartbeats; `Engine` has the server as who holds each host and for how long.
* `Link` answers every open in the end (`OpensAnswered`); `Engine` relies on that while it waits
  (`RequestSettles`).
* `Desktop` has an engine as at work or not; `Engine` is what such a process does.

### The server's control plane (`Registry`, `PortPool`, `ControlPlane`, `Revocation`)

| TLA+ | Code |
|---|---|
| `sessions`, `by_user`, `hosts` | `Inner.sessions`, `Inner.by_user`, `Inner.hosts` |
| `hosts[h]` = session, id, kind, port | `Tunnel.session`, `tunnel_id`, `kind`, `tcp_port` |
| `cancel[c]` | `Session.cancel.is_cancelled()` |
| `leased[p]` | the entry of `PortPool.leased`; the lease is named by the tunnel it was made for |
| `cancelled` | leases whose token has fired and whose accept loop has not yet returned |
| `bound[p]` | the accept-loop task that owns the listening socket of p |
| `pc[c]` | the await (or the place between two critical sections) at which `handle_connection` is |
| `job[c]` | the locals of `open_tcp_tunnel`/`lease`, or of the `CloseTunnel` branch |
| `to_release[c]` | what is left of the list the clean-up loop walks |
| `unanswered[c]` | `unanswered` of `message_loop` |
| `next_id[c]` | the client's `next_id`, of which each request carries one value |
| `peer[c]` | what the server could hear from the client: up, mute (half-open), gone |
| `token[u]`, `revoked` | `users.token_sha256` (which of the credentials issued so far), `users.revoked_at` |
| `presented[c]` | the credential a connection was let in on (a history variable: the server forgets it) |
| `kick_due` | a command line between its database write and its POST |
| `raced` | history: connections in the authenticate–register window, on a credential already taken away, when the kick came |

A connection goes `idle` → `hello` → `authed` → `loop`, from there through
`lease`/`bind`/`set_port`/`roll_back` for a TCP open or `close` for a close and
back, and finally through `cleanup` to `done`. `control.rs` and `ingress_tcp.rs` are
cut where another task can get in between and notice:

* `authenticate()` and `register()` (`Authenticate`, `RegisterSession`);
* in `open_tcp_tunnel`: claiming the name (`OpenTcp`), writing the port down
  (`LeaseReserve`), the bind after the await (`LeaseBinds`, `LeaseBindFails`),
  `set_tcp_port` (`FinishOpen`), or `close_tunnel` after a failure (`RollBack`);
* `release` and `close_tunnel` of a close request (`CloseRequest`, `FinishClose`);
* each `release` of the clean-up and its `unregister`;
* `release()` firing the token (`Release`) and the accept loop noticing it
  (`ListenerStops`).

An HTTP open touches the table once, so it is one action. The candidates of
`lease()` are tried in order, one step each. The port is re-read under the lock
after the bind; that it is still there is the property `ReservationStays`.

### The doors (`Ingress`)

| TLA+ | Code |
|---|---|
| `visit[v]` | the locals of `handle()`/`forward()` or of `accept_loop()`/`pipe()` for one visitor: the clone of the `Tunnel` (`session`, `id`), the password sent along |
| `visit[v].late` | the accept loop that took the visitor had been told to stop |
| `tickets[v][h]` | the `chuanyun_auth` cookie a browser has from a host, if any: the `gate_token()` of a password there. Name and path are always the same, so the next one replaces it |
| `let_in[v][h]` | history: the password that brought the browser its last answer with a cookie at the host |
| `GateOf[c][i]` | `Tunnel.auth` of the i-th tunnel of a connection |

The look-up and the gate are one action (nothing is awaited in between), opening the stream
and its arrival another. The client's side of a stream is the id: it reaches whatever tunnel has that id in that session.

### Accounts and handshakes (`Accounts`, `Gatehouse`)

`account` and `owner` are the tables `users` and `custom_domains`; `clerk[k]` is what a
command-line process goes on to write after its SELECT; `confirmed` is what it told its user.
Each SQL statement is a transaction of its own, as in `store.rs`. `entries[a]` is
`FailureTracker.entries` with the age of the last failure in place of its time; `handshake[x]`
is `handle_connection` between `is_locked()` and `record()` or `clear()`.

### One connection (`Inspector`, `Link`)

| TLA+ | Code |
|---|---|
| `calls`, `calling` | the command channel of `Connection`; the `open_tunnel()` the engine is waiting in |
| `promised[n]` | history: the id behind the address last returned for n and not closed since |
| `control`, `pending`, `by_name`, `next_id` | the locals of `control_loop()`; "replying" is between the route being entered and the caller told |
| `ports` | `PortMap`, shared with the data plane |
| `cancelled` | the connection's `CancellationToken` |
| `data_plane`, `mux` | the tasks of `data_plane()` and of the mux driver |
| `to_server`, `to_client` | the control stream, in order, with its end as a message |
| `superseded` | history: ids whose name `by_name` has given to a later open, at another host |
| `server`, `tunnels` | the server's loop for this session, and its tunnels in the table, by host as there |
| `HostsOf[n]` | the hosts the engine may ask for: the account's own for the name, or a custom domain |
| `visitor[v]` | a stream, from the look-up to the record of its exchange (`forward()`) |
| `records`, `next_record` | `Inner.records`, `Inner.next_id` of the request book |

A break of the connection loses any number of the last messages each way. After `disconnect()`
both mux drivers go on, as in the code, until a stream comes that nobody takes or the peer leaves.

### The engine (`ClientState`, `Engine`)

| TLA+ | Code |
|---|---|
| `state`, `file` | `State` in memory; `state.json` |
| `pc` | where `supervisor()`/`session()` is: "dialing", "tls" and "hello" are the awaits of `connect()`, "no_token" and "backoff" are `handle_offline_cmd`'s waits, "saving" is between the write aside and the rename |
| `job`, `opening`, `todo` | the command being saved, the open request awaited, the names still to be opened in this round |
| `retry[n]` | `TakenRetries.pending`, as seconds left until `give_up_at` and `next_at` |
| `cards`, `status` | `Status.tunnels` and the rest of `Status` |
| `login_reply` | the reply channel of a login kept across the connection attempt |
| `link` | the `Connection`: "up", "lost" (ended by the server, not yet noticed), "dead" or "kicked" (`is_alive()` is false) |
| `held[h]`, `ghost[h]` | the server: who has a host, and for how many seconds it may still have it for a connection that has gone |
| `live[n]` | `by_name`: what the name was last opened with on this connection, hence at which host |
| `granted` | the rows of `custom_domains` of this account |
| `unsaved`, `amended`, `doubled`, `strays` | history: the last save failed; see "What the code does" |

A host is the account's own for a name, for which the name stands (`host_for` adds account and suffix), or a custom
domain (`HostOf`). Two names may have the same domain, and one name may in time have several hosts.

A command changes the state in memory and begins to save it in one action, and has its other
effects in a second one, so that a crash can come between; everything else the engine does
between two awaits is one action.

### The application's processes (`Desktop`)

`at[p]` is where `main()`, `claim()`, `resolve_running()`, `take_over_legacy()` or `quit` is;
`lock` and `port` are the lock file and the local API's socket, which the system takes
back from a process that ends; `found[p]` is the process number `probe()` reported. A timeout
is a step that is possible whenever what is waited for has not happened. `taskkill` and `kill` end any part
of the processes they are meant for, for their failure is only logged (`instance.rs:274`): `missed` keeps the old releases
that a starting process left alive, because they did not answer, were not asked or were not ended.

### What is abstracted

* A session is named by its connection: session ids are never reused.
* TLS, the mux and the line codec are, in `ControlPlane`, the environment's `peer`: a connection can fall
  mute, come back, or be gone at any time. A codec error, a second hello and a
  failed write to the outbox end the loop like a peer that has gone.
* The client numbers its requests apart; `Link` shows how (`FreshId`).
* A client's `Ping` is answered without touching the counter and changes no
  state. Requests that are refused before they reach the table (a bad name, a foreign
  custom domain, an unknown id) reset the counter only, which is what `Pong` does.
* The outbox of 64 messages and the mux's queues are never full; the hazard is listed.
* Custom domains do not change while `ControlPlane` runs (`Domains`); `Accounts` changes them.
* Credentials stand for server address and fingerprint too in `ClientState`: the code stores and reuses them together.
* In `Engine` the account's own hosts are spelled by nobody else (the hyphens of hazard `naming.rs:91` are in
  `control_safety`), and a custom domain that is registered stays so: no command takes one back.
* The length of delays counts only where the code compares it with another: the ghost on the server
  against the retry window, in seconds (`Engine`), and the age of a failure against the lock's window
  (`Gatehouse`). Backoff delays, the eight and the three seconds of `instance.rs`, the 100 ms after a kick and the
  500 ms wait for the writer are steps that may be delayed anyway.
* Process numbers are not used again while somebody remembers one.
* Headers (`X-Forwarded-For`, the stripped `Authorization`), error pages, redaction, truncation and replay
  of records change no state that a property is about.

## 3. What TLC checks

| Run | Instance | States | Shows |
|---|---|---|---|
| `control_safety` | 3 connections, 2 accounts (limits 1 and 2), 2 hosts of which one is spelled by both accounts and one is also a custom domain, 1 port, 1 open each | 1 330 000 | types and all safety invariants, and that nothing is taken over |
| `control_liveness` | 2 connections of one account, 2 hosts, ports 1 (held by another program) and 2, 1 open each, for any port or port 2, no symmetry | 88 000 | the inductive invariant `IInv`; refinement of `TunnelService`; kicked and silent clients leave, opens are answered, ports come back |
| `released_port` | 2 connections, 2 free ports, 2 opens each | violated | a port just given back cannot be bound yet |
| `revocation_window` | 2 connections of one account, 2 credentials, no opens | 29 000 | a revoked credential keeps online only connections in the authenticate-register window; everybody else leaves |
| `revocation_race` | 2 connections, 2 credentials, 1 open | violated | that window is real |
| `engine_session` | 1 tunnel, 1 custom domain, 2 local ports, 1 password, 1 credential, heartbeat of 1 s, 0 missed, 2 for the retries | 429 000 | cards, server and file agree through commands, failures, crashes and reconnections; own ghosts are outlasted; broken connections are replaced and logins answered |
| `engine_cards` | the same | violated | a tunnel switched off is not listed after a restart |
| `switched_off` | the same | violated | a tunnel given another domain while open can be switched off and still be public |
| `client_link` | 2 tunnels, 3 hosts (one tunnel may be opened at two), 2 opens, 2 visitors, 1 record kept per tunnel | 650 000 | streams go home, announced tunnels are served, the ends agree, records are right, opens are answered |
| `ingress_visits` | 2 connections of one account, 2 hosts, 1 port, 2 tunnels per session, 2 passwords, 1 visitor | 2 346 000 | a visitor reaches its own tunnel, past the gate only with the password, and is asked once |
| `gatehouse` | 1 address, 2 handshakes, limit 2, window 2; 2 accounts, 1 domain, 2 command lines, 2 credentials | 471 000 | the count is bounded, the lock lifts, a registered domain stays its owner's |
| `desktop` | 2 processes of one release, 1 of the next, 2 of an old one, on Windows | 1 245 000 | one engine works at a time |

### Why these bounds are enough

**Control plane.** The conflicts are between two tasks over one name, one
port or one account's limit, or between one task and its own past (a second open while
the listener of the first is still bound, hence two opens in `released_port`; `IInv` and `KeepsPromises` were
also checked with two opens each for any port, port 2 or one outside the pool, 540 000 states). The third
connection of `control_safety` belongs to another account so that the account's
index, its limit and its kick have somebody to leave alone. One free port makes
every lease conflict; a port that another program holds (`Busy`) makes the hunt go
on past a failed bind. A request for `PortHi + 1` stands for every port outside the
pool. `MissedHeartbeats = 1` instead of 3 shortens the count and changes no
comparison; the proofs hold for every positive value. Two credentials (`MaxIssued`)
let a revoked account be let in again under a new one. `revocation_window` opens no
tunnels because requests are the subject of `control_liveness`; its invariant is
proved with them.

**Engine.** The engine does one thing at a time, and what relates two tunnels is a host they share, a custom domain given to
both; that instance is too large for a run and was checked apart (section 4). One name with two ports, and with a password
and a domain that may be there or not, has every change of a registration, and two hosts for one name. The engine's
window must be longer than the server's patience: with a heartbeat of 1 s, none missed and 2 for the retries make a
ghost of one second and a window of two (a host is freed at the first heartbeat after the missed ones); the proofs are for every pair. With 1 missed, 3 for the
retries, other machines at both hosts and `Disable` as the save that fails, the same properties hold (1 422 000 states).
`OthersAt` lets another machine open the account's own host; `SavesThatFail = {"Remove"}`: what follows a failed save is the
same for every command. `MaxAttempt` caps a counter that is only displayed.

**Link.** Two ids and two names are enough to confuse one with the other; a stream that arrives after
its tunnel was closed can meet the next one. Only `api` can be opened at a second host, with the name open at the first or not.
`AsksFor` lets the first visitor ask for one host only: the visitors are interchangeable. With one record per tunnel the second request of a tunnel evicts the first.

**Ingress.** Two sessions in succession with two tunnels each make the same id mean different tunnels in
them, with a password that is kept for the first tunnel and changed for the second. Heartbeats, kicks and
shutdown are left out (they only add ways for a session to end), and so is the second visitor: visitors share nothing.
A host's password can change and come back: whoever got in with the new one meanwhile is asked again.

**Gatehouse.** `Limit + 1` failures need two handshakes at once when the limit is 2; the window needs
an age at, before and past it. Two commands race for the domain; a third would meet the same constraint.

**Desktop.** Three new processes are one that runs, one that replaces it and one that comes in between; a newer one
has to be among them. Two old processes are what `kill_other_instances()` is for.

Symmetry is used for safety only: c1 and c2 of one account, and in `desktop` the copies of one release.

Deadlock is checked in `engine_session`, `engine_cards`, `switched_off`, `gatehouse` and `desktop`, whose systems go on for ever. It is not
where each connection of the model is used once (the control plane's runs, `ingress_visits`, `client_link`): when
all are done, the model has come to its end.

### Fairness

Nothing is assumed of users, clients of the server, visitors, administrators, or the network: they may
act for ever or never again.

* `ControlPlane`: weak fairness of what the runtime owes a task: the work it has
  begun (`Work`), a branch of the select that ends the loop (`LoopEnds`), the
  heartbeat timer, and an accept loop whose token has fired. `select!` polls its branches
  in random order, so a branch that stays ready is taken in the end. The handshake
  has a timeout of ten seconds for clients that say nothing (`HandshakeTimesOut`).
* `Revocation`: the command line goes on to its POST once it has written
  the database. A command line killed in between, or one whose POST fails, is listed as a hazard.
* `Link`: weak fairness of the control loop and of the server's loop while they have something to take, and of the
  server's clean-up once it has been told to leave or finds the stream closed. Nothing makes a half-open connection break.
* `Engine`: connecting goes on outside the TLS handshake (the system gives up a TCP connection it cannot make, the hello is
  answered within 15 seconds or given up), a save returns; these are weak. Nothing is asked of the TLS handshake, for which
  the code has no limit (`client.rs:315`).
  The tick, the end of the backoff and the settling of an open request are strongly fair: `select!`
  picks at random among ready branches, so commands do not keep the tick or the backoff from ever being
  taken; an open request is answered by the server or ends with the connection (`OpensAnswered` in `Link`), which on a half-open
  connection means: when the operating system gives it up.
* `Gatehouse`: the clock goes on.

A connection still being admitted or in the middle of a request does not see its
kick. `KickedLeaves` and `OpenAnswered` say that this delay ends: the hunt over
the pool never waits for a port and never starts over.

### What the violations show

* `released_port`: the comments say that a released port stops accepting at once.
  `release()` removes it from the books and fires the token, but the socket is closed by
  another task. A lease made in between finds the port free and fails to bind it:
  a client that closes and reopens a tunnel on a fixed port can be told `PORT_TAKEN`.
  Nothing is routed wrongly (`ListenersRouteHome`), and the port comes back
  (`PortsComeBack`).
* `revocation_race`: between `authenticate()` and `register()` a connection is
  known to nobody. A revocation whose write and kick both fall into that window misses it.
  `OnlyRacedSurvive` shows there is no other way to survive.
* `engine_cards`: the manual says that a tunnel switched off stays in the list
  (`src/docs/使用.md:61`). The list is the engine's cards; a card is made when a tunnel is opened or
  registered; after a restart nothing makes one for a tunnel that is switched off.
  `tunnels_from_state()` would, and nobody calls it.
* `switched_off`: the comment of `SetEnabled` says that the command returns when the tunnel is really closed
  (`engine.rs:126`), the manual that PATCH closes it (`使用.md:61`). A registration with another domain for a tunnel that is up
  is saved and not opened; switching the tunnel on opens it at the new host without closing the old; the client's `by_name` has
  one id per name (`client.rs:498`), so switching it off closes the new host only. The old one stays public until the
  connection ends.

### What the code does, and the properties say

Exceptions a property had to make, each found by TLC without it:

* A registration that changes the password or the domain of a tunnel that is up on the same port is saved and answered with
  success, but gate and host stay the old ones until the tunnel is next opened (`amended` in `ShownUrlIsLive`).
* Switching on a tunnel that is on asks the server for the host again; the server refuses the client its own host, the
  card loses its address and the engine retries, and in the end gives up, over a tunnel that is open (`doubled`
  in `LiveIsShown`; the host is held in `OutlastsOwnGhosts`).
* Switching on a tunnel that is on and was given another domain opens a second host, and the first is forgotten until the
  connection ends (`strays` in `LiveIsShown`, `superseded` in `EndsAgree`). A visitor of the first is still served.
* A custom domain not registered to the account is refused with the code of a taken name (`control.rs:409`), so `is_taken()`
  holds although nobody has the host, against its comment (`client.rs:166`), and the engine retries for the whole window, against
  "only the taken name" (`engine.rs:746`) (`Allowed` in `OutlastsOwnGhosts`).
* A TLS handshake that never ends keeps a login waiting, and a reconnection (`LoginAnswered`; `Reconnects` promises the attempt,
  not its end).
* An accept loop that has been told to stop may still take one visitor; the host key may by then be a later session's, and the
  id in the header is the old tunnel's (`late` in `ReachesItsTunnel`).
* A process that cannot open the lock file goes on without; an old release that does not answer on the port
  is not found, and one that neither stops nor can be ended works on beside the new one (`unlocked`, `missed` in `OneEngine`).
* A login with an empty credential, made while the engine waits for a login, is not answered (`LoginAnswered`).
* A tunnel switched off keeps the words of its last error on its card (`RetryingShown` speaks of cards that are on).

And what the models show without a property that forbids it:

* A kicked client reconnects, although `client.rs:125` says it should not; `Reconnects` does not speak of kicks.
* Two accounts whose names hold hyphens can spell the same host (`naming.rs:91`), although the manual says that nobody else can
  collide with one's name (`使用.md:218`).
* A refused credential is cleared in memory only; after a restart it is tried again.
* The expiry of a credential ends no session; `user reissue` leaves the expiry date as it is.
* While a process that is quitting still answers, a second launch of the same release posts `show` to it and ends.
* A call to quit is posted to whoever has the port by then; `taskkill` goes by the program's name, so a take-over
  ends processes of other configurations too.

## 4. What is proved

Every safety property of the passing runs, invariants and action properties, is also a theorem, for any finite set of hosts
and names, any domains, any sets of connections, accounts, visitors and processes, and any limits, windows and pools. TLAPS checks them from the
named assumptions on the constants, which TLC evaluates in every run: types, finite `Hosts`, `Names` and `Handshakes`, `Ports` an
interval, and that `None` and `Torn`, which stand for Option::None and for a file cut short, are unlike what they stand
beside (`RegistryAssumption`, `PortPoolAssumption`, `ControlAssumption`, `RevocationAssumption`, `IngressAssumption`,
`AccountsAssumption`, `GatehouseAssumption`, `InspectorAssumption`, `LinkAssumption`, `ClientStateAssumption`,
`FileAssumption`, `EngineAssumption`, `PresentAssumption`, `DesktopAssumption`). One theorem assumes more, and says it in its
statement; see the engine below.

| Module | Theorem | States |
|---|---|---|
| `ControlPlaneProofs` | `ControlInvariant` | `IInv`, inductive |
| | `ControlTypes`, `RoutesAndIndex`, `PortsDoNotLeak`, `PortsAreHeld`, `NoTunnelIsDead`, `LeaseDoesNotPanic` | `TypeOK`, `NoOrphanRoute`, `IndexExact`, `NoPortLeak`, `TunnelHoldsPort`, `ListenersRouteHome`, `NoDeadTunnel`, `ReservationStays` |
| | `UsersKeepTheirLimit`, `TakesNothingOver` | `UserLimit`, `NothingTakenOver` |
| | `ImplementsService` | `KeepsPromises`: the control plane implements `TunnelService` |
| `RevocationProofs` | `OnlyTheWindow` | `OnlyRacedSurvive` |
| `IngressProofs` | `VisitInvariant` | `VisitInv`, inductive beside `IInv` |
| | `StreamsGoHome`, `GatesHold`, `NobodyIsAskedTwice` | `ReachesItsTunnel`, `GateHolds`, `AskedOnce` |
| `GatehouseProofs` | `DomainStaysConfirmed`, `TrackerInvariant`, `FailuresBounded` | `ConfirmedIsOwner`, `TrackerInv`, `CountBounded` |
| `LinkProofs` | `LinkInvariant` | `LinkInv`, inductive |
| | `VisitorsGoHome`, `AnnouncedAreServed`, `TwoEndsAgree` | `DeliveredHome`, `AnnouncedIsServed`, `EndsAgree` |
| `InspectorProofs` | `BookInvariant`, `OutcomesAreOwn`, `QuietTunnelsKeepTheirs` | `BookInv`, `ResponseOnOwnRecord`, `OthersRecordsKept` |
| `EngineProofs` | `EngineInvariant` | `EngineInv`, inductive |
| | `EngineTypes`, `UrlsShownAreServed`, `NothingOpenUnshown`, `NoTunnelPassedOver`, `PromisesOfRetryKept` | `TypeOK`, `ShownUrlIsLive`, `LiveIsShown`, `WantedAccountedFor`, `RetryingShown` |
| | `DiskKeepsTheState`, `OwnGhostsAreOutlasted` | `SavedStateKept`, `OutlastsOwnGhosts` |
| `DesktopProofs` | `DesktopInvariant`, `LockIsExclusive`, `EnginesExclude` | `DesktopInv`, `OneModernEngine`, `OneEngine` |

No property above is inductive by itself, but for `SavedStateKept` and, given types, `ConfirmedIsOwner`. What had to be
added, and along which line each proof goes:

**Control plane.** That a port in the books belongs to a
tunnel that names it is not inductive: one has to know which tunnel a task is
working on (`JobInv`), that a session's tunnel ids are all different (`IdInv`, or
`close_tunnel` could remove another tunnel than the one whose port was
released), that the clean-up's list holds exactly leases of its own session
(`ReleaseInv`, or a port given back and lent again could be released under its new holder), and that
a lease cancelled once is never used again (`ListenerInv`, or an accept
loop just started could be stopped by an old token).
One lemma per action shows that it keeps `IInv`. Then
every step is classified by what it does to names and ports: it settles nothing, logs
a session in or out, claims a name, gives one up, borrows a port or returns one
(`StepKind`, `NextKind`). The limit, the no-takeover property and the refinement
are then proved per kind, instead of per action once more. `OnlyTheWindow`
first shows that every step of `RevocationSpec` is a step of `Spec` or a stutter, so that
`IInv` is available, and then that a server step only moves a connection forward and
never takes back a cancellation.

**Doors.** A visitor's step leaves the control plane alone and the other way round, so `IInv` holds beside `VisitInv`. A stream
keeps to its tunnel because ids are never used again in a session: `StreamInv` adds that the id it carries has been given out already, so that no
later tunnel can come to have it, and every step of the control plane either leaves a host's tunnel as it is or gives it an id not
yet given out (`OldOrFresh`). For the gates, `Kept` ties a browser's one cookie at a host to the password of the last answer it had there, and a visitor past a gate to a password given now or then.

**Accounts and handshakes.** `TrackerInv` counts: beyond the limit, each further failure of an address is one of a handshake that
was let in before, so the count plus the handshakes still under way is bounded as soon as the limit is reached.

**Link.** What makes a stream go home is spread over two message channels, the client's three tables and the server's. `LinkInv`
says that there is one assignment `home` of ids to names with which all of them agree, that one open at a time is in the command channel, on its way to the server or on its way back, and is
the one that the engine waits for (`OneOpen`), which promises are still good (`Promises`), and when the two ends may
differ (`Ends`): the server goes by hosts and the client by names, so a name opened at a second host leaves an id to the server that
`by_name` has lost (`superseded`), with its route. The assignment is existentially quantified: it grows by the id of a new request and is otherwise the same, so each action's lemma
either keeps the witness or extends it. Channels are reasoned about by what they hold, not by position, but for the end of the stream, which is last.

**Request book.** `BookInv`: a record's number was drawn, by one task; the task that will report on it has that number; no tunnel is over its limit.
A record that goes away never changes another's number, which is why the outcome finds its own or nothing. The "clear" of one tunnel is
stated as a relation: the new book enumerates the kept records in their old order. That is what `retain()` does, and it spares an induction
over sequences that the provers cannot do.

**Engine.** `EngineInv` has where the task can be with which connection (`Places`), what the command in hand has made of
the state (`Taking`), that a host held is that of a name open there or one left behind, and no two names are open at one host (`HostsOK`),
and, for each name, `NameOK`: its card is that of a tunnel in the state (`CardOK`), an address shown is served
(`UrlOK`), what `by_name` has of it is held for a tunnel that is on (`HeldOK`), a tunnel that is on is open, under way or says why not
(`AccountedOK`), a retry and the card's promise go together (`RetryOK`). Each part has its exceptions while a command on just that name is being
saved or a request for it is on its way; the properties, which speak of a quiet session, have only those of section 3. `Untouched` says that a step on one
name leaves `NameOK` of the others, so each action's lemma argues about its own name only. `DiskKeepsTheState` rests on the rename being one step for a process
that dies (not for a power failure, see section 5):
steps that neither start the process nor return from a save leave file and flag alone (`DiskLeftAlone`). `OwnGhostsAreOutlasted` adds
`PatienceInv`, that every ghost leaves before the retries of any name end, and assumes
`MissedHeartbeats < TakenRetryHeartbeats`, which in the code is 3 (`cy-server/control.rs:32`) against 6 (`engine.rs:735`); with the
two the other way round (6 and 3) TLC finds a client that gives up on its own ghost.

**Desktop.** The lock is the centre: `Lawful` says that a process past `claim()` has it, or could not open the file, and that one past
`take_over_legacy()` has no old release beside it that it has not missed. `LockIsExclusive` has no exception but the lock file.
`EnginesExclude` speaks of old releases as well, and names those left alive: an old release is told to disconnect and waited for, three seconds at
most, then ended by name, on Windows only (`instance.rs:245`), and the new engine starts whatever came of it. So two engines can be
at work where `taskkill` fails, where the old program's file has another name, and on other systems.

The invariants of `IngressProofs`, `GatehouseProofs`, `LinkProofs`, `InspectorProofs`, `EngineProofs` and `DesktopProofs` were checked by TLC too, on the instances
of section 3 and, for the engine, on larger ones, before they were proved: one tunnel with two
domains (2 160 000 states), and two tunnels that may share a domain (1 590 000); they are not listed as runs because
the theorems say more.

**Model-checked only.** Liveness (`KickedLeaves`, `SilentLeaves`, `PortsComeBack`,
`OpenAnswered`, `OutdatedLeaves`, `Reconnects`, `LoginAnswered`, `OpensAnswered`, `LockLifts`), which needs fairness
and ENABLED and is beyond the prover; and the four violations, which are about single behaviours.

## 5. Not modelled, and why

* **Reverse connections** (`connect.rs`, `AddConnect` and `RemoveConnect` of the engine). The list of
  active ones is changed by the engine's task alone, one command at a time, which awaits the end of the old
  listener before it binds anew; their connections know nothing of each other.
* **The outbox and the mux's queues at their limits.** A message loop blocked on a full outbox is a real hazard
  and is listed; when it blocks is decided by yamux's windows, which are a library's.
* **A kick whose POST fails**, and a command line killed before it: the command tells its user.
* **A power failure.** `save()` writes a second file and renames it (`state.rs:116-125`, `189-206`), and flushes neither: after a
  power failure, which its comment is about, the file may be old, or empty and then taken for a broken one. What survives is the
  file system's doing. `Crash` is the death of the process with the system staying up.
* **The lengths of delays**, hence the backoff's jitter.
* **Pure functions without state**: codec, name rules, browser guard, header rewriting, certificate checks.
* **Configuration, TLS set-up, status and download pages, search for updates, user interface, plugin, packaging**: I/O
  or layout; no state that interleaves with anything.

## 6. Plan

1. An abstract specification of what the engine promises its user (wanted, shown, served), with `Engine` shown to implement it.
2. What the seams of section 2 rely on, stated in one place: that `Engine`'s view of the server is one `ControlPlane` allows.
3. As models: reverse connections beside the engine, and an outbox with a limit.
