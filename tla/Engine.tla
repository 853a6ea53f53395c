------------------------------- MODULE Engine -------------------------------
(***************************************************************************)
(* The client's engine (crates/cy-core/src/engine.rs): one task that keeps *)
(* the connection to the server up and the tunnels the user wants open on  *)
(* it.  It takes commands one at a time and serves none while it connects, *)
(* saves, or waits for the server's answer to an open request.             *)
(*                                                                         *)
(* The server is seen as the engine sees it: who holds each of the hosts   *)
(* of the account's tunnels, and how long it goes on holding one for a     *)
(* connection that is no more.  Time passes in seconds while a session is  *)
(* up; elsewhere no step depends on how much of it passes.                 *)
(***************************************************************************)
EXTENDS ClientState

CONSTANTS
  Heartbeat,            \* the server's heartbeat, in seconds
  MissedHeartbeats,     \* heartbeats after which the server drops a connection
  TakenRetryHeartbeats, \* TAKEN_RETRY_HEARTBEATS
  SavesThatFail,        \* bound: the commands whose save may fail
  OthersAt,             \* bound: the hosts that another machine opens tunnels at
  MaxAttempt            \* bound: reconnect_attempt is not counted any further

ASSUME EngineAssumption ==
  /\ Heartbeat \in Nat \ {0}
  /\ MissedHeartbeats \in Nat
  /\ TakenRetryHeartbeats \in Nat
  /\ SavesThatFail \subseteq {"Login", "Logout", "Add", "Remove", "SetAuth", "Enable", "Disable"}
  /\ OthersAt \subseteq Hosts
  /\ MaxAttempt \in Nat \ {0}

VARIABLES
  pc,           \* where the engine's task is
  job,          \* the command whose outcome is being saved, or None
  todo,         \* names still to be opened in this round
  opening,      \* the open request awaiting its answer, or None
  retry,        \* TakenRetries.pending
  cards,        \* Status.tunnels, as the user interface shows them
  status,       \* the rest of Status
  login_reply,  \* is somebody waiting for the outcome of a login?
  link,         \* the connection; "lost" once the server has ended the session
                \* and the client does not know it
  granted,      \* the custom domains registered to the account
  held,         \* who holds the host on the server
  ghost,        \* seconds the server may yet hold it for a connection that is gone
  live,         \* by_name: what the tunnel was last opened with on this connection
  unsaved,      \* the last save failed
  amended,      \* history: names open with a password or domain other than the
                \* one kept, because a registration brought the new one
  doubled,      \* history: names switched on while they were open, and refused
  strays        \* history: hosts left open when their name was opened at another

serverVars == <<granted, held, ghost, live>>
diskVars == <<file, unsaved>>
watchVars == <<amended, doubled, strays>>
vars == <<stateVars, pc, job, todo, opening, retry, cards, status, login_reply,
          link, serverVars, unsaved, watchVars>>

\* A card; its address is the host.
Card == [port : LocalPorts, enabled : BOOLEAN, url : Hosts \cup {None},
         error : {"none", "retrying", "taken", "other"}, protected : BOOLEAN]

\* Status, but for the tunnels, which are the cards.
Status == [connected : BOOLEAN, needs_login : BOOLEAN, attempt : 0..MaxAttempt]

Commands == {"Login", "Logout", "Add", "Remove", "SetAuth", "Enable", "Disable"}

\* How long the server holds on to the hosts of a connection that is gone.
GhostSeconds == (MissedHeartbeats + 1) * Heartbeat

\* Mutant: no longer than the server needs to count the heartbeats missed.
RetryWindowShort == MissedHeartbeats * Heartbeat

\* TakenRetries::new(): how long, and how often, a taken host is asked for again.
RetryWindow == TakenRetryHeartbeats * Heartbeat
RetryEvery == IF Heartbeat < 3 THEN Heartbeat ELSE 3

Retry == [left : 0..RetryWindow, next : 0..RetryEvery]

Job == [cmd : Commands, name : Names \cup {None}, from : {"no_token", "session", "backoff"}]

Request == [name : Names, by : {"round", "Add", "SetAuth", "Enable"}]

\* What is there is not None.
ASSUME PresentAssumption ==
  /\ None \notin Card /\ None \notin Retry /\ None \notin Job
  /\ None \notin Request /\ None \notin TunnelSpec

TypeOK ==
  /\ StateTypeOK
  /\ pc \in {"off", "no_token", "dialing", "tls", "hello", "session", "opening", "backoff",
             "saving"}
  /\ job \in Job \cup {None}
  /\ todo \in SUBSET Names
  /\ opening \in Request \cup {None}
  /\ retry \in [Names -> Retry \cup {None}]
  /\ cards \in [Names -> Card \cup {None}]
  /\ status \in Status
  /\ login_reply \in BOOLEAN
  /\ link \in {"none", "up", "lost", "dead", "kicked"}
  /\ granted \in SUBSET Domains
  /\ held \in [Hosts -> {"free", "mine", "other"}]
  /\ ghost \in [Hosts -> 0..GhostSeconds]
  /\ live \in [Names -> TunnelSpec \cup {None}]
  /\ unsaved \in BOOLEAN
  /\ amended \in SUBSET Names
  /\ doubled \in SUBSET Names
  /\ strays \in SUBSET Hosts
  /\ opening # None <=> pc = "opening"
  /\ job # None <=> pc = "saving"

NoCards == [n \in Names |-> None]
NoRetries == [n \in Names |-> None]

Init ==
  /\ StateInit
  /\ pc = "off"
  /\ job = None /\ todo = {} /\ opening = None
  /\ retry = NoRetries
  /\ cards = NoCards
  /\ status = [connected |-> FALSE, needs_login |-> FALSE, attempt |-> 0]
  /\ login_reply = FALSE
  /\ link = "none"
  /\ granted = {}
  /\ held = [h \in Hosts |-> "free"]
  /\ ghost = [h \in Hosts |-> 0]
  /\ live = [n \in Names |-> None]
  /\ unsaved = FALSE
  /\ amended = {} /\ doubled = {} /\ strays = {}

-----------------------------------------------------------------------------
(* The connection and the server's side of it. *)

Minus1(i) == IF i = 0 THEN 0 ELSE i - 1

\* A second passes, for the ghosts on the server and for the retries.
GhostsFade == ghost' = [h \in Hosts |-> Minus1(ghost[h])]

SecondLater(n) ==
  IF retry[n] = None THEN None
  ELSE [left |-> Minus1(retry[n].left), next |-> Minus1(retry[n].next)]

\* What is open on a connection goes with it.
NothingOpen ==
  /\ held' = [h \in Hosts |-> IF held[h] = "mine" THEN "free" ELSE held[h]]
  /\ live' = [n \in Names |-> None]
  /\ amended' = {} /\ doubled' = {} /\ strays' = {}
  /\ UNCHANGED granted

\* The hosts of the present connection become ghosts.
ConnectionGone ==
  /\ NothingOpen
  /\ ghost' = [h \in Hosts |-> IF held[h] = "mine" THEN GhostSeconds ELSE ghost[h]]

\* Mutant: a connection counts as alive as long as there is one.
AliveWhileThere == link # "none"

\* is_alive(), as far as the client can tell.
Alive == link \in {"up", "lost"}

\* conn.close_tunnel(): nothing is sent for a name that is not in by_name.  What
\* is closed is what the name was opened as last.
CloseTunnel(n) ==
  /\ held' = IF live[n] = None THEN held
             ELSE [held EXCEPT ![HostOf(n, live[n])] = IF @ = "mine" THEN "free" ELSE @]
  /\ live' = [live EXCEPT ![n] = None]
  /\ amended' = amended \ {n}
  /\ doubled' = doubled \ {n}
  /\ UNCHANGED <<granted, ghost, strays>>

\* The server drops the connection: a kick, a shutdown, or no heartbeats.
ServerEnds ==
  /\ link = "up"
  /\ link' = "lost"
  /\ NothingOpen
  /\ UNCHANGED <<stateVars, pc, job, todo, opening, retry, cards, status, login_reply, ghost, unsaved>>

\* The control task of the client ends: the stream broke, or it was kicked.
LinkDies ==
  /\ Alive
  /\ link' \in {"dead", "kicked"}
  /\ ConnectionGone
  /\ UNCHANGED <<stateVars, pc, job, todo, opening, retry, cards, status, login_reply, unsaved>>

\* The server learns at last, or at once, that a former connection is gone.
GhostLeaves(h) ==
  /\ ghost[h] > 0
  /\ ghost' = [ghost EXCEPT ![h] = 0]
  /\ UNCHANGED <<stateVars, pc, job, todo, opening, retry, cards, status, login_reply,
                 link, granted, held, live, unsaved, watchVars>>

\* The server lets the account open tunnels at the host: its own hosts, and the
\* custom domains registered to it.
Allowed(h) == h \in Names \cup granted

\* The same account opens and closes the host on another machine.
OtherMachine(h) ==
  /\ \/ held[h] = "free" /\ ghost[h] = 0 /\ Allowed(h) /\ held' = [held EXCEPT ![h] = "other"]
     \/ held[h] = "other" /\ held' = [held EXCEPT ![h] = "free"]
  /\ UNCHANGED <<stateVars, pc, job, todo, opening, retry, cards, status, login_reply,
                 link, granted, ghost, live, unsaved, watchVars>>

\* The administrator registers a custom domain to the account: for good, no
\* command takes it back.
DomainRegistered(d) ==
  /\ granted' = granted \cup {d}
  /\ UNCHANGED <<stateVars, pc, job, todo, opening, retry, cards, status, login_reply,
                 link, held, ghost, live, unsaved, watchVars>>

-----------------------------------------------------------------------------
(* The process. *)

\* supervisor(): the state is loaded; the status starts out with no tunnels.
Launch ==
  /\ pc = "off"
  /\ state' = Load
  /\ SetAside
  /\ pc' = IF Load.token = None THEN "no_token" ELSE "dialing"
  /\ status' = [connected |-> FALSE, needs_login |-> Load.token = None, attempt |-> 0]
  /\ unsaved' = FALSE
  /\ UNCHANGED <<job, todo, opening, retry, cards, login_reply, link, serverVars, watchVars>>

ProcessEnds ==
  /\ pc' = "off"
  /\ state' = DefaultState
  /\ job' = None /\ todo' = {} /\ opening' = None
  /\ retry' = NoRetries
  /\ cards' = NoCards
  /\ status' = [connected |-> FALSE, needs_login |-> FALSE, attempt |-> 0]
  /\ login_reply' = FALSE
  /\ link' = "none"
  /\ ConnectionGone
  /\ UNCHANGED <<file, unsaved>>

\* The engine's task is where it takes commands.
TakesCommands == pc \in {"no_token", "backoff"} \/ (pc = "session" /\ todo = {})

\* Cmd::Shutdown: the control stream is closed before the process ends.
Shutdown == TakesCommands /\ ProcessEnds

\* The process is killed.
Crash == pc # "off" /\ ProcessEnds

-----------------------------------------------------------------------------
(* Connecting. *)

Dials(from, to) ==
  /\ pc = from /\ pc' = to
  /\ UNCHANGED <<stateVars, job, todo, opening, retry, cards, status, login_reply, link,
                 serverVars, unsaved, watchVars>>

\* The address answers, and then the peer proves itself; nothing bounds how long
\* the second takes.
TcpUp == Dials("dialing", "tls")
TlsUp == Dials("tls", "hello")

\* Mutant: the tunnels that were open are not opened again.
ConnectOkForgetsTunnels ==
  /\ pc = "hello"
  /\ pc' = "session"
  /\ link' = "up"
  /\ todo' = {}
  /\ retry' = NoRetries
  /\ login_reply' = FALSE
  /\ status' = [connected |-> TRUE, needs_login |-> FALSE, attempt |-> 0]
  /\ UNCHANGED <<stateVars, job, opening, cards, serverVars, unsaved, watchVars>>

\* A session begins: every enabled tunnel is to be opened.
ConnectOk ==
  /\ pc = "hello"
  /\ pc' = "session"
  /\ link' = "up"
  /\ todo' = EnabledTunnels(state)
  /\ retry' = NoRetries
  /\ login_reply' = FALSE
  /\ status' = [connected |-> TRUE, needs_login |-> FALSE, attempt |-> 0]
  /\ UNCHANGED <<stateVars, job, opening, cards, serverVars, unsaved, watchVars>>

\* Mutant: nobody tells the login that is waiting.
WaitForLoginSilently ==
  /\ pc' = "no_token"
  /\ state' = [state EXCEPT !.token = None]
  /\ status' = [status EXCEPT !.connected = FALSE, !.needs_login = TRUE]
  /\ UNCHANGED login_reply

\* No credential is left in memory: wait for a login.  The file keeps it.
WaitForLogin ==
  /\ pc' = "no_token"
  /\ state' = [state EXCEPT !.token = None]
  /\ status' = [status EXCEPT !.connected = FALSE, !.needs_login = TRUE]
  /\ login_reply' = FALSE

\* The server refuses the credential: trying again is of no use.
ConnectRejected ==
  /\ pc = "hello"
  /\ WaitForLogin
  /\ UNCHANGED <<file, job, todo, opening, retry, cards, link, serverVars, unsaved, watchVars>>

\* The next attempt is put off.
BackOff ==
  /\ pc' = "backoff"
  /\ status' = [status EXCEPT !.connected = FALSE,
                  !.attempt = IF @ < MaxAttempt THEN @ + 1 ELSE @]

\* No connection, at whichever step, or no welcome in time.  A login that was
\* waiting for it is told so and forgotten; otherwise the engine tries again later.
ConnectFails ==
  /\ pc \in {"dialing", "tls", "hello"}
  /\ IF login_reply
       THEN WaitForLogin
       ELSE BackOff /\ UNCHANGED <<state, login_reply>>
  /\ UNCHANGED <<file, job, todo, opening, retry, cards, link, serverVars, unsaved, watchVars>>

\* The wait is over.  A logout during the wait shows only now.
BackoffEnds ==
  /\ pc = "backoff"
  /\ pc' = IF state.token = None THEN "no_token" ELSE "dialing"
  /\ status' = [status EXCEPT !.needs_login = @ \/ state.token = None]
  /\ UNCHANGED <<stateVars, job, todo, opening, retry, cards, login_reply, link,
                 serverVars, unsaved, watchVars>>

NoUrls == [n \in Names |-> IF cards[n] = None THEN None ELSE [cards[n] EXCEPT !.url = None]]

\* session() returns Dropped.
SessionDropped ==
  /\ BackOff
  /\ link' = "none"
  /\ cards' = NoUrls
  /\ retry' = NoRetries

-----------------------------------------------------------------------------
(* Opening tunnels on the connection. *)

\* The next tunnel of the round is asked for.
OpenNext ==
  /\ pc = "session"
  /\ \E n \in todo :
       /\ todo' = todo \ {n}
       /\ opening' = [name |-> n, by |-> "round"]
  /\ pc' = "opening"
  /\ UNCHANGED <<stateVars, job, retry, cards, status, login_reply, link, serverVars, unsaved, watchVars>>

\* open_and_record(): the card of tunnel n after an answer.
CardAfter(n, url, error) ==
  LET e == state.tunnels[n] IN
  [port |-> e.port, enabled |-> TRUE, url |-> url, error |-> error,
   protected |-> IF opening.by = "SetAuth" \/ cards[n] = None
                   THEN e.auth # None ELSE cards[n].protected]

\* Mutant: the request is not ticked off.
AnsweredStillOpen(n) ==
  /\ pc = "opening"
  /\ opening # None
  /\ opening.name = n
  /\ pc' = "session"
  /\ UNCHANGED <<stateVars, job, todo, opening, status, login_reply, link, granted, ghost, unsaved>>

\* The answer to the open request of tunnel n, or the end of waiting for it.
Answered(n) ==
  /\ pc = "opening"
  /\ opening # None
  /\ opening.name = n
  /\ pc' = "session"
  /\ opening' = None
  /\ UNCHANGED <<stateVars, job, todo, status, login_reply, link, granted, ghost, unsaved>>

\* The server has the host for a connection, be it one that is gone.
Taken(h) == held[h] # "free" \/ ghost[h] > 0

\* The host that is asked for.
HostAsked(n) == HostOf(n, SpecOf(state.tunnels[n]))

\* TakenRetries::forget(), or a verdict that ends the retries.
Forget(n) == retry' = [retry EXCEPT ![n] = None]

\* If the name is open at another host, that one stays open, and by_name forgets it.
OpenOk(n) ==
  /\ Answered(n)
  /\ link = "up" /\ Allowed(HostAsked(n)) /\ ~Taken(HostAsked(n))
  /\ held' = [held EXCEPT ![HostAsked(n)] = "mine"]
  /\ live' = [live EXCEPT ![n] = SpecOf(state.tunnels[n])]
  /\ cards' = [cards EXCEPT ![n] = CardAfter(n, HostAsked(n), "none")]
  /\ Forget(n)
  /\ strays' = IF live[n] = None THEN strays ELSE strays \cup {HostOf(n, live[n])}
  /\ amended' = amended \ {n} /\ doubled' = doubled \ {n}

\* TakenRetries::record() for an answer that the name is taken.
RetryAfterTaken(n) ==
  IF retry[n] = None THEN [left |-> RetryWindow, next |-> RetryEvery]
  ELSE IF retry[n].left = 0 THEN None
  ELSE [retry[n] EXCEPT !.next = RetryEvery]

\* A name open on this connection and refused now has no address on its card.
Refused(n) ==
  /\ doubled' = IF live[n] = None THEN doubled ELSE doubled \cup {n}
  /\ UNCHANGED <<held, live, amended, strays>>

\* OpenError::is_taken(): somebody has the host, or it is a custom domain that is
\* not registered to the account, which the server answers with the same code.
OpenTaken(n) ==
  /\ Answered(n)
  /\ link = "up" /\ (Taken(HostAsked(n)) \/ ~Allowed(HostAsked(n)))
  /\ retry' = [retry EXCEPT ![n] = RetryAfterTaken(n)]
  /\ cards' = [cards EXCEPT ![n] =
       CardAfter(n, None, IF retry'[n] = None THEN "taken" ELSE "retrying")]
  /\ Refused(n)

\* Another error, which comes before the look at the host only where the owner of
\* a custom domain cannot be read; or the connection ended before the answer came.
OpenFails(n) ==
  /\ Answered(n)
  /\ \/ link = "up" /\ (held[HostAsked(n)] = "free" \/ HostAsked(n) \in Domains)
     \/ link \in {"dead", "kicked"}
  /\ cards' = [cards EXCEPT ![n] = CardAfter(n, None, "other")]
  /\ Forget(n)
  /\ Refused(n)

\* The answer is a second in coming.
OpenWaits ==
  /\ pc = "opening"
  /\ GhostsFade
  /\ retry' = [n \in Names |-> SecondLater(n)]
  /\ UNCHANGED <<stateVars, pc, job, todo, opening, cards, status, login_reply, link,
                 granted, held, live, unsaved, watchVars>>

-----------------------------------------------------------------------------
(* The session's tick, once a second. *)

Due(n) == SecondLater(n) # None /\ SecondLater(n).next = 0

\* A live connection: ask again for the taken names that are due, and forget
\* those that are wanted no more.
TickRetries ==
  /\ pc = "session" /\ todo = {}
  /\ Alive
  /\ GhostsFade
  /\ todo' = {n \in EnabledTunnels(state) : Due(n)}
  /\ retry' = [n \in Names |-> IF Due(n) /\ ~IsEnabled(state, n) THEN None ELSE SecondLater(n)]
  /\ UNCHANGED <<stateVars, pc, job, opening, cards, status, login_reply, link, granted, held,
                 live, unsaved, watchVars>>

\* The connection is dead: leave the session and reconnect.
TickDrops ==
  /\ pc = "session" /\ todo = {}
  /\ ~Alive
  /\ SessionDropped
  /\ UNCHANGED <<stateVars, job, todo, opening, login_reply, serverVars, unsaved, watchVars>>

-----------------------------------------------------------------------------
(* Commands.  Taking one changes the state in memory and begins to save;   *)
(* the rest follows when the save has succeeded or failed.                 *)

\* The command changes the state to s and begins to save it.
Take(cmd, n, s) ==
  /\ TakesCommands
  /\ state' = s
  /\ WriteAside
  /\ pc' = "saving"
  /\ job' = [cmd |-> cmd, name |-> n, from |-> pc]
  /\ UNCHANGED <<todo, opening, cards, status, login_reply, unsaved>>

\* A session that a command ends cuts the connection before it saves.
CutLink ==
  IF pc = "session"
    THEN link' = "none" /\ ConnectionGone
    ELSE UNCHANGED <<link, serverVars, watchVars>>

Login(t) ==
  /\ Take("Login", None, [state EXCEPT !.token = t])
  /\ CutLink
  /\ UNCHANGED retry

Logout ==
  /\ Take("Logout", None, [state EXCEPT !.token = None])
  /\ CutLink
  /\ UNCHANGED retry

AddTunnel(n, p, a, d) ==
  /\ Take("Add", n, Upsert(state, n, p, a, d))
  /\ UNCHANGED <<retry, link, serverVars, watchVars>>

\* Mutant: the tunnel is struck from the state and stays open.
RemoveTunnelStaysOpen(n) ==
  /\ Take("Remove", n, RemoveFrom(state, n))
  /\ UNCHANGED <<retry, link, serverVars, watchVars>>

\* In a session the tunnel is closed before it is struck from the state.
RemoveTunnel(n) ==
  /\ Take("Remove", n, RemoveFrom(state, n))
  /\ IF pc = "session"
       THEN CloseTunnel(n) /\ Forget(n)
       ELSE UNCHANGED <<retry, serverVars, watchVars>>
  /\ UNCHANGED link

\* The local API and the window change only a tunnel that has a card.
Reachable(n) == cards[n] # None \/ ~Has(state, n)

SetAuth(n, a) ==
  /\ Reachable(n) /\ Has(state, n)
  /\ Take("SetAuth", n, SetAuthIn(state, n, a))
  /\ UNCHANGED <<retry, link, serverVars, watchVars>>

Enable(n) ==
  /\ Reachable(n)
  /\ Take("Enable", n, SetEnabledIn(state, n, TRUE))
  /\ UNCHANGED <<retry, link, serverVars, watchVars>>

Disable(n) ==
  /\ Reachable(n)
  /\ Take("Disable", n, SetEnabledIn(state, n, FALSE))
  /\ UNCHANGED <<retry, link, serverVars, watchVars>>

\* save() returns; a failure is only logged.
SaveReturns ==
  \/ Replace /\ unsaved' = FALSE
  \/ job.cmd \in SavesThatFail /\ unsaved' = TRUE /\ UNCHANGED file

Saved(cmd) ==
  /\ pc = "saving"
  /\ job.cmd = cmd
  /\ SaveReturns
  /\ job' = None
  /\ UNCHANGED <<state, todo>>

Online == job.from = "session"

\* Offline the login is answered when the connection stands or falls; in a
\* session at once, and the new credential waits out a backoff.
LoginSaved ==
  /\ Saved("Login")
  /\ IF Online
       THEN SessionDropped /\ UNCHANGED login_reply
       ELSE /\ login_reply' = TRUE
            /\ pc' = IF state.token = None THEN "no_token" ELSE "dialing"
            /\ status' = [status EXCEPT !.needs_login = @ \/ state.token = None]
            /\ UNCHANGED <<link, cards, retry>>
  /\ UNCHANGED <<opening, serverVars, watchVars>>

LogoutSaved ==
  /\ Saved("Logout")
  /\ IF Online
       THEN /\ pc' = "no_token"
            /\ status' = [status EXCEPT !.connected = FALSE, !.needs_login = TRUE]
            /\ cards' = NoUrls
            /\ retry' = NoRetries
       ELSE pc' = job.from /\ UNCHANGED <<status, cards, retry>>
  /\ UNCHANGED <<opening, login_reply, link, serverVars, watchVars>>

\* The open request of a command.
Ask(n, cmd) == pc' = "opening" /\ opening' = [name |-> n, by |-> cmd]

Return == pc' = job.from /\ UNCHANGED opening

NewCard(n) ==
  [port |-> state.tunnels[n].port, enabled |-> TRUE, url |-> None, error |-> "none",
   protected |-> state.tunnels[n].auth # None]

IsUp(n) == cards[n] # None /\ cards[n].url # None

SamePort(n) == cards[n] # None /\ cards[n].port = state.tunnels[n].port

\* Offline the tunnel gets a card if it has none.  In a session a tunnel that
\* is up on the same port is left alone, whatever password or domain came with
\* the registration; one that is up on another is closed and opened again.
AddSaved(n) ==
  /\ Saved("Add")
  /\ job.name = n
  /\ IF ~Online
       THEN /\ cards' = IF cards[n] = None THEN [cards EXCEPT ![n] = NewCard(n)] ELSE cards
            /\ Return
            /\ UNCHANGED <<serverVars, watchVars>>
       ELSE /\ IF IsUp(n) /\ SamePort(n)
                 THEN /\ Return
                      /\ amended' = IF live[n] \notin {None, SpecOf(state.tunnels[n])}
                                      THEN amended \cup {n} ELSE amended \ {n}
                      /\ UNCHANGED <<serverVars, doubled, strays>>
                 ELSE /\ Ask(n, "Add")
                      /\ IF IsUp(n) THEN CloseTunnel(n) ELSE UNCHANGED <<serverVars, watchVars>>
            /\ UNCHANGED cards
  /\ UNCHANGED <<retry, status, login_reply, link>>

RemoveSaved(n) ==
  /\ Saved("Remove")
  /\ job.name = n
  /\ Return
  /\ cards' = [cards EXCEPT ![n] = None]
  /\ UNCHANGED <<retry, status, login_reply, link, serverVars, watchVars>>

\* Mutant: the new password is not taken to the server.
SetAuthSavedKeepsGate(n) ==
  /\ Saved("SetAuth")
  /\ job.name = n
  /\ Return
  /\ cards' = [cards EXCEPT ![n].protected = state.tunnels[n].auth # None]
  /\ UNCHANGED <<retry, status, login_reply, link, serverVars, watchVars>>

\* A tunnel that is on is closed and opened again, for the server checks the
\* password.
SetAuthSaved(n) ==
  /\ Saved("SetAuth")
  /\ job.name = n
  /\ IF Online /\ IsEnabled(state, n)
       THEN Ask(n, "SetAuth") /\ CloseTunnel(n) /\ UNCHANGED cards
       ELSE /\ Return
            /\ cards' = IF cards[n] = None THEN cards
                          ELSE [cards EXCEPT ![n].protected = state.tunnels[n].auth # None]
            /\ UNCHANGED <<serverVars, watchVars>>
  /\ UNCHANGED <<retry, status, login_reply, link>>

\* Switched on: in a session it is opened whether or not it already is, and at
\* another host if a registration has brought one since.
EnableSaved(n) ==
  /\ Saved("Enable")
  /\ job.name = n
  /\ IF Online /\ Has(state, n)
       THEN Ask(n, "Enable") /\ UNCHANGED cards
       ELSE /\ Return
            /\ cards' = IF cards[n] = None \/ Online THEN cards
                          ELSE [cards EXCEPT ![n].enabled = TRUE]
  /\ UNCHANGED <<retry, status, login_reply, link, serverVars, watchVars>>

\* Mutant: the retry goes on after the tunnel has been switched off.
DisableSavedKeepsRetry(n) ==
  /\ Saved("Disable")
  /\ job.name = n
  /\ Return
  /\ IF Online THEN CloseTunnel(n) ELSE UNCHANGED <<serverVars, watchVars>>
  /\ cards' = IF cards[n] = None THEN cards ELSE [cards EXCEPT ![n].enabled = FALSE, ![n].url = None]
  /\ UNCHANGED <<retry, status, login_reply, link>>

\* Switched off: no more retries, and the host goes back.
DisableSaved(n) ==
  /\ Saved("Disable")
  /\ job.name = n
  /\ Return
  /\ IF Online
       THEN CloseTunnel(n) /\ Forget(n)
       ELSE UNCHANGED <<retry, serverVars, watchVars>>
  /\ cards' = IF cards[n] = None THEN cards
                ELSE [cards EXCEPT ![n].enabled = FALSE, ![n].url = IF Online THEN None ELSE @]
  /\ UNCHANGED <<status, login_reply, link>>

-----------------------------------------------------------------------------
\* connect(): it succeeds, the server refuses the hello, or anything else fails.
Connect == TcpUp \/ TlsUp \/ ConnectOk \/ ConnectRejected \/ ConnectFails

OpenAnswer(n) == OpenOk(n) \/ OpenTaken(n) \/ OpenFails(n)

Tick == TickRetries \/ TickDrops

\* POST /api/tunnels, which scripts repeat at every start of theirs.
CreateTunnels ==
  \E n \in Names, p \in LocalPorts, a \in Auths \cup {None}, d \in Domains \cup {None} :
    AddTunnel(n, p, a, d)

\* PATCH of a tunnel: its password, or whether it is on.
UpdateTunnel ==
  \E n \in Names :
    Enable(n) \/ Disable(n) \/ \E a \in Auths \cup {None} : SetAuth(n, a)

\* What the window and the local API make the engine do.
Command ==
  \/ \E t \in Tokens \cup {None} : Login(t)
  \/ Logout
  \/ CreateTunnels
  \/ UpdateTunnel
  \/ \E n \in Names : RemoveTunnel(n)

SaveDone ==
  \/ LoginSaved
  \/ LogoutSaved
  \/ \E n \in Names : AddSaved(n) \/ RemoveSaved(n) \/ SetAuthSaved(n)
                      \/ EnableSaved(n) \/ DisableSaved(n)

Process == Launch \/ Shutdown \/ Crash

Outside ==
  \/ ServerEnds \/ LinkDies
  \/ \E h \in Hosts : GhostLeaves(h)
  \/ \E h \in OthersAt : OtherMachine(h)
  \/ \E d \in Domains : DomainRegistered(d)

Next ==
  \/ Process
  \/ Connect
  \/ BackoffEnds
  \/ OpenNext
  \/ OpenWaits
  \/ \E n \in Names : OpenAnswer(n)
  \/ Tick
  \/ Command
  \/ SaveDone
  \/ Outside

Spec == Init /\ [][Next]_vars

-----------------------------------------------------------------------------
(* Safety. *)

\* Between commands of a session that is up.
Quiet == pc = "session" /\ todo = {} /\ link = "up"

\* A public address the client shows is open on the server, leads to the port
\* the user last gave the tunnel, and asks for the password the user last
\* gave it, at the host the user last gave it; unless that password or that
\* domain came with a registration of a tunnel that was up, which the engine
\* answers without reopening it.
ShownUrlIsLive ==
  Quiet => \A n \in Names : IsUp(n) =>
    /\ held[cards[n].url] = "mine"
    /\ live[n] # None /\ cards[n].url = HostOf(n, live[n])
    /\ SamePort(n) /\ live[n].port = state.tunnels[n].port
    /\ live[n] = SpecOf(state.tunnels[n]) \/ n \in amended

\* Nothing is open behind the user's back: what this connection holds on the
\* server is a tunnel that is switched on and shown as open.  Two exceptions: a
\* tunnel switched on while it was open and refused the second time, whose card
\* shows the refusal; and a host left open when its name, given another domain,
\* was opened there.
LiveIsShown ==
  Quiet => \A h \in Hosts : held[h] = "mine" =>
    \/ h \in strays
    \/ \E n \in EnabledTunnels(state) :
         live[n] # None /\ HostOf(n, live[n]) = h /\ (cards[n].url = h \/ n \in doubled)

\* No tunnel is passed over in silence: on a connection that is up, every
\* tunnel kept as switched on, through restarts and reconnections, is open or
\* says on its card why it is not.
WantedAccountedFor ==
  Quiet => \A n \in EnabledTunnels(state) :
    cards[n] # None /\ (IsUp(n) \/ cards[n].error # "none")

FileState == IF file = None THEN DefaultState ELSE file

\* The file is never found cut short, whenever the process dies (the system
\* staying up: a save is not flushed to the disk), and while saving works it
\* holds every tunnel the user was told is set up, and the credential in use.  A
\* credential the server refuses is dropped from memory only.
SavedStateKept ==
  /\ file # Torn
  /\ pc \notin {"off", "saving"} /\ ~unsaved =>
       /\ FileState.tunnels = state.tunnels
       /\ state.token \in {FileState.token, None}

\* A card says "trying again" exactly while the engine will: no tunnel is left
\* promising to come up by itself, and none is retried that is switched off.
\* A card switched off keeps the words it had.
RetryingShown ==
  Quiet => \A n \in Names :
    /\ retry[n] # None => IsEnabled(state, n) /\ cards[n].error = "retrying"
    /\ cards[n] # None /\ cards[n].enabled /\ cards[n].error = "retrying" => retry[n] # None

\* The step in which the engine gives a taken name up.
GivesUp(n) ==
  /\ cards'[n] # None /\ cards'[n].error = "taken"
  /\ retry[n] # None /\ retry'[n] = None

\* The engine outlasts the server's memory of its own former connections: it
\* gives a host up only when somebody has it at that moment, another machine or
\* this connection itself, or when nobody has but it is a custom domain that is
\* not registered to the account.
OutlastsOwnGhosts ==
  [][\A n \in Names : GivesUp(n) =>
       held[HostAsked(n)] # "free" \/ ~Allowed(HostAsked(n))]_vars

-----------------------------------------------------------------------------
(* Liveness.  The system gives up a TCP connection it cannot make, and the *)
(* welcome is waited for 15 seconds; between them the TLS handshake has no *)
(* limit, and nothing is asked of it.  A save returns; an unanswered       *)
(* request on a dead connection comes to nothing once the system gives     *)
(* that connection up.  select! picks among the branches that are ready at *)
(* random, so neither the tick nor the end of the backoff is for ever      *)
(* passed over for commands.                                               *)

RequestSettles == OpenNext \/ (\E n \in Names : OpenAnswer(n)) \/ (pc = "opening" /\ LinkDies)

Fairness ==
  /\ WF_vars(pc # "tls" /\ Connect)
  /\ WF_vars(SaveDone)
  /\ SF_vars(RequestSettles)
  /\ SF_vars(Tick)
  /\ SF_vars(BackoffEnds)

FairSpec == Spec /\ Fairness

\* A connection that broke is replaced without the user's help, be it the network
\* or a server that went down.
Reconnects ==
  pc = "session" /\ link = "dead" ~> pc \in {"dialing", "no_token", "off"}

\* Whoever waits for the outcome of a login is told of it, unless the credential
\* given was empty, or a peer that took the connection never ends the TLS
\* handshake.
LoginAnswered ==
  login_reply /\ state.token # None ~> ~login_reply \/ [](pc = "tls")

-----------------------------------------------------------------------------
(* What the manual and the engine's comments say of a tunnel that is       *)
(* switched off.                                                           *)

\* "A tunnel that is switched off stays in the list": it has a card.
SwitchedOffStaysListed ==
  TakesCommands => \A n \in Names :
    Has(state, n) /\ ~state.tunnels[n].enabled => cards[n] # None

\* A PATCH that switches a tunnel off returns when the tunnel is "really closed":
\* with every tunnel switched off, nothing is open.
SwitchedOffIsClosed ==
  Quiet /\ EnabledTunnels(state) = {} => \A h \in Hosts : held[h] # "mine"
=============================================================================
