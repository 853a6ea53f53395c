------------------------------- MODULE Desktop -------------------------------
(***************************************************************************)
(* The desktop application as processes on one machine, all with the same  *)
(* configuration: which of them runs the engine                            *)
(* (crates/cy-desktop/src/instance.rs, main.rs and quit.rs, with peer.rs   *)
(* and the last calls of local_api.rs in crates/cy-core/src).  A new       *)
(* process finds the old one by the lock file and by the local API's port, *)
(* and shows its window or takes its place.                                *)
(*                                                                         *)
(* The operating system takes back the lock, the port and the connections  *)
(* of a process that ends.  A process number is not used again while       *)
(* somebody remembers it.  Releases up to 0.1.13 do not know the lock; the *)
(* ones here were started before the first process that does.              *)
(***************************************************************************)
EXTENDS Naturals, FiniteSets

CONSTANTS
  Modern,     \* processes of releases that know the lock
  Legacy,     \* processes of releases that do not
  VersionOf,  \* the release of each process
  Windows,    \* is this Windows?  Only there are processes ended by name
  Other,      \* a program that is not ours
  None

Processes == Modern \cup Legacy

ASSUME DesktopAssumption ==
  /\ Modern \cap Legacy = {}
  /\ VersionOf \in [Processes -> Nat]
  /\ \A l \in Legacy, m \in Modern : VersionOf[l] < VersionOf[m]
  /\ Windows \in BOOLEAN
  /\ {Other, None} \cap Processes = {}

VARIABLES
  at,         \* where each process is in its start or its end
  lock,       \* who holds instance.lock
  port,       \* who listens on the port of the local API
  engine,     \* the processes whose engine is at work
  found,      \* resolve_running(): the process that answered, while it lives
  stuck,      \* processes that answer nothing any more
  unlocked,   \* processes that go on without the lock, the file being no good
  missed      \* old releases a starting process left alive: they did not answer,
              \* were not asked, or were not ended

vars == <<at, lock, port, engine, found, stuck, unlocked, missed>>

Init ==
  /\ \E old \in SUBSET Legacy :
       /\ at = [p \in Processes |-> IF p \in old THEN "running" ELSE "away"]
       /\ engine = old
       /\ port \in old \cup {Other, None}
  /\ lock = None
  /\ found = [p \in Processes |-> None]
  /\ stuck = {} /\ unlocked = {} /\ missed = {}

Alive == {p \in Processes : at[p] # "away"}

\* GET /api/status and the other calls are answered.
Answers(p) == p \in Processes /\ at[p] \in {"running", "quitting"} /\ p \notin stuck

\* is_newer(): versions are compared as numbers.
Newer(p, q) == VersionOf[p] > VersionOf[q]

\* A status that tells no process number is an old release's.
IsLegacy(q) == q \in Legacy

Goes(p, from, to) == at[p] = from /\ at' = [at EXCEPT ![p] = to]

\* The processes of a set end, whatever they were at; the others are at next, and
\* of the old releases those of a set have been missed.
EndOf(dead, next, left) ==
  /\ at' = [p \in Processes |-> IF p \in dead THEN "away" ELSE next[p]]
  /\ lock' = IF lock \in dead THEN None ELSE lock
  /\ port' = IF port \in dead THEN None ELSE port
  /\ engine' = engine \ dead
  /\ found' = [p \in Processes |-> IF p \in dead \/ found[p] \in dead THEN None ELSE found[p]]
  /\ stuck' = stuck \ dead
  /\ unlocked' = unlocked \ dead
  /\ missed' = left \ dead

End(dead, next) == EndOf(dead, next, missed)

-----------------------------------------------------------------------------
(* claim(): the lock. *)

Launch(p) ==
  /\ p \in Modern
  /\ Goes(p, "away", "locking")
  /\ UNCHANGED <<lock, port, engine, found, stuck, unlocked, missed>>

TakesLock(p, from) ==
  /\ lock = None /\ lock' = p
  /\ Goes(p, from, "binding")
  /\ UNCHANGED <<port, engine, found, stuck, unlocked, missed>>

Locks(p) == TakesLock(p, "locking")

\* The file cannot be opened: go on without.
CannotLock(p) ==
  /\ Goes(p, "locking", "binding")
  /\ unlocked' = unlocked \cup {p}
  /\ UNCHANGED <<lock, port, engine, found, stuck, missed>>

LockIsTaken(p) ==
  /\ lock # None
  /\ Goes(p, "locking", "asking")
  /\ UNCHANGED <<lock, port, engine, found, stuck, unlocked, missed>>

-----------------------------------------------------------------------------
(* resolve_running(): another process has the lock. *)

\* An older release is to make room, another to show its window.
Plan(p, running) == IF Newer(p, running) THEN "telling" ELSE "showing"

\* wait_for_peer(): whoever answers on the port is taken for the one with the
\* lock.
FindsPeer(p) ==
  /\ Answers(port)
  /\ Goes(p, "asking", Plan(p, port))
  /\ found' = [found EXCEPT ![p] = port]
  /\ UNCHANGED <<lock, port, engine, stuck, unlocked, missed>>

\* Nobody answers within three seconds: say so, and leave it to the user.
FindsNobody(p) == at[p] = "asking" /\ ~Answers(port) /\ End({p}, at)

\* POST /api/show goes to whoever has the port by now, and this process ends; a
\* failure is only logged.
Shows(p) == at[p] = "showing" /\ End({p}, at)

\* quit::request(): the process is to end.
AsksToQuit(q, now) == [now EXCEPT ![q] = "quitting"]

\* A call that is posted to whoever has the port by now: nobody may be there to
\* take it, and an old release does not know it.
Takes(q) == Answers(q) /\ ~IsLegacy(q)

\* POST /api/quit: it is answered before the process has ended, and a failure is
\* only logged.
Quit(q, now) == IF Takes(q) THEN AsksToQuit(q, now) ELSE now

TellsToQuit(p) ==
  /\ at[p] = "telling"
  /\ at' = Quit(port, [at EXCEPT ![p] = "waiting"])
  /\ UNCHANGED <<lock, port, engine, found, stuck, unlocked, missed>>

\* wait_for_lock(): the old process is gone.
GetsLock(p) == TakesLock(p, "waiting") \/ TakesLock(p, "killed")

\* Eight seconds are over: the one that was found is killed by its number, which
\* an old release does not tell.  That may fail, and nobody looks.
WaitRunsOut(p) ==
  /\ at[p] = "waiting" /\ lock # None
  /\ \E dead \in SUBSET ({found[p]} \cap Modern) : End(dead, [at EXCEPT ![p] = "killed"])

\* Mutant: it has been killed, so go on.
GoesOnRegardless(p) ==
  /\ lock # None
  /\ Goes(p, "killed", "binding")
  /\ UNCHANGED <<lock, port, engine, found, stuck, unlocked, missed>>

\* Still no lock after three more: say so, and leave it to the user.
GivesUp(p) == at[p] = "killed" /\ lock # None /\ End({p}, at)

-----------------------------------------------------------------------------
(* bind_local_api(): the port, and old releases. *)

Binds(p) ==
  /\ port = None /\ port' = p
  /\ Goes(p, "binding", "starting")
  /\ missed' = missed \cup (Legacy \cap Alive)
  /\ UNCHANGED <<lock, engine, found, stuck, unlocked>>

\* The port is another program's, a process's that has no lock, or one's that
\* does not answer: go on without the local API.
PortIsLost(p) ==
  /\ port # None /\ ~(Answers(port) /\ IsLegacy(port))
  /\ Goes(p, "binding", "starting")
  /\ missed' = missed \cup (Legacy \cap Alive)
  /\ UNCHANGED <<lock, port, engine, found, stuck, unlocked>>

\* The port is free and cannot be had all the same: go on without.
CannotBind(p) ==
  /\ port = None
  /\ Goes(p, "binding", "starting")
  /\ missed' = missed \cup (Legacy \cap Alive)
  /\ UNCHANGED <<lock, port, engine, found, stuck, unlocked>>

\* POST /api/shutdown: its engine stops, or not in time; it lives on.
AsksToStop(q) == engine' = engine \ {q} \/ UNCHANGED engine

\* take_over_legacy(): it is waited for three seconds.
StopsLegacy(p) ==
  /\ Answers(port) /\ IsLegacy(port)
  /\ Goes(p, "binding", "evicting")
  /\ AsksToStop(port)
  /\ UNCHANGED <<lock, port, found, stuck, unlocked, missed>>

\* kill_other_instances(): the other processes that have this one's file name, of
\* this configuration or not, or as many of them as taskkill can end: that it
\* failed is only logged.
Evicts(p) ==
  /\ at[p] = "evicting"
  /\ \E dead \in SUBSET (IF Windows THEN Alive \ {p} ELSE {}) :
       EndOf(dead, [at EXCEPT ![p] = "rebinding"], missed \cup (Legacy \cap Alive))

\* wait_for_bind(): the port, or after three seconds without it.
Rebinds(p) ==
  /\ Goes(p, "rebinding", "starting")
  /\ port' = IF port = None THEN p ELSE port
  /\ UNCHANGED <<lock, engine, found, stuck, unlocked, missed>>

-----------------------------------------------------------------------------
(* The life of the application. *)

\* Engine::start(); the window is made, and only then the local API answers.
StartsEngine(p) ==
  /\ Goes(p, "starting", "opening")
  /\ engine' = engine \cup {p}
  /\ UNCHANGED <<lock, port, found, stuck, unlocked, missed>>

Serves(p) ==
  /\ Goes(p, "opening", "running")
  /\ UNCHANGED <<lock, port, engine, found, stuck, unlocked, missed>>

GetsStuck(p) ==
  /\ at[p] = "running" /\ p \notin stuck
  /\ stuck' = stuck \cup {p}
  /\ UNCHANGED <<at, lock, port, engine, found, unlocked, missed>>

\* The tray's menu.
UserQuits(p) ==
  /\ at[p] = "running"
  /\ at' = AsksToQuit(p, at)
  /\ UNCHANGED <<lock, port, engine, found, stuck, unlocked, missed>>

\* begin(): the engine closes its connection, in the background.
EngineStops(p) ==
  /\ at[p] = "quitting" /\ p \in engine
  /\ engine' = engine \ {p}
  /\ UNCHANGED <<at, lock, port, found, stuck, unlocked, missed>>

\* finish(), or the watchdog's five seconds, whether the engine stopped or not.
Exits(p) == at[p] = "quitting" /\ End({p}, at)

Crashes(p) == p \in Alive /\ End({p}, at)

Starting(p) ==
  \/ Launch(p) \/ Locks(p) \/ CannotLock(p) \/ LockIsTaken(p)
  \/ FindsPeer(p) \/ FindsNobody(p) \/ Shows(p)
  \/ TellsToQuit(p) \/ GetsLock(p) \/ WaitRunsOut(p) \/ GivesUp(p)
  \/ Binds(p) \/ PortIsLost(p) \/ CannotBind(p) \/ StopsLegacy(p) \/ Evicts(p) \/ Rebinds(p)

Running(p) ==
  \/ StartsEngine(p) \/ Serves(p) \/ GetsStuck(p)
  \/ UserQuits(p) \/ EngineStops(p) \/ Exits(p) \/ Crashes(p)

Next == \E p \in Processes : Starting(p) \/ Running(p)

Spec == Init /\ [][Next]_vars

-----------------------------------------------------------------------------

\* One engine works on a configuration at a time, so no tunnel is refused for
\* the user's own other copy: a new process starts its engine when the old one
\* is gone, be it shown, told to quit or killed, and not at all if it will not go.
\* Two exceptions: a process that cannot open the lock file goes on without, and
\* an old release works on that has not the port, or does not answer, or neither
\* stopped when it was asked to nor was ended by name.
OneEngine ==
  \A p, q \in engine : p # q =>
    \/ {p, q} \cap unlocked # {}
    \/ {p, q} \cap missed # {}
    \/ {p, q} \subseteq Legacy
=============================================================================
