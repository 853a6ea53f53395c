--------------------------- MODULE DesktopProofs ---------------------------
(***************************************************************************)
(* Proofs about Desktop: however many copies of the application are        *)
(* started, shown, told to quit, killed and crash, one engine works at a   *)
(* time.                                                                   *)
(***************************************************************************)
EXTENDS Desktop, TLAPS

Places == {"away", "locking", "asking", "showing", "telling", "waiting", "killed", "binding",
           "evicting", "rebinding", "starting", "opening", "running", "quitting"}

\* A process is there with the lock, or without for want of the file.
PastTheLock == {"binding", "evicting", "rebinding", "starting", "opening", "running", "quitting"}

\* It has dealt with the old releases.
PastOldOnes == {"rebinding", "starting", "opening", "running", "quitting"}

HasEngine == {"opening", "running", "quitting"}

\* The process p has come past the lock lawfully, and past the old releases: those
\* still alive it has missed; and its engine works only while it should.
Lawful(p, places, holder, working, bare, old) ==
  /\ places[p] \in PastTheLock => holder = p \/ p \in bare
  /\ p \in working => places[p] \in HasEngine
  /\ places[p] \in PastOldOnes =>
       \A l \in Legacy : places[l] = "away" \/ l \in old

\* An old release runs or ends; it never starts.
Old(l, places, working) ==
  /\ places[l] \in {"away", "running", "quitting"}
  /\ l \in working => places[l] # "away"

Sound(places, holder, working, bare, old) ==
  /\ places \in [Processes -> Places]
  /\ \A p \in Modern : Lawful(p, places, holder, working, bare, old)
  /\ \A l \in Legacy : Old(l, places, working)

DesktopInv == engine \subseteq Processes /\ Sound(at, lock, engine, unlocked, missed)

-----------------------------------------------------------------------------
\* The places that a process ends in, or comes to unnoticed, keep things sound.
LEMMA EndKeeps ==
  ASSUME NEW next, NEW left, Sound(next, lock, engine, unlocked, left),
         engine \subseteq Processes, NEW dead, EndOf(dead, next, left)
  PROVE  DesktopInv'
<1>1. /\ at' = [p \in Processes |-> IF p \in dead THEN "away" ELSE next[p]]
      /\ lock' = IF lock \in dead THEN None ELSE lock
      /\ engine' = engine \ dead /\ unlocked' = unlocked \ dead /\ missed' = left \ dead
  BY DEF EndOf
<1>2. /\ at' \in [Processes -> Places] /\ engine' \subseteq Processes
      /\ \A p \in Processes : at'[p] = IF p \in dead THEN "away" ELSE next[p]
  BY <1>1 DEF Sound, Places
<1>3. Modern \subseteq Processes /\ Legacy \subseteq Processes
  BY DEF Processes
<1>4. ASSUME NEW p \in Modern
      PROVE  Lawful(p, at', lock', engine', unlocked', missed')
  <2>1. Lawful(p, next, lock, engine, unlocked, left)
    BY DEF Sound
  <2>2. CASE p \in dead
    BY <1>1, <1>2, <1>3, <2>2 DEF Lawful, PastTheLock, PastOldOnes, HasEngine
  <2>3. CASE p \notin dead
    BY <1>1, <1>2, <1>3, <2>1, <2>3 DEF Lawful
  <2>4. QED
    BY <2>2, <2>3
<1>5. ASSUME NEW l \in Legacy
      PROVE  Old(l, at', engine')
  BY <1>1, <1>2, <1>3 DEF Sound, Old
<1>6. QED
  BY <1>2, <1>4, <1>5 DEF DesktopInv, Sound

\* A process that is not past the lock may be anywhere else before it.
LEMMA BeforeTheLock ==
  ASSUME DesktopInv, NEW p \in Modern, at[p] \notin HasEngine,
         NEW place \in Places \ PastTheLock
  PROVE  Sound([at EXCEPT ![p] = place], lock, engine, unlocked, missed)
<1> DEFINE next == [at EXCEPT ![p] = place]
<1>1. next \in [Processes -> Places] /\ p \in Processes /\ p \notin Legacy
  BY DesktopAssumption DEF DesktopInv, Sound, Processes
<1>2. /\ next[p] = place
      /\ \A q \in Processes \ {p} : next[q] = at[q]
  BY <1>1 DEF DesktopInv, Sound
<1>3. Modern \subseteq Processes /\ Legacy \subseteq Processes \ {p}
  BY <1>1 DEF Processes
<1> HIDE DEF next
<1>4. ASSUME NEW q \in Modern
      PROVE  Lawful(q, next, lock, engine, unlocked, missed)
  <2>1. Lawful(q, at, lock, engine, unlocked, missed)
    BY DEF DesktopInv, Sound
  <2>2. CASE q = p
    BY <1>2, <2>1, <2>2 DEF Lawful, PastTheLock, PastOldOnes, HasEngine
  <2>3. CASE q # p
    BY <1>2, <1>3, <2>1, <2>3 DEF Lawful
  <2>4. QED
    BY <2>2, <2>3
<1>5. ASSUME NEW l \in Legacy
      PROVE  Old(l, next, engine)
  BY <1>2, <1>3 DEF DesktopInv, Sound, Old
<1>6. QED
  BY <1>1, <1>4, <1>5 DEF Sound, next

\* Only a process of a new release starts.
LEMMA StartersAreModern ==
  ASSUME DesktopInv, NEW p \in Processes,
         at[p] \notin {"away", "running", "quitting"}
  PROVE  p \in Modern
BY DEF DesktopInv, Sound, Old, Processes

-----------------------------------------------------------------------------
(* The steps. *)

\* Up to the lock, and away from it.
LEMMA AskingKeeps ==
  ASSUME DesktopInv, NEW p \in Processes,
         \/ Launch(p) \/ LockIsTaken(p) \/ FindsPeer(p) \/ FindsNobody(p) \/ Shows(p)
         \/ WaitRunsOut(p) \/ GivesUp(p) \/ Exits(p) \/ Crashes(p)
  PROVE  DesktopInv'
<1>1. CASE FindsNobody(p) \/ Shows(p) \/ GivesUp(p) \/ Exits(p) \/ Crashes(p)
  BY <1>1, EndKeeps DEF End, FindsNobody, Shows, GivesUp, Exits, Crashes, DesktopInv
<1>2. CASE WaitRunsOut(p)
  <2>1. p \in Modern /\ at[p] \notin HasEngine
    BY <1>2, StartersAreModern DEF WaitRunsOut, HasEngine
  <2>2. Sound([at EXCEPT ![p] = "killed"], lock, engine, unlocked, missed)
    BY <2>1, BeforeTheLock DEF Places, PastTheLock
  <2>3. QED
    BY <1>2, <2>2, EndKeeps DEF End, WaitRunsOut, DesktopInv
<1>3. CASE Launch(p) \/ LockIsTaken(p) \/ FindsPeer(p)
  <2>1. p \in Modern /\ at[p] \notin HasEngine
    BY <1>3, StartersAreModern DEF Launch, LockIsTaken, FindsPeer, Goes, HasEngine
  <2>2. PICK place \in Places \ PastTheLock : at' = [at EXCEPT ![p] = place]
    BY <1>3 DEF Launch, LockIsTaken, FindsPeer, Goes, Plan, Places, PastTheLock
  <2>3. UNCHANGED <<lock, engine, unlocked, missed>>
    BY <1>3 DEF Launch, LockIsTaken, FindsPeer
  <2>4. QED
    BY <2>1, <2>2, <2>3, BeforeTheLock DEF DesktopInv
<1>4. QED
  BY <1>1, <1>2, <1>3

\* A process that comes past the lock has it, or goes on without it; nobody else
\* had it.
LEMMA LockKeeps ==
  ASSUME DesktopInv, NEW p \in Processes, Locks(p) \/ CannotLock(p) \/ GetsLock(p)
  PROVE  DesktopInv'
<1>1. /\ p \in Modern /\ at[p] \notin HasEngine
      /\ at' = [at EXCEPT ![p] = "binding"]
      /\ UNCHANGED <<engine, missed>>
      /\ \/ lock = None /\ lock' = p /\ UNCHANGED unlocked
         \/ UNCHANGED lock /\ unlocked' = unlocked \cup {p}
  BY StartersAreModern DEF Locks, CannotLock, GetsLock, TakesLock, Goes, HasEngine
<1>2. at' \in [Processes -> Places] /\ p \notin Legacy
  BY <1>1, DesktopAssumption DEF DesktopInv, Sound, Places
<1>3. /\ at'[p] = "binding"
      /\ \A q \in Processes \ {p} : at'[q] = at[q]
      /\ Modern \subseteq Processes /\ Legacy \subseteq Processes \ {p}
      /\ None \notin Modern
  BY <1>1, <1>2, DesktopAssumption DEF DesktopInv, Sound, Processes
<1>4. ASSUME NEW q \in Modern
      PROVE  Lawful(q, at', lock', engine', unlocked', missed')
  <2>1. Lawful(q, at, lock, engine, unlocked, missed)
    BY DEF DesktopInv, Sound
  <2>2. CASE q = p
    BY <1>1, <1>3, <2>1, <2>2 DEF Lawful, PastOldOnes, HasEngine
  <2>3. CASE q # p
    BY <1>1, <1>3, <2>1, <2>3 DEF Lawful
  <2>4. QED
    BY <2>2, <2>3
<1>5. ASSUME NEW l \in Legacy
      PROVE  Old(l, at', engine')
  BY <1>1, <1>3 DEF DesktopInv, Sound, Old
<1>6. QED
  BY <1>1, <1>2, <1>4, <1>5 DEF DesktopInv, Sound

\* A process that is asked to quit, in whatever state the others are.
LEMMA QuitKeeps ==
  ASSUME NEW now, Sound(now, lock, engine, unlocked, missed),
         NEW q \in Processes, now[q] \in {"running", "quitting"}
  PROVE  Sound(AsksToQuit(q, now), lock, engine, unlocked, missed)
<1> DEFINE next == [now EXCEPT ![q] = "quitting"]
<1>1. /\ next \in [Processes -> Places]
      /\ next[q] = "quitting"
      /\ \A p \in Processes \ {q} : next[p] = now[p]
      /\ Modern \subseteq Processes /\ Legacy \subseteq Processes
  BY DEF Sound, Places, Processes
<1> HIDE DEF next
<1>2. ASSUME NEW p \in Modern
      PROVE  Lawful(p, next, lock, engine, unlocked, missed)
  <2>1. Lawful(p, now, lock, engine, unlocked, missed)
    BY DEF Sound
  <2>2. CASE p = q
    BY <1>1, <2>1, <2>2 DEF Lawful, PastTheLock, PastOldOnes, HasEngine
  <2>3. CASE p # q
    BY <1>1, <2>1, <2>3 DEF Lawful
  <2>4. QED
    BY <2>2, <2>3
<1>3. ASSUME NEW l \in Legacy
      PROVE  Old(l, next, engine)
  BY <1>1 DEF Sound, Old
<1>4. QED
  BY <1>1, <1>2, <1>3 DEF Sound, AsksToQuit, next

\* POST /api/quit, and the tray's menu.
LEMMA QuittingKeeps ==
  ASSUME DesktopInv, NEW p \in Processes, TellsToQuit(p) \/ UserQuits(p)
  PROVE  DesktopInv'
<1>1. CASE UserQuits(p)
  BY <1>1, QuitKeeps DEF UserQuits, DesktopInv
<1>2. CASE TellsToQuit(p)
  <2> DEFINE now == [at EXCEPT ![p] = "waiting"]
  <2>1. p \in Modern /\ at[p] = "telling"
    BY <1>2, StartersAreModern DEF TellsToQuit
  <2>2. Sound(now, lock, engine, unlocked, missed)
    BY <2>1, BeforeTheLock DEF Places, PastTheLock, HasEngine
  <2>3. Takes(port) => port \in Processes /\ now[port] \in {"running", "quitting"}
    BY <2>1 DEF Takes, Answers, DesktopInv, Sound
  <2>4. at' = Quit(port, now) /\ UNCHANGED <<lock, engine, unlocked, missed>>
    BY <1>2 DEF TellsToQuit
  <2> HIDE DEF now
  <2>5. Sound(Quit(port, now), lock, engine, unlocked, missed)
    BY <2>2, <2>3, QuitKeeps DEF Quit
  <2>6. QED
    BY <2>4, <2>5 DEF DesktopInv
<1>3. QED
  BY <1>1, <1>2

\* One process goes on and nobody else moves; nobody takes the lock of another.
LEMMA GoesOn ==
  ASSUME DesktopInv, NEW p \in Modern, NEW place \in PastTheLock,
         at[p] \in PastTheLock, at' = [at EXCEPT ![p] = place],
         UNCHANGED <<lock, unlocked>>, missed \subseteq missed',
         \/ engine' \subseteq engine /\ at[p] \notin HasEngine
         \/ engine' \subseteq engine \cup {p} /\ place \in HasEngine,
         place \in PastOldOnes =>
           at[p] \in PastOldOnes \/ Legacy \cap Alive \subseteq missed'
  PROVE  DesktopInv'
<1>1. /\ at' \in [Processes -> Places] /\ p \notin Legacy
      /\ at'[p] = place
      /\ \A q \in Processes \ {p} : at'[q] = at[q]
      /\ Modern \subseteq Processes /\ Legacy \subseteq Processes
      /\ engine' \subseteq Processes
  BY DesktopAssumption DEF DesktopInv, Sound, Places, PastTheLock, Processes
<1>2. ASSUME NEW q \in Modern
      PROVE  Lawful(q, at', lock', engine', unlocked', missed')
  <2>1. Lawful(q, at, lock, engine, unlocked, missed)
    BY DEF DesktopInv, Sound
  <2>2. CASE q = p
    BY <1>1, <2>1, <2>2 DEF Lawful, Alive
  <2>3. CASE q # p
    BY <1>1, <2>1, <2>3 DEF Lawful
  <2>4. QED
    BY <2>2, <2>3
<1>3. ASSUME NEW l \in Legacy
      PROVE  Old(l, at', engine')
  BY <1>1 DEF DesktopInv, Sound, Old
<1>4. QED
  BY <1>1, <1>2, <1>3 DEF DesktopInv, Sound

\* The port and the old releases, and the life of the application.
LEMMA GoingOnKeeps ==
  ASSUME DesktopInv, NEW p \in Processes,
         \/ Binds(p) \/ PortIsLost(p) \/ CannotBind(p) \/ StopsLegacy(p) \/ Rebinds(p)
         \/ StartsEngine(p) \/ Serves(p)
  PROVE  DesktopInv'
<1>1. p \in Modern
  BY StartersAreModern
     DEF Binds, PortIsLost, CannotBind, StopsLegacy, Rebinds, StartsEngine, Serves, Goes
<1> USE <1>1 DEF Goes, PastTheLock, PastOldOnes, HasEngine
<1>2. CASE Binds(p) \/ PortIsLost(p) \/ CannotBind(p)
  BY <1>2, GoesOn DEF Binds, PortIsLost, CannotBind
<1>3. CASE StopsLegacy(p)
  BY <1>3, GoesOn DEF StopsLegacy, AsksToStop
<1>4. CASE Rebinds(p) \/ StartsEngine(p) \/ Serves(p)
  BY <1>4, GoesOn DEF Rebinds, StartsEngine, Serves
<1>5. QED
  BY <1>2, <1>3, <1>4

\* Nobody moves; an engine may stop.
LEMMA StayingKeeps ==
  ASSUME DesktopInv,
         UNCHANGED vars \/ \E p \in Processes : GetsStuck(p) \/ EngineStops(p)
  PROVE  DesktopInv'
<1>1. engine' \subseteq engine /\ UNCHANGED <<at, lock, unlocked, missed>>
  BY DEF vars, GetsStuck, EngineStops
<1>2. QED
  BY <1>1 DEF DesktopInv, Sound, Lawful, Old

\* Other processes are ended, and the old releases that are not have been missed.
LEMMA EvictsKeeps ==
  ASSUME DesktopInv, NEW p \in Processes, Evicts(p)
  PROVE  DesktopInv'
<1> DEFINE next == [at EXCEPT ![p] = "rebinding"]
           left == missed \cup (Legacy \cap Alive)
<1>1. /\ p \in Modern /\ at[p] = "evicting"
      /\ \E dead : EndOf(dead, next, left)
  BY StartersAreModern DEF Evicts
<1>2. /\ next \in [Processes -> Places]
      /\ next[p] = "rebinding"
      /\ \A q \in Processes \ {p} : next[q] = at[q]
      /\ Modern \subseteq Processes /\ Legacy \subseteq Processes \ {p}
      /\ missed \subseteq left
      /\ \A l \in Legacy : at[l] = "away" \/ l \in left
  BY <1>1, DesktopAssumption DEF DesktopInv, Sound, Places, Processes, Alive
<1> HIDE DEF next, left
<1>3. ASSUME NEW q \in Modern
      PROVE  Lawful(q, next, lock, engine, unlocked, left)
  <2>1. Lawful(q, at, lock, engine, unlocked, missed)
    BY DEF DesktopInv, Sound
  <2>2. CASE q = p
    BY <1>1, <1>2, <2>1, <2>2 DEF Lawful, PastTheLock, HasEngine
  <2>3. CASE q # p
    BY <1>2, <2>1, <2>3 DEF Lawful
  <2>4. QED
    BY <2>2, <2>3
<1>4. ASSUME NEW l \in Legacy
      PROVE  Old(l, next, engine)
  BY <1>2 DEF DesktopInv, Sound, Old
<1>5. Sound(next, lock, engine, unlocked, left)
  BY <1>2, <1>3, <1>4 DEF Sound
<1>6. QED
  BY <1>1, <1>5, EndKeeps DEF DesktopInv

-----------------------------------------------------------------------------
(* The invariant, and what follows. *)

\* The invariant of the processes.
THEOREM DesktopInvariant == Spec => []DesktopInv
<1>1. Init => DesktopInv
  BY DesktopAssumption
     DEF Init, DesktopInv, Sound, Lawful, Old, Places, PastTheLock, PastOldOnes, Processes
<1>2. ASSUME DesktopInv, [Next]_vars
      PROVE  DesktopInv'
  BY <1>2, AskingKeeps, LockKeeps, QuittingKeeps, GoingOnKeeps, StayingKeeps, EvictsKeeps
     DEF Next, Starting, Running
<1>3. QED
  BY <1>1, <1>2, PTL DEF Spec

\* Of the releases that know the lock, one process' engine works at a time, or one
\* of the processes goes on without the lock file.
OneModernEngine ==
  \A p, q \in engine \cap Modern : p # q => {p, q} \cap unlocked # {}

\* Two processes of releases that know the lock never have their engines at work
\* together, on any system, whoever is shown, told to quit or killed.
THEOREM LockIsExclusive == Spec => []OneModernEngine
<1>1. DesktopInv => OneModernEngine
  BY DEF DesktopInv, Sound, Lawful, HasEngine, PastTheLock, OneModernEngine
<1>2. QED
  BY <1>1, DesktopInvariant, PTL

\* No two engines work together but for a lock file that is no good and an old
\* release that was left alive, be it Windows or not, and taskkill fail or not.
THEOREM EnginesExclude == Spec => []OneEngine
<1>1. DesktopInv => OneEngine
  <2> SUFFICES ASSUME DesktopInv, NEW p \in engine, NEW q \in engine, p # q,
                      {p, q} \cap unlocked = {}, ~({p, q} \subseteq Legacy)
               PROVE  {p, q} \cap missed # {}
    BY DEF OneEngine
  <2>1. p \in Modern \/ q \in Modern
    BY DEF DesktopInv, Processes
  <2>2. ASSUME NEW m \in {p, q} \cap Modern
        PROVE  /\ lock = m
               /\ \A l \in Legacy : at[l] = "away" \/ l \in missed
    BY DEF DesktopInv, Sound, Lawful, HasEngine, PastTheLock, PastOldOnes
  <2>3. ASSUME NEW l \in {p, q} \cap Legacy
        PROVE  at[l] # "away"
    BY DEF DesktopInv, Sound, Old
  <2>4. QED
    BY <2>1, <2>2, <2>3 DEF DesktopInv, Processes
<1>2. QED
  BY <1>1, DesktopInvariant, PTL
=============================================================================
