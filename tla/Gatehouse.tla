----------------------------- MODULE Gatehouse -----------------------------
(***************************************************************************)
(* Who gets as far as the account database: the server counts the failed   *)
(* handshakes of every address and turns an address away for a while when  *)
(* there are too many (FailureTracker, crates/cy-server/src/control.rs).   *)
(* The question is asked when a connection is accepted, the answer of the  *)
(* database is counted at the end of its handshake; any number of          *)
(* handshakes of an address may be under way at once.                      *)
(***************************************************************************)
EXTENDS Accounts

CONSTANTS
  Addresses,
  Handshakes,   \* bound: handshakes under way at once
  Limit,        \* limits.handshake_fail_count
  Window        \* limits.handshake_fail_window_secs, in ticks of the clock

ASSUME GatehouseAssumption ==
  /\ Limit \in Nat \ {0}
  /\ Window \in Nat \ {0}
  /\ IsFiniteSet(Handshakes)
  /\ None \notin [count : Nat, age : Nat]

VARIABLES
  entries,      \* FailureTracker.entries: count, and the time since the last failure
  handshake     \* the handshakes under way

gateVars == <<entries, handshake>>
vars == <<accountVars, gateVars>>

NoHandshake == [at |-> "none", from |-> None]

Init ==
  /\ AccountsInit
  /\ entries = [a \in Addresses |-> None]
  /\ handshake = [x \in Handshakes |-> NoHandshake]

\* An age past the window is as good as any other.
Older(e) == IF e = None THEN None
            ELSE [e EXCEPT !.age = IF @ > Window THEN @ ELSE @ + 1]

Tick ==
  /\ entries' = [a \in Addresses |-> Older(entries[a])]
  /\ UNCHANGED <<accountVars, handshake>>

\* Mutant: the window is over a moment before a failure starts a new count.
IsLockedShort(a) ==
  entries[a] # None /\ entries[a].count >= Limit /\ entries[a].age < Window

IsLocked(a) ==
  entries[a] # None /\ entries[a].count >= Limit /\ entries[a].age <= Window

\* record(): a new count once the window is over; entries that are past it go.
Counted(a) ==
  LET before == IF entries[a] = None \/ entries[a].age > Window THEN 0 ELSE entries[a].count
      with == [entries EXCEPT ![a] = [count |-> before + 1, age |-> 0]]
  IN  [b \in Addresses |->
         IF with[b] # None /\ with[b].age > Window THEN None ELSE with[b]]

Accepted(x, a) ==
  /\ handshake[x] = NoHandshake
  /\ ~IsLocked(a)
  /\ handshake' = [handshake EXCEPT ![x] = [at |-> "checking", from |-> a]]
  /\ UNCHANGED <<accountVars, entries>>

\* Mutant: a connection that is turned away counts as a failure.
TurnedAwayCounts(a) ==
  /\ IsLocked(a)
  /\ entries' = [Counted(a) EXCEPT ![a].count = entries[a].count]
  /\ UNCHANGED <<accountVars, handshake>>

\* Dropped without a word, and without being counted.
TurnedAway(a) ==
  /\ IsLocked(a)
  /\ UNCHANGED vars

\* No hello, a wrong version or a broken connection is not counted.
GivesUp(x) ==
  /\ handshake[x].at = "checking"
  /\ handshake' = [handshake EXCEPT ![x] = NoHandshake]
  /\ UNCHANGED <<accountVars, entries>>

\* store.authenticate(): a credential that passes, or one that does not.
Checked(x) ==
  /\ handshake[x].at = "checking"
  /\ \E passes \in BOOLEAN :
       /\ passes => \E u \in Users : Valid(u)
       /\ handshake' = [handshake EXCEPT ![x].at = IF passes THEN "passed" ELSE "failed"]
  /\ UNCHANGED <<accountVars, entries>>

Record(x) ==
  /\ handshake[x].at = "failed"
  /\ entries' = Counted(handshake[x].from)
  /\ handshake' = [handshake EXCEPT ![x] = NoHandshake]
  /\ UNCHANGED accountVars

\* clear(), and the session begins.
Clear(x) ==
  /\ handshake[x].at = "passed"
  /\ entries' = [entries EXCEPT ![handshake[x].from] = None]
  /\ handshake' = [handshake EXCEPT ![x] = NoHandshake]
  /\ UNCHANGED accountVars

Next ==
  \/ Tick
  \/ Administration /\ UNCHANGED gateVars
  \/ \E a \in Addresses : TurnedAway(a) \/ \E x \in Handshakes : Accepted(x, a)
  \/ \E x \in Handshakes : GivesUp(x) \/ Checked(x) \/ Record(x) \/ Clear(x)

Spec == Init /\ [][Next]_vars

\* The clock goes on.
FairSpec == Spec /\ WF_vars(Tick)

-----------------------------------------------------------------------------

\* Past the limit, the count of an address grows only by the handshakes that
\* were under way when it was reached: at no age of the entry is the address
\* let in and the old count gone on with.
CountBounded ==
  \A a \in Addresses : entries[a] # None =>
    entries[a].count < Limit + Cardinality(Handshakes)

\* No address is shut out for ever, however eagerly its clients try again while
\* it is: the engine's reconnections do not keep the lock up.
LockLifts == \A a \in Addresses : []<>~IsLocked(a)
=============================================================================
