---------------------------- MODULE EngineProofs ----------------------------
(***************************************************************************)
(* Proofs about Engine: what the client shows is what the server has, no   *)
(* tunnel is passed over, and what is kept on disk is what is in use.      *)
(*                                                                         *)
(* The invariant says of each name what its card, its entry, its retry and *)
(* the server have to do with each other.  A step on one name leaves what  *)
(* it says of the others as it was.                                        *)
(***************************************************************************)
EXTENDS Engine, TLAPS

\* A command on n that is being saved; an open request for n; a login or a logout
\* that has cut the session and is being saved.
Saving(cmd, n) == pc = "saving" /\ job.cmd = cmd /\ job.name = n
Asked(n) == opening # None /\ opening.name = n
Ending == pc = "saving" /\ job.cmd \in {"Login", "Logout"} /\ job.from = "session"

\* Where the task can be with which connection, and what it has in hand there.
Places ==
  /\ pc \in {"session", "opening"} => link # "none"
  /\ pc \in {"off", "no_token", "dialing", "tls", "hello", "backoff"} => link = "none"
  /\ pc = "saving" => (link = "none" <=> Ending \/ job.from # "session")
  /\ pc = "off" => \A n \in Names : cards[n] = None
  /\ todo # {} => pc \in {"session", "opening"}
  /\ todo \subseteq EnabledTunnels(state)
  /\ opening # None => IsEnabled(state, opening.name)

\* What a command that is being saved has made of the state.
Taking ==
  pc = "saving" =>
    /\ job.cmd \notin {"Login", "Logout"} => job.name \in Names
    /\ job.cmd = "Add" => IsEnabled(state, job.name)
    /\ job.cmd = "SetAuth" => Has(state, job.name)
    /\ job.cmd = "Enable" /\ Has(state, job.name) => IsEnabled(state, job.name)
    /\ job.cmd = "Disable" => ~IsEnabled(state, job.name)
    /\ job.cmd = "Remove" => ~Has(state, job.name)

\* Tunnel n is open at host h, as far as by_name tells.
OpenAt(n, h) == live[n] # None /\ HostOf(n, live[n]) = h

\* A host held is held on a connection that is up, for a tunnel that by_name knows
\* or as one it has forgotten; and no two tunnels are open at the same host.
HostsOK ==
  /\ \A h \in Hosts : held[h] = "mine" =>
       link = "up" /\ (h \in strays \/ \E n \in Names : OpenAt(n, h))
  /\ \A n \in Names, m \in Names, h \in Hosts : OpenAt(n, h) /\ OpenAt(m, h) => n = m

\* A card is that of a tunnel in the state, and shows an address on a connection.
CardOK(n) ==
  cards[n] # None =>
    /\ IsUp(n) => cards[n].error = "none"
    /\ IsUp(n) => link # "none" \/ Ending
    /\ ~Saving("Remove", n) => Has(state, n)
    /\ cards[n].enabled /\ ~Saving("Remove", n) /\ ~Saving("Disable", n) => IsEnabled(state, n)

\* An address shown is served as the state says, unless that is what a command
\* is about to see to.
UrlOK(n) ==
  link = "up" /\ IsUp(n) /\ ~Asked(n) /\ ~Saving("Remove", n) =>
    /\ OpenAt(n, cards[n].url)
    /\ live[n].port = cards[n].port
    /\ ~Saving("Add", n) => cards[n].port = state.tunnels[n].port
    /\ ~Saving("Add", n) /\ ~Saving("SetAuth", n) =>
         live[n] = SpecOf(state.tunnels[n]) \/ n \in amended

\* What by_name knows is open on a connection that is up, for a tunnel that is on.
HeldOK(n) ==
  live[n] # None =>
    /\ link = "up"
    /\ held[HostOf(n, live[n])] = "mine"
    /\ (IsUp(n) /\ OpenAt(n, cards[n].url)) \/ n \in doubled
    /\ ~Saving("Disable", n) => IsEnabled(state, n)

\* A tunnel that is on is open, or its card says why not, or its turn is to come.
AccountedOK(n) ==
  link = "up" /\ IsEnabled(state, n) =>
    \/ n \in todo \/ Asked(n) \/ Saving("Add", n) \/ Saving("Enable", n)
    \/ cards[n] # None /\ (IsUp(n) \/ cards[n].error # "none")

\* A retry goes with a card that says so, and the other way round.
RetryOK(n) ==
  link = "up" =>
    /\ retry[n] # None =>
         /\ cards[n] # None /\ cards[n].error = "retrying"
         /\ ~Saving("Disable", n) => IsEnabled(state, n)
    /\ cards[n] # None /\ cards[n].enabled /\ cards[n].error = "retrying" =>
         retry[n] # None \/ n \in todo \/ Asked(n) \/ Saving("Remove", n)

NameOK(n) == CardOK(n) /\ UrlOK(n) /\ HeldOK(n) /\ AccountedOK(n) /\ RetryOK(n)

EngineInv == TypeOK /\ Places /\ Taking /\ HostsOK /\ \A n \in Names : NameOK(n)

\* The types of what the server has and of the histories kept of it.
ServerOK ==
  /\ granted \in SUBSET Domains
  /\ held \in [Hosts -> {"free", "mine", "other"}]
  /\ ghost \in [Hosts -> 0..GhostSeconds]
  /\ live \in [Names -> TunnelSpec \cup {None}]
  /\ amended \in SUBSET Names /\ doubled \in SUBSET Names /\ strays \in SUBSET Hosts

\* What a step leaves of tunnel m on the server.
Kept(m) ==
  /\ live'[m] = live[m]
  /\ live[m] # None /\ held[HostOf(m, live[m])] = "mine" => held'[HostOf(m, live[m])] = "mine"
  /\ m \in amended' <=> m \in amended
  /\ m \in doubled' <=> m \in doubled

-----------------------------------------------------------------------------
(* Numbers, and the operations on the state and the cards. *)

\* The times are numbers of seconds.
LEMMA Seconds == GhostSeconds \in Nat /\ RetryWindow \in Nat /\ RetryEvery \in Nat
<1>1. \A i, j \in Nat : i * j \in Nat
  OBVIOUS
<1>2. QED
  BY <1>1, EngineAssumption DEF GhostSeconds, RetryWindow, RetryEvery

\* What an operation on one tunnel makes of a state.
LEMMA StateOperations ==
  ASSUME NEW s \in State, NEW n \in Names
  PROVE  /\ \A p \in LocalPorts, a \in Auths \cup {None}, d \in Domains \cup {None} :
              /\ Upsert(s, n, p, a, d) \in State
              /\ Upsert(s, n, p, a, d).token = s.token
              /\ IsEnabled(Upsert(s, n, p, a, d), n)
              /\ \A m \in Names \ {n} : Upsert(s, n, p, a, d).tunnels[m] = s.tunnels[m]
         /\ \A e \in BOOLEAN :
              /\ SetEnabledIn(s, n, e) \in State
              /\ SetEnabledIn(s, n, e).token = s.token
              /\ Has(SetEnabledIn(s, n, e), n) <=> Has(s, n)
              /\ IsEnabled(SetEnabledIn(s, n, e), n) <=> Has(s, n) /\ e
              /\ Has(s, n) =>
                   /\ SetEnabledIn(s, n, e).tunnels[n].port = s.tunnels[n].port
                   /\ SpecOf(SetEnabledIn(s, n, e).tunnels[n]) = SpecOf(s.tunnels[n])
              /\ \A m \in Names \ {n} : SetEnabledIn(s, n, e).tunnels[m] = s.tunnels[m]
         /\ \A a \in Auths \cup {None} :
              /\ SetAuthIn(s, n, a) \in State
              /\ SetAuthIn(s, n, a).token = s.token
              /\ Has(SetAuthIn(s, n, a), n) <=> Has(s, n)
              /\ IsEnabled(SetAuthIn(s, n, a), n) <=> IsEnabled(s, n)
              /\ Has(s, n) => SetAuthIn(s, n, a).tunnels[n].port = s.tunnels[n].port
              /\ \A m \in Names \ {n} : SetAuthIn(s, n, a).tunnels[m] = s.tunnels[m]
         /\ RemoveFrom(s, n) \in State
         /\ RemoveFrom(s, n).token = s.token
         /\ ~Has(RemoveFrom(s, n), n)
         /\ \A m \in Names \ {n} : RemoveFrom(s, n).tunnels[m] = s.tunnels[m]
<1>1. s.token \in Tokens \cup {None} /\ s.tunnels \in [Names -> Entry \cup {None}]
      /\ s = [token |-> s.token, tunnels |-> s.tunnels]
  BY DEF State
<1>2. None \notin Entry
  BY ClientStateAssumption
<1>3. \A t \in [Names -> Entry \cup {None}] : [s EXCEPT !.tunnels = t] \in State
  BY <1>1 DEF State
<1>4. ASSUME NEW x \in Entry \cup {None}
      PROVE  /\ [s EXCEPT !.tunnels[n] = x] \in State
             /\ [s EXCEPT !.tunnels[n] = x].token = s.token
             /\ [s EXCEPT !.tunnels[n] = x].tunnels[n] = x
             /\ \A m \in Names \ {n} : [s EXCEPT !.tunnels[n] = x].tunnels[m] = s.tunnels[m]
  BY <1>1 DEF State
<1>5. ASSUME NEW p \in LocalPorts, NEW a \in Auths \cup {None}, NEW d \in Domains \cup {None}
      PROVE  /\ Upsert(s, n, p, a, d) \in State
             /\ Upsert(s, n, p, a, d).token = s.token
             /\ IsEnabled(Upsert(s, n, p, a, d), n)
             /\ \A m \in Names \ {n} : Upsert(s, n, p, a, d).tunnels[m] = s.tunnels[m]
  <2>1. PICK b \in Auths \cup {None} : b = IF a = None /\ Has(s, n) THEN s.tunnels[n].auth ELSE a
    BY <1>1 DEF Entry, Has
  <2>2. PICK c \in Domains \cup {None} :
          c = IF d = None /\ Has(s, n) THEN s.tunnels[n].domain ELSE d
    BY <1>1 DEF Entry, Has
  <2>3. PICK x : x = [port |-> p, enabled |-> TRUE, auth |-> b, domain |-> c]
    OBVIOUS
  <2>4. x \in Entry /\ x.enabled = TRUE
    BY <2>3 DEF Entry
  <2>5. Upsert(s, n, p, a, d) = [s EXCEPT !.tunnels[n] = x]
    BY <2>1, <2>2, <2>3 DEF Upsert
  <2>6. QED
    BY <1>2, <1>4, <2>4, <2>5 DEF IsEnabled, Has
<1>6. ASSUME NEW e \in BOOLEAN
      PROVE  /\ SetEnabledIn(s, n, e) \in State
             /\ SetEnabledIn(s, n, e).token = s.token
             /\ Has(SetEnabledIn(s, n, e), n) <=> Has(s, n)
             /\ IsEnabled(SetEnabledIn(s, n, e), n) <=> Has(s, n) /\ e
             /\ Has(s, n) =>
                  /\ SetEnabledIn(s, n, e).tunnels[n].port = s.tunnels[n].port
                  /\ SpecOf(SetEnabledIn(s, n, e).tunnels[n]) = SpecOf(s.tunnels[n])
             /\ \A m \in Names \ {n} : SetEnabledIn(s, n, e).tunnels[m] = s.tunnels[m]
  <2>1. CASE Has(s, n)
    <3>1. PICK x : x = [s.tunnels[n] EXCEPT !.enabled = e]
      OBVIOUS
    <3>2. x \in Entry /\ x.enabled = e /\ x.port = s.tunnels[n].port
          /\ SpecOf(x) = SpecOf(s.tunnels[n])
      BY <1>1, <2>1, <3>1 DEF Entry, Has, SpecOf
    <3>3. SetEnabledIn(s, n, e) = [s EXCEPT !.tunnels[n] = x]
      BY <1>1, <2>1, <3>1 DEF SetEnabledIn
    <3>4. QED
      BY <1>2, <1>4, <2>1, <3>2, <3>3 DEF IsEnabled, Has
  <2>2. CASE ~Has(s, n)
    BY <2>2 DEF SetEnabledIn, IsEnabled
  <2>3. QED
    BY <2>1, <2>2
<1>7. ASSUME NEW a \in Auths \cup {None}
      PROVE  /\ SetAuthIn(s, n, a) \in State
             /\ SetAuthIn(s, n, a).token = s.token
             /\ Has(SetAuthIn(s, n, a), n) <=> Has(s, n)
             /\ IsEnabled(SetAuthIn(s, n, a), n) <=> IsEnabled(s, n)
             /\ Has(s, n) => SetAuthIn(s, n, a).tunnels[n].port = s.tunnels[n].port
             /\ \A m \in Names \ {n} : SetAuthIn(s, n, a).tunnels[m] = s.tunnels[m]
  <2>1. CASE Has(s, n)
    <3>1. PICK x : x = [s.tunnels[n] EXCEPT !.auth = a]
      OBVIOUS
    <3>2. x \in Entry /\ x.enabled = s.tunnels[n].enabled /\ x.port = s.tunnels[n].port
      BY <1>1, <2>1, <3>1 DEF Entry, Has
    <3>3. SetAuthIn(s, n, a) = [s EXCEPT !.tunnels[n] = x]
      BY <1>1, <2>1, <3>1 DEF SetAuthIn
    <3>4. QED
      BY <1>2, <1>4, <2>1, <3>2, <3>3 DEF IsEnabled, Has
  <2>2. CASE ~Has(s, n)
    BY <2>2 DEF SetAuthIn
  <2>3. QED
    BY <2>1, <2>2
<1>8. /\ RemoveFrom(s, n) \in State
      /\ RemoveFrom(s, n).token = s.token
      /\ ~Has(RemoveFrom(s, n), n)
      /\ \A m \in Names \ {n} : RemoveFrom(s, n).tunnels[m] = s.tunnels[m]
  BY <1>4 DEF RemoveFrom, Has
<1>9. QED
  BY <1>5, <1>6, <1>7, <1>8

\* A tunnel is asked for at a host.
LEMMA SpecsHaveHosts ==
  ASSUME NEW n \in Names, NEW l \in TunnelSpec
  PROVE  HostOf(n, l) \in Hosts /\ HostOf(n, l) # None
BY ClientStateAssumption DEF TunnelSpec, HostOf, Hosts

\* An entry of the state, a request and a command in hand have the fields they should.
LEMMA InHand ==
  ASSUME TypeOK, NEW n \in Names
  PROVE  /\ state.tunnels[n] \in Entry \cup {None}
         /\ Has(state, n) => /\ state.tunnels[n] \in Entry
                             /\ state.tunnels[n].port \in LocalPorts
                             /\ SpecOf(state.tunnels[n]) \in TunnelSpec
                             /\ state.tunnels[n].enabled \in BOOLEAN
                             /\ HostAsked(n) \in Hosts
         /\ cards[n] # None => /\ cards[n] \in Card
                               /\ cards[n].port \in LocalPorts
                               /\ cards[n].enabled \in BOOLEAN
                               /\ cards[n].url \in Hosts \cup {None}
                               /\ cards[n].error \in {"none", "retrying", "taken", "other"}
                               /\ cards[n].protected \in BOOLEAN
<1>1. state.tunnels \in [Names -> Entry \cup {None}] /\ cards \in [Names -> Card \cup {None}]
  BY DEF TypeOK, StateTypeOK, State
<1>2. ASSUME Has(state, n)
      PROVE  /\ state.tunnels[n] \in Entry
             /\ state.tunnels[n].port \in LocalPorts
             /\ SpecOf(state.tunnels[n]) \in TunnelSpec
             /\ state.tunnels[n].enabled \in BOOLEAN
             /\ HostAsked(n) \in Hosts
  <2>1. state.tunnels[n] \in Entry
    BY <1>1, <1>2 DEF Has
  <2>2. SpecOf(state.tunnels[n]) \in TunnelSpec
    BY <2>1 DEF Entry, SpecOf, TunnelSpec
  <2>3. QED
    BY <2>1, <2>2, SpecsHaveHosts DEF Entry, HostAsked
<1>3. ASSUME cards[n] # None
      PROVE  /\ cards[n] \in Card
             /\ cards[n].port \in LocalPorts
             /\ cards[n].enabled \in BOOLEAN
             /\ cards[n].url \in Hosts \cup {None}
             /\ cards[n].error \in {"none", "retrying", "taken", "other"}
             /\ cards[n].protected \in BOOLEAN
  <2>1. cards[n] \in Card
    BY <1>1, <1>3
  <2>2. QED
    BY <2>1 DEF Card
<1>4. QED
  BY <1>1, <1>2, <1>3

\* The card after an answer says what the state and the answer say.
LEMMA AnsweredCard ==
  ASSUME TypeOK, NEW n \in Names, Has(state, n),
         NEW url \in Hosts \cup {None}, NEW error \in {"none", "retrying", "taken", "other"}
  PROVE  /\ CardAfter(n, url, error) \in Card
         /\ CardAfter(n, url, error) # None
         /\ CardAfter(n, url, error).port = state.tunnels[n].port
         /\ CardAfter(n, url, error).enabled
         /\ CardAfter(n, url, error).url = url
         /\ CardAfter(n, url, error).error = error
<1>1. PICK p \in BOOLEAN : p = IF opening.by = "SetAuth" \/ cards[n] = None
                                 THEN state.tunnels[n].auth # None ELSE cards[n].protected
  BY InHand
<1>2. PICK q \in LocalPorts : q = state.tunnels[n].port
  BY InHand
<1>3. CardAfter(n, url, error) =
        [port |-> q, enabled |-> TRUE, url |-> url, error |-> error, protected |-> p]
  BY <1>1, <1>2 DEF CardAfter
<1>4. CardAfter(n, url, error) \in Card
  BY <1>3 DEF Card
<1>5. CardAfter(n, url, error) # None
  BY <1>4, PresentAssumption
<1>6. /\ CardAfter(n, url, error).port = q
      /\ CardAfter(n, url, error).enabled
      /\ CardAfter(n, url, error).url = url
      /\ CardAfter(n, url, error).error = error
  BY <1>3
<1>7. QED
  BY <1>2, <1>4, <1>5, <1>6

\* The card of a tunnel that was added offline.
LEMMA AddedCard ==
  ASSUME TypeOK, NEW n \in Names, Has(state, n)
  PROVE  /\ NewCard(n) \in Card
         /\ NewCard(n) # None
         /\ NewCard(n).port = state.tunnels[n].port
         /\ NewCard(n).enabled
         /\ NewCard(n).url = None
         /\ NewCard(n).error = "none"
<1>1. PICK p \in BOOLEAN : p = (state.tunnels[n].auth # None)
  OBVIOUS
<1>2. PICK q \in LocalPorts : q = state.tunnels[n].port
  BY InHand
<1>3. NewCard(n) = [port |-> q, enabled |-> TRUE, url |-> None, error |-> "none", protected |-> p]
  BY <1>1, <1>2 DEF NewCard
<1>4. NewCard(n) \in Card
  BY <1>3 DEF Card
<1>5. NewCard(n) # None
  BY <1>4, PresentAssumption
<1>6. /\ NewCard(n).port = q
      /\ NewCard(n).enabled
      /\ NewCard(n).url = None
      /\ NewCard(n).error = "none"
  BY <1>3
<1>7. QED
  BY <1>2, <1>4, <1>5, <1>6

\* The cards without their addresses are the same cards otherwise.
LEMMA CardsWithoutUrls ==
  ASSUME TypeOK
  PROVE  /\ NoUrls \in [Names -> Card \cup {None}]
         /\ \A n \in Names :
              /\ NoUrls[n] = None <=> cards[n] = None
              /\ cards[n] # None =>
                   /\ NoUrls[n].url = None
                   /\ NoUrls[n].port = cards[n].port
                   /\ NoUrls[n].enabled = cards[n].enabled
                   /\ NoUrls[n].error = cards[n].error
<1>1. ASSUME NEW n \in Names, cards[n] # None
      PROVE  /\ [cards[n] EXCEPT !.url = None] \in Card
             /\ [cards[n] EXCEPT !.url = None].url = None
             /\ [cards[n] EXCEPT !.url = None].port = cards[n].port
             /\ [cards[n] EXCEPT !.url = None].enabled = cards[n].enabled
             /\ [cards[n] EXCEPT !.url = None].error = cards[n].error
  <2>1. cards[n] \in Card
    BY <1>1, InHand
  <2>2. QED
    BY <2>1 DEF Card
<1>2. QED
  BY <1>1, PresentAssumption DEF NoUrls

-----------------------------------------------------------------------------
(* What a step leaves alone. *)

\* A name whose card, entry and place on the server a step leaves alone is as
\* well off after it.
LEMMA Untouched ==
  ASSUME NEW m \in Names, NameOK(m), Kept(m),
         state'.tunnels[m] = state.tunnels[m],
         cards'[m] = cards[m],
         retry'[m] = None <=> retry[m] = None,
         link' = link,
         m \in todo' <=> m \in todo,
         \A cmd \in Commands : Saving(cmd, m)' <=> Saving(cmd, m),
         Asked(m)' <=> Asked(m),
         Ending => Ending'
  PROVE  NameOK(m)'
<1>1. \A cmd \in {"Add", "Remove", "SetAuth", "Enable", "Disable"} :
        Saving(cmd, m)' <=> Saving(cmd, m)
  BY DEF Commands
<1>2. /\ Has(state, m)' <=> Has(state, m)
      /\ IsEnabled(state, m)' <=> IsEnabled(state, m)
      /\ IsUp(m)' <=> IsUp(m)
  BY DEF Has, IsEnabled, IsUp
<1>3. CardOK(m)'
  BY <1>1, <1>2 DEF NameOK, CardOK
<1>4. UrlOK(m)'
  BY <1>1, <1>2 DEF NameOK, UrlOK, Kept, OpenAt
<1>5. HeldOK(m)'
  BY <1>1, <1>2 DEF NameOK, HeldOK, Kept, OpenAt
<1>6. AccountedOK(m)'
  BY <1>1, <1>2 DEF NameOK, AccountedOK
<1>7. RetryOK(m)'
  BY <1>1, <1>2 DEF NameOK, RetryOK
<1>8. QED
  BY <1>3, <1>4, <1>5, <1>6, <1>7 DEF NameOK

\* Where no connection is up, a name has only its card to keep right.
LEMMA NotConnected ==
  ASSUME NEW m \in Names, link' # "up", live'[m] = None, CardOK(m)'
  PROVE  NameOK(m)'
BY DEF NameOK, UrlOK, HeldOK, AccountedOK, RetryOK

\* Where the server is left alone, so is every tunnel on it.
LEMMA ServerLeftAlone ==
  ASSUME UNCHANGED <<serverVars, watchVars>>
  PROVE  /\ \A m \in Names : Kept(m)
         /\ ServerOK => ServerOK'
         /\ HostsOK /\ link' = link => HostsOK'
BY DEF serverVars, watchVars, Kept, ServerOK, HostsOK, OpenAt

-----------------------------------------------------------------------------
(* The connection and the server. *)

\* Nothing is open where no connection is up.
LEMMA Idle ==
  ASSUME EngineInv, link # "up"
  PROVE  (\A h \in Hosts : held[h] # "mine") /\ \A n \in Names : live[n] = None
BY DEF EngineInv, HostsOK, NameOK, HeldOK

\* Nor is there anything to be right about where nothing is open.
LEMMA NothingHeld ==
  ASSUME \A h \in Hosts : held'[h] # "mine", \A n \in Names : live'[n] = None
  PROVE  HostsOK'
BY DEF HostsOK, OpenAt

\* A connection that goes takes all that is open with it.
LEMMA AllGone ==
  ASSUME TypeOK
  PROVE  /\ TypeOK => ServerOK
         /\ NothingOpen => /\ \A h \in Hosts : held'[h] # "mine"
                           /\ \A n \in Names : live'[n] = None
                           /\ HostsOK'
         /\ NothingOpen /\ ghost' = ghost => ServerOK'
         /\ ConnectionGone => NothingOpen /\ ServerOK'
<1>1. ServerOK
  BY DEF TypeOK, ServerOK
<1>2. ASSUME NothingOpen
      PROVE  /\ \A h \in Hosts : held'[h] # "mine"
             /\ \A n \in Names : live'[n] = None
             /\ HostsOK'
  <2>1. (\A h \in Hosts : held'[h] # "mine") /\ \A n \in Names : live'[n] = None
    BY <1>2 DEF NothingOpen
  <2>2. QED
    BY <2>1, NothingHeld
<1>3. ASSUME NothingOpen, ghost' \in [Hosts -> 0..GhostSeconds]
      PROVE  ServerOK'
  BY <1>1, <1>3 DEF NothingOpen, ServerOK
<1>4. ConnectionGone => NothingOpen /\ ghost' \in [Hosts -> 0..GhostSeconds]
  BY <1>1, Seconds DEF ConnectionGone, ServerOK
<1>5. QED
  BY <1>1, <1>2, <1>3, <1>4 DEF ServerOK

\* One tunnel is closed, and the others stay open.
LEMMA OneClosed ==
  ASSUME EngineInv, NEW n \in Names, CloseTunnel(n), link' = link
  PROVE  /\ ServerOK' /\ HostsOK' /\ ghost' = ghost
         /\ live'[n] = None
         /\ \A m \in Names \ {n} : Kept(m)
<1>1. TypeOK /\ ServerOK /\ HostsOK /\ HeldOK(n)
  BY AllGone DEF EngineInv, NameOK
<1>2. /\ live' = [live EXCEPT ![n] = None]
      /\ amended' = amended \ {n} /\ doubled' = doubled \ {n}
      /\ UNCHANGED <<granted, ghost, strays>>
  BY DEF CloseTunnel
<1>3. live'[n] = None /\ \A m \in Names \ {n} : live'[m] = live[m]
  BY <1>1, <1>2 DEF ServerOK
<1>4. /\ held' \in [Hosts -> {"free", "mine", "other"}]
      /\ \A h \in Hosts : /\ held'[h] = "mine" => held[h] = "mine" /\ ~OpenAt(n, h)
                          /\ held[h] = "mine" /\ ~OpenAt(n, h) => held'[h] = "mine"
  <2>1. CASE live[n] = None
    BY <1>1, <2>1 DEF CloseTunnel, ServerOK, OpenAt
  <2>2. CASE live[n] # None
    <3>1. PICK k \in Hosts : k = HostOf(n, live[n])
      BY <1>1, <2>2, SpecsHaveHosts DEF ServerOK
    <3>2. held[k] = "mine"
      BY <1>1, <2>2, <3>1 DEF HeldOK
    <3>3. held' = [held EXCEPT ![k] = "free"]
      BY <2>2, <3>1, <3>2 DEF CloseTunnel
    <3>4. \A h \in Hosts : OpenAt(n, h) <=> h = k
      BY <2>2, <3>1 DEF OpenAt
    <3>5. QED
      BY <1>1, <3>3, <3>4 DEF ServerOK
  <2>3. QED
    BY <2>1, <2>2
<1>5. ServerOK'
  BY <1>1, <1>2, <1>4 DEF ServerOK
<1>6. \A m \in Names, h \in Hosts : OpenAt(m, h)' <=> OpenAt(m, h) /\ m # n
  BY <1>3 DEF OpenAt
<1>7. HostsOK'
  <2>1. ASSUME NEW h \in Hosts, held'[h] = "mine"
        PROVE  link' = "up" /\ (h \in strays' \/ \E m \in Names : OpenAt(m, h)')
    BY <1>1, <1>2, <1>4, <1>6, <2>1 DEF HostsOK
  <2>2. \A k \in Names, m \in Names, h \in Hosts : OpenAt(k, h)' /\ OpenAt(m, h)' => k = m
    BY <1>1, <1>6 DEF HostsOK
  <2>3. QED
    BY <2>1, <2>2 DEF HostsOK
<1>8. ASSUME NEW m \in Names \ {n}
      PROVE  Kept(m)
  <2>1. ASSUME live[m] # None, held[HostOf(m, live[m])] = "mine"
        PROVE  held'[HostOf(m, live[m])] = "mine"
    <3>1. PICK k \in Hosts : k = HostOf(m, live[m])
      BY <1>1, <2>1, SpecsHaveHosts DEF ServerOK
    <3>2. OpenAt(m, k)
      BY <2>1, <3>1 DEF OpenAt
    <3>3. ~OpenAt(n, k)
      BY <1>1, <3>2 DEF HostsOK
    <3>4. QED
      BY <1>4, <2>1, <3>1, <3>3
  <2>2. QED
    BY <1>2, <1>3, <2>1 DEF Kept
<1>9. QED
  BY <1>2, <1>3, <1>5, <1>7, <1>8

\* Seconds pass for the ghosts.
LEMMA FadingTypes ==
  ASSUME TypeOK, GhostsFade
  PROVE  ghost' \in [Hosts -> 0..GhostSeconds]
BY Seconds DEF TypeOK, GhostsFade, Minus1

\* A second later the retries are the same ones.
LEMMA RetriesASecondLater ==
  ASSUME TypeOK, NEW n \in Names
  PROVE  /\ SecondLater(n) \in Retry \cup {None}
         /\ SecondLater(n) = None <=> retry[n] = None
<1>1. CASE retry[n] = None
  BY <1>1 DEF SecondLater
<1>2. CASE retry[n] # None
  <2>1. retry[n] \in Retry
    BY <1>2 DEF TypeOK
  <2>2. retry[n].left \in 0..RetryWindow /\ retry[n].next \in 0..RetryEvery
    BY <2>1 DEF Retry
  <2>3. Minus1(retry[n].left) \in 0..RetryWindow /\ Minus1(retry[n].next) \in 0..RetryEvery
    BY <2>2, Seconds DEF Minus1
  <2>4. SecondLater(n) \in Retry
    BY <1>2, <2>3 DEF SecondLater, Retry
  <2>5. QED
    BY <1>2, <2>4, PresentAssumption
<1>3. QED
  BY <1>1, <1>2

\* The server ends the session, or the client's end of it dies: every host is free.
LEMMA ConnectionEnds ==
  ASSUME EngineInv, ServerEnds \/ LinkDies
  PROVE  EngineInv'
<1>1. TypeOK /\ Places /\ Taking /\ \A n \in Names : NameOK(n)
  BY DEF EngineInv
<1>2. /\ link' \in {"lost", "dead", "kicked"} /\ link # "none"
      /\ NothingOpen /\ ServerOK'
      /\ UNCHANGED <<stateVars, pc, job, todo, opening, retry, cards, status, login_reply, unsaved>>
  <2>1. CASE ServerEnds
    BY <1>1, <2>1, AllGone DEF ServerEnds
  <2>2. CASE LinkDies
    BY <1>1, <2>2, AllGone DEF LinkDies, Alive
  <2>3. QED
    BY <2>1, <2>2
<1>3. TypeOK'
  BY <1>1, <1>2 DEF TypeOK, ServerOK, StateTypeOK, stateVars
<1>4. Places'
  BY <1>1, <1>2 DEF Places, Ending, IsEnabled, EnabledTunnels, Has, stateVars
<1>5. Taking'
  BY <1>1, <1>2 DEF Taking, IsEnabled, Has, stateVars
<1>6. ASSUME NEW n \in Names
      PROVE  NameOK(n)'
  <2>1. CardOK(n)'
    BY <1>1, <1>2 DEF NameOK, CardOK, IsUp, Saving, IsEnabled, Has, stateVars
  <2>2. QED
    BY <1>1, <1>2, <2>1, AllGone, NotConnected
<1>7. QED
  BY <1>1, <1>2, <1>3, <1>4, <1>5, <1>6, AllGone DEF EngineInv

\* Ghosts leave, the account is busy elsewhere, a domain is registered, and seconds
\* pass: what is open and what is retried stay the same.
LEMMA ServerElsewhere ==
  ASSUME EngineInv,
         OpenWaits \/ (\E h \in Hosts : GhostLeaves(h) \/ OtherMachine(h))
                   \/ \E d \in Domains : DomainRegistered(d)
  PROVE  EngineInv'
<1>1. TypeOK /\ Places /\ Taking /\ HostsOK /\ \A n \in Names : NameOK(n)
  BY DEF EngineInv
<1>2. /\ granted' \in SUBSET Domains
      /\ held' \in [Hosts -> {"free", "mine", "other"}]
      /\ ghost' \in [Hosts -> 0..GhostSeconds]
      /\ retry' \in [Names -> Retry \cup {None}]
      /\ \A h \in Hosts : held'[h] = "mine" <=> held[h] = "mine"
      /\ \A m \in Names : retry'[m] = None <=> retry[m] = None
      /\ UNCHANGED <<stateVars, pc, job, todo, opening, cards, status, login_reply, link, live,
                     unsaved, watchVars>>
  <2>1. CASE OpenWaits
    BY <1>1, <2>1, FadingTypes, RetriesASecondLater DEF OpenWaits, TypeOK
  <2>2. ASSUME NEW h \in Hosts, GhostLeaves(h)
        PROVE  <1>2!1 /\ <1>2!2 /\ <1>2!3 /\ <1>2!4 /\ <1>2!5 /\ <1>2!6 /\ <1>2!7
    BY <1>1, <2>2, Seconds DEF GhostLeaves, TypeOK
  <2>3. ASSUME NEW h \in Hosts, OtherMachine(h)
        PROVE  <1>2!1 /\ <1>2!2 /\ <1>2!3 /\ <1>2!4 /\ <1>2!5 /\ <1>2!6 /\ <1>2!7
    BY <1>1, <2>3 DEF OtherMachine, TypeOK
  <2>4. ASSUME NEW d \in Domains, DomainRegistered(d)
        PROVE  <1>2!1 /\ <1>2!2 /\ <1>2!3 /\ <1>2!4 /\ <1>2!5 /\ <1>2!6 /\ <1>2!7
    BY <1>1, <2>4 DEF DomainRegistered, TypeOK
  <2>5. QED
    BY <2>1, <2>2, <2>3, <2>4
<1>3. TypeOK'
  BY <1>1, <1>2 DEF TypeOK, StateTypeOK, stateVars, watchVars
<1>4. Places'
  BY <1>1, <1>2 DEF Places, Ending, IsEnabled, EnabledTunnels, Has, stateVars
<1>5. Taking'
  BY <1>1, <1>2 DEF Taking, IsEnabled, Has, stateVars
<1>6. HostsOK'
  BY <1>1, <1>2 DEF HostsOK, OpenAt, watchVars
<1>7. ASSUME NEW n \in Names
      PROVE  NameOK(n)'
  <2>1. (\A cmd \in Commands : Saving(cmd, n)' <=> Saving(cmd, n)) /\ (Asked(n)' <=> Asked(n))
        /\ (Ending => Ending')
    BY <1>2 DEF Saving, Asked, Ending
  <2>2. Kept(n)
    <3>1. live[n] # None => HostOf(n, live[n]) \in Hosts
      BY <1>1, SpecsHaveHosts DEF TypeOK
    <3>2. QED
      BY <1>2, <3>1 DEF Kept, watchVars
  <2>3. QED
    BY <1>1, <1>2, <2>1, <2>2, Untouched DEF stateVars
<1>8. QED
  BY <1>3, <1>4, <1>5, <1>6, <1>7 DEF EngineInv
-----------------------------------------------------------------------------
(* The process, and connecting. *)

\* The process starts from what is on disk, with no cards and no connection.
LEMMA LaunchKeeps ==
  ASSUME EngineInv, Launch
  PROVE  EngineInv'
<1>1. TypeOK /\ Places /\ Taking /\ \A n \in Names : NameOK(n)
  BY DEF EngineInv
<1>2. Load \in State
  BY ClientStateAssumption DEF Load, DefaultState, State
<1>3. file' \in State \cup {Torn, None}
  BY <1>1 DEF Launch, SetAside, TypeOK, StateTypeOK
<1>4. pc' \in {"no_token", "dialing"} /\ pc = "off" /\ link' = "none" /\ link = "none"
  BY <1>1 DEF Launch, Places
<1>5. PICK b \in BOOLEAN : b = (Load.token = None)
  OBVIOUS
<1>6. status' \in Status
  <2>1. status' = [connected |-> FALSE, needs_login |-> b, attempt |-> 0]
    BY <1>5 DEF Launch
  <2>2. QED
    BY <2>1, EngineAssumption DEF Status
<1>7. TypeOK'
  BY <1>1, <1>2, <1>3, <1>4, <1>6
  DEF TypeOK, StateTypeOK, Launch, serverVars, watchVars
<1>8. opening' = None /\ todo' = {}
  BY <1>1, <1>4 DEF TypeOK, Places, Launch
<1>9. Places' /\ Taking'
  BY <1>4, <1>8 DEF Places, Taking
<1>10. (\A h \in Hosts : held'[h] # "mine") /\ \A n \in Names : live'[n] = None
  BY <1>4, Idle DEF Launch, serverVars
<1>11. ASSUME NEW n \in Names
       PROVE  NameOK(n)'
  <2>1. cards'[n] = None
    BY <1>1, <1>4 DEF Places, Launch
  <2>2. CardOK(n)'
    BY <2>1 DEF CardOK
  <2>3. QED
    BY <1>4, <1>10, <2>2, NotConnected
<1>12. QED
  BY <1>7, <1>9, <1>10, <1>11, NothingHeld DEF EngineInv

\* A process that ends takes all it knows with it, but for the file.
LEMMA ProcessEndsKeeps ==
  ASSUME EngineInv, ProcessEnds
  PROVE  EngineInv'
<1>1. TypeOK
  BY DEF EngineInv
<1>2. DefaultState \in State
  BY DEF DefaultState, State
<1>3. status' \in Status
  BY EngineAssumption DEF ProcessEnds, Status
<1>4. ConnectionGone /\ NothingOpen /\ ServerOK' /\ HostsOK'
  BY <1>1, AllGone DEF ProcessEnds
<1>5. TypeOK'
  BY <1>1, <1>2, <1>3, <1>4
  DEF TypeOK, ServerOK, StateTypeOK, ProcessEnds, NoCards, NoRetries
<1>6. Places' /\ Taking'
  BY DEF ProcessEnds, NoCards, Places, Taking
<1>7. ASSUME NEW n \in Names
      PROVE  NameOK(n)'
  <2>1. link' # "up" /\ live'[n] = None /\ cards'[n] = None
    BY <1>1, <1>4, AllGone DEF ProcessEnds, NoCards
  <2>2. CardOK(n)'
    BY <2>1 DEF CardOK
  <2>3. QED
    BY <2>1, <2>2, NotConnected
<1>8. QED
  BY <1>4, <1>5, <1>6, <1>7 DEF EngineInv

\* What becomes of the rest of the status is a status.
LEMMA StatusTypes ==
  ASSUME TypeOK
  PROVE  /\ \A c, b \in BOOLEAN : [status EXCEPT !.connected = c, !.needs_login = b] \in Status
         /\ \A b \in BOOLEAN : [status EXCEPT !.needs_login = b] \in Status
         /\ status.needs_login \in BOOLEAN
         /\ BackOff => status' \in Status
<1>1. status \in Status
  BY DEF TypeOK
<1>2. /\ \A c, b \in BOOLEAN : [status EXCEPT !.connected = c, !.needs_login = b] \in Status
      /\ \A b \in BOOLEAN : [status EXCEPT !.needs_login = b] \in Status
      /\ status.needs_login \in BOOLEAN
  BY <1>1 DEF Status
<1>3. ASSUME BackOff
      PROVE  status' \in Status
  <2>1. PICK a : a = IF status.attempt < MaxAttempt THEN status.attempt + 1 ELSE status.attempt
    OBVIOUS
  <2>2. a \in 0..MaxAttempt
    BY <1>1, <2>1, EngineAssumption DEF Status
  <2>3. status' = [status EXCEPT !.connected = FALSE, !.attempt = a]
    BY <1>3, <2>1 DEF BackOff
  <2>4. QED
    BY <1>1, <2>2, <2>3 DEF Status
<1>4. QED
  BY <1>2, <1>3

\* The credential is no part of what is said of the tunnels.
LEMMA WithToken ==
  ASSUME TypeOK, NEW t \in Tokens \cup {None}
  PROVE  /\ [state EXCEPT !.token = t] \in State
         /\ [state EXCEPT !.token = t].tunnels = state.tunnels
         /\ [state EXCEPT !.token = t].token = t
BY DEF TypeOK, StateTypeOK, State

\* No connection comes about: every name is as it was.
LEMMA NoConnection ==
  ASSUME EngineInv, TcpUp \/ TlsUp \/ ConnectRejected \/ ConnectFails \/ BackoffEnds
  PROVE  EngineInv'
<1>1. TypeOK /\ Places /\ Taking /\ HostsOK /\ \A n \in Names : NameOK(n)
  BY DEF EngineInv
<1>2. /\ state' \in State /\ state'.tunnels = state.tunnels
      /\ pc \in {"dialing", "tls", "hello", "backoff"}
      /\ pc' \in {"no_token", "dialing", "tls", "hello", "backoff"}
      /\ status' \in Status
      /\ login_reply' \in BOOLEAN
      /\ UNCHANGED <<file, job, todo, opening, retry, cards, link, serverVars, unsaved, watchVars>>
  <2>1. ASSUME WaitForLogin
        PROVE  /\ state' \in State /\ state'.tunnels = state.tunnels
               /\ pc' = "no_token" /\ status' \in Status /\ login_reply' \in BOOLEAN
    BY <1>1, <2>1, StatusTypes, WithToken DEF WaitForLogin
  <2>2. CASE ConnectRejected
    BY <2>1, <2>2 DEF ConnectRejected
  <2>3. CASE ConnectFails
    <3>1. CASE login_reply
      BY <2>1, <2>3, <3>1 DEF ConnectFails
    <3>2. CASE ~login_reply
      BY <1>1, <2>3, <3>2, StatusTypes DEF ConnectFails, BackOff, TypeOK, StateTypeOK
    <3>3. QED
      BY <3>1, <3>2
  <2>4. CASE BackoffEnds
    <3>1. PICK b \in BOOLEAN : b = (status.needs_login \/ state.token = None)
      BY <1>1, StatusTypes
    <3>2. status' = [status EXCEPT !.needs_login = b]
      BY <2>4, <3>1 DEF BackoffEnds
    <3>3. QED
      BY <1>1, <2>4, <3>2, StatusTypes DEF BackoffEnds, TypeOK, StateTypeOK, stateVars
  <2>5. CASE TcpUp \/ TlsUp
    BY <1>1, <2>5 DEF TcpUp, TlsUp, Dials, TypeOK, StateTypeOK, stateVars
  <2>6. QED
    BY <2>2, <2>3, <2>4, <2>5
<1>3. TypeOK'
  BY <1>1, <1>2 DEF TypeOK, StateTypeOK, serverVars, watchVars
<1>4. Places'
  BY <1>1, <1>2 DEF Places, IsEnabled, EnabledTunnels, Has
<1>5. Taking'
  BY <1>1, <1>2 DEF Taking
<1>6. ASSUME NEW n \in Names
      PROVE  NameOK(n)'
  <2>1. (\A cmd \in Commands : Saving(cmd, n)' <=> Saving(cmd, n)) /\ (Asked(n)' <=> Asked(n))
        /\ (Ending => Ending')
    BY <1>2 DEF Saving, Asked, Ending
  <2>2. QED
    BY <1>1, <1>2, <2>1, ServerLeftAlone, Untouched
<1>7. QED
  BY <1>1, <1>2, <1>3, <1>4, <1>5, <1>6, ServerLeftAlone DEF EngineInv

\* A session begins: no card shows an address yet, and every tunnel that is on has
\* its turn to come.
LEMMA ConnectOkKeeps ==
  ASSUME EngineInv, ConnectOk
  PROVE  EngineInv'
<1>1. TypeOK /\ Places /\ Taking /\ \A n \in Names : NameOK(n)
  BY DEF EngineInv
<1>2. status' \in Status
  BY EngineAssumption DEF ConnectOk, Status
<1>3. TypeOK'
  BY <1>1, <1>2
  DEF TypeOK, StateTypeOK, ConnectOk, NoRetries, EnabledTunnels, serverVars, watchVars, stateVars
<1>4. link = "none" /\ pc' # "saving" /\ pc # "saving" /\ opening' = None
  BY <1>1 DEF ConnectOk, Places, TypeOK
<1>5. Places' /\ Taking'
  BY <1>4 DEF ConnectOk, Places, Taking, EnabledTunnels, IsEnabled, Has, stateVars
<1>6. ASSUME NEW n \in Names
      PROVE  NameOK(n)'
  <2>1. cards'[n] = cards[n] /\ state' = state /\ retry'[n] = None
        /\ live'[n] = live[n] /\ (n \in todo' <=> IsEnabled(state, n))
    BY DEF ConnectOk, NoRetries, stateVars, serverVars, EnabledTunnels
  <2>2. ~IsUp(n)
    BY <1>1, <1>4 DEF NameOK, CardOK, IsUp, Ending
  <2>3. live[n] = None
    BY <1>4, Idle
  <2>4. IsEnabled(state, n)' <=> IsEnabled(state, n)
    BY <2>1 DEF IsEnabled, Has
  <2>5. CardOK(n)'
    BY <1>1, <1>4, <2>1, <2>2, <2>4 DEF NameOK, CardOK, IsUp, Saving, Has
  <2>6. UrlOK(n)' /\ HeldOK(n)'
    BY <2>1, <2>2, <2>3 DEF UrlOK, HeldOK, IsUp
  <2>7. AccountedOK(n)'
    BY <2>1, <2>4 DEF AccountedOK
  <2>8. RetryOK(n)'
    BY <1>4, <2>1, <2>4, <2>5 DEF RetryOK, CardOK, Saving
  <2>9. QED
    BY <2>5, <2>6, <2>7, <2>8 DEF NameOK
<1>7. HostsOK'
  BY <1>4, Idle, NothingHeld DEF ConnectOk, serverVars
<1>8. QED
  BY <1>3, <1>5, <1>6, <1>7 DEF EngineInv
-----------------------------------------------------------------------------
(* Opening tunnels, and the session's tick. *)

\* The next tunnel of the round is asked for: it was to come, now it is under way.
LEMMA OpenNextKeeps ==
  ASSUME EngineInv, OpenNext
  PROVE  EngineInv'
<1>1. TypeOK /\ Places /\ Taking /\ HostsOK /\ \A n \in Names : NameOK(n)
  BY DEF EngineInv
<1>2. PICK n \in todo : todo' = todo \ {n} /\ opening' = [name |-> n, by |-> "round"]
  BY DEF OpenNext
<1>3. /\ pc = "session" /\ pc' = "opening"
      /\ UNCHANGED <<stateVars, job, retry, cards, status, login_reply, link, serverVars, unsaved,
                     watchVars>>
  BY DEF OpenNext
<1>4. n \in Names /\ IsEnabled(state, n)
  BY <1>1, <1>2 DEF Places, EnabledTunnels
<1>5. opening' \in Request /\ opening' # None /\ opening'.name = n
  BY <1>2, <1>4, PresentAssumption DEF Request
<1>6. opening = None
  BY <1>1, <1>3 DEF TypeOK
<1>7. TypeOK'
  BY <1>1, <1>2, <1>3, <1>5 DEF TypeOK, StateTypeOK, stateVars, serverVars, watchVars
<1>8. Places'
  BY <1>1, <1>2, <1>3, <1>4, <1>5 DEF Places, EnabledTunnels, IsEnabled, Has, stateVars
<1>9. Taking'
  BY <1>3 DEF Taking
<1>10. ASSUME NEW m \in Names
       PROVE  NameOK(m)'
  <2>1. (\A cmd \in Commands : Saving(cmd, m)' <=> Saving(cmd, m)) /\ (Ending => Ending')
        /\ \A cmd \in Commands : ~Saving(cmd, m)
    BY <1>3 DEF Saving, Ending
  <2>2. CASE m # n
    <3>1. (Asked(m)' <=> Asked(m)) /\ (m \in todo' <=> m \in todo)
      BY <1>2, <1>5, <1>6, <2>2 DEF Asked
    <3>2. QED
      BY <1>1, <1>3, <2>1, <3>1, ServerLeftAlone, Untouched DEF stateVars
  <2>3. CASE m = n
    <3>1. Asked(n)'
      BY <1>5 DEF Asked
    <3>2. CardOK(n)'
      BY <1>1, <1>3, <1>4, <2>1, <2>3 DEF NameOK, CardOK, IsUp, Ending, IsEnabled, Has, stateVars
    <3>3. HeldOK(n)'
      BY <1>1, <1>3, <1>4, <2>1, <2>3
      DEF NameOK, HeldOK, OpenAt, IsEnabled, Has, IsUp, stateVars, serverVars, watchVars
    <3>4. UrlOK(n)' /\ AccountedOK(n)'
      BY <3>1 DEF UrlOK, AccountedOK
    <3>5. RetryOK(n)'
      BY <1>1, <1>3, <1>4, <2>1, <2>3, <3>1
      DEF NameOK, RetryOK, IsEnabled, Has, stateVars
    <3>6. QED
      BY <2>3, <3>2, <3>3, <3>4, <3>5 DEF NameOK
  <2>4. QED
    BY <2>2, <2>3
<1>11. QED
  BY <1>1, <1>3, <1>7, <1>8, <1>9, <1>10, ServerLeftAlone DEF EngineInv

\* What an answer to the request for n changes is n's: the others are as they were.
LEMMA AnswerToOne ==
  ASSUME EngineInv, NEW n \in Names, Answered(n),
         retry' \in [Names -> Retry \cup {None}],
         cards' \in [Names -> Card \cup {None}],
         ServerOK',
         \A m \in Names \ {n} : retry'[m] = retry[m] /\ cards'[m] = cards[m] /\ Kept(m)
  PROVE  TypeOK' /\ Places' /\ Taking' /\ \A m \in Names \ {n} : NameOK(m)'
<1>1. TypeOK /\ Places /\ Taking /\ \A m \in Names : NameOK(m)
  BY DEF EngineInv
<1>2. /\ pc = "opening" /\ pc' = "session" /\ opening # None /\ opening.name = n /\ opening' = None
      /\ UNCHANGED <<stateVars, job, todo, status, login_reply, link, unsaved>>
  BY DEF Answered
<1>3. TypeOK'
  BY <1>1, <1>2 DEF TypeOK, ServerOK, StateTypeOK, stateVars
<1>4. Places'
  BY <1>1, <1>2 DEF Places, EnabledTunnels, IsEnabled, Has, stateVars
<1>5. Taking'
  BY <1>2 DEF Taking
<1>6. ASSUME NEW m \in Names \ {n}
      PROVE  NameOK(m)'
  <2>1. (\A cmd \in Commands : Saving(cmd, m)' <=> Saving(cmd, m)) /\ (Ending => Ending')
        /\ (Asked(m)' <=> Asked(m))
    BY <1>2 DEF Saving, Ending, Asked
  <2>2. QED
    BY <1>1, <1>2, <2>1, Untouched DEF stateVars
<1>7. QED
  BY <1>3, <1>4, <1>5, <1>6

\* What the engine knows when an answer for n comes.
LEMMA Awaited ==
  ASSUME EngineInv, NEW n \in Names, Answered(n)
  PROVE  /\ IsEnabled(state, n) /\ Has(state, n) /\ IsEnabled(state, n)' /\ Has(state, n)'
         /\ state' = state /\ link' = link
         /\ ~Asked(n)' /\ ~Ending' /\ \A cmd \in Commands : ~Saving(cmd, n)' /\ ~Saving(cmd, n)
         /\ link # "none"
         /\ cards \in [Names -> Card \cup {None}]
         /\ retry \in [Names -> Retry \cup {None}]
         /\ ServerOK
         /\ SpecOf(state.tunnels[n]) \in TunnelSpec
         /\ HostAsked(n) \in Hosts /\ HostAsked(n) # None
<1>1. TypeOK /\ Places
  BY DEF EngineInv
<1>2. /\ pc = "opening" /\ pc' = "session" /\ opening # None /\ opening.name = n /\ opening' = None
      /\ state' = state /\ link' = link
  BY DEF Answered, stateVars
<1>3. IsEnabled(state, n) /\ Has(state, n)
  BY <1>1, <1>2 DEF Places, IsEnabled
<1>4. /\ cards \in [Names -> Card \cup {None}]
      /\ retry \in [Names -> Retry \cup {None}]
      /\ ServerOK
  BY <1>1 DEF TypeOK, ServerOK
<1>5. SpecOf(state.tunnels[n]) \in TunnelSpec /\ HostAsked(n) \in Hosts /\ HostAsked(n) # None
  BY <1>1, <1>3, InHand, SpecsHaveHosts DEF HostAsked
<1>6. QED
  BY <1>1, <1>2, <1>3, <1>4, <1>5 DEF Places, IsEnabled, Has, Asked, Ending, Saving

\* The tunnel is open: its card shows the address, and the server has what the
\* state says.  The host it was open at before, if another, is forgotten.
LEMMA OpenOkKeeps ==
  ASSUME EngineInv, NEW n \in Names, OpenOk(n)
  PROVE  EngineInv'
<1>1. /\ TypeOK /\ HostsOK /\ \A m \in Names : HeldOK(m)
      /\ Answered(n) /\ link = "up"
  BY DEF EngineInv, OpenOk, NameOK
<1>2. PICK h \in Hosts : h = HostAsked(n) /\ h # None /\ held[h] = "free"
  BY <1>1, Awaited DEF OpenOk, Taken
<1>3. PICK c \in Card : /\ c = CardAfter(n, h, "none") /\ c # None
                        /\ c.port = state.tunnels[n].port /\ c.enabled /\ c.url = h
                        /\ c.error = "none"
  BY <1>1, <1>2, Awaited, AnsweredCard
<1>4. PICK l \in TunnelSpec : l = SpecOf(state.tunnels[n]) /\ l.port = state.tunnels[n].port
                              /\ HostOf(n, l) = h /\ l # None
  BY <1>1, <1>2, Awaited, PresentAssumption DEF SpecOf, HostAsked
<1>5. /\ held' = [held EXCEPT ![h] = "mine"]
      /\ live' = [live EXCEPT ![n] = l]
      /\ cards' = [cards EXCEPT ![n] = c]
      /\ retry' = [retry EXCEPT ![n] = None]
      /\ amended' = amended \ {n} /\ doubled' = doubled \ {n}
      /\ strays' = IF live[n] = None THEN strays ELSE strays \cup {HostOf(n, live[n])}
      /\ UNCHANGED <<granted, ghost>>
  BY <1>2, <1>3, <1>4 DEF OpenOk, Forget, Answered
<1>6. /\ held'[h] = "mine" /\ live'[n] = l /\ cards'[n] = c /\ retry'[n] = None
      /\ \A k \in Hosts \ {h} : held'[k] = held[k]
      /\ \A m \in Names \ {n} : live'[m] = live[m]
  BY <1>1, <1>5, Awaited DEF ServerOK
<1>7. ServerOK'
  <2>1. live[n] # None => HostOf(n, live[n]) \in Hosts
    BY <1>1, SpecsHaveHosts DEF TypeOK
  <2>2. QED
    BY <1>1, <1>5, <2>1, Awaited DEF ServerOK
<1>8. /\ \A m \in Names \ {n}, k \in Hosts : OpenAt(m, k)' <=> OpenAt(m, k)
      /\ \A k \in Hosts : OpenAt(n, k)' <=> k = h
      /\ \A m \in Names : ~OpenAt(m, h)
  <2>1. ASSUME NEW m \in Names
        PROVE  ~OpenAt(m, h)
    BY <1>1, <1>2 DEF HeldOK, OpenAt
  <2>2. QED
    BY <1>4, <1>6, <2>1 DEF OpenAt
<1>9. HostsOK'
  <2>1. ASSUME NEW k \in Hosts, held'[k] = "mine"
        PROVE  link' = "up" /\ (k \in strays' \/ \E m \in Names : OpenAt(m, k)')
    <3>1. link' = "up"
      BY <1>1, Awaited
    <3>2. CASE k = h
      BY <1>8, <3>1, <3>2
    <3>3. CASE k # h
      <4>1. k \in strays \/ \E m \in Names : OpenAt(m, k)
        BY <1>1, <1>6, <2>1, <3>3 DEF HostsOK
      <4>2. CASE k \in strays
        BY <1>5, <3>1, <4>2
      <4>3. ASSUME NEW m \in Names, OpenAt(m, k)
            PROVE  k \in strays' \/ OpenAt(m, k)'
        BY <1>5, <1>8, <4>3 DEF OpenAt
      <4>4. QED
        BY <3>1, <4>1, <4>2, <4>3
    <3>4. QED
      BY <3>2, <3>3
  <2>2. ASSUME NEW j \in Names, NEW m \in Names, NEW k \in Hosts, OpenAt(j, k)', OpenAt(m, k)'
        PROVE  j = m
    BY <1>1, <1>8, <2>2 DEF HostsOK
  <2>3. QED
    BY <2>1, <2>2 DEF HostsOK
<1>10. TypeOK' /\ Places' /\ Taking' /\ \A m \in Names \ {n} : NameOK(m)'
  <2>1. ASSUME NEW m \in Names \ {n}
        PROVE  retry'[m] = retry[m] /\ cards'[m] = cards[m] /\ Kept(m)
    <3>1. live[m] # None => HostOf(m, live[m]) \in Hosts \ {h}
      BY <1>1, <1>8, SpecsHaveHosts DEF TypeOK, OpenAt
    <3>2. QED
      BY <1>1, <1>5, <1>6, <3>1, Awaited DEF Kept
  <2>2. QED
    BY <1>1, <1>5, <1>7, <2>1, Awaited, AnswerToOne
<1>11. NameOK(n)'
  <2>1. CardOK(n)'
    BY <1>1, <1>3, <1>6, Awaited DEF CardOK
  <2>2. UrlOK(n)'
    BY <1>1, <1>3, <1>4, <1>6, Awaited DEF UrlOK, OpenAt
  <2>3. HeldOK(n)'
    BY <1>1, <1>2, <1>3, <1>4, <1>6, Awaited DEF HeldOK, IsUp, OpenAt
  <2>4. AccountedOK(n)'
    BY <1>2, <1>3, <1>6 DEF AccountedOK, IsUp
  <2>5. RetryOK(n)'
    BY <1>3, <1>6 DEF RetryOK
  <2>6. QED
    BY <2>1, <2>2, <2>3, <2>4, <2>5 DEF NameOK
<1>12. QED
  BY <1>9, <1>10, <1>11 DEF EngineInv

\* A refusal leaves the server as it was, and n without an address: what stays open
\* of n is open behind a card that says so.
LEMMA RefusedKeeps ==
  ASSUME EngineInv, NEW n \in Names, Answered(n), Refused(n),
         NEW r \in Retry \cup {None}, retry' = [retry EXCEPT ![n] = r],
         NEW e \in {"retrying", "taken", "other"}, e = "retrying" <=> r # None,
         cards' = [cards EXCEPT ![n] = CardAfter(n, None, e)]
  PROVE  EngineInv'
<1>1. TypeOK /\ HostsOK /\ HeldOK(n)
  BY DEF EngineInv, NameOK
<1>2. PICK c \in Card : /\ c = CardAfter(n, None, e) /\ c # None
                        /\ c.port = state.tunnels[n].port /\ c.enabled /\ c.url = None
                        /\ c.error = e
  BY <1>1, Awaited, AnsweredCard
<1>3. /\ held' = held /\ live' = live /\ amended' = amended /\ strays' = strays
      /\ UNCHANGED <<granted, ghost>>
      /\ doubled' = IF live[n] = None THEN doubled ELSE doubled \cup {n}
  BY DEF Refused, Answered
<1>4. cards'[n] = c /\ retry'[n] = r
  BY <1>2, Awaited
<1>5. TypeOK' /\ Places' /\ Taking' /\ \A m \in Names \ {n} : NameOK(m)'
  <2>1. ServerOK'
    BY <1>3, Awaited DEF ServerOK
  <2>2. \A m \in Names \ {n} : retry'[m] = retry[m] /\ cards'[m] = cards[m] /\ Kept(m)
    BY <1>3, Awaited DEF Kept
  <2>3. cards' \in [Names -> Card \cup {None}] /\ retry' \in [Names -> Retry \cup {None}]
    BY <1>2, Awaited
  <2>4. QED
    BY <2>1, <2>2, <2>3, AnswerToOne
<1>6. HostsOK'
  BY <1>1, <1>3, Awaited DEF HostsOK, OpenAt
<1>7. NameOK(n)'
  <2>1. CardOK(n)'
    BY <1>2, <1>4, Awaited DEF CardOK, IsUp
  <2>2. UrlOK(n)'
    BY <1>2, <1>4 DEF UrlOK, IsUp
  <2>3. HeldOK(n)'
    BY <1>1, <1>3, Awaited DEF HeldOK, ServerOK
  <2>4. AccountedOK(n)'
    BY <1>2, <1>4 DEF AccountedOK
  <2>5. RetryOK(n)'
    BY <1>2, <1>4, Awaited DEF RetryOK
  <2>6. QED
    BY <2>1, <2>2, <2>3, <2>4, <2>5 DEF NameOK
<1>8. QED
  BY <1>5, <1>6, <1>7 DEF EngineInv

\* The host is taken, or not the account's: the card says it will be tried again
\* exactly if it will.
LEMMA OpenTakenKeeps ==
  ASSUME EngineInv, NEW n \in Names, OpenTaken(n)
  PROVE  EngineInv'
<1>1. Answered(n) /\ Refused(n)
  BY DEF OpenTaken
<1>2. PICK r \in Retry \cup {None} : r = RetryAfterTaken(n)
  <2>1. CASE retry[n] = None
    <3>1. [left |-> RetryWindow, next |-> RetryEvery] \in Retry
      BY Seconds DEF Retry
    <3>2. QED
      BY <2>1, <3>1 DEF RetryAfterTaken
  <2>2. CASE retry[n] # None
    <3>1. retry[n] \in Retry
      BY <1>1, <2>2, Awaited
    <3>2. [retry[n] EXCEPT !.next = RetryEvery] \in Retry
      BY <3>1, Seconds DEF Retry
    <3>3. QED
      BY <2>2, <3>2 DEF RetryAfterTaken
  <2>3. QED
    BY <2>1, <2>2
<1>3. retry' = [retry EXCEPT ![n] = r] /\ retry'[n] = r
  BY <1>1, <1>2, Awaited DEF OpenTaken
<1>4. PICK e \in {"taken", "retrying"} : e = IF r = None THEN "taken" ELSE "retrying"
  OBVIOUS
<1>5. cards' = [cards EXCEPT ![n] = CardAfter(n, None, e)]
  BY <1>3, <1>4 DEF OpenTaken
<1>6. QED
  BY <1>1, <1>3, <1>4, <1>5, RefusedKeeps

\* Any other failure is on the card, and ends the retries.
LEMMA OpenFailsKeeps ==
  ASSUME EngineInv, NEW n \in Names, OpenFails(n)
  PROVE  EngineInv'
BY RefusedKeeps DEF OpenFails, Forget

\* The tick asks again for what is due and forgets what is switched off, which
\* leaves no card promising what will not be.
LEMMA TickRetriesKeeps ==
  ASSUME EngineInv, TickRetries
  PROVE  EngineInv'
<1>1. TypeOK /\ Places /\ Taking /\ HostsOK /\ \A n \in Names : NameOK(n)
  BY DEF EngineInv
<1>2. /\ pc = "session" /\ todo = {}
      /\ todo' = {n \in EnabledTunnels(state) : Due(n)}
      /\ UNCHANGED <<stateVars, pc, job, opening, cards, status, login_reply, link, granted, held,
                     live, unsaved, watchVars>>
  BY DEF TickRetries
<1>3. opening = None
  BY <1>1, <1>2 DEF TypeOK
<1>4. retry' \in [Names -> Retry \cup {None}] /\ ghost' \in [Hosts -> 0..GhostSeconds]
  BY <1>1, FadingTypes, RetriesASecondLater DEF TickRetries
<1>5. \A n \in Names :
        /\ retry'[n] # None => retry[n] # None
        /\ retry[n] # None /\ IsEnabled(state, n) => retry'[n] # None
  BY <1>1, RetriesASecondLater DEF TickRetries
<1>6. TypeOK'
  BY <1>1, <1>2, <1>4 DEF TypeOK, StateTypeOK, EnabledTunnels, stateVars, watchVars
<1>7. Places'
  BY <1>1, <1>2, <1>3 DEF Places, EnabledTunnels, IsEnabled, Has, stateVars
<1>8. Taking'
  BY <1>2 DEF Taking
<1>9. ASSUME NEW m \in Names
      PROVE  NameOK(m)'
  <2>1. /\ \A cmd \in Commands : ~Saving(cmd, m) /\ ~Saving(cmd, m)'
        /\ ~Asked(m) /\ ~Asked(m)' /\ ~Ending /\ ~Ending'
    BY <1>2, <1>3 DEF Saving, Ending, Asked
  <2>2. /\ Has(state, m)' <=> Has(state, m)
        /\ IsEnabled(state, m)' <=> IsEnabled(state, m)
        /\ IsUp(m)' <=> IsUp(m)
    BY <1>2 DEF Has, IsEnabled, IsUp, stateVars
  <2>3. CardOK(m)'
    BY <1>1, <1>2, <2>1, <2>2 DEF NameOK, CardOK, IsUp, Commands
  <2>4. UrlOK(m)'
    BY <1>1, <1>2, <2>1, <2>2 DEF NameOK, UrlOK, OpenAt, Commands, stateVars, watchVars
  <2>5. HeldOK(m)'
    BY <1>1, <1>2, <2>1, <2>2 DEF NameOK, HeldOK, OpenAt, Commands, watchVars
  <2>6. AccountedOK(m)'
    BY <1>1, <1>2, <2>1, <2>2 DEF NameOK, AccountedOK, Commands
  <2>7. RetryOK(m)'
    BY <1>1, <1>2, <1>5, <2>1, <2>2 DEF NameOK, CardOK, RetryOK, Commands
  <2>8. QED
    BY <2>3, <2>4, <2>5, <2>6, <2>7 DEF NameOK
<1>10. HostsOK'
  BY <1>1, <1>2 DEF HostsOK, OpenAt, watchVars
<1>11. QED
  BY <1>6, <1>7, <1>8, <1>9, <1>10 DEF EngineInv

\* What leaving a session for the backoff does.
LEMMA Dropped ==
  ASSUME EngineInv, SessionDropped
  PROVE  /\ pc' = "backoff" /\ status' \in Status /\ link' = "none"
         /\ cards' \in [Names -> Card \cup {None}]
         /\ retry' \in [Names -> Retry \cup {None}]
         /\ \A n \in Names :
              /\ ~IsUp(n)'
              /\ cards'[n] = None <=> cards[n] = None
              /\ cards[n] # None => cards'[n].enabled = cards[n].enabled
<1>1. TypeOK
  BY DEF EngineInv
<1>2. QED
  BY <1>1, StatusTypes, CardsWithoutUrls DEF SessionDropped, BackOff, NoRetries, IsUp

\* The connection is dead: the addresses leave the cards.
LEMMA TickDropsKeeps ==
  ASSUME EngineInv, TickDrops
  PROVE  EngineInv'
<1>1. TypeOK /\ Places /\ Taking /\ \A n \in Names : NameOK(n)
  BY DEF EngineInv
<1>2. /\ pc = "session" /\ todo = {} /\ link # "up" /\ SessionDropped
      /\ UNCHANGED <<stateVars, job, todo, opening, login_reply, serverVars, unsaved, watchVars>>
  BY DEF TickDrops, Alive
<1>3. opening = None
  BY <1>1, <1>2 DEF TypeOK
<1>4. TypeOK'
  BY <1>1, <1>2, Dropped DEF TypeOK, StateTypeOK, stateVars, serverVars, watchVars
<1>5. Places' /\ Taking'
  BY <1>1, <1>2, <1>3, Dropped DEF Places, Taking
<1>6. ASSUME NEW m \in Names
      PROVE  NameOK(m)'
  <2>1. (\A cmd \in Commands : ~Saving(cmd, m)) /\ link' # "up"
    BY <1>2, Dropped DEF Saving
  <2>2. CardOK(m)'
    BY <1>1, <1>2, <2>1, Dropped
    DEF NameOK, CardOK, Commands, IsEnabled, Has, IsUp, stateVars
  <2>3. live'[m] = None
    BY <1>2, Idle DEF serverVars
  <2>4. QED
    BY <2>1, <2>2, <2>3, NotConnected
<1>7. HostsOK'
  BY <1>2, Idle, NothingHeld DEF serverVars
<1>8. QED
  BY <1>4, <1>5, <1>6, <1>7 DEF EngineInv

-----------------------------------------------------------------------------
(* Commands. *)

\* What the engine knows when it takes a command, and what taking it does.
LEMMA Commanded ==
  ASSUME EngineInv, NEW cmd \in Commands, NEW n \in Names \cup {None}, NEW s \in State,
         Take(cmd, n, s)
  PROVE  /\ state' = s /\ pc' = "saving" /\ job' \in Job /\ job' # None
         /\ job'.cmd = cmd /\ job'.name = n /\ job'.from = pc
         /\ pc \in {"no_token", "session", "backoff"}
         /\ link = "none" <=> pc # "session"
         /\ todo = {} /\ opening = None
         /\ UNCHANGED <<file, todo, opening, cards, status, login_reply, unsaved>>
         /\ ~Ending
         /\ \A m \in Names, c \in Commands :
              /\ ~Saving(c, m) /\ ~Asked(m) /\ ~Asked(m)'
              /\ Saving(c, m)' <=> c = cmd /\ m = n
<1>1. TypeOK /\ Places
  BY DEF EngineInv
<1>2. /\ state' = s /\ pc' = "saving" /\ job' = [cmd |-> cmd, name |-> n, from |-> pc]
      /\ UNCHANGED <<file, todo, opening, cards, status, login_reply, unsaved>>
      /\ TakesCommands
  BY DEF Take, WriteAside
<1>3. pc \in {"no_token", "session", "backoff"} /\ todo = {}
  BY <1>1, <1>2 DEF TakesCommands, Places
<1>4. job' \in Job
  BY <1>2, <1>3 DEF Job
<1>5. job' # None /\ job'.cmd = cmd /\ job'.name = n /\ job'.from = pc
  BY <1>2, <1>4, PresentAssumption
<1>6. opening = None
  BY <1>1, <1>3 DEF TypeOK
<1>7. link = "none" <=> pc # "session"
  BY <1>1, <1>3 DEF Places
<1>8. ~Ending /\ \A m \in Names, c \in Commands :
                   /\ ~Saving(c, m) /\ ~Asked(m) /\ ~Asked(m)'
                   /\ Saving(c, m)' <=> c = cmd /\ m = n
  BY <1>2, <1>3, <1>5, <1>6 DEF Ending, Saving, Asked
<1>9. QED
  BY <1>2, <1>3, <1>4, <1>5, <1>6, <1>7, <1>8

\* What a command on n changes is n's: the others are as they were.
LEMMA CommandOnOne ==
  ASSUME EngineInv, NEW cmd \in Commands \ {"Login", "Logout"}, NEW n \in Names,
         NEW s \in State, Take(cmd, n, s),
         cmd = "Add" => IsEnabled(s, n),
         cmd = "SetAuth" => Has(s, n),
         cmd = "Enable" /\ Has(s, n) => IsEnabled(s, n),
         cmd = "Disable" => ~IsEnabled(s, n),
         cmd = "Remove" => ~Has(s, n),
         link' = link,
         retry' \in [Names -> Retry \cup {None}],
         ServerOK',
         \A m \in Names \ {n} : /\ s.tunnels[m] = state.tunnels[m]
                                /\ retry'[m] = retry[m] /\ Kept(m)
  PROVE  TypeOK' /\ Places' /\ Taking' /\ \A m \in Names \ {n} : NameOK(m)'
<1>1. TypeOK /\ Places /\ Taking /\ \A m \in Names : NameOK(m)
  BY DEF EngineInv
<1>2. /\ state' = s /\ pc' = "saving" /\ job' \in Job /\ job' # None
      /\ job'.cmd = cmd /\ job'.name = n /\ job'.from = pc
      /\ pc \in {"no_token", "session", "backoff"}
      /\ link = "none" <=> pc # "session"
      /\ todo = {} /\ opening = None
      /\ UNCHANGED <<file, todo, opening, cards, status, login_reply, unsaved>>
      /\ ~Ending
      /\ \A m \in Names, c \in Commands :
           /\ ~Saving(c, m) /\ ~Asked(m) /\ ~Asked(m)'
           /\ Saving(c, m)' <=> c = cmd /\ m = n
  BY Commanded
<1>3. TypeOK'
  BY <1>1, <1>2 DEF TypeOK, ServerOK, StateTypeOK
<1>4. Places'
  BY <1>1, <1>2 DEF Places, Ending
<1>5. Taking'
  BY <1>2 DEF Taking
<1>6. ASSUME NEW m \in Names \ {n}
      PROVE  NameOK(m)'
  <2>1. /\ \A c \in Commands : Saving(c, m)' <=> Saving(c, m)
        /\ Asked(m)' <=> Asked(m)
    BY <1>2
  <2>2. QED
    BY <1>1, <1>2, <2>1, Untouched
<1>7. QED
  BY <1>3, <1>4, <1>5, <1>6

\* A command that leaves retries and server alone keeps, of n, what does not speak
\* of the state.
LEMMA QuietCommand ==
  ASSUME EngineInv, NEW cmd \in {"Add", "SetAuth", "Enable", "Disable"}, NEW n \in Names,
         NEW s \in State, Take(cmd, n, s),
         UNCHANGED <<retry, link, serverVars, watchVars>>,
         \A m \in Names \ {n} : s.tunnels[m] = state.tunnels[m],
         cmd \in {"Add", "Enable"} /\ Has(s, n) => IsEnabled(s, n),
         cmd = "Disable" => ~IsEnabled(s, n),
         cmd = "SetAuth" => (IsEnabled(s, n) <=> IsEnabled(state, n)),
         cmd = "Add" \/ (Has(s, n) <=> Has(state, n)),
         cmd \in {"Add", "SetAuth"} => Has(s, n),
         cmd # "Add" /\ Has(s, n) => s.tunnels[n].port = state.tunnels[n].port,
         cmd \notin {"Add", "SetAuth"} /\ Has(s, n) =>
           SpecOf(s.tunnels[n]) = SpecOf(state.tunnels[n])
  PROVE  EngineInv'
<1>1. TypeOK /\ HostsOK /\ NameOK(n) /\ ServerOK
  BY AllGone DEF EngineInv
<1>2. cmd \in Commands \ {"Login", "Logout"}
  BY DEF Commands
<1>3. TypeOK' /\ Places' /\ Taking' /\ \A m \in Names \ {n} : NameOK(m)'
  <2>1. retry' \in [Names -> Retry \cup {None}] /\ ServerOK' /\ \A m \in Names : Kept(m)
    BY <1>1, ServerLeftAlone DEF TypeOK
  <2>2. /\ cmd = "Add" => IsEnabled(s, n)
        /\ cmd = "SetAuth" => Has(s, n)
        /\ cmd = "Enable" /\ Has(s, n) => IsEnabled(s, n)
        /\ cmd = "Remove" => ~Has(s, n)
    OBVIOUS
  <2>3. QED
    BY <1>2, <2>1, <2>2, CommandOnOne
<1>4. /\ state' = s /\ cards' = cards /\ retry' = retry /\ link' = link
      /\ held' = held /\ live' = live /\ amended' = amended /\ doubled' = doubled
      /\ ~Ending /\ ~Asked(n) /\ n \notin todo
      /\ Saving(cmd, n)'
      /\ \A c \in Commands : ~Saving(c, n) /\ (c # cmd => ~Saving(c, n)')
  BY <1>2, Commanded DEF serverVars, watchVars
<1>5. /\ \A c \in {"Add", "Remove", "SetAuth", "Enable", "Disable"} :
             ~Saving(c, n) /\ (c # cmd => ~Saving(c, n)')
  BY <1>4 DEF Commands
<1>6. /\ Has(state, n)' <=> Has(s, n)
      /\ IsEnabled(state, n)' <=> IsEnabled(s, n)
      /\ IsUp(n)' <=> IsUp(n)
      /\ IsEnabled(s, n) => Has(s, n)
      /\ IsEnabled(state, n) => Has(state, n)
  BY <1>4 DEF Has, IsEnabled, IsUp
<1>7. CardOK(n)'
  BY <1>1, <1>4, <1>5, <1>6 DEF NameOK, CardOK
<1>8. UrlOK(n)'
  BY <1>1, <1>4, <1>5, <1>6 DEF NameOK, CardOK, IsUp, UrlOK, OpenAt
<1>9. HeldOK(n)'
  BY <1>1, <1>4, <1>5, <1>6 DEF NameOK, HeldOK, OpenAt
<1>10. AccountedOK(n)'
  BY <1>1, <1>4, <1>5, <1>6 DEF NameOK, AccountedOK
<1>11. RetryOK(n)'
  BY <1>1, <1>4, <1>5, <1>6 DEF NameOK, RetryOK
<1>12. HostsOK'
  BY <1>1, <1>4, ServerLeftAlone
<1>13. QED
  BY <1>3, <1>7, <1>8, <1>9, <1>10, <1>11, <1>12 DEF EngineInv, NameOK
\* A registration, a password, a tunnel switched on or off.
LEMMA QuietCommandsKeep ==
  ASSUME EngineInv, CreateTunnels \/ UpdateTunnel
  PROVE  EngineInv'
<1>1. TypeOK /\ state \in State
  BY DEF EngineInv, TypeOK, StateTypeOK
<1>2. ASSUME NEW n \in Names, NEW p \in LocalPorts, NEW a \in Auths \cup {None},
             NEW d \in Domains \cup {None}, AddTunnel(n, p, a, d)
      PROVE  EngineInv'
  <2>1. PICK s \in State : s = Upsert(state, n, p, a, d)
    BY <1>1, StateOperations
  <2>2. IsEnabled(s, n) /\ \A m \in Names \ {n} : s.tunnels[m] = state.tunnels[m]
    <3>1. IsEnabled(Upsert(state, n, p, a, d), n)
      BY <1>1, StateOperations
    <3>2. ASSUME NEW m \in Names \ {n}
          PROVE  Upsert(state, n, p, a, d).tunnels[m] = state.tunnels[m]
      BY <1>1 DEF Upsert, State
    <3>3. QED
      BY <2>1, <3>1, <3>2
  <2>3. Take("Add", n, s) /\ UNCHANGED <<retry, link, serverVars, watchVars>>
    BY <1>2, <2>1 DEF AddTunnel
  <2>4. QED
    BY <2>2, <2>3, QuietCommand DEF IsEnabled
<1>3. ASSUME NEW n \in Names, NEW a \in Auths \cup {None}, SetAuth(n, a)
      PROVE  EngineInv'
  <2>1. PICK s \in State : s = SetAuthIn(state, n, a)
    BY <1>1, StateOperations
  <2>2. /\ Has(s, n) <=> Has(state, n)
        /\ IsEnabled(s, n) <=> IsEnabled(state, n)
        /\ Has(state, n) => s.tunnels[n].port = state.tunnels[n].port
        /\ \A m \in Names \ {n} : s.tunnels[m] = state.tunnels[m]
    BY <1>1, <2>1, StateOperations
  <2>3. Has(state, n) /\ Take("SetAuth", n, s) /\ UNCHANGED <<retry, link, serverVars, watchVars>>
    BY <1>3, <2>1 DEF SetAuth
  <2>4. QED
    BY <2>2, <2>3, QuietCommand
<1>4. ASSUME NEW n \in Names, Enable(n)
      PROVE  EngineInv'
  <2> DEFINE s == SetEnabledIn(state, n, TRUE)
  <2>1. s \in State
    BY <1>1, StateOperations
  <2>2. /\ Has(s, n) <=> Has(state, n)
        /\ IsEnabled(s, n) <=> Has(state, n)
        /\ Has(state, n) => /\ s.tunnels[n].port = state.tunnels[n].port
                            /\ SpecOf(s.tunnels[n]) = SpecOf(state.tunnels[n])
        /\ \A m \in Names \ {n} : s.tunnels[m] = state.tunnels[m]
    BY <1>1, StateOperations
  <2>3. Take("Enable", n, s) /\ UNCHANGED <<retry, link, serverVars, watchVars>>
    BY <1>4 DEF Enable
  <2> HIDE DEF s
  <2>4. QED
    BY <2>1, <2>2, <2>3, QuietCommand
<1>5. ASSUME NEW n \in Names, Disable(n)
      PROVE  EngineInv'
  <2> DEFINE s == SetEnabledIn(state, n, FALSE)
  <2>1. s \in State
    BY <1>1, StateOperations
  <2>2. /\ Has(s, n) <=> Has(state, n)
        /\ ~IsEnabled(s, n)
        /\ Has(state, n) => /\ s.tunnels[n].port = state.tunnels[n].port
                            /\ SpecOf(s.tunnels[n]) = SpecOf(state.tunnels[n])
        /\ \A m \in Names \ {n} : s.tunnels[m] = state.tunnels[m]
    BY <1>1, StateOperations
  <2>3. Take("Disable", n, s) /\ UNCHANGED <<retry, link, serverVars, watchVars>>
    BY <1>5 DEF Disable
  <2> HIDE DEF s
  <2>4. QED
    BY <2>1, <2>2, <2>3, QuietCommand
<1>6. QED
  BY <1>2, <1>3, <1>4, <1>5 DEF CreateTunnels, UpdateTunnel

\* A tunnel is struck from the state, once it is closed.
LEMMA RemoveTunnelKeeps ==
  ASSUME EngineInv, NEW n \in Names, RemoveTunnel(n)
  PROVE  EngineInv'
<1>1. TypeOK /\ state \in State /\ NameOK(n)
  BY DEF EngineInv, TypeOK, StateTypeOK
<1>2. PICK s \in State : s = RemoveFrom(state, n)
  BY <1>1, StateOperations
<1>3. ~Has(s, n) /\ \A m \in Names \ {n} : s.tunnels[m] = state.tunnels[m]
  BY <1>1, <1>2, StateOperations
<1>4. Take("Remove", n, s) /\ link' = link
  BY <1>2 DEF RemoveTunnel
<1>5. /\ state' = s /\ cards' = cards
      /\ link = "none" <=> pc # "session"
      /\ Saving("Remove", n)'
  BY <1>4, Commanded DEF Commands
<1>6. /\ retry' \in [Names -> Retry \cup {None}]
      /\ ServerOK' /\ HostsOK' /\ live'[n] = None
      /\ link = "up" => retry'[n] = None
      /\ \A m \in Names \ {n} : retry'[m] = retry[m] /\ Kept(m)
  <2>1. retry \in [Names -> Retry \cup {None}] /\ ServerOK /\ HostsOK
    BY <1>1, AllGone DEF EngineInv, TypeOK
  <2>2. CASE pc = "session"
    BY <1>4, <2>1, <2>2, OneClosed DEF RemoveTunnel, Forget
  <2>3. CASE pc # "session"
    <3>1. UNCHANGED <<serverVars, watchVars>> /\ retry' = retry /\ link = "none"
      BY <1>5, <2>3 DEF RemoveTunnel
    <3>2. live[n] = None
      BY <3>1, Idle
    <3>3. QED
      BY <1>4, <2>1, <3>1, <3>2, ServerLeftAlone DEF serverVars
  <2>4. QED
    BY <2>2, <2>3
<1>7. TypeOK' /\ Places' /\ Taking' /\ \A m \in Names \ {n} : NameOK(m)'
  BY <1>3, <1>4, <1>6, CommandOnOne DEF Commands
<1>8. NameOK(n)'
  <2>1. ~Has(state, n)' /\ ~IsEnabled(state, n)'
    BY <1>3, <1>5 DEF IsEnabled
  <2>2. CardOK(n)'
    BY <1>1, <1>4, <1>5, Commanded DEF NameOK, CardOK, IsUp, Commands
  <2>3. UrlOK(n)' /\ HeldOK(n)' /\ AccountedOK(n)' /\ RetryOK(n)'
    BY <1>4, <1>5, <1>6, <2>1 DEF UrlOK, HeldOK, AccountedOK, RetryOK
  <2>4. QED
    BY <2>2, <2>3 DEF NameOK
<1>9. QED
  BY <1>6, <1>7, <1>8 DEF EngineInv

\* A new credential, or none: the session is cut before anything is saved.
LEMMA CredentialTakenKeeps ==
  ASSUME EngineInv, Logout \/ \E t \in Tokens \cup {None} : Login(t)
  PROVE  EngineInv'
<1>1. TypeOK /\ Places /\ Taking /\ HostsOK /\ \A n \in Names : NameOK(n)
  BY DEF EngineInv
<1>2. PICK cmd \in {"Login", "Logout"}, t \in Tokens \cup {None} :
        Take(cmd, None, [state EXCEPT !.token = t]) /\ CutLink /\ UNCHANGED retry
  BY DEF Login, Logout
<1>3. PICK s \in State : s = [state EXCEPT !.token = t] /\ s.tunnels = state.tunnels
  BY <1>1, WithToken
<1>4. Take(cmd, None, s) /\ cmd \in Commands
  BY <1>2, <1>3 DEF Commands
<1>5. /\ state' = s /\ pc' = "saving" /\ job' \in Job /\ job' # None
      /\ job'.cmd = cmd /\ job'.from = pc
      /\ pc \in {"no_token", "session", "backoff"}
      /\ link = "none" <=> pc # "session"
      /\ todo = {} /\ opening = None
      /\ UNCHANGED <<file, todo, opening, cards, status, login_reply, unsaved>>
      /\ ~Ending
      /\ \A m \in Names, c \in Commands : ~Saving(c, m)
  BY <1>4, Commanded
<1>6. link' = "none" /\ ServerOK' /\ HostsOK' /\ \A n \in Names : live'[n] = None
  <2>1. CASE pc = "session"
    BY <1>1, <1>2, <2>1, AllGone DEF CutLink
  <2>2. CASE pc # "session"
    <3>1. link = "none" /\ link' = link /\ UNCHANGED <<serverVars, watchVars>>
      BY <1>2, <1>5, <2>2 DEF CutLink
    <3>2. QED
      BY <1>1, <3>1, Idle, AllGone, ServerLeftAlone DEF serverVars
  <2>3. QED
    BY <2>1, <2>2
<1>7. TypeOK'
  BY <1>1, <1>2, <1>5, <1>6 DEF TypeOK, ServerOK, StateTypeOK
<1>8. Ending' <=> pc = "session"
  BY <1>2, <1>5 DEF Ending
<1>9. Places' /\ Taking'
  BY <1>2, <1>5, <1>6, <1>8 DEF Places, Taking
<1>10. ASSUME NEW n \in Names
       PROVE  NameOK(n)'
  <2>1. /\ Has(state, n)' <=> Has(state, n)
        /\ IsEnabled(state, n)' <=> IsEnabled(state, n)
    BY <1>3, <1>5 DEF Has, IsEnabled
  <2>2. CardOK(n)'
    BY <1>1, <1>5, <1>8, <2>1 DEF NameOK, CardOK, IsUp, Commands
  <2>3. QED
    BY <1>6, <2>2, NotConnected
<1>11. QED
  BY <1>6, <1>7, <1>9, <1>10 DEF EngineInv

-----------------------------------------------------------------------------
(* The rest of a command, once its save has returned. *)

\* What the engine knows when a save returns, and what that does by itself.
LEMMA SaveReturned ==
  ASSUME EngineInv, NEW cmd \in Commands, Saved(cmd)
  PROVE  /\ pc = "saving" /\ job \in Job /\ job.cmd = cmd /\ job' = None
         /\ state' = state /\ todo' = todo /\ todo = {} /\ opening = None
         /\ file' \in State \cup {Torn, None} /\ unsaved' \in BOOLEAN
         /\ link = "none" <=> Ending \/ job.from # "session"
         /\ job.from \in {"no_token", "session", "backoff"}
         /\ cmd \notin {"Login", "Logout"} => ~Ending
         /\ \A n \in Names, c \in Commands : Saving(c, n) <=> c = cmd /\ n = job.name
         /\ \A n \in Names : ~Asked(n)
<1>1. TypeOK /\ Places
  BY DEF EngineInv
<1>2. pc = "saving" /\ job.cmd = cmd /\ SaveReturns /\ job' = None /\ state' = state /\ todo' = todo
  BY DEF Saved
<1>3. job \in Job /\ opening = None /\ todo = {}
  BY <1>1, <1>2 DEF TypeOK, Places
<1>4. file' \in State \cup {Torn, None} /\ unsaved' \in BOOLEAN
  BY <1>1, <1>2 DEF SaveReturns, Replace, TypeOK, StateTypeOK
<1>5. job.from \in {"no_token", "session", "backoff"}
  BY <1>3 DEF Job
<1>6. QED
  BY <1>1, <1>2, <1>3, <1>4, <1>5 DEF Places, Ending, Saving, Asked

\* What the rest of a command on n changes is n's: the others are as they were.
LEMMA OutcomeOnOne ==
  ASSUME EngineInv, NEW cmd \in Commands \ {"Login", "Logout"}, NEW n \in Names,
         Saved(cmd), job.name = n,
         Return \/ (Ask(n, cmd) /\ cmd \in {"Add", "SetAuth", "Enable"} /\ Online /\ IsEnabled(state, n)),
         UNCHANGED <<status, login_reply, link>>,
         retry' \in [Names -> Retry \cup {None}],
         cards' \in [Names -> Card \cup {None}],
         ServerOK',
         \A m \in Names \ {n} : retry'[m] = retry[m] /\ cards'[m] = cards[m] /\ Kept(m)
  PROVE  /\ TypeOK' /\ Places' /\ Taking' /\ \A m \in Names \ {n} : NameOK(m)'
         /\ ~Ending' /\ \A c \in Commands : ~Saving(c, n)'
<1>1. TypeOK /\ Places /\ Taking /\ \A m \in Names : NameOK(m)
  BY DEF EngineInv
<1>2. /\ pc = "saving" /\ job' = None
      /\ state' = state /\ todo' = todo /\ todo = {} /\ opening = None
      /\ file' \in State \cup {Torn, None} /\ unsaved' \in BOOLEAN
      /\ link = "none" <=> job.from # "session"
      /\ job.from \in {"no_token", "session", "backoff"}
      /\ ~Ending
      /\ \A m \in Names \ {n}, c \in Commands : ~Saving(c, m)
      /\ \A m \in Names : ~Asked(m)
  BY SaveReturned
<1>3. \/ pc' = job.from /\ opening' = None
      \/ /\ pc' = "opening" /\ opening' \in Request /\ opening' # None /\ opening'.name = n
         /\ job.from = "session" /\ IsEnabled(state, n)
  <2>1. CASE Return
    BY <1>2, <2>1 DEF Return
  <2>2. CASE Ask(n, cmd) /\ cmd \in {"Add", "SetAuth", "Enable"} /\ Online /\ IsEnabled(state, n)
    <3>1. pc' = "opening" /\ opening' = [name |-> n, by |-> cmd] /\ job.from = "session"
      BY <2>2 DEF Ask, Online
    <3>2. opening' \in Request
      BY <2>2, <3>1 DEF Request
    <3>3. QED
      BY <2>2, <3>1, <3>2, PresentAssumption
  <2>3. QED
    BY <2>1, <2>2
<1>4. TypeOK'
  BY <1>1, <1>2, <1>3 DEF TypeOK, ServerOK, StateTypeOK
<1>5. ~Ending' /\ \A m \in Names, c \in Commands : ~Saving(c, m)'
  BY <1>2, <1>3 DEF Ending, Saving
<1>6. Places'
  BY <1>1, <1>2, <1>3 DEF Places, EnabledTunnels, IsEnabled, Has
<1>7. Taking'
  BY <1>2, <1>3 DEF Taking
<1>8. ASSUME NEW m \in Names \ {n}
      PROVE  NameOK(m)'
  <2>1. ~Asked(m)'
    BY <1>2, <1>3 DEF Asked
  <2>2. QED
    BY <1>1, <1>2, <1>5, <2>1, Untouched
<1>9. QED
  BY <1>4, <1>5, <1>6, <1>7, <1>8
\* A login that has been saved: in a session the addresses leave the cards.
LEMMA LoginSavedKeeps ==
  ASSUME EngineInv, LoginSaved
  PROVE  EngineInv'
<1>1. TypeOK /\ Places /\ Taking /\ \A n \in Names : NameOK(n)
  BY DEF EngineInv
<1>2. Saved("Login") /\ "Login" \in Commands
  BY DEF LoginSaved, Commands
<1>3. /\ pc = "saving" /\ job.cmd = "Login" /\ job' = None
      /\ state' = state /\ todo' = todo /\ todo = {} /\ opening = None
      /\ file' \in State \cup {Torn, None} /\ unsaved' \in BOOLEAN
      /\ link = "none" <=> Ending \/ job.from # "session"
      /\ \A n \in Names, c \in Commands : Saving(c, n) => c = "Login"
  BY <1>2, SaveReturned
<1>4. UNCHANGED <<opening, serverVars, watchVars>>
  BY DEF LoginSaved
<1>5. /\ link = "none" /\ link' = "none"
      /\ pc' \in {"no_token", "dialing", "backoff"}
      /\ status' \in Status /\ login_reply' \in BOOLEAN
      /\ cards' \in [Names -> Card \cup {None}]
      /\ retry' \in [Names -> Retry \cup {None}]
      /\ \A n \in Names :
           /\ ~IsUp(n)'
           /\ cards'[n] = None <=> cards[n] = None
           /\ cards[n] # None => cards'[n].enabled = cards[n].enabled
  <2>1. CASE Online
    <3>1. link = "none"
      BY <1>3, <2>1 DEF Ending, Online
    <3>2. SessionDropped /\ login_reply' = login_reply
      BY <2>1 DEF LoginSaved
    <3>3. QED
      BY <1>1, <3>1, <3>2, Dropped DEF TypeOK
  <2>2. CASE ~Online
    <3>1. link = "none" /\ ~Ending
      BY <1>3, <2>2 DEF Ending, Online
    <3>2. /\ login_reply' = TRUE /\ pc' \in {"no_token", "dialing"}
          /\ status' = [status EXCEPT !.needs_login = @ \/ state.token = None]
          /\ UNCHANGED <<link, cards, retry>>
      BY <2>2 DEF LoginSaved
    <3>3. PICK b \in BOOLEAN : b = (status.needs_login \/ state.token = None)
      BY <1>1, StatusTypes
    <3>4. status' = [status EXCEPT !.needs_login = b]
      BY <3>2, <3>3
    <3>5. status' \in Status
      BY <1>1, <3>4, StatusTypes
    <3>6. \A n \in Names : ~IsUp(n)
      BY <1>1, <3>1 DEF NameOK, CardOK, IsUp
    <3>7. QED
      BY <1>1, <3>1, <3>2, <3>5, <3>6 DEF TypeOK, IsUp
  <2>3. QED
    BY <2>1, <2>2
<1>6. TypeOK'
  BY <1>1, <1>3, <1>4, <1>5 DEF TypeOK, StateTypeOK, serverVars, watchVars
<1>7. Places' /\ Taking'
  BY <1>1, <1>3, <1>4, <1>5 DEF Places, Taking
<1>8. ASSUME NEW n \in Names
      PROVE  NameOK(n)'
  <2>1. ~Saving("Remove", n) /\ ~Saving("Disable", n)
    BY <1>3 DEF Commands
  <2>2. CardOK(n)'
    BY <1>1, <1>3, <1>5, <2>1 DEF NameOK, CardOK, IsUp, Has, IsEnabled
  <2>3. live'[n] = None
    BY <1>4, <1>5, Idle DEF serverVars
  <2>4. QED
    BY <1>5, <2>2, <2>3, NotConnected
<1>9. HostsOK'
  BY <1>4, <1>5, Idle, NothingHeld DEF serverVars
<1>10. QED
  BY <1>6, <1>7, <1>8, <1>9 DEF EngineInv

\* A logout that has been saved.
LEMMA LogoutSavedKeeps ==
  ASSUME EngineInv, LogoutSaved
  PROVE  EngineInv'
<1>1. TypeOK /\ Places /\ Taking /\ \A n \in Names : NameOK(n)
  BY DEF EngineInv
<1>2. Saved("Logout") /\ "Logout" \in Commands
  BY DEF LogoutSaved, Commands
<1>3. /\ pc = "saving" /\ job.cmd = "Logout" /\ job' = None
      /\ state' = state /\ todo' = todo /\ todo = {} /\ opening = None
      /\ file' \in State \cup {Torn, None} /\ unsaved' \in BOOLEAN
      /\ link = "none" <=> Ending \/ job.from # "session"
      /\ job.from \in {"no_token", "session", "backoff"}
      /\ \A n \in Names, c \in Commands : Saving(c, n) => c = "Logout"
  BY <1>2, SaveReturned
<1>4. UNCHANGED <<opening, login_reply, link, serverVars, watchVars>>
  BY DEF LogoutSaved
<1>5. /\ link = "none"
      /\ pc' \in {"no_token", "backoff"}
      /\ status' \in Status
      /\ cards' \in [Names -> Card \cup {None}]
      /\ retry' \in [Names -> Retry \cup {None}]
      /\ \A n \in Names :
           /\ ~IsUp(n)'
           /\ cards'[n] = None <=> cards[n] = None
           /\ cards[n] # None => cards'[n].enabled = cards[n].enabled
  <2>1. CASE Online
    <3>1. link = "none"
      BY <1>3, <2>1 DEF Ending, Online
    <3>2. /\ pc' = "no_token" /\ cards' = NoUrls /\ retry' = NoRetries
          /\ status' = [status EXCEPT !.connected = FALSE, !.needs_login = TRUE]
      BY <2>1 DEF LogoutSaved
    <3>3. QED
      BY <1>1, <3>1, <3>2, StatusTypes, CardsWithoutUrls DEF NoRetries, IsUp
  <2>2. CASE ~Online
    <3>1. link = "none" /\ ~Ending /\ pc' \in {"no_token", "backoff"}
      BY <1>3, <2>2 DEF Ending, Online, LogoutSaved
    <3>2. UNCHANGED <<status, cards, retry>>
      BY <2>2 DEF LogoutSaved
    <3>3. \A n \in Names : ~IsUp(n)
      BY <1>1, <3>1 DEF NameOK, CardOK, IsUp
    <3>4. QED
      BY <1>1, <3>1, <3>2, <3>3 DEF TypeOK, IsUp
  <2>3. QED
    BY <2>1, <2>2
<1>6. TypeOK'
  BY <1>1, <1>3, <1>4, <1>5 DEF TypeOK, StateTypeOK, serverVars, watchVars
<1>7. Places' /\ Taking'
  BY <1>1, <1>3, <1>4, <1>5 DEF Places, Taking
<1>8. ASSUME NEW n \in Names
      PROVE  NameOK(n)'
  <2>1. ~Saving("Remove", n) /\ ~Saving("Disable", n)
    BY <1>3 DEF Commands
  <2>2. CardOK(n)'
    BY <1>1, <1>3, <1>5, <2>1 DEF NameOK, CardOK, IsUp, Has, IsEnabled
  <2>3. live'[n] = None
    BY <1>4, <1>5, Idle DEF serverVars
  <2>4. QED
    BY <1>4, <1>5, <2>2, <2>3, NotConnected
<1>9. HostsOK'
  BY <1>4, <1>5, Idle, NothingHeld DEF serverVars
<1>10. QED
  BY <1>6, <1>7, <1>8, <1>9 DEF EngineInv

\* What the engine knows of n when the command on n has been saved.
LEMMA OutcomeKnown ==
  ASSUME EngineInv, NEW cmd \in Commands \ {"Login", "Logout"}, NEW n \in Names,
         Saved(cmd), job.name = n, UNCHANGED link
  PROVE  /\ TypeOK /\ NameOK(n) /\ Saving(cmd, n)
         /\ link' = link /\ (link = "none" <=> ~Online)
         /\ state' = state /\ n \notin todo /\ n \notin todo' /\ ~Asked(n) /\ ~Ending
         /\ Has(state, n)' <=> Has(state, n)
         /\ IsEnabled(state, n)' <=> IsEnabled(state, n)
         /\ IsEnabled(state, n) => Has(state, n)
         /\ \A c \in {"Add", "Remove", "SetAuth", "Enable", "Disable"} : Saving(c, n) => c = cmd
         /\ cmd = "Add" => IsEnabled(state, n)
         /\ cmd = "SetAuth" => Has(state, n)
         /\ cmd = "Enable" /\ Has(state, n) => IsEnabled(state, n)
         /\ cmd = "Disable" => ~IsEnabled(state, n)
         /\ cmd = "Remove" => ~Has(state, n)
         /\ retry \in [Names -> Retry \cup {None}]
         /\ cards \in [Names -> Card \cup {None}]
         /\ ServerOK /\ HostsOK
<1>1. TypeOK /\ Places /\ Taking /\ NameOK(n) /\ HostsOK
  BY DEF EngineInv
<1>2. /\ pc = "saving" /\ job.cmd = cmd /\ job' = None
      /\ state' = state /\ todo' = todo /\ todo = {}
      /\ link = "none" <=> job.from # "session"
      /\ ~Ending
      /\ \A c \in Commands : Saving(c, n) <=> c = cmd
      /\ ~Asked(n)
  BY SaveReturned
<1>3. /\ retry \in [Names -> Retry \cup {None}]
      /\ cards \in [Names -> Card \cup {None}]
      /\ ServerOK
  BY <1>1, AllGone DEF TypeOK
<1>4. /\ Has(state, n)' <=> Has(state, n)
      /\ IsEnabled(state, n)' <=> IsEnabled(state, n)
      /\ IsEnabled(state, n) => Has(state, n)
  BY <1>2 DEF Has, IsEnabled
<1>5. /\ cmd = "Add" => IsEnabled(state, n)
      /\ cmd = "SetAuth" => Has(state, n)
      /\ cmd = "Enable" /\ Has(state, n) => IsEnabled(state, n)
      /\ cmd = "Disable" => ~IsEnabled(state, n)
      /\ cmd = "Remove" => ~Has(state, n)
  BY <1>1, <1>2 DEF Taking
<1>6. /\ \A c \in {"Add", "Remove", "SetAuth", "Enable", "Disable"} : Saving(c, n) => c = cmd
      /\ link = "none" <=> ~Online
      /\ Saving(cmd, n)
  BY <1>2 DEF Commands, Online
<1>7. QED
  BY <1>1, <1>2, <1>3, <1>4, <1>5, <1>6
\* A registration: what is up on the same port is answered as it is, what is up on
\* another is closed and asked for again.
LEMMA AddSavedKeeps ==
  ASSUME EngineInv, NEW n \in Names, AddSaved(n)
  PROVE  EngineInv'
<1>1. /\ "Add" \in Commands \ {"Login", "Logout"} /\ Saved("Add") /\ job.name = n
      /\ UNCHANGED <<retry, status, login_reply, link>> /\ UNCHANGED link
  BY DEF AddSaved, Commands
<1>2. TypeOK /\ IsEnabled(state, n) /\ Has(state, n) /\ ServerOK /\ HostsOK
  BY <1>1, OutcomeKnown
<1>3. SUFFICES /\ TypeOK' /\ Places' /\ Taking' /\ \A m \in Names \ {n} : NameOK(m)'
               /\ HostsOK' /\ NameOK(n)'
  BY DEF EngineInv
<1>4. CASE ~Online
  <2>1. /\ cards' = IF cards[n] = None THEN [cards EXCEPT ![n] = NewCard(n)] ELSE cards
        /\ Return /\ UNCHANGED <<serverVars, watchVars>>
    BY <1>4 DEF AddSaved
  <2>2. cards' \in [Names -> Card \cup {None}] /\ \A m \in Names \ {n} : cards'[m] = cards[m]
    BY <1>1, <1>2, <2>1, OutcomeKnown, AddedCard
  <2>3. ServerOK' /\ HostsOK' /\ \A m \in Names : Kept(m)
    BY <1>1, <1>2, <2>1, ServerLeftAlone
  <2>4. TypeOK' /\ Places' /\ Taking' /\ \A m \in Names \ {n} : NameOK(m)'
    BY <1>1, <2>1, <2>2, <2>3, OutcomeKnown, OutcomeOnOne
  <2>5. link' = "none" /\ ~IsUp(n) /\ live'[n] = None
    BY <1>1, <1>4, <2>1, OutcomeKnown, Idle DEF NameOK, CardOK, IsUp, serverVars
  <2>6. ~IsUp(n)'
    BY <1>1, <1>2, <2>1, <2>5, OutcomeKnown, AddedCard DEF IsUp
  <2>7. CardOK(n)'
    BY <1>1, <1>2, <2>6, OutcomeKnown DEF CardOK
  <2>8. QED
    BY <2>3, <2>4, <2>5, <2>7, NotConnected
<1>5. CASE Online /\ IsUp(n) /\ SamePort(n)
  <2>1. /\ amended' = IF live[n] \notin {None, SpecOf(state.tunnels[n])}
                        THEN amended \cup {n} ELSE amended \ {n}
        /\ Return /\ UNCHANGED <<serverVars, doubled, strays>> /\ cards' = cards
    BY <1>5 DEF AddSaved
  <2>2. ServerOK' /\ HostsOK' /\ \A m \in Names \ {n} : Kept(m)
    BY <1>1, <1>2, <2>1 DEF ServerOK, HostsOK, OpenAt, Kept, serverVars
  <2>3. /\ TypeOK' /\ Places' /\ Taking' /\ \A m \in Names \ {n} : NameOK(m)'
        /\ ~Ending' /\ \A c \in Commands : ~Saving(c, n)'
    BY <1>1, <2>1, <2>2, OutcomeKnown, OutcomeOnOne
  <2>4. opening' = opening /\ ~Asked(n) /\ (Asked(n)' <=> Asked(n)) /\ (IsUp(n)' <=> IsUp(n))
        /\ retry' = retry /\ held' = held /\ live' = live /\ cards' = cards
    BY <1>1, <2>1, OutcomeKnown DEF Return, Asked, IsUp, serverVars
  <2>5. CardOK(n)'
    BY <1>1, <1>2, <2>4, OutcomeKnown DEF NameOK, CardOK
  <2>6. HeldOK(n)'
    BY <1>1, <1>2, <2>1, <2>4, OutcomeKnown DEF NameOK, HeldOK, OpenAt
  <2>7. UrlOK(n)'
    <3>1. ~Saving("Remove", n) /\ ~Asked(n) /\ link' = link /\ state' = state
      BY <1>1, OutcomeKnown
    <3>2. link = "up" => OpenAt(n, cards[n].url) /\ live[n].port = cards[n].port
      BY <1>1, <1>5, <3>1, OutcomeKnown DEF NameOK, UrlOK
    <3>3. cards[n].port = state.tunnels[n].port
      BY <1>5 DEF SamePort
    <3>4. link = "up" => live[n] = SpecOf(state.tunnels[n]) \/ n \in amended'
      BY <2>1, <3>2 DEF OpenAt
    <3>5. QED
      BY <2>4, <3>1, <3>2, <3>3, <3>4 DEF UrlOK, OpenAt
  <2>8. AccountedOK(n)'
    BY <1>5, <2>4 DEF AccountedOK, IsUp
  <2>9. RetryOK(n)'
    BY <1>1, <1>2, <1>5, <2>4, OutcomeKnown DEF NameOK, CardOK, RetryOK, IsUp
  <2>10. QED
    BY <2>2, <2>3, <2>5, <2>6, <2>7, <2>8, <2>9 DEF NameOK
<1>6. CASE Online /\ ~(IsUp(n) /\ SamePort(n))
  <2>1. /\ Ask(n, "Add") /\ cards' = cards
        /\ CloseTunnel(n) \/ (~IsUp(n) /\ UNCHANGED <<serverVars, watchVars>>)
    BY <1>6 DEF AddSaved
  <2>2. ServerOK' /\ HostsOK' /\ \A m \in Names \ {n} : Kept(m)
    BY <1>1, <1>2, <2>1, OneClosed, ServerLeftAlone
  <2>3. TypeOK' /\ Places' /\ Taking' /\ \A m \in Names \ {n} : NameOK(m)'
    BY <1>1, <1>2, <1>6, <2>1, <2>2, OutcomeKnown, OutcomeOnOne
  <2>4. Asked(n)' /\ cards' = cards /\ retry' = retry /\ (IsUp(n)' <=> IsUp(n))
    <3>1. opening' = [name |-> n, by |-> "Add"]
      BY <2>1 DEF Ask
    <3>2. opening' \in Request
      BY <3>1 DEF Request
    <3>3. QED
      BY <1>1, <2>1, <3>1, <3>2, PresentAssumption DEF Asked, IsUp
  <2>5. CardOK(n)'
    BY <1>1, <1>2, <2>4, OutcomeKnown DEF NameOK, CardOK
  <2>6. UrlOK(n)' /\ AccountedOK(n)'
    BY <2>4 DEF UrlOK, AccountedOK
  <2>7. HeldOK(n)'
    <3>1. CASE CloseTunnel(n)
      BY <1>1, <3>1, OneClosed DEF HeldOK
    <3>2. CASE UNCHANGED <<serverVars, watchVars>>
      BY <1>1, <1>2, <2>4, <3>2, OutcomeKnown DEF NameOK, HeldOK, OpenAt, serverVars, watchVars
    <3>3. QED
      BY <2>1, <3>1, <3>2
  <2>8. RetryOK(n)'
    BY <1>1, <1>2, <2>4, OutcomeKnown DEF NameOK, RetryOK
  <2>9. QED
    BY <2>2, <2>3, <2>5, <2>6, <2>7, <2>8 DEF NameOK
<1>7. QED
  BY <1>4, <1>5, <1>6

\* A removal: the card goes, and nothing was open or retried any more.
LEMMA RemoveSavedKeeps ==
  ASSUME EngineInv, NEW n \in Names, RemoveSaved(n)
  PROVE  EngineInv'
<1>1. /\ "Remove" \in Commands \ {"Login", "Logout"} /\ Saved("Remove") /\ job.name = n
      /\ Return /\ cards' = [cards EXCEPT ![n] = None]
      /\ UNCHANGED <<retry, status, login_reply, link, serverVars, watchVars>> /\ UNCHANGED link
  BY DEF RemoveSaved, Commands
<1>2. cards' \in [Names -> Card \cup {None}] /\ \A m \in Names \ {n} : cards'[m] = cards[m]
  BY <1>1, OutcomeKnown
<1>3. TypeOK' /\ Places' /\ Taking' /\ \A m \in Names \ {n} : NameOK(m)'
  BY <1>1, <1>2, ServerLeftAlone, OutcomeKnown, OutcomeOnOne
<1>4. cards'[n] = None
  BY <1>1, OutcomeKnown
<1>5. ~IsEnabled(state, n) /\ ~IsEnabled(state, n)' /\ ~Saving("Disable", n)
  BY <1>1, OutcomeKnown
<1>6. HeldOK(n)' /\ RetryOK(n)'
  BY <1>1, <1>4, <1>5, OutcomeKnown DEF NameOK, HeldOK, RetryOK, serverVars
<1>7. CardOK(n)' /\ UrlOK(n)' /\ AccountedOK(n)'
  BY <1>4, <1>5 DEF CardOK, UrlOK, AccountedOK, IsUp
<1>8. HostsOK'
  BY <1>1, OutcomeKnown, ServerLeftAlone
<1>9. QED
  BY <1>3, <1>6, <1>7, <1>8 DEF EngineInv, NameOK

\* A command that asks for n, open or closed before, has n under way.
LEMMA AskedAgain ==
  ASSUME EngineInv, NEW cmd \in {"SetAuth", "Enable"}, NEW n \in Names,
         Saved(cmd), job.name = n, Online, IsEnabled(state, n), Ask(n, cmd),
         UNCHANGED <<retry, cards, status, login_reply, link>>,
         CloseTunnel(n) \/ UNCHANGED <<serverVars, watchVars>>
  PROVE  EngineInv'
<1>1. cmd \in Commands \ {"Login", "Logout"}
  BY DEF Commands
<1>2. UNCHANGED link /\ TypeOK /\ Has(state, n)
  BY <1>1, OutcomeKnown
<1>3. ServerOK' /\ HostsOK' /\ \A m \in Names \ {n} : Kept(m)
  BY <1>1, <1>2, OutcomeKnown, OneClosed, ServerLeftAlone
<1>4. TypeOK' /\ Places' /\ Taking' /\ \A m \in Names \ {n} : NameOK(m)'
  BY <1>1, <1>2, <1>3, OutcomeKnown, OutcomeOnOne
<1>5. Asked(n)' /\ cards' = cards /\ retry' = retry /\ (IsUp(n)' <=> IsUp(n))
  <2>1. opening' = [name |-> n, by |-> cmd]
    BY DEF Ask
  <2>2. opening' \in Request
    BY <2>1 DEF Request
  <2>3. QED
    BY <2>1, <2>2, PresentAssumption DEF Asked, IsUp
<1>6. CardOK(n)'
  BY <1>1, <1>2, <1>5, OutcomeKnown DEF NameOK, CardOK
<1>7. UrlOK(n)' /\ AccountedOK(n)'
  BY <1>5 DEF UrlOK, AccountedOK
<1>8. HeldOK(n)'
  <2>1. CASE CloseTunnel(n)
    BY <1>2, <2>1, OneClosed DEF HeldOK
  <2>2. CASE UNCHANGED <<serverVars, watchVars>>
    BY <1>1, <1>2, <1>5, <2>2, OutcomeKnown DEF NameOK, HeldOK, OpenAt, serverVars, watchVars
  <2>3. QED
    BY <2>1, <2>2
<1>9. RetryOK(n)'
  BY <1>1, <1>2, <1>5, OutcomeKnown DEF NameOK, RetryOK
<1>10. QED
  BY <1>3, <1>4, <1>6, <1>7, <1>8, <1>9 DEF EngineInv, NameOK
\* A command that only touches up the card of a tunnel that is not open leaves the
\* rest as it was.
LEMMA CardTouchedUp ==
  ASSUME EngineInv, NEW cmd \in {"SetAuth", "Enable"}, NEW n \in Names,
         Saved(cmd), job.name = n, Return, ~Online \/ ~IsEnabled(state, n),
         UNCHANGED <<retry, status, login_reply, link, serverVars, watchVars>>,
         cards' \in [Names -> Card \cup {None}],
         \A m \in Names \ {n} : cards'[m] = cards[m],
         cards'[n] = None <=> cards[n] = None,
         cards[n] # None =>
           /\ cards'[n].url = cards[n].url /\ cards'[n].error = cards[n].error
           /\ cards'[n].enabled => cards[n].enabled \/ IsEnabled(state, n)
  PROVE  EngineInv'
<1>1. cmd \in Commands \ {"Login", "Logout"}
  BY DEF Commands
<1>2. UNCHANGED link
  OBVIOUS
<1>3. TypeOK' /\ Places' /\ Taking' /\ \A m \in Names \ {n} : NameOK(m)'
  BY <1>1, <1>2, ServerLeftAlone, OutcomeKnown, OutcomeOnOne
<1>4. /\ NameOK(n) /\ link' = link /\ (link = "none" <=> ~Online) /\ ~Ending
      /\ ~Saving("Remove", n) /\ ~Saving("Disable", n) /\ ~Saving("Add", n)
      /\ (Has(state, n)' <=> Has(state, n))
      /\ (IsEnabled(state, n)' <=> IsEnabled(state, n))
      /\ retry' = retry /\ held' = held /\ live' = live
      /\ ~Asked(n)
  BY <1>1, <1>2, OutcomeKnown DEF serverVars
<1>5. CardOK(n)'
  BY <1>4 DEF NameOK, CardOK, IsUp
<1>6. HostsOK' /\ live[n] = None
  BY <1>1, <1>4, OutcomeKnown, ServerLeftAlone DEF NameOK, HeldOK
<1>7. CASE ~Online
  BY <1>3, <1>4, <1>5, <1>6, <1>7, NotConnected DEF EngineInv
<1>8. CASE Online
  <2>1. ~IsEnabled(state, n)
    BY <1>8
  <2>2. link = "up" => ~IsUp(n)
    BY <1>4, <1>6 DEF NameOK, UrlOK, OpenAt
  <2>3. link' = "up" => ~IsUp(n)'
    BY <1>4, <2>2 DEF IsUp
  <2>4. UrlOK(n)' /\ HeldOK(n)' /\ AccountedOK(n)'
    BY <1>4, <1>6, <2>1, <2>3 DEF UrlOK, HeldOK, AccountedOK
  <2>5. RetryOK(n)'
    BY <1>4, <2>1 DEF NameOK, CardOK, RetryOK
  <2>6. QED
    BY <1>3, <1>5, <1>6, <2>4, <2>5 DEF EngineInv, NameOK
<1>9. QED
  BY <1>7, <1>8

\* A password: a tunnel that is on is closed and asked for again.
LEMMA SetAuthSavedKeeps ==
  ASSUME EngineInv, NEW n \in Names, SetAuthSaved(n)
  PROVE  EngineInv'
<1>1. /\ Saved("SetAuth") /\ job.name = n
      /\ UNCHANGED <<retry, status, login_reply, link>> /\ UNCHANGED link
  BY DEF SetAuthSaved
<1>2. TypeOK /\ cards \in [Names -> Card \cup {None}]
  BY <1>1, OutcomeKnown DEF Commands
<1>3. CASE Online /\ IsEnabled(state, n)
  BY <1>1, <1>3, AskedAgain DEF SetAuthSaved
<1>4. CASE ~(Online /\ IsEnabled(state, n))
  <2>1. /\ Return /\ UNCHANGED <<serverVars, watchVars>>
        /\ cards' = IF cards[n] = None THEN cards
                      ELSE [cards EXCEPT ![n].protected = state.tunnels[n].auth # None]
    BY <1>4 DEF SetAuthSaved
  <2>2. /\ cards' \in [Names -> Card \cup {None}]
        /\ \A m \in Names \ {n} : cards'[m] = cards[m]
        /\ cards'[n] = None <=> cards[n] = None
        /\ cards[n] # None =>
             /\ cards'[n].url = cards[n].url /\ cards'[n].error = cards[n].error
             /\ cards'[n].enabled => cards[n].enabled \/ IsEnabled(state, n)
    <3>1. CASE cards[n] = None
      BY <1>2, <2>1, <3>1
    <3>2. CASE cards[n] # None
      <4>1. PICK b \in BOOLEAN : b = (state.tunnels[n].auth # None)
        OBVIOUS
      <4>2. PICK c : c = [cards[n] EXCEPT !.protected = b]
        OBVIOUS
      <4>3. c \in Card /\ c.url = cards[n].url /\ c.error = cards[n].error
            /\ c.enabled = cards[n].enabled
        BY <1>2, <3>2, <4>2 DEF Card
      <4>4. cards' = [cards EXCEPT ![n] = c]
        BY <2>1, <3>2, <4>1, <4>2
      <4>5. QED
        BY <1>2, <3>2, <4>3, <4>4, PresentAssumption
    <3>3. QED
      BY <3>1, <3>2
  <2>3. QED
    BY <1>1, <1>4, <2>1, <2>2, CardTouchedUp
<1>5. QED
  BY <1>3, <1>4

\* A tunnel switched on.
LEMMA EnableSavedKeeps ==
  ASSUME EngineInv, NEW n \in Names, EnableSaved(n)
  PROVE  EngineInv'
<1>1. /\ "Enable" \in Commands \ {"Login", "Logout"} /\ Saved("Enable") /\ job.name = n
      /\ UNCHANGED <<retry, status, login_reply, link, serverVars, watchVars>> /\ UNCHANGED link
  BY DEF EnableSaved, Commands
<1>2. /\ TypeOK /\ NameOK(n) /\ cards \in [Names -> Card \cup {None}]
      /\ ~Saving("Remove", n)
      /\ Has(state, n) <=> IsEnabled(state, n)
  BY <1>1, OutcomeKnown
<1>3. CASE Online /\ Has(state, n)
  BY <1>1, <1>2, <1>3, AskedAgain DEF EnableSaved
<1>4. CASE ~(Online /\ Has(state, n))
  <2>1. /\ Return
        /\ cards' = IF cards[n] = None \/ Online THEN cards
                      ELSE [cards EXCEPT ![n].enabled = TRUE]
    BY <1>4 DEF EnableSaved
  <2>2. /\ cards' \in [Names -> Card \cup {None}]
        /\ \A m \in Names \ {n} : cards'[m] = cards[m]
        /\ cards'[n] = None <=> cards[n] = None
        /\ cards[n] # None =>
             /\ cards'[n].url = cards[n].url /\ cards'[n].error = cards[n].error
             /\ cards'[n].enabled => cards[n].enabled \/ IsEnabled(state, n)
    <3>1. CASE cards[n] = None \/ Online
      BY <1>2, <2>1, <3>1
    <3>2. CASE cards[n] # None /\ ~Online
      <4>1. PICK c : c = [cards[n] EXCEPT !.enabled = TRUE]
        OBVIOUS
      <4>2. c \in Card /\ c.url = cards[n].url /\ c.error = cards[n].error
        BY <1>2, <3>2, <4>1 DEF Card
      <4>3. cards' = [cards EXCEPT ![n] = c]
        BY <2>1, <3>2, <4>1
      <4>4. IsEnabled(state, n)
        BY <1>2, <3>2 DEF NameOK, CardOK
      <4>5. QED
        BY <1>2, <3>2, <4>2, <4>3, <4>4, PresentAssumption
    <3>3. QED
      BY <3>1, <3>2
  <2>3. QED
    BY <1>1, <1>2, <1>4, <2>1, <2>2, CardTouchedUp
<1>5. QED
  BY <1>3, <1>4

\* A tunnel switched off: it is closed, and its retries end.
LEMMA DisableSavedKeeps ==
  ASSUME EngineInv, NEW n \in Names, DisableSaved(n)
  PROVE  EngineInv'
<1>1. /\ "Disable" \in Commands \ {"Login", "Logout"} /\ Saved("Disable") /\ job.name = n
      /\ Return /\ UNCHANGED <<status, login_reply, link>> /\ UNCHANGED link
  BY DEF DisableSaved, Commands
<1>2. /\ TypeOK /\ NameOK(n) /\ cards \in [Names -> Card \cup {None}]
      /\ retry \in [Names -> Retry \cup {None}]
      /\ link' = link /\ (link = "none" <=> ~Online) /\ ~Ending
      /\ ~Saving("Remove", n) /\ ~IsEnabled(state, n) /\ ~IsEnabled(state, n)'
      /\ (Has(state, n)' <=> Has(state, n))
  BY <1>1, OutcomeKnown
<1>3. /\ cards' \in [Names -> Card \cup {None}]
      /\ \A m \in Names \ {n} : cards'[m] = cards[m]
      /\ cards'[n] = None <=> cards[n] = None
      /\ cards[n] # None => ~cards'[n].enabled /\ cards'[n].url = None
  <2>1. CASE cards[n] = None
    BY <1>2, <2>1 DEF DisableSaved
  <2>2. CASE cards[n] # None
    <3>1. (IF Online THEN None ELSE cards[n].url) = None
      BY <1>2, <2>2 DEF NameOK, CardOK, IsUp
    <3>2. PICK c : c = [cards[n] EXCEPT !.enabled = FALSE, !.url = None]
      OBVIOUS
    <3>3. c \in Card /\ c.enabled = FALSE /\ c.url = None
      BY <1>2, <2>2, <3>2 DEF Card
    <3>4. cards' = [cards EXCEPT ![n] = c]
      BY <1>2, <2>2, <3>1, <3>2 DEF DisableSaved
    <3>5. QED
      BY <1>2, <2>2, <3>3, <3>4, PresentAssumption
  <2>3. QED
    BY <2>1, <2>2
<1>4. /\ retry' \in [Names -> Retry \cup {None}]
      /\ ServerOK' /\ HostsOK' /\ live'[n] = None
      /\ Online => retry'[n] = None
      /\ \A m \in Names \ {n} : retry'[m] = retry[m] /\ Kept(m)
  <2>1. ServerOK /\ HostsOK
    BY <1>1, OutcomeKnown
  <2>2. CASE Online
    <3>1. CloseTunnel(n) /\ Forget(n)
      BY <2>2 DEF DisableSaved
    <3>2. QED
      BY <1>2, <2>2, <3>1, OneClosed DEF Forget
  <2>3. CASE ~Online
    <3>1. retry' = retry /\ UNCHANGED <<serverVars, watchVars>> /\ link = "none"
      BY <1>2, <2>3 DEF DisableSaved
    <3>2. live[n] = None
      BY <3>1, Idle
    <3>3. QED
      BY <1>2, <2>1, <2>3, <3>1, <3>2, ServerLeftAlone DEF serverVars
  <2>4. QED
    BY <2>2, <2>3
<1>5. TypeOK' /\ Places' /\ Taking' /\ \A m \in Names \ {n} : NameOK(m)'
  BY <1>1, <1>3, <1>4, OutcomeOnOne
<1>6. CardOK(n)'
  BY <1>2, <1>3 DEF NameOK, CardOK, IsUp
<1>7. UrlOK(n)' /\ HeldOK(n)' /\ AccountedOK(n)'
  BY <1>2, <1>3, <1>4 DEF UrlOK, HeldOK, AccountedOK, IsUp
<1>8. RetryOK(n)'
  BY <1>2, <1>3, <1>4 DEF RetryOK
<1>9. QED
  BY <1>4, <1>5, <1>6, <1>7, <1>8 DEF EngineInv, NameOK
-----------------------------------------------------------------------------
(* The invariant. *)

\* It holds of a process that was never started.
LEMMA InitEngineInv == Init => EngineInv
<1>1. SUFFICES ASSUME Init
               PROVE  EngineInv
  OBVIOUS
<1>2. DefaultState \in State /\ state = DefaultState /\ file = None
  <2>1. DefaultState \in State
    BY DEF DefaultState, State
  <2>2. state = DefaultState /\ file = None
    BY <1>1 DEF Init, StateInit
  <2>3. QED
    BY <2>1, <2>2
<1>3. /\ pc = "off" /\ job = None /\ todo = {} /\ opening = None /\ link = "none"
      /\ unsaved \in BOOLEAN /\ login_reply \in BOOLEAN
      /\ granted = {} /\ amended = {} /\ doubled = {} /\ strays = {}
      /\ retry = NoRetries /\ cards = NoCards
      /\ held = [h \in Hosts |-> "free"]
      /\ ghost = [h \in Hosts |-> 0]
      /\ live = [n \in Names |-> None]
  BY <1>1 DEF Init
<1>4. status \in Status
  BY <1>1, EngineAssumption DEF Init, Status
<1>5. TypeOK
  BY <1>2, <1>3, <1>4, Seconds DEF TypeOK, StateTypeOK, NoRetries, NoCards
<1>6. Places /\ Taking
  BY <1>3 DEF Places, Taking, NoCards
<1>7. \A n \in Names : NameOK(n)
  BY <1>3 DEF NameOK, CardOK, UrlOK, HeldOK, AccountedOK, RetryOK, NoCards
<1>8. HostsOK
  BY <1>3 DEF HostsOK, OpenAt
<1>9. QED
  BY <1>5, <1>6, <1>7, <1>8 DEF EngineInv

\* Every step of the program, of its user and of the server keeps it.
LEMMA StepKeepsEngineInv == EngineInv /\ [Next]_vars => EngineInv'
<1>1. SUFFICES ASSUME EngineInv, [Next]_vars
               PROVE  EngineInv'
  OBVIOUS
<1>2. CASE Process
  BY <1>1, <1>2, LaunchKeeps, ProcessEndsKeeps DEF Process, Shutdown, Crash
<1>3. CASE Connect
  BY <1>1, <1>3, ConnectOkKeeps, NoConnection DEF Connect
<1>4. CASE BackoffEnds
  BY <1>1, <1>4, NoConnection
<1>5. CASE OpenNext
  BY <1>1, <1>5, OpenNextKeeps
<1>6. CASE OpenWaits
  BY <1>1, <1>6, ServerElsewhere
<1>7. ASSUME NEW n \in Names, OpenAnswer(n)
      PROVE  EngineInv'
  BY <1>1, <1>7, OpenOkKeeps, OpenTakenKeeps, OpenFailsKeeps DEF OpenAnswer
<1>8. CASE Tick
  BY <1>1, <1>8, TickRetriesKeeps, TickDropsKeeps DEF Tick
<1>9. CASE Command
  BY <1>1, <1>9, CredentialTakenKeeps, QuietCommandsKeep, RemoveTunnelKeeps DEF Command
<1>10. CASE SaveDone
  BY <1>1, <1>10, LoginSavedKeeps, LogoutSavedKeeps, AddSavedKeeps, RemoveSavedKeeps,
     SetAuthSavedKeeps, EnableSavedKeeps, DisableSavedKeeps DEF SaveDone
<1>11. CASE Outside
  BY <1>1, <1>11, ConnectionEnds, ServerElsewhere, EngineAssumption DEF Outside
<1>12. CASE UNCHANGED vars
  <2>1. TypeOK' /\ Places' /\ Taking' /\ HostsOK'
    BY <1>1, <1>12
    DEF vars, EngineInv, TypeOK, StateTypeOK, Places, Taking, Ending, EnabledTunnels, IsEnabled,
        Has, HostsOK, OpenAt, stateVars, serverVars, watchVars
  <2>2. ASSUME NEW n \in Names
        PROVE  NameOK(n)'
    <3>1. (\A cmd \in Commands : Saving(cmd, n)' <=> Saving(cmd, n)) /\ (Asked(n)' <=> Asked(n))
          /\ (Ending => Ending') /\ NameOK(n)
      BY <1>1, <1>12 DEF EngineInv, vars, Saving, Asked, Ending
    <3>2. QED
      BY <1>12, <3>1, ServerLeftAlone, Untouched DEF vars, stateVars
  <2>3. QED
    BY <2>1, <2>2 DEF EngineInv
<1>13. QED
  BY <1>1, <1>2, <1>3, <1>4, <1>5, <1>6, <1>7, <1>8, <1>9, <1>10, <1>11, <1>12 DEF Next

\* However commands, answers, deaths of the connection and of the process fall, each
\* name's card, entry, retry and hosts on the server agree.
THEOREM EngineInvariant == Spec => []EngineInv
<1>1. QED
  BY InitEngineInv, StepKeepsEngineInv, PTL DEF Spec

\* Every variable keeps its type; the two names for what is awaited stand or fall
\* with the place of the task.
THEOREM EngineTypes == Spec => []TypeOK
<1>1. EngineInv => TypeOK
  BY DEF EngineInv
<1>2. QED
  BY <1>1, EngineInvariant, PTL

\* Nothing is asked for, saved or on its way to the server in a quiet session.
LEMMA NothingPending ==
  ASSUME EngineInv, Quiet, NEW n \in Names
  PROVE  /\ link = "up" /\ NameOK(n) /\ ~Asked(n) /\ n \notin todo
         /\ \A cmd \in Commands : ~Saving(cmd, n)
BY DEF EngineInv, Quiet, TypeOK, Asked, Saving

\* A public address the client shows is served, on the port, behind the password and
\* at the host that the user gave last, but for what came with a registration of a
\* tunnel that was up (open_and_record, handle_cmd).
THEOREM UrlsShownAreServed == Spec => []ShownUrlIsLive
<1>1. ASSUME EngineInv, Quiet, NEW n \in Names, IsUp(n)
      PROVE  /\ held[cards[n].url] = "mine"
             /\ live[n] # None /\ cards[n].url = HostOf(n, live[n])
             /\ SamePort(n) /\ live[n].port = state.tunnels[n].port
             /\ live[n] = SpecOf(state.tunnels[n]) \/ n \in amended
  BY <1>1, NothingPending DEF NameOK, UrlOK, HeldOK, OpenAt, SamePort, IsUp, Commands
<1>2. EngineInv => ShownUrlIsLive
  BY <1>1 DEF ShownUrlIsLive
<1>3. QED
  BY <1>2, EngineInvariant, PTL

\* Nothing is open behind the user's back, but for a host that a tunnel was left open
\* at when it was opened at another, and a tunnel switched on while it was open
\* (handle_cmd, open_and_record, client.rs open_tunnel).
THEOREM NothingOpenUnshown == Spec => []LiveIsShown
<1>1. ASSUME EngineInv, Quiet, NEW h \in Hosts, held[h] = "mine", h \notin strays
      PROVE  \E n \in EnabledTunnels(state) :
               live[n] # None /\ HostOf(n, live[n]) = h /\ (cards[n].url = h \/ n \in doubled)
  <2>1. PICK n \in Names : OpenAt(n, h)
    BY <1>1 DEF EngineInv, HostsOK
  <2>2. IsEnabled(state, n) /\ (cards[n].url = h \/ n \in doubled)
    BY <1>1, <2>1, NothingPending DEF NameOK, HeldOK, OpenAt, Commands
  <2>3. QED
    BY <2>1, <2>2 DEF OpenAt, EnabledTunnels
<1>2. EngineInv => LiveIsShown
  BY <1>1 DEF LiveIsShown
<1>3. QED
  BY <1>2, EngineInvariant, PTL

\* Every tunnel that is on is open or says why it is not, through restarts and
\* reconnections (session, open_and_record).
THEOREM NoTunnelPassedOver == Spec => []WantedAccountedFor
<1>1. ASSUME EngineInv, Quiet, NEW n \in EnabledTunnels(state)
      PROVE  cards[n] # None /\ (IsUp(n) \/ cards[n].error # "none")
  BY <1>1, NothingPending DEF NameOK, AccountedOK, EnabledTunnels, Commands
<1>2. EngineInv => WantedAccountedFor
  BY <1>1 DEF WantedAccountedFor
<1>3. QED
  BY <1>2, EngineInvariant, PTL

\* "Trying again" is on a card exactly while it is true (TakenRetries, tick).
THEOREM PromisesOfRetryKept == Spec => []RetryingShown
<1>1. ASSUME EngineInv, Quiet, NEW n \in Names
      PROVE  /\ retry[n] # None => IsEnabled(state, n) /\ cards[n].error = "retrying"
             /\ cards[n] # None /\ cards[n].enabled /\ cards[n].error = "retrying" => retry[n] # None
  BY <1>1, NothingPending DEF NameOK, RetryOK, Commands
<1>2. EngineInv => RetryingShown
  BY <1>1 DEF RetryingShown
<1>3. QED
  BY <1>2, EngineInvariant, PTL
-----------------------------------------------------------------------------
(* What is on disk. *)

\* The steps that neither start the process nor return from a save leave the disk
\* alone; those that do not begin a save leave the tunnels in memory alone, and drop
\* the credential at most.
LEMMA DiskLeftAlone ==
  ASSUME EngineInv, [Next]_vars, ~Launch, ~SaveDone
  PROVE  /\ UNCHANGED diskVars
         /\ \/ pc' \in {"off", "saving"}
            \/ /\ pc \notin {"off", "saving"} \/ pc' = pc
               /\ state'.tunnels = state.tunnels /\ state'.token \in {state.token, None}
<1>1. TypeOK
  BY DEF EngineInv
<1>2. CASE Process
  BY <1>2 DEF Process, Shutdown, Crash, ProcessEnds, diskVars
<1>3. CASE Connect
  <2>1. CASE ConnectOk
    BY <2>1 DEF ConnectOk, stateVars, diskVars
  <2>2. CASE WaitForLogin /\ pc \in {"dialing", "tls", "hello"} /\ UNCHANGED <<file, unsaved>>
    BY <1>1, <2>2, WithToken DEF WaitForLogin, diskVars
  <2>3. CASE ConnectFails /\ ~login_reply
    BY <2>3 DEF ConnectFails, BackOff, diskVars
  <2>4. CASE TcpUp \/ TlsUp
    BY <2>4 DEF TcpUp, TlsUp, Dials, stateVars, diskVars
  <2>5. QED
    BY <1>3, <2>1, <2>2, <2>3, <2>4 DEF Connect, ConnectRejected, ConnectFails
<1>4. CASE BackoffEnds \/ OpenNext \/ OpenWaits
  BY <1>4 DEF BackoffEnds, OpenNext, OpenWaits, stateVars, diskVars
<1>5. ASSUME NEW n \in Names, OpenAnswer(n)
      PROVE  UNCHANGED diskVars /\ state' = state /\ pc = "opening"
  BY <1>5 DEF OpenAnswer, OpenOk, OpenTaken, OpenFails, Answered, stateVars, diskVars
<1>6. CASE Tick
  BY <1>6 DEF Tick, TickRetries, TickDrops, stateVars, diskVars
<1>7. ASSUME NEW cmd, NEW n, NEW s, Take(cmd, n, s)
      PROVE  UNCHANGED diskVars /\ pc' = "saving"
  BY <1>7 DEF Take, WriteAside, diskVars
<1>8. CASE Command
  BY <1>7, <1>8 DEF Command, Login, Logout, CreateTunnels, UpdateTunnel, AddTunnel, Enable, Disable,
     SetAuth, RemoveTunnel
<1>9. CASE Outside
  BY <1>9 DEF Outside, ServerEnds, LinkDies, GhostLeaves, OtherMachine, DomainRegistered,
     stateVars, diskVars
<1>10. CASE UNCHANGED vars
  BY <1>10 DEF vars, stateVars, diskVars
<1>11. QED
  BY <1>2, <1>3, <1>4, <1>5, <1>6, <1>8, <1>9, <1>10 DEF Next

\* The file is never found cut short by a process that died, the system staying up,
\* and while saving works it holds the tunnels and the credential in use (state.rs,
\* save and load; supervisor).
THEOREM DiskKeepsTheState == Spec => []SavedStateKept
<1>1. Init => SavedStateKept
  BY FileAssumption DEF Init, StateInit, SavedStateKept
<1>2. ASSUME EngineInv, SavedStateKept, [Next]_vars
      PROVE  SavedStateKept'
  <2>1. TypeOK /\ state \in State /\ file \in State \cup {Torn, None}
    BY <1>2 DEF EngineInv, TypeOK, StateTypeOK
  <2>2. CASE Launch
    <3>1. Load = FileState /\ file # Torn
      BY <1>2, <2>1, FileAssumption DEF Load, FileState, SavedStateKept
    <3>2. file' = file /\ state' = FileState
      BY <2>2, <3>1 DEF Launch, SetAside
    <3>3. FileState' = FileState
      BY <3>2 DEF FileState
    <3>4. QED
      BY <3>1, <3>2, <3>3 DEF SavedStateKept
  <2>3. CASE SaveDone
    <3>1. PICK cmd : Saved(cmd)
      BY <2>3 DEF SaveDone, LoginSaved, LogoutSaved, AddSaved, RemoveSaved, SetAuthSaved,
         EnableSaved, DisableSaved
    <3>2. state' = state /\ (file' = state \/ (file' = file /\ unsaved'))
      BY <3>1 DEF Saved, SaveReturns, Replace
    <3>3. CASE file' = state
      <4>1. file' # Torn /\ file' # None
        BY <2>1, <3>3, FileAssumption
      <4>2. FileState' = state
        BY <3>3, <4>1 DEF FileState
      <4>3. QED
        BY <3>2, <4>1, <4>2 DEF SavedStateKept
    <3>4. CASE file' = file /\ unsaved'
      BY <1>2, <3>4 DEF SavedStateKept
    <3>5. QED
      BY <3>2, <3>3, <3>4
  <2>4. CASE ~Launch /\ ~SaveDone
    <3>1. /\ file' = file /\ unsaved' = unsaved
          /\ \/ pc' \in {"off", "saving"}
             \/ /\ pc \notin {"off", "saving"} \/ pc' = pc
                /\ state'.tunnels = state.tunnels /\ state'.token \in {state.token, None}
      BY <1>2, <2>4, DiskLeftAlone DEF diskVars
    <3>2. FileState' = FileState
      BY <3>1 DEF FileState
    <3>3. QED
      BY <1>2, <3>1, <3>2 DEF SavedStateKept
  <2>5. QED
    BY <2>2, <2>3, <2>4
<1>3. EngineInv /\ SavedStateKept /\ [Next]_vars => SavedStateKept'
  BY <1>2
<1>4. QED
  BY <1>1, <1>3, EngineInvariant, PTL DEF Spec

-----------------------------------------------------------------------------
(* Giving a taken name up. *)

\* A name that is retried says so on its card, in a session that goes on, and is asked
\* for at least as long as the server may hold it for a connection that is gone.
Patient(n) ==
  retry[n] # None =>
    /\ cards[n] # None /\ cards[n].error = "retrying"
    /\ link # "none" \/ Ending
    /\ ~Saving("Remove", n)
    /\ link = "up" => \A h \in Hosts : ghost[h] <= retry[n].left

PatienceInv == \A n \in Names : Patient(n)
\* A step that is not the answer "taken" for n leaves n no less patient, and writes
\* "taken" on no card.
Calm(n) ==
  /\ retry'[n] # None =>
       /\ retry[n] # None
       /\ cards[n] # None => cards'[n] # None /\ cards'[n].error = cards[n].error
       /\ link # "none" \/ Ending => link' # "none" \/ Ending'
       /\ Saving("Remove", n)' => Saving("Remove", n)
       /\ link' = "up" => /\ link = "up"
                          /\ \A h \in Hosts : ghost[h] <= retry[n].left => ghost'[h] <= retry'[n].left
  /\ cards'[n] # None /\ cards'[n].error = "taken" => cards[n] # None /\ cards[n].error = "taken"

\* A step that changes neither card nor retry of n, nor the connection, is calm if it
\* neither ends a session nor removes n.
LEMMA CalmIfUntouched ==
  ASSUME NEW n \in Names, cards'[n] = cards[n], retry'[n] = retry[n], link' = link,
         ghost' = ghost,
         link # "none" \/ ~Ending \/ Ending',
         Saving("Remove", n)' => Saving("Remove", n)
  PROVE  Calm(n)
BY DEF Calm

\* Less of both is as good a comparison.
LEMMA FadingTogether ==
  ASSUME NEW i \in Nat, NEW j \in Nat, i <= j
  PROVE  Minus1(i) <= Minus1(j)
BY DEF Minus1

\* A second later, a ghost that was to leave before the retries end still is.
LEMMA SecondsAreCalm ==
  ASSUME EngineInv, NEW n \in Names, GhostsFade, cards'[n] = cards[n], link' = link,
         retry'[n] \in {SecondLater(n), None}, pc' = pc, job' = job
  PROVE  Calm(n)
<1>1. TypeOK
  BY DEF EngineInv
<1>2. Saving("Remove", n)' => Saving("Remove", n)
  BY DEF Saving
<1>3. Ending => Ending'
  BY DEF Ending
<1>4. CASE retry'[n] = None
  BY <1>4 DEF Calm
<1>5. CASE retry'[n] # None
  <2>1. retry'[n] = SecondLater(n) /\ retry[n] # None
    BY <1>1, <1>5, RetriesASecondLater
  <2>2. retry[n] \in Retry
    BY <1>1, <2>1 DEF TypeOK
  <2>3. retry[n].left \in 0..RetryWindow
    BY <2>2 DEF Retry
  <2>4. ASSUME NEW h \in Hosts, ghost[h] <= retry[n].left
        PROVE  ghost'[h] <= retry'[n].left
    <3>1. ghost[h] \in 0..GhostSeconds
      BY <1>1 DEF TypeOK
    <3>2. ghost[h] \in Nat /\ retry[n].left \in Nat
      BY <2>3, <3>1, Seconds
    <3>3. retry'[n].left = Minus1(retry[n].left) /\ ghost'[h] = Minus1(ghost[h])
      BY <2>1 DEF SecondLater, GhostsFade
    <3>4. QED
      BY <2>4, <3>2, <3>3, FadingTogether
  <2>5. QED
    BY <1>2, <1>3, <2>1, <2>4 DEF Calm
<1>6. QED
  BY <1>4, <1>5

\* Taking a command is calm.
LEMMA CommandsAreCalm ==
  ASSUME EngineInv, Command, NEW n \in Names, Patient(n)
  PROVE  Calm(n)
<1>1. TypeOK /\ Places
  BY DEF EngineInv
<1>2. TakesCommands => pc # "saving" /\ ~Ending /\ ~Saving("Remove", n)
                       /\ (pc # "session" => link = "none")
  BY <1>1 DEF TakesCommands, Ending, Saving, Places
<1>3. ASSUME NEW cmd \in Commands \ {"Remove"}, NEW m, NEW s, Take(cmd, m, s),
             UNCHANGED <<retry, link, serverVars, watchVars>>
      PROVE  Calm(n)
  <2>1. cards' = cards /\ TakesCommands /\ ~Saving("Remove", n)'
    BY <1>3 DEF Take, Saving
  <2>2. QED
    BY <1>2, <1>3, <2>1, CalmIfUntouched DEF serverVars
<1>4. ASSUME NEW cmd \in {"Login", "Logout"}, NEW s, Take(cmd, None, s), CutLink, UNCHANGED retry
      PROVE  Calm(n)
  <2>1. cards' = cards /\ TakesCommands /\ ~Saving("Remove", n)'
    BY <1>4 DEF Take, Saving
  <2>2. CASE pc = "session"
    <3>1. link' = "none" /\ Ending'
      BY <1>4, <2>2 DEF CutLink, Take, Ending
    <3>2. QED
      BY <1>4, <2>1, <3>1 DEF Calm
  <2>3. CASE pc # "session"
    BY <1>2, <1>4, <2>1, <2>3, CalmIfUntouched DEF CutLink, serverVars
  <2>4. QED
    BY <2>2, <2>3
<1>5. ASSUME NEW m \in Names, RemoveTunnel(m)
      PROVE  Calm(n)
  <2>1. /\ cards' = cards /\ TakesCommands /\ link' = link
        /\ Saving("Remove", n)' => m = n
    BY <1>5 DEF RemoveTunnel, Take, Saving
  <2>2. CASE pc = "session"
    <3>1. CloseTunnel(m) /\ Forget(m)
      BY <1>5, <2>2 DEF RemoveTunnel
    <3>2. retry \in [Names -> Retry \cup {None}] /\ ghost' = ghost
      BY <1>1, <3>1 DEF TypeOK, CloseTunnel
    <3>3. CASE m = n
      BY <2>1, <3>1, <3>2, <3>3 DEF Forget, Calm
    <3>4. CASE m # n
      BY <1>2, <2>1, <3>1, <3>2, <3>4, CalmIfUntouched DEF Forget
    <3>5. QED
      BY <3>3, <3>4
  <2>3. CASE pc # "session"
    <3>1. retry[n] = None /\ retry' = retry
      BY <1>2, <1>5, <2>1, <2>3 DEF Patient, RemoveTunnel
    <3>2. QED
      BY <2>1, <3>1 DEF Calm
  <2>4. QED
    BY <2>2, <2>3
<1>6. QED
  BY <1>3, <1>4, <1>5
  DEF Command, Login, Logout, CreateTunnels, UpdateTunnel, AddTunnel, Enable, Disable, SetAuth,
      Commands

\* The rest of a command is calm.
LEMMA OutcomesAreCalm ==
  ASSUME EngineInv, SaveDone, NEW n \in Names, Patient(n)
  PROVE  Calm(n)
<1>1. TypeOK
  BY DEF EngineInv
<1>2. retry \in [Names -> Retry \cup {None}] /\ cards \in [Names -> Card \cup {None}]
  BY <1>1 DEF TypeOK
<1>3. CASE LoginSaved \/ LogoutSaved
  <2>1. CASE Online
    <3>1. retry' = NoRetries /\ cards' = NoUrls
      BY <1>3, <2>1 DEF LoginSaved, LogoutSaved, SessionDropped
    <3>2. retry'[n] = None
      BY <3>1 DEF NoRetries
    <3>3. cards'[n] # None => cards[n] # None /\ cards'[n].error = cards[n].error
      BY <1>1, <3>1, CardsWithoutUrls
    <3>4. QED
      BY <3>2, <3>3 DEF Calm
  <2>2. CASE ~Online
    <3>1. UNCHANGED <<retry, cards>>
      BY <1>3, <2>2 DEF LoginSaved, LogoutSaved
    <3>2. PICK cmd \in Commands : Saved(cmd)
      BY <1>3 DEF LoginSaved, LogoutSaved, Commands
    <3>3. link = "none" /\ ~Ending
      BY <2>2, <3>2, SaveReturned DEF Ending, Online
    <3>4. retry[n] = None
      BY <3>3 DEF Patient
    <3>5. QED
      BY <3>1, <3>4 DEF Calm
  <2>3. QED
    BY <2>1, <2>2
<1>4. ASSUME NEW cmd \in Commands \ {"Login", "Logout"}, NEW m \in Names, Saved(cmd),
             Return \/ Ask(m, cmd), link' = link, ghost' = ghost,
             retry'[n] \in {retry[n], None},
             cards'[n] # None =>
               (cards'[n].error = "none" /\ retry[n] = None)
               \/ (cards[n] # None /\ cards'[n].error = cards[n].error),
             cards[n] # None /\ retry[n] # None => cards'[n] # None
      PROVE  Calm(n)
  <2>1. ~Ending /\ pc' # "saving"
    BY <1>4, SaveReturned DEF Return, Ask
  <2>2. ~Saving("Remove", n)'
    BY <2>1 DEF Saving
  <2>3. QED
    BY <1>4, <2>1, <2>2 DEF Calm
<1>5. ASSUME NEW m \in Names, AddSaved(m)
      PROVE  Calm(n)
  <2>1. Saved("Add") /\ (Return \/ Ask(m, "Add")) /\ link' = link /\ ghost' = ghost /\ retry' = retry
    BY <1>5 DEF AddSaved, CloseTunnel, serverVars
  <2>2. CASE cards'[n] = cards[n]
    BY <1>4, <2>1, <2>2 DEF Commands
  <2>3. CASE cards'[n] # cards[n]
    <3>1. cards[n] = None /\ m = n /\ cards'[n] = NewCard(n)
      BY <1>2, <1>5, <2>3 DEF AddSaved
    <3>2. cards'[n].error = "none" /\ retry[n] = None
      BY <3>1 DEF NewCard, Patient
    <3>3. QED
      BY <1>4, <2>1, <3>1, <3>2 DEF Commands
  <2>4. QED
    BY <2>2, <2>3
<1>6. ASSUME NEW m \in Names, RemoveSaved(m)
      PROVE  Calm(n)
  <2>1. /\ Saved("Remove") /\ job.name = m /\ Return /\ link' = link /\ ghost' = ghost
        /\ retry' = retry /\ cards' = [cards EXCEPT ![m] = None]
    BY <1>6 DEF RemoveSaved, serverVars
  <2>2. m = n => retry[n] = None /\ cards'[n] = None
    BY <1>2, <2>1 DEF Patient, Saved, Saving
  <2>3. m # n => cards'[n] = cards[n]
    BY <2>1
  <2>4. QED
    BY <1>4, <2>1, <2>2, <2>3 DEF Commands
<1>7. ASSUME NEW m \in Names, SetAuthSaved(m)
      PROVE  Calm(n)
  <2>1. /\ Saved("SetAuth") /\ (Return \/ Ask(m, "SetAuth")) /\ link' = link /\ ghost' = ghost
        /\ retry' = retry
    BY <1>7 DEF SetAuthSaved, CloseTunnel, serverVars
  <2>2. /\ cards'[n] # None => cards[n] # None /\ cards'[n].error = cards[n].error
        /\ cards[n] # None => cards'[n] # None
    <3>1. CASE cards'[n] = cards[n]
      BY <3>1
    <3>2. CASE cards'[n] # cards[n]
      <4>1. /\ m = n /\ cards[n] # None
            /\ cards' = [cards EXCEPT ![n].protected = state.tunnels[n].auth # None]
        BY <1>2, <1>7, <3>2 DEF SetAuthSaved
      <4>2. PICK b \in BOOLEAN : b = (state.tunnels[n].auth # None)
        OBVIOUS
      <4>3. cards'[n] = [cards[n] EXCEPT !.protected = b] /\ cards[n] \in Card
        BY <1>2, <4>1, <4>2
      <4>4. cards'[n] \in Card /\ cards'[n].error = cards[n].error
        BY <4>3 DEF Card
      <4>5. QED
        BY <4>1, <4>4, PresentAssumption
    <3>3. QED
      BY <3>1, <3>2
  <2>3. QED
    BY <1>4, <2>1, <2>2 DEF Commands
<1>8. ASSUME NEW m \in Names, EnableSaved(m)
      PROVE  Calm(n)
  <2>1. /\ Saved("Enable") /\ (Return \/ Ask(m, "Enable")) /\ link' = link /\ ghost' = ghost
        /\ retry' = retry
    BY <1>8 DEF EnableSaved, serverVars
  <2>2. /\ cards'[n] # None => cards[n] # None /\ cards'[n].error = cards[n].error
        /\ cards[n] # None => cards'[n] # None
    <3>1. CASE cards'[n] = cards[n]
      BY <3>1
    <3>2. CASE cards'[n] # cards[n]
      <4>1. m = n /\ cards[n] # None /\ cards' = [cards EXCEPT ![n].enabled = TRUE]
        BY <1>2, <1>8, <3>2 DEF EnableSaved
      <4>2. cards'[n] = [cards[n] EXCEPT !.enabled = TRUE] /\ cards[n] \in Card
        BY <1>2, <4>1
      <4>3. cards'[n] \in Card /\ cards'[n].error = cards[n].error
        BY <4>2 DEF Card
      <4>4. QED
        BY <4>1, <4>3, PresentAssumption
    <3>3. QED
      BY <3>1, <3>2
  <2>3. QED
    BY <1>4, <2>1, <2>2 DEF Commands
<1>9. ASSUME NEW m \in Names, DisableSaved(m)
      PROVE  Calm(n)
  <2>1. /\ Saved("Disable") /\ Return /\ link' = link /\ ghost' = ghost
        /\ retry'[n] \in {retry[n], None}
    BY <1>2, <1>9 DEF DisableSaved, CloseTunnel, Forget, serverVars
  <2>2. /\ cards'[n] # None => cards[n] # None /\ cards'[n].error = cards[n].error
        /\ cards[n] # None => cards'[n] # None
    <3>1. CASE cards'[n] = cards[n]
      BY <3>1
    <3>2. CASE cards'[n] # cards[n]
      <4>1. m = n /\ cards[n] # None
            /\ cards' = [cards EXCEPT ![n].enabled = FALSE, ![n].url = IF Online THEN None ELSE @]
        BY <1>2, <1>9, <3>2 DEF DisableSaved
      <4>2. PICK u \in Hosts \cup {None} : u = IF Online THEN None ELSE cards[n].url
        BY <1>1, <4>1, InHand
      <4>3. cards'[n] = [cards[n] EXCEPT !.enabled = FALSE, !.url = u] /\ cards[n] \in Card
        BY <1>2, <4>1, <4>2
      <4>4. cards'[n] \in Card /\ cards'[n].error = cards[n].error
        BY <4>3 DEF Card
      <4>5. QED
        BY <4>1, <4>4, PresentAssumption
    <3>3. QED
      BY <3>1, <3>2
  <2>3. QED
    BY <1>4, <2>1, <2>2 DEF Commands
<1>10. QED
  BY <1>3, <1>5, <1>6, <1>7, <1>8, <1>9 DEF SaveDone
\* So is every other step, but for an answer that n is taken.
LEMMA OthersAreCalm ==
  ASSUME EngineInv, [Next]_vars, NEW n \in Names, Patient(n), ~OpenTaken(n)
  PROVE  Calm(n)
<1>1. TypeOK /\ Places
  BY DEF EngineInv
<1>2. /\ retry \in [Names -> Retry \cup {None}] /\ cards \in [Names -> Card \cup {None}]
      /\ ghost \in [Hosts -> 0..GhostSeconds]
  BY <1>1 DEF TypeOK
<1>3. CASE Process
  <2>1. CASE Launch
    <3>1. retry' = retry /\ cards' = cards /\ link = "none" /\ ~Ending
      BY <1>1, <2>1 DEF Launch, Places, Ending
    <3>2. QED
      BY <3>1 DEF Patient, Calm
  <2>2. CASE ProcessEnds
    BY <2>2 DEF ProcessEnds, NoRetries, NoCards, Calm
  <2>3. QED
    BY <1>3, <2>1, <2>2 DEF Process, Shutdown, Crash
<1>4. CASE Connect \/ BackoffEnds
  <2>1. CASE ConnectOk
    BY <2>1 DEF ConnectOk, NoRetries, Calm
  <2>2. CASE TcpUp \/ TlsUp \/ ConnectRejected \/ ConnectFails \/ BackoffEnds
    <3>1. /\ pc \in {"dialing", "tls", "hello", "backoff"} /\ pc' # "saving"
          /\ UNCHANGED <<cards, retry, link, serverVars>>
      BY <2>2 DEF TcpUp, TlsUp, Dials, ConnectRejected, ConnectFails, BackoffEnds, WaitForLogin,
         BackOff
    <3>2. QED
      BY <3>1, CalmIfUntouched DEF Ending, Saving, serverVars
  <2>3. QED
    BY <1>4, <2>1, <2>2 DEF Connect
<1>5. CASE OpenNext
  <2>1. pc = "session" /\ pc' = "opening" /\ UNCHANGED <<cards, retry, link, serverVars>>
    BY <1>5 DEF OpenNext
  <2>2. QED
    BY <2>1, CalmIfUntouched DEF Ending, Saving, serverVars
<1>6. CASE OpenWaits
  BY <1>6, SecondsAreCalm DEF OpenWaits
<1>7. ASSUME NEW m \in Names, OpenAnswer(m)
      PROVE  Calm(n)
  <2>1. pc = "opening" /\ pc' = "session" /\ ghost' = ghost /\ link' = link
    BY <1>7 DEF OpenAnswer, OpenOk, OpenTaken, OpenFails, Answered
  <2>2. CASE m # n
    <3>1. cards'[n] = cards[n] /\ retry'[n] = retry[n]
      BY <1>2, <1>7, <2>2 DEF OpenAnswer, OpenOk, OpenTaken, OpenFails, Forget
    <3>2. QED
      BY <2>1, <3>1, CalmIfUntouched DEF Ending, Saving
  <2>3. CASE m = n
    <3>1. OpenOk(n) \/ OpenFails(n)
      BY <1>7, <2>3 DEF OpenAnswer
    <3>2. /\ retry'[n] = None
          /\ \/ cards'[n] = CardAfter(n, HostAsked(n), "none")
             \/ cards'[n] = CardAfter(n, None, "other")
      BY <1>2, <3>1 DEF OpenOk, OpenFails, Forget
    <3>3. cards'[n].error \in {"none", "other"}
      BY <3>2 DEF CardAfter
    <3>4. QED
      BY <3>2, <3>3 DEF Calm
  <2>4. QED
    BY <2>2, <2>3
<1>8. CASE TickRetries
  <2>1. GhostsFade /\ UNCHANGED <<pc, job, cards, link>> /\ retry'[n] \in {SecondLater(n), None}
    BY <1>8 DEF TickRetries
  <2>2. QED
    BY <2>1, SecondsAreCalm
<1>9. CASE TickDrops
  <2>1. retry'[n] = None /\ cards' = NoUrls
    BY <1>9 DEF TickDrops, SessionDropped, NoRetries
  <2>2. QED
    BY <1>1, <2>1, CardsWithoutUrls DEF Calm
<1>10. CASE Outside
  <2>1. UNCHANGED <<pc, job, cards, retry>>
    BY <1>10 DEF Outside, ServerEnds, LinkDies, GhostLeaves, OtherMachine, DomainRegistered
  <2>2. (Ending => Ending') /\ (Saving("Remove", n)' => Saving("Remove", n))
    BY <2>1 DEF Ending, Saving
  <2>3. CASE ServerEnds \/ LinkDies
    <3>1. link' \in {"lost", "dead", "kicked"}
      BY <2>3 DEF ServerEnds, LinkDies
    <3>2. QED
      BY <2>1, <2>2, <3>1 DEF Calm
  <2>4. CASE (\E h \in Hosts : GhostLeaves(h) \/ OtherMachine(h))
             \/ \E d \in Domains : DomainRegistered(d)
    <3>1. link' = link /\ \A h \in Hosts : ghost'[h] \in {ghost[h], 0}
      BY <1>2, <2>4 DEF GhostLeaves, OtherMachine, DomainRegistered
    <3>2. ASSUME retry[n] # None, NEW h \in Hosts, ghost[h] <= retry[n].left
          PROVE  ghost'[h] <= retry'[n].left
      <4>1. retry[n] \in Retry
        BY <1>2, <3>2
      <4>2. retry[n].left \in 0..RetryWindow
        BY <4>1 DEF Retry
      <4>3. QED
        BY <2>1, <3>1, <3>2, <4>2, Seconds
    <3>3. QED
      BY <2>1, <2>2, <3>1, <3>2 DEF Calm
  <2>5. QED
    BY <1>10, <2>3, <2>4, EngineAssumption DEF Outside
<1>11. CASE UNCHANGED vars
  <2>1. UNCHANGED <<pc, job, cards, retry, link, ghost>>
    BY <1>11 DEF vars, serverVars
  <2>2. (Ending => Ending') /\ (Saving("Remove", n)' => Saving("Remove", n))
    BY <2>1 DEF Ending, Saving
  <2>3. QED
    BY <2>1, <2>2, CalmIfUntouched
<1>12. QED
  BY <1>3, <1>4, <1>5, <1>6, <1>7, <1>8, <1>9, <1>10, <1>11, CommandsAreCalm, OutcomesAreCalm
  DEF Next, Tick

\* What is calm leaves n patient and does not give it up.
LEMMA CalmStep ==
  ASSUME NEW n \in Names, Patient(n), Calm(n)
  PROVE  Patient(n)' /\ ~GivesUp(n)
<1>1. Patient(n)'
  BY DEF Patient, Calm
<1>2. ~GivesUp(n)
  BY DEF Patient, Calm, GivesUp
<1>3. QED
  BY <1>1, <1>2

\* The retries of a name outlast the server's memory of a connection that is gone.
LEMMA WindowsCompare ==
  ASSUME MissedHeartbeats < TakenRetryHeartbeats
  PROVE  GhostSeconds <= RetryWindow
<1>1. \A i, j, k \in Nat : i <= j => i * k <= j * k
  OBVIOUS
<1>2. /\ MissedHeartbeats + 1 \in Nat /\ TakenRetryHeartbeats \in Nat /\ Heartbeat \in Nat
      /\ MissedHeartbeats + 1 <= TakenRetryHeartbeats
  BY EngineAssumption
<1>3. (MissedHeartbeats + 1) * Heartbeat <= TakenRetryHeartbeats * Heartbeat
  BY <1>1, <1>2
<1>4. QED
  BY <1>3 DEF GhostSeconds, RetryWindow

\* An answer that n is taken begins the retries with the full window, and ends them
\* only when no connection that is gone can be the reason.
LEMMA TakenIsPatient ==
  ASSUME EngineInv, NEW n \in Names, Patient(n), OpenTaken(n),
         MissedHeartbeats < TakenRetryHeartbeats
  PROVE  /\ Patient(n)'
         /\ GivesUp(n) => held[HostAsked(n)] # "free" \/ ~Allowed(HostAsked(n))
<1>1. TypeOK
  BY DEF EngineInv
<1>2. /\ retry \in [Names -> Retry \cup {None}] /\ cards \in [Names -> Card \cup {None}]
      /\ ghost \in [Hosts -> 0..GhostSeconds]
  BY <1>1 DEF TypeOK
<1>3. /\ Answered(n) /\ link = "up" /\ (Taken(HostAsked(n)) \/ ~Allowed(HostAsked(n)))
      /\ retry'[n] = RetryAfterTaken(n)
      /\ cards'[n] = CardAfter(n, None, IF retry'[n] = None THEN "taken" ELSE "retrying")
  BY <1>2 DEF OpenTaken
<1>4. /\ link' = link /\ ghost' = ghost /\ Has(state, n) /\ ~Saving("Remove", n)'
      /\ HostAsked(n) \in Hosts
  BY <1>3, Awaited DEF Answered, Commands
<1>5. /\ \A h \in Hosts : ghost[h] \in Nat /\ ghost[h] <= GhostSeconds
      /\ RetryWindow \in Nat /\ GhostSeconds \in Nat
  BY <1>2, Seconds
<1>6. Patient(n)'
  <2>1. ASSUME retry'[n] # None
        PROVE  /\ cards'[n] # None /\ cards'[n].error = "retrying"
               /\ \A h \in Hosts : ghost[h] <= retry'[n].left
    <3>1. cards'[n] = CardAfter(n, None, "retrying")
      BY <1>3, <2>1
    <3>2. cards'[n] # None /\ cards'[n].error = "retrying"
      BY <1>1, <1>4, <3>1, AnsweredCard
    <3>3. CASE retry[n] = None
      <4>1. retry'[n].left = RetryWindow
        BY <1>3, <3>3 DEF RetryAfterTaken
      <4>2. QED
        BY <1>5, <3>2, <4>1, WindowsCompare
    <3>4. CASE retry[n] # None
      <4>1. retry'[n] = [retry[n] EXCEPT !.next = RetryEvery] /\ retry[n] \in Retry
        BY <1>2, <1>3, <2>1, <3>4 DEF RetryAfterTaken
      <4>2. retry'[n].left = retry[n].left
        BY <4>1 DEF Retry
      <4>3. QED
        BY <1>3, <3>2, <3>4, <4>2 DEF Patient
    <3>5. QED
      BY <3>3, <3>4
  <2>2. QED
    BY <1>3, <1>4, <2>1 DEF Patient
<1>7. ASSUME GivesUp(n)
      PROVE  held[HostAsked(n)] # "free" \/ ~Allowed(HostAsked(n))
  <2>1. retry[n] # None /\ retry'[n] = None
    BY <1>7 DEF GivesUp
  <2>2. retry[n] \in Retry /\ [retry[n] EXCEPT !.next = RetryEvery] \in Retry
    BY <1>2, <2>1, Seconds DEF Retry
  <2>3. retry[n].left = 0
    BY <1>3, <2>1, <2>2, PresentAssumption DEF RetryAfterTaken
  <2>4. ghost[HostAsked(n)] = 0
    BY <1>3, <1>4, <1>5, <2>1, <2>3 DEF Patient
  <2>5. QED
    BY <1>3, <2>4 DEF Taken
<1>8. QED
  BY <1>6, <1>7

\* As long as the window of the retries is longer than the heartbeats that the server
\* waits for (6 against 3 in the code), a taken name is given up only when its host is
\* held at that moment, or is a custom domain that is not the account's
\* (TakenRetries::record; control.rs answers both with the same code).
THEOREM OwnGhostsAreOutlasted ==
  ASSUME MissedHeartbeats < TakenRetryHeartbeats
  PROVE  Spec => OutlastsOwnGhosts
<1>1. Init => PatienceInv
  BY DEF Init, NoRetries, PatienceInv, Patient
<1>2. ASSUME EngineInv, PatienceInv, [Next]_vars, NEW n \in Names
      PROVE  Patient(n)' /\ (GivesUp(n) => held[HostAsked(n)] # "free" \/ ~Allowed(HostAsked(n)))
  <2>1. Patient(n)
    BY <1>2 DEF PatienceInv
  <2>2. CASE OpenTaken(n)
    BY <1>2, <2>1, <2>2, TakenIsPatient
  <2>3. CASE ~OpenTaken(n)
    BY <1>2, <2>1, <2>3, OthersAreCalm, CalmStep
  <2>4. QED
    BY <2>2, <2>3
<1>3. EngineInv /\ PatienceInv /\ [Next]_vars =>
        PatienceInv' /\ \A n \in Names :
          GivesUp(n) => held[HostAsked(n)] # "free" \/ ~Allowed(HostAsked(n))
  BY <1>2 DEF PatienceInv
<1>4. QED
  BY <1>1, <1>3, EngineInvariant, PTL DEF Spec, OutlastsOwnGhosts
=============================================================================
