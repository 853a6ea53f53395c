-------------------------- MODULE GatehouseProofs --------------------------
(***************************************************************************)
(* Proofs about the account database and the failure tracker before it: a  *)
(* domain stays with whoever was told that it is theirs, and the failures  *)
(* of an address are bounded however its handshakes interleave.            *)
(***************************************************************************)
EXTENDS Gatehouse, FiniteSetTheorems, TLAPS

-----------------------------------------------------------------------------
(* The domains. *)

ClerkStates ==
  [at : {"idle", "add_user", "add_domain"}, user : Users \cup {None}, domain : Domains \cup {None}]

\* A domain has one owner at most, and a command that is about to register one
\* has a user and a domain to register.
DomainsTypeOK ==
  /\ owner \in [Domains -> Users \cup {None}]
  /\ clerk \in [Clerks -> ClerkStates]
  /\ confirmed \subseteq Users \X Domains
  /\ \A k \in Clerks : clerk[k].at = "add_domain" =>
       clerk[k].user \in Users /\ clerk[k].domain \in Domains

DomainInv == DomainsTypeOK /\ ConfirmedIsOwner

\* A command's writing registers a domain that has no owner, or nothing.
LEMMA InsertDomainKeeps ==
  ASSUME DomainInv, NEW k \in Clerks, InsertDomain(k)
  PROVE  DomainInv'
<1> DEFINE u == clerk[k].user
           d == clerk[k].domain
<1>1. /\ DomainsTypeOK /\ u \in Users /\ d \in Domains
      /\ clerk' = [clerk EXCEPT ![k] = Idle]
  BY DEF InsertDomain, DomainInv, DomainsTypeOK
<1>2. Idle \in ClerkStates /\ Idle.at = "idle"
  BY DEF Idle, ClerkStates
<1>3. /\ clerk' \in [Clerks -> ClerkStates]
      /\ \A j \in Clerks : clerk'[j].at = "add_domain" =>
           clerk'[j].user \in Users /\ clerk'[j].domain \in Domains
  BY <1>1, <1>2 DEF DomainsTypeOK
<1>4. CASE owner[d] # None
  BY <1>3, <1>4 DEF InsertDomain, DomainInv, DomainsTypeOK, ConfirmedIsOwner, CustomDomainOwner
<1>5. CASE owner[d] = None
  <2>1. owner' = [owner EXCEPT ![d] = u] /\ confirmed' = confirmed \cup {<<u, d>>}
    BY <1>5 DEF InsertDomain
  <2>2. DomainsTypeOK'
    BY <1>1, <1>3, <2>1 DEF DomainsTypeOK
  <2>3. \A c \in confirmed : c \in Users \X Domains /\ owner[c[2]] = c[1] /\ c[1] # None
    BY <1>1, AccountsAssumption DEF DomainInv, DomainsTypeOK, ConfirmedIsOwner, CustomDomainOwner
  <2>4. \A c \in confirmed : c[2] # d /\ owner'[c[2]] = c[1]
    BY <1>1, <1>5, <2>1, <2>3 DEF DomainsTypeOK
  <2>5. owner'[d] = u
    BY <1>1, <2>1 DEF DomainsTypeOK
  <2>6. ConfirmedIsOwner'
    BY <2>1, <2>4, <2>5 DEF ConfirmedIsOwner, CustomDomainOwner
  <2>7. QED
    BY <2>2, <2>6 DEF DomainInv
<1>6. QED
  BY <1>4, <1>5

\* A command's reading confirms what the table says, or writes nothing yet.
LEMMA AddDomainKeeps ==
  ASSUME DomainInv, NEW k \in Clerks, NEW u \in Users, NEW d \in Domains, AddDomain(k, u, d)
  PROVE  DomainInv'
<1>1. CASE owner[d] = u
  BY <1>1 DEF AddDomain, DomainInv, DomainsTypeOK, ConfirmedIsOwner, CustomDomainOwner
<1>2. CASE owner[d] # u
  <2>1. [at |-> "add_domain", user |-> u, domain |-> d] \in ClerkStates
    BY DEF ClerkStates
  <2>2. QED
    BY <1>2, <2>1 DEF AddDomain, DomainInv, DomainsTypeOK, ConfirmedIsOwner, CustomDomainOwner
<1>3. QED
  BY <1>1, <1>2

\* The users' own commands leave the domains alone.
LEMMA UserCommandKeeps ==
  ASSUME DomainInv,
         \/ \E k \in Clerks : InsertUser(k) \/ \E u \in Users : AddUser(k, u)
         \/ \E u \in Users : ReissueToken(u) \/ RevokeUser(u) \/ Expires(u)
  PROVE  DomainInv'
<1>1. /\ Idle \in ClerkStates /\ Idle.at = "idle"
      /\ \A u \in Users : [at |-> "add_user", user |-> u, domain |-> None] \in ClerkStates
  BY DEF Idle, ClerkStates
<1>2. CASE \E k \in Clerks : InsertUser(k) \/ \E u \in Users : AddUser(k, u)
  BY <1>1, <1>2 DEF InsertUser, AddUser, DomainInv, DomainsTypeOK, ConfirmedIsOwner,
                    CustomDomainOwner
<1>3. CASE \E u \in Users : ReissueToken(u) \/ RevokeUser(u) \/ Expires(u)
  BY <1>3 DEF ReissueToken, RevokeUser, Expires, DomainInv, DomainsTypeOK, ConfirmedIsOwner,
              CustomDomainOwner
<1>4. QED
  BY <1>2, <1>3

\* Whoever was told that a domain is registered has it for good, whatever other
\* commands run at the same time.
THEOREM DomainStaysConfirmed == Spec => []ConfirmedIsOwner
<1>1. Init => DomainInv
  BY DEF Init, AccountsInit, DomainInv, DomainsTypeOK, ClerkStates, Idle, ConfirmedIsOwner
<1>2. ASSUME DomainInv, [Next]_vars
      PROVE  DomainInv'
  <2>1. CASE Administration
    BY <1>2, <2>1, InsertDomainKeeps, AddDomainKeeps, UserCommandKeeps DEF Administration
  <2>2. CASE UNCHANGED accountVars
    BY <1>2, <2>2 DEF accountVars, DomainInv, DomainsTypeOK, ConfirmedIsOwner, CustomDomainOwner
  <2>3. QED
    BY <1>2, <2>1, <2>2 DEF Next, Tick, TurnedAway, Accepted, GivesUp, Checked, Record, Clear,
                            vars, accountVars
<1>3. DomainInv => ConfirmedIsOwner
  BY DEF DomainInv
<1>4. QED
  BY <1>1, <1>2, <1>3, PTL DEF Spec

-----------------------------------------------------------------------------
(* The failures. *)

Entry == [count : Nat, age : Nat]

HandshakeStates ==
  {NoHandshake} \cup [at : {"checking", "passed", "failed"}, from : Addresses]

TrackerTypeOK ==
  /\ entries \in [Addresses -> Entry \cup {None}]
  /\ handshake \in [Handshakes -> HandshakeStates]

\* The handshakes of an address that are under way.
UnderWay(a) == {x \in Handshakes : handshake[x] # NoHandshake /\ handshake[x].from = a}

\* While the address is shut out, its count and the handshakes that may still add
\* to it are together within the limit.
Contained(e, underway) ==
  e # None =>
    /\ e.count < Limit + Cardinality(Handshakes)
    /\ e.age <= Window /\ e.count >= Limit =>
         e.count + Cardinality(underway) < Limit + Cardinality(Handshakes)

TrackerInv == TrackerTypeOK /\ \A a \in Addresses : Contained(entries[a], UnderWay(a))

\* The handshakes under way are finitely many, no more than there can be.
LEMMA UnderWayBounded ==
  ASSUME NEW S, S \subseteq Handshakes
  PROVE  /\ IsFiniteSet(S)
         /\ Cardinality(S) \in Nat
         /\ Cardinality(Handshakes) \in Nat
         /\ Cardinality(S) <= Cardinality(Handshakes)
         /\ \A x \in Handshakes \ S : Cardinality(S) < Cardinality(Handshakes)
<1>1. IsFiniteSet(Handshakes)
  BY GatehouseAssumption
<1>2. IsFiniteSet(S) /\ Cardinality(S) \in Nat /\ Cardinality(Handshakes) \in Nat
      /\ Cardinality(S) <= Cardinality(Handshakes)
  BY <1>1, FS_Subset, FS_CardinalityType
<1>3. ASSUME NEW x \in Handshakes \ S
      PROVE  Cardinality(S) < Cardinality(Handshakes)
  BY <1>1, <1>2, <1>3, FS_Subset, FS_CardinalityType
<1>4. QED
  BY <1>2, <1>3

\* An entry that grows older, or goes, is contained as before, and so is one with
\* fewer handshakes under way.
LEMMA StaysContained ==
  ASSUME NEW e \in Entry \cup {None}, NEW f \in Entry \cup {None},
         NEW S, NEW T, T \subseteq S, S \subseteq Handshakes,
         Contained(e, S),
         f # None => e # None /\ f.count = e.count /\ f.age >= e.age
  PROVE  Contained(f, T)
<1>1. Limit \in Nat /\ Window \in Nat
  BY GatehouseAssumption
<1>2. Cardinality(S) \in Nat /\ Cardinality(Handshakes) \in Nat /\ IsFiniteSet(S)
  BY UnderWayBounded
<1>3. Cardinality(T) \in Nat /\ Cardinality(T) <= Cardinality(S)
  BY <1>2, FS_Subset, FS_CardinalityType
<1>4. QED
  BY <1>1, <1>2, <1>3 DEF Contained, Entry

\* The clock, and a handshake that ends without being counted.
LEMMA QuietStepKeeps ==
  ASSUME TrackerInv,
         Tick \/ UNCHANGED gateVars \/ \E x \in Handshakes : GivesUp(x) \/ Checked(x) \/ Clear(x)
  PROVE  TrackerInv'
<1>1. /\ TrackerTypeOK
      /\ NoHandshake \in HandshakeStates
      /\ Window \in Nat
  BY GatehouseAssumption DEF TrackerInv, HandshakeStates
<1>2. TrackerTypeOK'
  <2>1. CASE Tick
    BY <1>1, <2>1 DEF Tick, Older, TrackerTypeOK, Entry
  <2>2. CASE UNCHANGED gateVars
    BY <1>1, <2>2 DEF gateVars, TrackerTypeOK
  <2>3. ASSUME NEW x \in Handshakes, GivesUp(x) \/ Clear(x)
        PROVE  TrackerTypeOK'
    BY <1>1, <2>3 DEF GivesUp, Clear, TrackerTypeOK
  <2>4. ASSUME NEW x \in Handshakes, Checked(x)
        PROVE  TrackerTypeOK'
    <3>1. /\ handshake[x] \in [at : {"checking", "passed", "failed"}, from : Addresses]
          /\ UNCHANGED entries
          /\ \/ handshake' = [handshake EXCEPT ![x].at = "passed"]
             \/ handshake' = [handshake EXCEPT ![x].at = "failed"]
      <4>1. handshake[x] # NoHandshake /\ handshake[x] \in HandshakeStates
        BY <1>1, <2>4 DEF Checked, TrackerTypeOK, NoHandshake
      <4>2. QED
        BY <2>4, <4>1 DEF Checked, HandshakeStates
    <3>2. /\ [handshake[x] EXCEPT !.at = "passed"] \in HandshakeStates
          /\ [handshake[x] EXCEPT !.at = "failed"] \in HandshakeStates
      BY <3>1 DEF HandshakeStates
    <3>3. QED
      BY <1>1, <3>1, <3>2 DEF TrackerTypeOK
  <2>5. QED
    BY <2>1, <2>2, <2>3, <2>4
<1>3. ASSUME NEW a \in Addresses
      PROVE  UnderWay(a)' \subseteq UnderWay(a)
  <2>1. CASE Tick \/ UNCHANGED gateVars
    BY <2>1 DEF Tick, gateVars, UnderWay
  <2>2. ASSUME NEW x \in Handshakes, GivesUp(x) \/ Clear(x)
        PROVE  UnderWay(a)' \subseteq UnderWay(a)
    BY <1>1, <2>2 DEF GivesUp, Clear, UnderWay, TrackerTypeOK
  <2>3. ASSUME NEW x \in Handshakes, Checked(x)
        PROVE  UnderWay(a)' \subseteq UnderWay(a)
    BY <1>1, <2>3 DEF Checked, UnderWay, TrackerTypeOK, HandshakeStates, NoHandshake
  <2>4. QED
    BY <2>1, <2>2, <2>3
<1>4. ASSUME NEW a \in Addresses
      PROVE  entries'[a] # None =>
               /\ entries[a] # None
               /\ entries'[a].count = entries[a].count
               /\ entries'[a].age >= entries[a].age
  <2>1. CASE Tick
    BY <1>1, <2>1 DEF Tick, Older, TrackerTypeOK, Entry
  <2>2. CASE UNCHANGED entries
    BY <1>1, <2>2 DEF TrackerTypeOK, Entry
  <2>3. ASSUME NEW x \in Handshakes, Clear(x)
        PROVE  entries'[a] # None => entries'[a] = entries[a]
    BY <1>1, <2>3 DEF Clear, TrackerTypeOK
  <2>4. QED
    BY <1>1, <2>1, <2>2, <2>3 DEF gateVars, GivesUp, Checked, TrackerTypeOK, Entry
<1>5. ASSUME NEW a \in Addresses
      PROVE  Contained(entries'[a], UnderWay(a)')
  <2>1. /\ entries[a] \in Entry \cup {None} /\ entries'[a] \in Entry \cup {None}
        /\ UnderWay(a) \subseteq Handshakes
    BY <1>1, <1>2 DEF TrackerTypeOK, UnderWay
  <2>2. Contained(entries[a], UnderWay(a))
    BY DEF TrackerInv
  <2>3. QED
    BY <1>3, <1>4, <2>1, <2>2, StaysContained
<1>6. QED
  BY <1>2, <1>5 DEF TrackerInv

\* A connection is accepted of an address that is not shut out, and so has room.
LEMMA AcceptedKeeps ==
  ASSUME TrackerInv, NEW x \in Handshakes, NEW a \in Addresses, Accepted(x, a)
  PROVE  TrackerInv'
<1>1. /\ TrackerTypeOK /\ UNCHANGED entries
      /\ handshake[x] = NoHandshake /\ ~IsLocked(a)
      /\ handshake' = [handshake EXCEPT ![x] = [at |-> "checking", from |-> a]]
  BY DEF TrackerInv, Accepted
<1>2. TrackerTypeOK'
  BY <1>1 DEF TrackerTypeOK, HandshakeStates
<1>3. ASSUME NEW b \in Addresses
      PROVE  Contained(entries[b], UnderWay(b)')
  <2>1. Contained(entries[b], UnderWay(b))
    BY DEF TrackerInv
  <2>2. CASE b # a
    <3>1. UnderWay(b)' = UnderWay(b)
      BY <1>1, <2>2 DEF UnderWay, TrackerTypeOK
    <3>2. QED
      BY <2>1, <3>1
  <2>3. CASE b = a
    BY <1>1, <2>1, <2>3 DEF IsLocked, Contained
  <2>4. QED
    BY <2>2, <2>3
<1>4. QED
  BY <1>1, <1>2, <1>3 DEF TrackerInv

\* A failure that is counted is one fewer under way.
LEMMA RecordKeeps ==
  ASSUME TrackerInv, NEW x \in Handshakes, Record(x)
  PROVE  TrackerInv'
<1>0. /\ TrackerTypeOK
      /\ handshake[x] # NoHandshake
      /\ handshake' = [handshake EXCEPT ![x] = NoHandshake]
  BY DEF TrackerInv, TrackerTypeOK, Record, NoHandshake
<1>1. PICK a \in Addresses : handshake[x].from = a
  BY <1>0 DEF TrackerTypeOK, HandshakeStates
<1>2. Limit \in Nat \ {0} /\ Window \in Nat \ {0} /\ None \notin Entry
  BY GatehouseAssumption DEF Entry
<1>3. entries' = Counted(a)
  BY <1>1 DEF Record
<1>4. PICK before \in Nat :
        /\ entries'[a] = [count |-> before + 1, age |-> 0]
        /\ \/ before = 0
           \/ /\ entries[a] # None /\ entries[a].age <= Window
              /\ before = entries[a].count
  BY <1>0, <1>1, <1>2, <1>3 DEF Counted, TrackerTypeOK, Entry
<1>5. ASSUME NEW b \in Addresses, b # a
      PROVE  entries'[b] \in {entries[b], None}
  BY <1>0, <1>1, <1>3, <1>5 DEF Counted, TrackerTypeOK
<1>6. TrackerTypeOK'
  <2>1. \A b \in Addresses : entries'[b] \in Entry \cup {None}
    BY <1>0, <1>1, <1>4, <1>5 DEF TrackerTypeOK, Entry
  <2>2. entries' \in [Addresses -> Entry \cup {None}]
    BY <1>3, <2>1 DEF Counted
  <2>3. QED
    BY <1>0, <1>1, <2>2 DEF TrackerTypeOK, HandshakeStates
<1>7. /\ \A b \in Addresses : UnderWay(b)' \subseteq UnderWay(b)
      /\ UnderWay(a)' = UnderWay(a) \ {x}
      /\ x \in UnderWay(a)
  BY <1>0, <1>1 DEF UnderWay, TrackerTypeOK
<1>8. ASSUME NEW b \in Addresses, b # a
      PROVE  Contained(entries'[b], UnderWay(b)')
  <2>1. /\ entries[b] \in Entry \cup {None} /\ entries'[b] \in Entry \cup {None}
        /\ UnderWay(b) \subseteq Handshakes
    BY <1>0, <1>1, <1>6 DEF TrackerTypeOK, UnderWay
  <2>2. Contained(entries[b], UnderWay(b))
    BY DEF TrackerInv
  <2>3. entries'[b] # None => /\ entries[b] # None
                              /\ entries'[b].count = entries[b].count
                              /\ entries'[b].age >= entries[b].age
    BY <1>5, <1>8, <2>1 DEF Entry
  <2>4. QED
    BY <1>7, <2>1, <2>2, <2>3, StaysContained
<1>9. Contained(entries'[a], UnderWay(a)')
  <2>1. /\ UnderWay(a)' \subseteq Handshakes \ {x}
        /\ UnderWay(a) \subseteq Handshakes
    BY <1>7 DEF UnderWay
  <2>2. /\ Cardinality(UnderWay(a)') \in Nat /\ Cardinality(Handshakes) \in Nat
        /\ Cardinality(UnderWay(a)') < Cardinality(Handshakes)
        /\ IsFiniteSet(UnderWay(a)) /\ Cardinality(UnderWay(a)) \in Nat
    BY <2>1, UnderWayBounded
  <2>3. Cardinality(UnderWay(a)') = Cardinality(UnderWay(a)) - 1
    BY <1>7, <2>2, FS_RemoveElement
  <2>4. /\ entries'[a].count = before + 1 /\ entries'[a].age = 0
        /\ before < Limit \/ before + Cardinality(UnderWay(a)) < Limit + Cardinality(Handshakes)
    BY <1>0, <1>1, <1>2, <1>4 DEF TrackerInv, Contained
  <2>5. /\ before + 1 < Limit + Cardinality(Handshakes)
        /\ before + 1 >= Limit =>
             before + 1 + Cardinality(UnderWay(a)') < Limit + Cardinality(Handshakes)
    BY <1>2, <2>2, <2>3, <2>4
  <2>6. QED
    BY <2>4, <2>5 DEF Contained
<1>10. QED
  BY <1>6, <1>8, <1>9 DEF TrackerInv

\* The invariant of the failure tracker.
THEOREM TrackerInvariant == Spec => []TrackerInv
<1>1. Init => TrackerInv
  BY DEF Init, TrackerInv, TrackerTypeOK, HandshakeStates, Contained
<1>2. ASSUME TrackerInv, [Next]_vars
      PROVE  TrackerInv'
  BY <1>2, QuietStepKeeps, AcceptedKeeps, RecordKeeps DEF Next, TurnedAway, vars
<1>3. QED
  BY <1>1, <1>2, PTL DEF Spec

\* Past the limit the count of an address grows only by the handshakes that were
\* under way when it was reached, for any number of addresses and handshakes.
THEOREM FailuresBounded == Spec => []CountBounded
<1>1. TrackerInv => CountBounded
  BY DEF TrackerInv, Contained, CountBounded
<1>2. QED
  BY <1>1, TrackerInvariant, PTL
=============================================================================
