----------------------------- MODULE ClientState -----------------------------
(***************************************************************************)
(* What the client keeps: its credential and its tunnels, in memory and in *)
(* a file (crates/cy-core/src/state.rs).  A save writes a second file and  *)
(* renames it over the first, so the write and the rename are two steps    *)
(* and the process may die between them.  The system is taken not to go    *)
(* down under it: neither half is flushed to the disk (there is no fsync), *)
(* so nothing is said of a power failure.                                  *)
(*                                                                         *)
(* The server address and the fingerprint travel with the credential:      *)
(* Tokens stand for all three.                                             *)
(***************************************************************************)
EXTENDS Integers, FiniteSets

CONSTANTS
  Names,        \* tunnel names
  LocalPorts,   \* ports of local services
  Auths,        \* passwords of tunnels
  Domains,      \* custom domains
  Tokens,       \* credentials
  None,         \* Option::None, and the empty credential
  Torn          \* the contents of a file whose writing was cut short

Entry == [port : LocalPorts, enabled : BOOLEAN, auth : Auths \cup {None},
          domain : Domains \cup {None}]

ASSUME ClientStateAssumption ==
  /\ IsFiniteSet(Names)
  /\ None \notin LocalPorts \cup Auths \cup Tokens
  /\ None \notin Names \cup Domains /\ Names \cap Domains = {}
  /\ None \notin Entry

State == [token : Tokens \cup {None}, tunnels : [Names -> Entry \cup {None}]]

\* No file, a broken one and a whole one are told apart.
ASSUME FileAssumption == Torn # None /\ Torn \notin State /\ None \notin State

VARIABLES
  state,        \* State, in the memory of the running client
  file          \* state.json: a State, Torn, or None where there is no file

stateVars == <<state, file>>

StateTypeOK ==
  /\ state \in State
  /\ file \in State \cup {Torn, None}

DefaultState == [token |-> None, tunnels |-> [n \in Names |-> None]]

StateInit ==
  /\ state = DefaultState
  /\ file = None

-----------------------------------------------------------------------------
(* Operations on a state s. *)

\* spec_of(): what of an entry goes into the request to open the tunnel.
TunnelSpec == [port : LocalPorts, auth : Auths \cup {None}, domain : Domains \cup {None}]
SpecOf(e) == [port |-> e.port, auth |-> e.auth, domain |-> e.domain]

\* The host of tunnel n: its custom domain, or else the account's own for the
\* name, which the name stands for.
Hosts == Names \cup Domains
HostOf(n, spec) == IF spec.domain = None THEN n ELSE spec.domain

Has(s, n) == s.tunnels[n] # None

IsEnabled(s, n) == Has(s, n) /\ s.tunnels[n].enabled

\* enabled_tunnels(): what is opened again after a reconnection or a restart.
EnabledTunnels(s) == {n \in Names : IsEnabled(s, n)}

\* upsert_tunnel(): a registration that brings no password, or no domain, keeps
\* the old one.
Upsert(s, n, p, a, d) ==
  [s EXCEPT !.tunnels[n] =
     [port |-> p, enabled |-> TRUE,
      auth |-> IF a = None /\ Has(s, n) THEN s.tunnels[n].auth ELSE a,
      domain |-> IF d = None /\ Has(s, n) THEN s.tunnels[n].domain ELSE d]]

SetEnabledIn(s, n, e) == IF Has(s, n) THEN [s EXCEPT !.tunnels[n].enabled = e] ELSE s

SetAuthIn(s, n, a) == IF Has(s, n) THEN [s EXCEPT !.tunnels[n].auth = a] ELSE s

RemoveFrom(s, n) == [s EXCEPT !.tunnels[n] = None]

-----------------------------------------------------------------------------
(* The file. *)

\* load(): an unreadable or broken file means starting afresh.
Load == IF file \in State THEN file ELSE DefaultState

\* A broken file is set aside as state.json.bak.
SetAside == file' = IF file = Torn THEN None ELSE file

\* Mutant: the file itself is written over.
WriteInPlace == file' = Torn

\* save(), first half: the new contents go to state.json.tmp, which nobody
\* reads; a process that dies here leaves the file as it was.
WriteAside == UNCHANGED file

\* save(), second half: the temporary file takes the place of the old one, for
\* whoever reads it while the system stays up.
Replace == file' = state
=============================================================================
