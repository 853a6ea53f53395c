----------------------------- MODULE Revocation -----------------------------
(***************************************************************************)
(* Revoking and replacing credentials.  The administrator's command line   *)
(* is a process of its own: it changes the account database                *)
(* (crates/cy-server/src/store.rs) and then asks the running server to     *)
(* kick the account (crates/cy-server/src/main.rs, admin.rs).  The server  *)
(* reads the database once per connection, before it registers the         *)
(* session, and never again.  This module puts the database beside         *)
(* ControlPlane and lets the two processes interleave.                     *)
(***************************************************************************)
EXTENDS ControlPlane

CONSTANT MaxIssued   \* bound: credentials an account is given, one after the other

ASSUME RevocationAssumption == MaxIssued \in Nat \ {0}

VARIABLES
  token,      \* users.token_sha256: which of its credentials is an account's present one
  revoked,    \* accounts with users.revoked_at set
  presented,  \* the credential a connection was let in on; 0 before that
  kick_due,   \* accounts the command line has yet to POST /kick for
  raced       \* connections let in on a credential taken away before they
              \* registered, and a kick has come and gone meanwhile

dbVars == <<token, revoked, presented, kick_due, raced>>
allVars == <<vars, dbVars>>

RevocationInit ==
  /\ Init
  /\ token = [u \in Users |-> 1]
  /\ revoked = {}
  /\ presented = [c \in Conns |-> 0]
  /\ kick_due = {}
  /\ raced = {}

\* The connection was let in on a credential that is valid no more.
Outdated(c) ==
  /\ presented[c] # 0
  /\ presented[c] # token[UserOf[c]] \/ UserOf[c] \in revoked

-----------------------------------------------------------------------------
\* Mutant: revoked_at is not looked at.
AuthenticateRevoked(c, t) ==
  /\ t = token[UserOf[c]]
  /\ Authenticate(c)
  /\ presented' = [presented EXCEPT ![c] = t]
  /\ UNCHANGED <<token, revoked, kick_due, raced>>

\* store.authenticate(): credential t is the account's present one and the
\* account is not revoked at the moment the database is read.
AuthenticateCurrent(c, t) ==
  /\ t = token[UserOf[c]]
  /\ UserOf[c] \notin revoked
  /\ Authenticate(c)
  /\ presented' = [presented EXCEPT ![c] = t]
  /\ UNCHANGED <<token, revoked, kick_due, raced>>

\* The rest of the server does not look at the database.
ServerStep ==
  /\ \/ \E c \in Conns : Handshake(c) \/ Task(c) \/ Message(c) \/ Environment(c)
     \/ \E p \in Ports : ListenerTask(p)
     \/ Shutdown
  /\ UNCHANGED dbVars

\* `user revoke`: the database first, the kick afterwards.
Revoke(u) ==
  /\ revoked' = revoked \cup {u}
  /\ kick_due' = kick_due \cup {u}
  /\ UNCHANGED <<vars, token, presented, raced>>

\* `user reissue`: a new credential takes the place of the old one and lifts a
\* revocation; the kick follows.
Reissue(u) ==
  /\ token[u] < MaxIssued
  /\ token' = [token EXCEPT ![u] = @ + 1]
  /\ revoked' = revoked \ {u}
  /\ kick_due' = kick_due \cup {u}
  /\ UNCHANGED <<vars, presented, raced>>

\* The connections of an account that are between the check of a credential
\* that is valid no more and their registration.
InWindow(u) == {c \in Conns : UserOf[c] = u /\ pc[c] = "authed" /\ Outdated(c)}

\* Mutant: the request is counted as done though it kicked nobody.
PostKickLost(u) ==
  /\ kick_due' = kick_due \ {u}
  /\ raced' = raced \cup InWindow(u)
  /\ UNCHANGED <<vars, token, revoked, presented>>

\* POST /kick/<user>, from the two commands above or from `kick` itself.
PostKick(u) ==
  /\ Kick(u)
  /\ kick_due' = kick_due \ {u}
  /\ raced' = raced \cup InWindow(u)
  /\ UNCHANGED <<token, revoked, presented>>

RevocationNext ==
  \/ \E c \in Conns, t \in 1..MaxIssued : AuthenticateCurrent(c, t)
  \/ ServerStep
  \/ \E u \in Users : Revoke(u) \/ Reissue(u) \/ PostKick(u)

RevocationSpec == RevocationInit /\ [][RevocationNext]_allVars

\* The command line goes on to post its kick, and the tasks run.
RevocationFairness ==
  /\ \A u \in Users : WF_allVars(u \in kick_due /\ PostKick(u))
  /\ \A c \in Conns :
       /\ WF_allVars(Work(c) /\ UNCHANGED dbVars)
       /\ WF_allVars(LoopEnds(c) /\ UNCHANGED dbVars)

FairRevocationSpec == RevocationSpec /\ RevocationFairness

-----------------------------------------------------------------------------
\* Once its kick is through, a credential taken away keeps nobody online but
\* those whose connection was caught between the check of the credential and
\* the registration of the session: that window is the only one.
OnlyRacedSurvive ==
  \A c \in sessions : Outdated(c) =>
    cancel[c] \/ UserOf[c] \in kick_due \/ c \in raced

\* A connection let in on a credential since taken away is gone in the end,
\* unless it went through that window.
OutdatedLeaves ==
  \A c \in Conns : Outdated(c) ~> pc[c] = "done" \/ c \in raced

\* What the command line says of itself: "revoke (disconnects the user's
\* connections at once)".  When the kick is through, no session lives on a
\* credential that is valid no more.
RevokedIsOffline ==
  \A c \in sessions : Outdated(c) => cancel[c] \/ UserOf[c] \in kick_due
=============================================================================
