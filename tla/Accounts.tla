------------------------------ MODULE Accounts ------------------------------
(***************************************************************************)
(* The account database (crates/cy-server/src/store.rs) and the commands   *)
(* that change it (crates/cy-server/src/main.rs).  A command is a process  *)
(* of its own.  Every SQL statement is a transaction by itself: a command  *)
(* that reads before it writes lets the others in between, and what holds  *)
(* then is what the table's own constraints hold.                          *)
(***************************************************************************)
EXTENDS Naturals, FiniteSets

CONSTANTS
  Users,
  Domains,     \* custom domains
  Clerks,      \* command-line processes, each run again and again
  None,
  MaxIssued    \* bound: credentials issued

ASSUME AccountsAssumption == MaxIssued \in Nat \ {0} /\ None \notin Users

VARIABLES
  account,     \* users: name -> row, or None
  owner,       \* custom_domains: domain -> its user, or None
  issued,      \* the last credential generated
  clerk,       \* what a command goes on to write after what it has read
  confirmed    \* the <<user, domain>> whose registration was reported done

accountVars == <<account, owner, issued, clerk, confirmed>>

Idle == [at |-> "idle", user |-> None, domain |-> None]

AccountsInit ==
  /\ account = [u \in Users |-> None]
  /\ owner = [d \in Domains |-> None]
  /\ issued = 0
  /\ clerk = [k \in Clerks |-> Idle]
  /\ confirmed = {}

\* The row of a user to whom a credential has just been issued.
UserRow(token, expires) ==
  [token |-> token, revoked |-> FALSE, expires |-> expires, expired |-> FALSE]

\* custom_domain_owner(): whom the server opens a tunnel at the domain for.
CustomDomainOwner(d) == owner[d]

\* authenticate(): what it takes for an account's present credential to pass.
Valid(u) == account[u] # None /\ ~account[u].revoked /\ ~account[u].expired

-----------------------------------------------------------------------------
(* `user add`: SELECT, then INSERT.  The name is UNIQUE. *)

AddUser(k, u) ==
  /\ clerk[k] = Idle /\ account[u] = None /\ issued < MaxIssued
  /\ clerk' = [clerk EXCEPT ![k] = [at |-> "add_user", user |-> u, domain |-> None]]
  /\ UNCHANGED <<account, owner, issued, confirmed>>

InsertUser(k) ==
  /\ clerk[k].at = "add_user" /\ issued < MaxIssued
  /\ LET u == clerk[k].user IN
       IF account[u] # None THEN UNCHANGED <<account, issued>>
       ELSE /\ \E expires \in BOOLEAN :
                 account' = [account EXCEPT ![u] = UserRow(issued + 1, expires)]
            /\ issued' = issued + 1
  /\ clerk' = [clerk EXCEPT ![k] = Idle]
  /\ UNCHANGED <<owner, confirmed>>

(* `user reissue` and `user revoke`: one UPDATE each. *)

\* A new credential lifts a revocation; an expiry date stays what it is.
ReissueToken(u) ==
  /\ account[u] # None /\ issued < MaxIssued
  /\ account' = [account EXCEPT ![u].token = issued + 1, ![u].revoked = FALSE]
  /\ issued' = issued + 1
  /\ UNCHANGED <<owner, clerk, confirmed>>

RevokeUser(u) ==
  /\ account[u] # None /\ ~account[u].revoked
  /\ account' = [account EXCEPT ![u].revoked = TRUE]
  /\ UNCHANGED <<owner, issued, clerk, confirmed>>

\* expires_at comes.
Expires(u) ==
  /\ account[u] # None /\ account[u].expires /\ ~account[u].expired
  /\ account' = [account EXCEPT ![u].expired = TRUE]
  /\ UNCHANGED <<owner, issued, clerk, confirmed>>

(* `domain add`: two SELECTs, then INSERT.  The domain is the PRIMARY KEY. *)

\* The user exists; the domain is nobody's.  One that is the user's already is
\* reported done.
AddDomain(k, u, d) ==
  /\ clerk[k] = Idle /\ account[u] # None /\ owner[d] \in {None, u}
  /\ IF owner[d] = u
       THEN confirmed' = confirmed \cup {<<u, d>>} /\ UNCHANGED clerk
       ELSE clerk' = [clerk EXCEPT ![k] = [at |-> "add_domain", user |-> u, domain |-> d]]
            /\ UNCHANGED confirmed
  /\ UNCHANGED <<account, owner, issued>>

\* Mutant: INSERT OR REPLACE.
InsertDomainReplaces(k) ==
  /\ clerk[k].at = "add_domain"
  /\ owner' = [owner EXCEPT ![clerk[k].domain] = clerk[k].user]
  /\ confirmed' = confirmed \cup {<<clerk[k].user, clerk[k].domain>>}
  /\ clerk' = [clerk EXCEPT ![k] = Idle]
  /\ UNCHANGED <<account, issued>>

InsertDomain(k) ==
  /\ clerk[k].at = "add_domain"
  /\ LET u == clerk[k].user
         d == clerk[k].domain
     IN  IF owner[d] # None THEN UNCHANGED <<owner, confirmed>>
         ELSE /\ owner' = [owner EXCEPT ![d] = u]
              /\ confirmed' = confirmed \cup {<<u, d>>}
  /\ clerk' = [clerk EXCEPT ![k] = Idle]
  /\ UNCHANGED <<account, issued>>

Administration ==
  \/ \E k \in Clerks :
       \/ InsertUser(k) \/ InsertDomain(k)
       \/ \E u \in Users : AddUser(k, u) \/ \E d \in Domains : AddDomain(k, u, d)
  \/ \E u \in Users : ReissueToken(u) \/ RevokeUser(u) \/ Expires(u)

-----------------------------------------------------------------------------

\* Whoever was told that a domain is registered has it, for good: when two
\* commands register it for two users at once, the one that comes second is told
\* that it failed, though it found the domain free.
ConfirmedIsOwner == \A c \in confirmed : CustomDomainOwner(c[2]) = c[1]
=============================================================================
