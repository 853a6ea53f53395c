--------------------------- MODULE MCControlPlane ---------------------------
(***************************************************************************)
(* Small instances of ControlPlane.  Connections c1 and c2 belong to one   *)
(* account (a reconnection, or a second machine), c3 to another.           *)
(***************************************************************************)
EXTENDS ControlPlane, TLC

CONSTANTS c1, c2, c3, u1, u2, h1, h2, n1, n2

MCUserOf == [c \in Conns |-> IF c = c3 THEN u2 ELSE u1]

\* The hosts of the tunnel names.  Both accounts spell h1 with n1: account and
\* tunnel names may hold hyphens, so two pairs of them can make the same host.
MCHostFor == [u \in Users |-> [n \in Names |-> IF n = n1 THEN h1 ELSE h2]]

\* Here u1 has one host for all its tunnel names.
MCSharedHost == [u \in Users |-> [n \in Names |-> IF u = u1 \/ n = n1 THEN h1 ELSE h2]]

\* u1 has h2 for a custom domain where it is no host of a tunnel name.
MCDomains == [u \in Users |-> IF u = u1 THEN {h2} ELSE {}]

MCMaxTunnels == [u \in Users |-> IF u = u1 THEN 1 ELSE 2]

\* One account with room for two tunnels of two names.
MCTwoTunnels == [u \in Users |-> 2]

\* c1 and c2 are interchangeable, as long as no liveness is checked.
MCSymmetry == Permutations({c1, c2})
=============================================================================
