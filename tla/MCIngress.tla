----------------------------- MODULE MCIngress -----------------------------
(***************************************************************************)
(* A small instance of Ingress: one account on two connections, the second *)
(* as a rule the first one's successor, two tunnel names, one visitor.     *)
(***************************************************************************)
EXTENDS Ingress, TLC

CONSTANTS c1, c2, u1, h1, h2, n1, n2, old, new

MCUserOf == [c \in Conns |-> u1]
MCHostFor == [u \in Users |-> n1 :> h1 @@ n2 :> h2]
MCNoDomains == [u \in Users |-> {}]
MCTwoTunnels == [u \in Users |-> 2]

\* The second tunnel of a connection has a changed password; that of the first
\* is the same on both.
MCGateOf == [c \in Conns |-> <<old, IF c = c1 THEN None ELSE new>>]
=============================================================================
