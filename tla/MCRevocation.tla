---------------------------- MODULE MCRevocation ----------------------------
(***************************************************************************)
(* A small instance of Revocation: two connections of one account (a       *)
(* reconnection, or a second machine) and one host.                        *)
(***************************************************************************)
EXTENDS Revocation

CONSTANTS c1, c2, u1

MCUserOf == [c \in Conns |-> u1]
MCMaxTunnels == [u \in Users |-> 1]
MCHostFor == [u \in Users |-> [n \in Names |-> CHOOSE h \in Hosts : TRUE]]
MCDomains == [u \in Users |-> {}]
=============================================================================
