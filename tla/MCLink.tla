------------------------------- MODULE MCLink -------------------------------
(* Link on a small instance: two tunnels, one of which may be opened at the *)
(* account's own host or at a custom domain, two opens, two visitors, and   *)
(* one record kept for each tunnel.                                         *)
EXTENDS Link, TLC

CONSTANTS api, web, own, domain, other, v1, v2

ApiAtTwoHosts == api :> {own, domain} @@ web :> {other}

FirstAsksForApi == v1 :> {own} @@ v2 :> {own, domain, other}
=============================================================================
