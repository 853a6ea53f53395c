------------------------------ MODULE MCEngine ------------------------------
(* One tunnel name, one custom domain, two local ports, one password, one  *)
(* credential.                                                             *)
EXTENDS Engine

CONSTANTS n1, d1, a1, t1
=============================================================================
