------------------------------ MODULE MCDesktop ------------------------------
(***************************************************************************)
(* Instance of Desktop: two copies of one release and one of the next, and *)
(* two old ones that were left running side by side.                       *)
(***************************************************************************)
EXTENDS Desktop, TLC

CONSTANTS m1, m2, m3, l1, l2

Releases == [p \in Processes |->
  IF p \in Legacy THEN 1 ELSE IF p = m3 THEN 3 ELSE 2]

\* Copies of one release are alike.
Alike == Permutations({m1, m2}) \cup Permutations({l1, l2})
=============================================================================
