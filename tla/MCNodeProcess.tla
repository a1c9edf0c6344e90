---------------------------- MODULE MCNodeProcess ----------------------------
(***************************************************************************)
(* Instances of NodeProcess for TLC: two nodes, two databases, a service   *)
(* that is refused, and as service maps none at all, one service, and two  *)
(* of which one is refused.                                                *)
(***************************************************************************)
EXTENDS NodeProcess, TLC

CONSTANTS good, bad

FewMaps == {EmptyMap, [EmptyMap EXCEPT ![1] = good], [EmptyMap EXCEPT ![0] = good, ![1] = bad]}

=============================================================================
