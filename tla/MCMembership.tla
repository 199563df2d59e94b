---------------------------- MODULE MCMembership ----------------------------
(***************************************************************************)
(* Instances of Membership for TLC: four objects, one of them spelled in   *)
(* two ways, and attribute values that make chains, diamonds and cycles of *)
(* them.                                                                   *)
(***************************************************************************)
EXTENDS Membership

CONSTANTS a, b, c, d, B

MCKey == [n \in Dn |-> IF n = B THEN b ELSE n]
MCLists == {<<>>, <<a, b>>, <<c>>, <<B, d>>, <<c, a>>}
=============================================================================
