---------------------------- MODULE MCLifecycle ----------------------------
(* Instances of Lifecycle for TLC: two contacts whose UIDs make one name,  *)
(* and one kind of date.                                                   *)
EXTENDS Lifecycle, TLC

CONSTANTS c1, c2, u1, u2, n1, full

MCUidOf == (c1 :> u1) @@ (c2 :> u2)
MCNameOf == (u1 :> n1) @@ (u2 :> n1)
MCMonthDay == (full :> "0102")
=============================================================================
