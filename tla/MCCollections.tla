--------------------------- MODULE MCCollections ---------------------------
(* Instances of Collections for TLC: requests are alike.                   *)
EXTENDS Collections, TLC

Symmetry == Permutations(Handler)
=============================================================================
