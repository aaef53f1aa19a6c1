---------------------------- MODULE MCUserBackup ----------------------------
(* Instances of UserBackup for TLC: two objects, two files of one and of   *)
(* two units, and room for two units on an object; an event whose text is  *)
(* too long for an archive.                                                *)
EXTENDS UserBackup, TLC

CONSTANTS h1, h2, u1, u2, u3, small, large, s1, s2

MCHrefOf == (u1 :> h1) @@ (u2 :> h2) @@ (u3 :> h2)
MCSize == (small :> 1) @@ (large :> 2)
MCSegmentOf == (h1 :> s1) @@ (h2 :> s2)

(* The account makes no difference to an archive without it, nor does     *)
(* what it was before the first full export to what happens later: those   *)
(* states are not explored.                                                *)
Full(a) == a \notin {None, NoBuild} /\ a.kind = "full"
Bound ==
  \/ Full(archive) \/ Full(build)
  \/ /\ account = [email |-> CHOOSE e \in Email : TRUE, password |-> 0, tokens |-> 0, shares |-> {}]
     /\ others = {}
=============================================================================
