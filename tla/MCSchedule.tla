----------------------------- MODULE MCSchedule -----------------------------
(* Instances of Schedule for TLC: attendees and handlers are alike.        *)
EXTENDS Schedule, TLC

Symmetry == Permutations(Attendee) \cup Permutations(Handler)
=============================================================================
