----------------------------- MODULE RateLimit -----------------------------
(***************************************************************************)
(* The failure counter of one key of the rate limiter of dCalCon.          *)
(*                                                                         *)
(* A failure is its time and the number of the request, so that two at the *)
(* same time count twice.  A key without a bucket is one with the empty    *)
(* bucket: no operation tells them apart.  The time 0 is Go's zero time.   *)
(***************************************************************************)
EXTENDS Naturals, FiniteSets

CONSTANTS
  Max,       \* so many failures ...
  Window,    \* ... within this time ...
  Lockout    \* ... lock the key for this long

(* New replaces what is not positive by the defaults.                      *)
ASSUME LimitAssumption ==
  /\ Max \in Nat \ {0} /\ Window \in Nat \ {0} /\ Lockout \in Nat \ {0}

Failure == [at : Nat, by : Nat]
Bucket == [fails : SUBSET Failure, until : Nat]

Empty == [fails |-> {}, until |-> 0]

prune(fails, now) == {f \in fails : f.at + Window > now}

Locked(b, now) == now < b.until

(* Mutant: a locked key is opened by the next attempt.                     *)
AllowForgets(b, now) == IF b.until # 0 THEN Empty ELSE [b EXCEPT !.fails = prune(@, now)]

(* What Allow leaves: a lock that is over takes the failures with it.      *)
Allow(b, now) ==
  IF Locked(b, now) THEN b
  ELSE IF b.until # 0 THEN Empty ELSE [b EXCEPT !.fails = prune(@, now)]

(* Mutant: the lock comes one failure too late.                            *)
FailLate(b, f) ==
  LET fails == prune(b.fails, f.at) \cup {f}
  IN  [fails |-> fails,
       until |-> IF Cardinality(fails) > Max THEN f.at + Lockout ELSE b.until]

(* What Fail leaves.                                                       *)
Fail(b, f) ==
  LET fails == prune(b.fails, f.at) \cup {f}
  IN  [fails |-> fails,
       until |-> IF Cardinality(fails) >= Max THEN f.at + Lockout ELSE b.until]

(* What gcLocked leaves.                                                   *)
Collected(b, now) ==
  IF Locked(b, now) THEN b
  ELSE IF prune(b.fails, now) = {} THEN Empty ELSE [b EXCEPT !.fails = prune(@, now)]
=============================================================================
