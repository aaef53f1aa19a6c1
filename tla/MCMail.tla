------------------------------- MODULE MCMail -------------------------------
(* Instances of Mail for TLC: Bob is a user, typed in each of the ways a   *)
(* user can be typed; Dan is disabled; Eve is not a user.                  *)
EXTENDS Mail, TLC

CONSTANTS me, bob, dan, eve, ghost, junk,          \* usernames, addresses, others
          mebox, bobbox, danbox,                   \* name@dcalcon.private
          memail, bobmail, danmail,                \* the users' own addresses
          bobNamed, bobboxNamed                    \* "Bob <...>"

Me == [name |-> me, email |-> memail, box |-> mebox, active |-> TRUE]
Bob == [name |-> bob, email |-> bobmail, box |-> bobbox, active |-> TRUE]
Dan == [name |-> dan, email |-> danmail, box |-> danbox, active |-> FALSE]
MCUser == {Me, Bob, Dan}

MCUserOf == [i \in Ident |->
  CASE i \in {me, memail, mebox} -> Me [] i \in {bob, bobmail, bobbox} -> Bob
    [] i \in {dan, danmail, danbox} -> Dan [] OTHER -> None]
MCAddrOf == [i \in Ident |->
  CASE i = bobNamed -> bobmail [] i = bobboxNamed -> bobbox
    [] i \in {me, bob, dan, junk} -> None [] OTHER -> i]
MCInvitees == {<<bobmail, bob, bobNamed>>, <<bobNamed, ghost, bob>>, <<eve, dan, bobboxNamed, memail, bobbox>>}
MCMailbox == {<<"microsoft", memail>>, <<"google", eve>>, <<"smtp", eve>>}

(* What Accounted supposes.                                                *)
ASSUME FoundAssumption == FoundByAddress

(* Handlers are alike.                                                     *)
Symmetry == Permutations(Handler)
=============================================================================
