------------------------------ MODULE MCSignIn ------------------------------
(* Instances of SignIn for TLC: app passwords and handlers are alike.      *)
EXTENDS SignIn, TLC

Symmetry == Permutations(App) \cup Permutations(Handler)
=============================================================================
