----------------------------- MODULE MCAccounts -----------------------------
(* Instances of Accounts for TLC: sessions, tokens and handlers are alike. *)
EXTENDS Accounts, TLC

Symmetry ==
  Permutations(Session) \cup Permutations(Token) \cup Permutations(Handler)
=============================================================================
