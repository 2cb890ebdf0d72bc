----------------------------- MODULE MCAccounts -----------------------------
(***************************************************************************)
(* A small instance of Accounts.  Connections, names and the passwords     *)
(* bcrypt takes are interchangeable.                                       *)
(***************************************************************************)
EXTENDS Accounts, TLC

CONSTANTS ann, bob, one, two, long, p1, p2

Symmetry ==
  Permutations(Players) \cup Permutations(Names) \cup Permutations(Passwords \ TooLong)
=============================================================================
