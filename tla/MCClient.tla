------------------------------ MODULE MCClient ------------------------------
(***************************************************************************)
(* A small instance of Client.                                             *)
(***************************************************************************)
EXTENDS Client

\* Two boards of the same area, each of which exceeds the other in one direction.
TwoSizes == {<<1, 2>>, <<2, 1>>}
=============================================================================
