------------------------- MODULE MCSessionRegistry -------------------------
(***************************************************************************)
(* Instances of SessionRegistry for TLC.  Requests, sessions and accounts  *)
(* are interchangeable model values.                                       *)
(***************************************************************************)
EXTENDS SessionRegistry, TLC

Symmetry == Permutations(Request) \cup Permutations(Session) \cup Permutations(Account)
=============================================================================
