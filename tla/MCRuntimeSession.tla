-------------------------- MODULE MCRuntimeSession --------------------------
(***************************************************************************)
(* Instances of RuntimeSession for TLC.  The .cfg files give the           *)
(* submissions as model values.  Turns are interchangeable: the safety run *)
(* uses their permutations as symmetry.                                    *)
(***************************************************************************)
EXTENDS RuntimeSession, TLC

Symmetry == Permutations(Turn)
=============================================================================
