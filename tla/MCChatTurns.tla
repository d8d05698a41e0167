---------------------------- MODULE MCChatTurns ----------------------------
(***************************************************************************)
(* Instances of ChatTurns for TLC.  Requests are interchangeable model     *)
(* values.                                                                 *)
(***************************************************************************)
EXTENDS ChatTurns, TLC

Symmetry == Permutations(Req)
=============================================================================
