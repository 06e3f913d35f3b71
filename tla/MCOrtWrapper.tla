---------------------------- MODULE MCOrtWrapper ----------------------------
(***************************************************************************)
(* OrtWrapper for TLC.  Which of its C++ objects a client uses for what    *)
(* does not matter; the addresses do matter, as the allocator reuses the   *)
(* lowest.                                                                 *)
(***************************************************************************)
EXTENDS OrtWrapper, TLC

ObjectSymmetry == Permutations(Objects)
=============================================================================
