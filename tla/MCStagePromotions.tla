------------------------ MODULE MCStagePromotions ------------------------
(***************************************************************************)
(* TLC instances of StagePromotions.                                       *)
(***************************************************************************)
EXTENDS StagePromotions
=============================================================================
