------------------------- MODULE MCAutoPromotion -------------------------
(***************************************************************************)
(* TLC instances of AutoPromotion.                                         *)
(***************************************************************************)
EXTENDS AutoPromotion

\* Two Freight of the first origin, one of the second.
TwoAndOne == <<2, 1>>

\* The Stage runs Freight of the first origin; the second has been added to its spec.
FirstOnly == <<1, 0>>
=============================================================================
