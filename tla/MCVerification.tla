------------------------- MODULE MCVerification -------------------------
(***************************************************************************)
(* TLC instances of Verification.                                          *)
(***************************************************************************)
EXTENDS Verification
=============================================================================
