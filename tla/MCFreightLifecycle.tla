----------------------- MODULE MCFreightLifecycle -----------------------
(***************************************************************************)
(* TLC instances of FreightLifecycle.                                      *)
(***************************************************************************)
EXTENDS FreightLifecycle
=============================================================================
