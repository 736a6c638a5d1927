------------------------ MODULE MCCoalescingCache ------------------------
(***************************************************************************)
(* TLC instances of CoalescingCache.                                       *)
(***************************************************************************)
EXTENDS CoalescingCache
=============================================================================
