-------------------------- MODULE PromotionQueue --------------------------
(***************************************************************************)
(* What a Stage promises the Promotions queued for it: they start one at a *)
(* time and in the order of their names.  A Promotion may leave the queue  *)
(* without having started.                                                 *)
(***************************************************************************)
EXTENDS Naturals

CONSTANT N   \* number of Promotions

VARIABLE state   \* where each Promotion stands

QNames == 1 .. N
QStates == {"absent", "waiting", "running", "done"}

QTypeOK == state \in [QNames -> QStates]

QInit == state = [p \in QNames |-> "absent"]

Arrive(p) ==
    /\ state[p] = "absent"
    /\ state' = [state EXCEPT ![p] = "waiting"]

Start(p) ==
    /\ state[p] = "waiting"
    /\ \A q \in QNames : state[q] # "running"
    /\ \A q \in QNames : q < p => state[q] = "done"
    /\ state' = [state EXCEPT ![p] = "running"]

Finish(p) ==
    /\ state[p] = "running"
    /\ state' = [state EXCEPT ![p] = "done"]

Withdraw(p) ==
    /\ state[p] = "waiting"
    /\ state' = [state EXCEPT ![p] = "done"]

QNext == \E p \in QNames : Arrive(p) \/ Start(p) \/ Finish(p) \/ Withdraw(p)

QSpec == QInit /\ [][QNext]_state
=============================================================================
