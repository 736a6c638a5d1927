------------------------- MODULE FreightLifecycle -------------------------
(***************************************************************************)
(* What becomes of Freight: a Warehouse discovers it, a regular Stage runs *)
(* and verifies it, a control-flow Stage downstream passes it on once it   *)
(* has soaked upstream, and the garbage collector deletes it.              *)
(*                                                                         *)
(* All of this meets in the Freight's status: currentlyIn and verifiedIn   *)
(* of both Stages.  Its writers patch single keys and do not wait for one  *)
(* another; the control-flow Stage learns of changes from watch events.    *)
(*                                                                         *)
(* Freight is a number, in the order of discovery; 0 stands for none.      *)
(* Time is a number too, and passes in units that are long compared with   *)
(* the lag of an informer: readers see what the API server has.  The queue *)
(* of Promotions and verification are reduced to what matters here; they   *)
(* have modules of their own.                                              *)
(***************************************************************************)
EXTENDS Integers, FiniteSets

CONSTANTS
    NFreight,     \* bound: Freight discovered
    Required,     \* the downstream Stage's requiredSoakTime
    MaxRetained,  \* the garbage collector's MaxRetainedFreight
    MaxTime,      \* bound: time
    MaxFaults,    \* bound: passes that fail half-way
    MaxDeletes    \* bound: Stages deleted

Freight == 1 .. NFreight
NilOrFreight == 0 .. NFreight
Times == 1 .. MaxTime
NilOrTime == 0 .. MaxTime
Durations == 0 .. (MaxTime - 1)

ASSUME FreightLifecycleAssumption ==
    /\ NFreight \in Nat
    /\ Required \in Nat
    /\ MaxRetained \in Nat \ {0}
    /\ MaxTime \in Nat \ {0}
    /\ MaxFaults \in Nat
    /\ MaxDeletes \in Nat

VARIABLES
    now,       \* the time
    freight,   \* every Freight so far
    promo,     \* the Promotion of the regular Stage, if there is one
    up,        \* the regular Stage
    pass,      \* where the pass of its reconciler is
    outdated,  \* what the pass has yet to patch, as it is in the Stage no more
    down,      \* the control-flow Stage
    doomed,    \* what the garbage collector has decided to delete
    faults,    \* passes that have failed
    deletes,   \* Stages that have been deleted
    occupant   \* what runs where the regular Stage deploys, and since when

vars == <<now, freight, promo, up, pass, outdated, down, doomed, faults, deletes, occupant>>

FreightStatus == [
    state: {"absent", "live", "deleted"},
    since: NilOrTime,       \* status.currentlyIn[up]
    verified: BOOLEAN,      \* status.verifiedIn[up]
    soak: Durations,        \* its longestCompletedSoak
    passed: BOOLEAN]        \* status.verifiedIn[down]

Promotion == [
    at: {"none", "queued", "elected", "running", "Succeeded", "Failed"},
    freight: NilOrFreight]

RegularStage == [
    state: {"live", "deleting", "gone"},
    current: NilOrFreight,  \* freightHistory.Current()
    verification: {"none", "Running", "Successful", "Failed"},
    healthy: BOOLEAN]       \* an unknown health counts as healthy

ControlFlowStage == [
    state: {"live", "deleting", "gone"},
    queued: BOOLEAN]        \* a reconcile.Request is in its work queue

Occupant == [freight: NilOrFreight, since: NilOrTime]

TypeOK ==
    /\ now \in Times
    /\ freight \in [Freight -> FreightStatus]
    /\ promo \in Promotion
    /\ up \in RegularStage
    /\ pass \in {"idle", "listing Freight", "patching Freight", "verifying"}
    /\ outdated \subseteq Freight
    /\ down \in ControlFlowStage
    /\ doomed \subseteq Freight
    /\ faults \in 0 .. MaxFaults
    /\ deletes \in 0 .. MaxDeletes
    /\ occupant \in Occupant

NoFreight == [state |-> "absent", since |-> 0, verified |-> FALSE, soak |-> 0,
              passed |-> FALSE]
NoPromotion == [at |-> "none", freight |-> 0]
NewStage == [state |-> "live", current |-> 0, verification |-> "none", healthy |-> TRUE]

Init ==
    /\ now = 1
    /\ freight = [f \in Freight |-> NoFreight]
    /\ promo = NoPromotion
    /\ up = NewStage
    /\ pass = "idle"
    /\ outdated = {}
    /\ down = [state |-> "live", queued |-> TRUE]
    /\ doomed = {}
    /\ faults = 0
    /\ deletes = 0
    /\ occupant = [freight |-> 0, since |-> 0]

MaxOf(a, b) == IF a < b THEN b ELSE a

Live == {f \in Freight : freight[f].state = "live"}
Discovered == {f \in Freight : freight[f].state # "absent"}

\* GetLongestSoak
LongestSoak(f) ==
    IF ~freight[f].verified THEN 0
    ELSE MaxOf(freight[f].soak, IF freight[f].since = 0 THEN 0 ELSE now - freight[f].since)

\* IsFreightAvailable to the downstream Stage.
Available(f) == f \in Live /\ freight[f].verified /\ LongestSoak(f) >= Required

(***************************************************************************)
(* The Warehouse, and time                                                 *)
(***************************************************************************)
Discover ==
    /\ \E f \in Freight \ Discovered :
           /\ \A g \in Freight : g < f => g \in Discovered
           /\ freight' = [freight EXCEPT ![f].state = "live"]
    /\ UNCHANGED <<now, promo, up, pass, outdated, down, doomed, faults, deletes, occupant>>

\* A pass is short.
Tick ==
    /\ now < MaxTime /\ pass = "idle"
    /\ now' = now + 1
    /\ UNCHANGED <<freight, promo, up, pass, outdated, down, doomed, faults, deletes, occupant>>

(***************************************************************************)
(* Promotions to the regular Stage                                         *)
(***************************************************************************)
Promote(f) ==
    /\ promo.at = "none" /\ up.state = "live" /\ f \in Live
    /\ promo' = [at |-> "queued", freight |-> f]
    /\ UNCHANGED <<now, freight, up, pass, outdated, down, doomed, faults, deletes, occupant>>

\* promote gets the Freight first, and fails if it is not there.
BeginSteps ==
    /\ promo.at = "elected"
    /\ promo' = [promo EXCEPT !.at = IF promo.freight \in Live THEN "running" ELSE "Failed"]
    /\ UNCHANGED <<now, freight, up, pass, outdated, down, doomed, faults, deletes, occupant>>

EndSteps ==
    /\ promo.at = "running"
    /\ \E outcome \in {"Succeeded", "Failed"} : promo' = [promo EXCEPT !.at = outcome]
    /\ UNCHANGED <<now, freight, up, pass, outdated, down, doomed, faults, deletes, occupant>>

(***************************************************************************)
(* A pass of the regular Stage's reconciler: one action per sub-reconciler *)
(* that touches Freight                                                    *)
(***************************************************************************)

\* May the next Promotion start?
GateOpen ==
    \/ up.current = 0
    \/ up.verification \in {"Successful", "Failed"}
    \/ up.verification = "none" /\ ~up.healthy

\* Freight f takes the place of what ran before.  What a Stage deployed stays there
\* when the Stage is deleted.
Occupied(f) == IF f = occupant.freight THEN occupant ELSE [freight |-> f, since |-> now]

\* A success makes its Freight current, with no verification and unknown health even
\* if it was current before.
SyncPromotions ==
    /\ pass = "idle" /\ up.state = "live"
    /\ pass' = "listing Freight"
    /\ \/ /\ promo.at \in {"Succeeded", "Failed"}
          /\ promo' = NoPromotion
          /\ IF promo.at = "Succeeded"
             THEN /\ up' = [NewStage EXCEPT !.current = promo.freight]
                  /\ occupant' = Occupied(promo.freight)
             ELSE UNCHANGED <<up, occupant>>
       \/ /\ promo.at = "queued" /\ GateOpen
          /\ promo' = [promo EXCEPT !.at = "elected"]
          /\ UNCHANGED <<up, occupant>>
       \/ /\ promo.at \in {"none", "elected", "running"} \/ (promo.at = "queued" /\ ~GateOpen)
          /\ UNCHANGED <<promo, up, occupant>>
    /\ UNCHANGED <<now, freight, outdated, down, doomed, faults, deletes>>

\* downstreamStageEnqueuer: the control-flow Stage hears of Freight that is newly in
\* the Stage upstream or newly verified there.
Enqueued(news) == [down EXCEPT !.queued = @ \/ news]

\* RemoveCurrentStage: a soak is completed if the Freight has been verified.
RemoveCurrentStage(f) ==
    [freight[f] EXCEPT
        !.since = 0,
        !.soak = IF freight[f].verified THEN MaxOf(@, now - freight[f].since) ELSE @]

\* Mutant: Freight that is no longer in use is not looked for.
NothingOutdated == {}

\* Mutant: every other Freight is taken to have been in the Stage.
OutdatedOrNeverIn == Live \ {up.current}

\* What thinks it is in the Stage and is not.
Outdated == {f \in Live : freight[f].since # 0 /\ f # up.current}

\* syncFreight lists the Freight that thinks it is in the Stage ...
ListFreight ==
    /\ pass = "listing Freight"
    /\ pass' = "patching Freight"
    /\ outdated' = Outdated
    /\ UNCHANGED <<now, freight, promo, up, down, doomed, faults, deletes, occupant>>

\* ... patches what is outdated, one by one, with an error if it has been deleted
\* meanwhile ...
PatchOutdated(f) ==
    /\ pass = "patching Freight" /\ f \in outdated
    /\ \/ /\ f \in Live
          /\ freight' = [freight EXCEPT ![f] = RemoveCurrentStage(f)]
          /\ outdated' = outdated \ {f}
          /\ UNCHANGED pass
       \/ /\ f \notin Live
          /\ pass' = "idle"
          /\ outdated' = {}
          /\ UNCHANGED freight
    /\ UNCHANGED <<now, promo, up, down, doomed, faults, deletes, occupant>>

\* ... and then what the Stage runs: AddCurrentStage, or an error if that is gone.
PatchCurrent ==
    /\ pass = "patching Freight" /\ outdated = {}
    /\ IF up.current # 0 /\ up.current \notin Live
       THEN /\ pass' = "idle"
            /\ UNCHANGED <<freight, down>>
       ELSE LET added == up.current # 0 /\ freight[up.current].since = 0
            IN  /\ freight' = IF added THEN [freight EXCEPT ![up.current].since = now]
                              ELSE freight
                /\ pass' = "verifying"
                /\ down' = Enqueued(added /\ freight[up.current].verified)
    /\ UNCHANGED <<now, promo, up, outdated, doomed, faults, deletes, occupant>>

SyncFreight == ListFreight \/ (\E f \in Freight : PatchOutdated(f)) \/ PatchCurrent

\* Is there a currentPromotion?
Promoting == promo.at \in {"elected", "running", "Succeeded", "Failed"}

\* The verifications that may follow the one recorded.
Verdicts(healthy) ==
    CASE up.verification = "none" /\ healthy -> {"none", "Running", "Successful", "Failed"}
      [] up.verification = "Running" -> {"Running", "Successful", "Failed"}
      [] OTHER -> {up.verification}

\* assessHealth, verifyStageFreight and markFreightVerifiedForStage.  A Stage that is
\* promoting is unhealthy and verifies nothing.
VerifyFreight ==
    /\ pass = "verifying"
    /\ pass' = "idle"
    /\ \E healthy \in IF up.current = 0 THEN {TRUE} ELSE IF Promoting THEN {FALSE} ELSE BOOLEAN :
       \E verdict \in IF up.current = 0 \/ Promoting THEN {up.verification} ELSE Verdicts(healthy) :
           LET newly == /\ healthy /\ verdict = "Successful"
                        /\ up.current \in Live /\ ~freight[up.current].verified
           IN  /\ up' = [up EXCEPT !.healthy = healthy, !.verification = verdict]
               /\ freight' = IF newly THEN [freight EXCEPT ![up.current].verified = TRUE]
                             ELSE freight
               /\ down' = Enqueued(newly)
    /\ UNCHANGED <<now, promo, outdated, doomed, faults, deletes, occupant>>

\* An error, or a restart of the controller, half-way.
FailPass ==
    /\ pass # "idle"
    /\ faults < MaxFaults
    /\ faults' = faults + 1
    /\ pass' = "idle"
    /\ outdated' = {}
    /\ UNCHANGED <<now, freight, promo, up, down, doomed, deletes, occupant>>

\* handleDelete: verifications are cleared, currentlyIn is not.  The Promotions
\* belong to the Stage and go with it.
HandleDelete ==
    /\ pass = "idle" /\ up.state = "deleting"
    /\ freight' = [f \in Freight |-> [freight[f] EXCEPT !.verified = FALSE, !.soak = 0]]
    /\ up' = [NewStage EXCEPT !.state = "gone"]
    /\ promo' = NoPromotion
    /\ UNCHANGED <<now, pass, outdated, down, doomed, faults, deletes, occupant>>

(***************************************************************************)
(* The control-flow Stage: a pass for each watch event                     *)
(***************************************************************************)

\* markFreightVerifiedForStage
MarkPassed(f) == [freight[f] EXCEPT !.passed = TRUE]

\* Mutant: Freight that is still in use upstream is left out.
ReconcileControlFlowUnused ==
    /\ down.queued /\ down.state = "live"
    /\ down' = [down EXCEPT !.queued = FALSE]
    /\ freight' = [f \in Freight |->
           IF Available(f) /\ f # up.current THEN MarkPassed(f) ELSE freight[f]]
    /\ UNCHANGED <<now, promo, up, pass, outdated, doomed, faults, deletes, occupant>>

\* reconcile marks everything that is available as verified.
ReconcileControlFlow ==
    /\ down.queued /\ down.state = "live"
    /\ down' = [down EXCEPT !.queued = FALSE]
    /\ freight' = [f \in Freight |->
           IF Available(f) THEN MarkPassed(f) ELSE freight[f]]
    /\ UNCHANGED <<now, promo, up, pass, outdated, doomed, faults, deletes, occupant>>

HandleControlFlowDelete ==
    /\ down.state = "deleting"
    /\ down' = [state |-> "gone", queued |-> FALSE]
    /\ freight' = [f \in Freight |-> [freight[f] EXCEPT !.passed = FALSE]]
    /\ UNCHANGED <<now, promo, up, pass, outdated, doomed, faults, deletes, occupant>>

(***************************************************************************)
(* Users delete Stages and create them again                               *)
(***************************************************************************)
DeleteStage ==
    /\ deletes < MaxDeletes
    /\ deletes' = deletes + 1
    /\ \/ up.state = "live" /\ up' = [up EXCEPT !.state = "deleting"] /\ UNCHANGED down
       \/ down.state = "live" /\ down' = [down EXCEPT !.state = "deleting"] /\ UNCHANGED up
    /\ UNCHANGED <<now, freight, promo, pass, outdated, doomed, faults, occupant>>

CreateStage ==
    /\ \/ up.state = "gone" /\ up' = NewStage /\ UNCHANGED down
       \/ down.state = "gone" /\ down' = [state |-> "live", queued |-> TRUE] /\ UNCHANGED up
    /\ UNCHANGED <<now, freight, promo, pass, outdated, doomed, faults, deletes, occupant>>

(***************************************************************************)
(* The garbage collector                                                   *)
(***************************************************************************)

\* cleanWarehouseFreight: of the Freight older than everything in use, the newest
\* MaxRetained are kept.
Garbage ==
    LET kept == {f \in Live : up.current # 0 /\ up.current <= f}
    IN  {f \in Live \ kept :
            Cardinality({g \in Live : g > f}) >= Cardinality(kept) + MaxRetained}

ListGarbage ==
    /\ doomed = {} /\ Garbage # {}
    /\ doomed' = Garbage
    /\ UNCHANGED <<now, freight, promo, up, pass, outdated, down, faults, deletes, occupant>>

\* Mutant: deletion is not validated.
NotValidated(f) == TRUE

\* The webhook's ValidateDelete: the Freight is in use by no Stage.
ValidateDelete(f) == up.current # f

\* The deletion itself, some time later.
CollectFreight(f) ==
    /\ f \in doomed
    /\ doomed' = doomed \ {f}
    /\ freight' = IF ValidateDelete(f)
                  THEN [freight EXCEPT ![f] = [NoFreight EXCEPT !.state = "deleted"]]
                  ELSE freight
    /\ UNCHANGED <<now, promo, up, pass, outdated, down, faults, deletes, occupant>>

ReconcileRegular == SyncPromotions \/ SyncFreight \/ VerifyFreight \/ HandleDelete

Next ==
    \/ Discover \/ Tick
    \/ \E f \in Freight : Promote(f)
    \/ BeginSteps \/ EndSteps
    \/ ReconcileRegular \/ FailPass
    \/ ReconcileControlFlow \/ HandleControlFlowDelete
    \/ DeleteStage \/ CreateStage
    \/ ListGarbage
    \/ \E f \in Freight : CollectFreight(f)

(***************************************************************************)
(* Regular Stages are reconciled again and again, control-flow Stages only *)
(* when they have been enqueued.  Promotions end.                          *)
(***************************************************************************)
Fairness ==
    /\ WF_vars(ReconcileRegular)
    /\ WF_vars(ReconcileControlFlow \/ HandleControlFlowDelete)
    /\ WF_vars(BeginSteps \/ EndSteps)

Spec == Init /\ [][Next]_vars /\ Fairness

(***************************************************************************)
(* Properties                                                              *)
(***************************************************************************)

\* The soak time of what a Stage runs is never counted from before it was put there,
\* by whatever detours it returned (syncFreight: "Any inaccuracy in the timestamp only
\* means the Freight has actually "soaked" LONGER than what we calculate").
SoakNotOverstated ==
    occupant.freight # 0 /\ freight[occupant.freight].since # 0
        => freight[occupant.freight].since >= occupant.since

\* The Freight a Stage runs exists (ValidateDelete: "freight is in-use by stages").
\* Otherwise syncFreight fails in every pass, the Freight is never verified and the
\* gate of syncPromotions stays closed for good.
InUseExists == up.current # 0 => up.current \in Live

\* Freight a Stage has begun to verify is not collected, however long ago it was
\* found to be garbage: if Freight goes missing under a Stage, it did so before the
\* first pass of syncFreight that was to find it there (cleanWarehouseFreight,
\* ValidateDelete).
VerifiedExists == up.verification # "none" => up.current \in Live

\* Freight that has become available to the control-flow Stage is passed on, unless
\* it ceases to be available (reconcile: "verifies the (newly) available Freight").
PassedOn ==
    \A f \in Freight :
        Available(f) ~> (freight[f].passed \/ ~Available(f) \/ down.state # "live")
=============================================================================
