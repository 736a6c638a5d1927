----------------------- MODULE FreightLifecycleProofs -----------------------
(***************************************************************************)
(* Proofs about FreightLifecycle, for any number of Freight, any soak      *)
(* time, any retention, any length of time and any number of deleted       *)
(* Stages.                                                                 *)
(***************************************************************************)
EXTENDS FreightLifecycle, FiniteSetTheorems, TLAPS

(***************************************************************************)
(* The inductive invariants                                                *)
(***************************************************************************)

\* No Freight has been in the Stage since a time to come, and what the pass has
\* listed as outdated claims to be in the Stage as long as it exists.
ClockInv ==
    /\ \A f \in Freight : freight[f].since <= now
    /\ occupant.since <= now
    /\ \A f \in outdated : /\ freight[f].state # "absent"
                           /\ f \in Live => freight[f].since # 0

\* What is being verified exists, from the moment syncFreight has found it.
VerifyInv ==
    /\ VerifiedExists
    /\ pass = "verifying" /\ up.current # 0 => up.current \in Live

\* Only what the Stage runs claims to be in it.
Clean == \A f \in Freight : freight[f].since # 0 => f = occupant.freight

\* At most one Freight claims to be in the Stage, and it exists: syncFreight puts none
\* there before it has removed the others.
OneIn ==
    /\ \A f \in Freight : freight[f].since # 0 => f \in Live
    /\ \A f, g \in Freight : freight[f].since # 0 /\ freight[g].since # 0 => f = g

\* What the pass has listed as outdated is the one that claims to be in the Stage, if
\* that is not what the Stage runs.
ListInv ==
    pass = "patching Freight" =>
        /\ \A f \in Freight : freight[f].since # 0 => f \in outdated \cup {up.current}
        /\ \A f \in outdated, g \in Freight : freight[g].since # 0 => g = f

Syncing == pass \in {"listing Freight", "patching Freight"}

\* Between the pass that replays a success, which leaves the Freight it replaces
\* behind, and the pass that replays the next one lies the pass that elects the
\* next Promotion.  One of these has to get to the end of syncFreight, or to find
\* that what it should remove has been deleted.
SoakInv ==
    /\ up.current # 0 => occupant.freight = up.current
    /\ up.state = "gone" => up.current = 0
    /\ OneIn
    /\ ListInv
    /\ faults = 0 /\ (~Syncing \/ Promoting) => Clean
    /\ Promoting /\ ~Syncing => Clean
    /\ SoakNotOverstated

(***************************************************************************)
(* What the actions do to Freight                                          *)
(***************************************************************************)

\* Times are natural numbers.
LEMMA Clock ==
    /\ MaxTime \in Nat
    /\ 0 \in NilOrTime /\ 0 \in Durations
    /\ \A t \in Times : t \in Nat /\ t >= 1 /\ t <= MaxTime /\ t \in NilOrTime
    /\ \A t \in NilOrTime \cup Durations : t \in Nat
<1>1. MaxTime \in Nat /\ MaxTime # 0
  BY FreightLifecycleAssumption
<1> QED
  BY <1>1 DEF NilOrTime, Durations, Times

\* The fields of well-formed Freight.
LEMMA StatusFields ==
    ASSUME TypeOK, NEW f \in Freight
    PROVE  /\ freight[f] \in FreightStatus
           /\ freight[f].since \in NilOrTime /\ freight[f].since \in Nat
           /\ freight[f].soak \in Durations
           /\ now \in Times
<1>1. freight[f] \in FreightStatus /\ now \in Times
  BY DEF TypeOK
<1>2. freight[f].since \in NilOrTime /\ freight[f].soak \in Durations
  BY <1>1 DEF FreightStatus
<1> QED
  BY <1>1, <1>2, Clock

\* RemoveCurrentStage completes a soak of non-negative length.
LEMMA RemovedType ==
    ASSUME TypeOK, ClockInv, NEW f \in Freight, freight[f].since # 0
    PROVE  /\ RemoveCurrentStage(f) \in FreightStatus
           /\ RemoveCurrentStage(f).since = 0
           /\ RemoveCurrentStage(f).state = freight[f].state
<1>1. /\ freight[f] \in FreightStatus
      /\ freight[f].since \in Nat /\ freight[f].since <= now
      /\ freight[f].soak \in Durations
  BY StatusFields DEF ClockInv
<1>2. now \in Nat /\ now <= MaxTime /\ MaxTime \in Nat
  BY StatusFields, Clock
<1>3. now - freight[f].since \in Durations
  BY <1>1, <1>2 DEF Durations
<1>4. MaxOf(freight[f].soak, now - freight[f].since) \in Durations
  BY <1>1, <1>3 DEF MaxOf
<1>5. 0 \in NilOrTime
  BY Clock
<1> QED
  BY <1>1, <1>4, <1>5 DEF RemoveCurrentStage, FreightStatus

\* A patch of outdated Freight, or the error that it is gone.
LEMMA OutdatedPatched ==
    ASSUME TypeOK, ClockInv, NEW f \in Freight, PatchOutdated(f), f \in Live => freight[f].since # 0
    PROVE  /\ freight' \in [Freight -> FreightStatus]
           /\ \A g \in Freight :
                  /\ freight'[g].state = freight[g].state
                  /\ g # f => freight'[g] = freight[g]
           /\ f \in Live => freight'[f].since = 0
           /\ f \notin Live => freight' = freight
<1>1. CASE f \in Live
  <2>1. freight' = [freight EXCEPT ![f] = RemoveCurrentStage(f)]
    BY <1>1 DEF PatchOutdated
  <2>2. /\ RemoveCurrentStage(f) \in FreightStatus
        /\ RemoveCurrentStage(f).since = 0
        /\ RemoveCurrentStage(f).state = freight[f].state
    BY <1>1, RemovedType
  <2> QED
    BY <1>1, <2>1, <2>2 DEF TypeOK
<1>2. CASE f \notin Live
  <2>1. freight' = freight
    BY <1>2 DEF PatchOutdated
  <2> QED
    BY <1>2, <2>1 DEF TypeOK
<1> QED
  BY <1>1, <1>2

\* The patch of what the Stage runs.
LEMMA CurrentPatched ==
    ASSUME TypeOK, PatchCurrent
    PROVE  /\ freight' \in [Freight -> FreightStatus]
           /\ \A f \in Freight :
                  /\ freight'[f].state = freight[f].state
                  /\ f # up.current => freight'[f] = freight[f]
                  /\ freight'[f].since \in {freight[f].since, now}
           /\ pass' = "verifying" /\ up.current # 0 => up.current \in Live
           /\ freight' = freight \/ up.current \in Live
<1>1. \/ freight' = freight
      \/ up.current \in Live /\ freight' = [freight EXCEPT ![up.current].since = now]
  BY DEF PatchCurrent
<1>2. pass' = "verifying" /\ up.current # 0 => up.current \in Live
  BY DEF PatchCurrent
<1>3. CASE freight' = freight
  BY <1>2, <1>3 DEF TypeOK
<1>4. CASE up.current \in Live /\ freight' = [freight EXCEPT ![up.current].since = now]
  <2> DEFINE c == up.current
             new == [freight[c] EXCEPT !.since = now]
  <2>1. c \in Freight /\ freight[c] \in FreightStatus /\ now \in NilOrTime
    BY <1>4, StatusFields, Clock DEF Live
  <2>2. new \in FreightStatus /\ new.since = now /\ new.state = freight[c].state
    BY <2>1 DEF FreightStatus
  <2>3. freight' = [f \in Freight |-> IF f = c THEN new ELSE freight[f]]
    BY <1>4, <2>1 DEF TypeOK
  <2> HIDE DEF new, c
  <2>4. freight' \in [Freight -> FreightStatus] /\ freight'[c] = new
        /\ \A f \in Freight : f # c => freight'[f] = freight[f]
    BY <2>1, <2>2, <2>3 DEF TypeOK
  <2> QED
    BY <1>2, <1>4, <2>1, <2>2, <2>4 DEF c
<1> QED
  BY <1>1, <1>3, <1>4

\* The other actions keep Freight well formed and where it is, except for what the
\* garbage collector deletes.
Preserved ==
    /\ freight' \in [Freight -> FreightStatus]
    /\ \A f \in Freight :
           /\ freight'[f].since = freight[f].since
           /\ freight[f].state # "absent" => freight'[f].state = freight[f].state

\* Discovery: a Warehouse creates Freight.
LEMMA DiscoverPreserves ==
    ASSUME TypeOK, Discover
    PROVE  Preserved
<1>1. PICK n \in Freight \ Discovered : freight' = [freight EXCEPT ![n].state = "live"]
  BY DEF Discover
<1>2. n \in Freight /\ freight[n].state = "absent"
  BY <1>1 DEF Discovered
<1>3. [freight[n] EXCEPT !.state = "live"] \in FreightStatus
      /\ [freight[n] EXCEPT !.state = "live"].since = freight[n].since
  BY <1>2, StatusFields DEF FreightStatus
<1>4. freight' = [f \in Freight |-> IF f = n THEN [freight[n] EXCEPT !.state = "live"]
                                    ELSE freight[f]]
  BY <1>1 DEF TypeOK
<1> QED
  BY <1>2, <1>3, <1>4 DEF TypeOK, Preserved

\* markFreightVerifiedForStage of the regular Stage.
LEMMA VerifyPreserves ==
    ASSUME TypeOK, VerifyFreight
    PROVE  Preserved
<1>1. \/ freight' = freight
      \/ up.current \in Freight /\ freight' = [freight EXCEPT ![up.current].verified = TRUE]
  BY DEF VerifyFreight, Live
<1>2. CASE freight' = freight
  BY <1>2 DEF TypeOK, Preserved
<1>3. CASE up.current \in Freight /\ freight' = [freight EXCEPT ![up.current].verified = TRUE]
  <2> DEFINE c == up.current
             new == [freight[c] EXCEPT !.verified = TRUE]
  <2>1. c \in Freight /\ new \in FreightStatus
        /\ new.since = freight[c].since /\ new.state = freight[c].state
    BY <1>3, StatusFields DEF FreightStatus
  <2>2. freight' = [f \in Freight |-> IF f = c THEN new ELSE freight[f]]
    BY <1>3 DEF TypeOK
  <2> HIDE DEF new, c
  <2> QED
    BY <2>1, <2>2 DEF TypeOK, Preserved
<1> QED
  BY <1>1, <1>2, <1>3

\* Deleting Stages, and the control-flow Stage, change every Freight alike.
LEMMA StagesPreserve ==
    ASSUME TypeOK, HandleDelete \/ ReconcileControlFlow \/ HandleControlFlowDelete
    PROVE  Preserved
<1>1. ASSUME NEW f \in Freight
      PROVE  /\ freight'[f] \in FreightStatus
             /\ freight'[f].since = freight[f].since
             /\ freight'[f].state = freight[f].state
  <2>1. /\ freight[f] \in FreightStatus
        /\ 0 \in Durations
    BY StatusFields, Clock
  <2>2. CASE HandleDelete
    <3>1. freight'[f] = [freight[f] EXCEPT !.verified = FALSE, !.soak = 0]
      BY <2>2 DEF HandleDelete
    <3> QED
      BY <2>1, <3>1 DEF FreightStatus
  <2>3. CASE ReconcileControlFlow
    <3>1. freight'[f] = IF Available(f) THEN MarkPassed(f) ELSE freight[f]
      BY <2>3 DEF ReconcileControlFlow
    <3> QED
      BY <2>1, <3>1 DEF FreightStatus, MarkPassed
  <2>4. CASE HandleControlFlowDelete
    <3>1. freight'[f] = [freight[f] EXCEPT !.passed = FALSE]
      BY <2>4 DEF HandleControlFlowDelete
    <3> QED
      BY <2>1, <3>1 DEF FreightStatus
  <2> QED
    BY <2>2, <2>3, <2>4
<1>2. freight' = [f \in Freight |-> freight'[f]]
  BY DEF HandleDelete, ReconcileControlFlow, HandleControlFlowDelete
<1>3. freight' \in [Freight -> FreightStatus]
  BY <1>1, <1>2
<1> QED
  BY <1>1, <1>3 DEF Preserved

\* Deletion by the garbage collector.
LEMMA CollectType ==
    ASSUME TypeOK, NEW f \in Freight, CollectFreight(f)
    PROVE  /\ freight' \in [Freight -> FreightStatus]
           /\ \A g \in Freight :
                  /\ g # f \/ up.current = f => freight'[g] = freight[g]
                  /\ \/ freight'[g] = freight[g]
                     \/ freight'[g].state = "deleted" /\ freight'[g].since = 0
<1>1. CASE up.current = f
  <2>1. freight' = freight
    BY <1>1 DEF CollectFreight, ValidateDelete
  <2> QED
    BY <2>1 DEF TypeOK
<1>2. CASE up.current # f
  <2> DEFINE new == [NoFreight EXCEPT !.state = "deleted"]
  <2>1. freight' = [freight EXCEPT ![f] = new]
    BY <1>2 DEF CollectFreight, ValidateDelete
  <2>2. new \in FreightStatus /\ new.since = 0 /\ new.state = "deleted"
    BY Clock DEF NoFreight, FreightStatus
  <2> HIDE DEF new
  <2> QED
    BY <1>2, <2>1, <2>2 DEF TypeOK
<1> QED
  BY <1>1, <1>2

(***************************************************************************)
(* Types and the clock                                                     *)
(***************************************************************************)

\* An action that puts Freight into the Stage now, if at all, and takes none out that
\* is still listed as outdated, keeps the clock in order.
LEMMA ClockStep ==
    ASSUME TypeOK, ClockInv, UNCHANGED <<now, occupant>>,
           \A f \in Freight : freight'[f].since \in {0, freight[f].since, now},
           outdated' \subseteq outdated,
           \A f \in outdated' : /\ freight'[f].state # "absent"
                                /\ f \in Live' => f \in Live /\ freight'[f].since = freight[f].since
    PROVE  ClockInv'
<1>1. now \in Nat
  BY Clock DEF TypeOK
<1> QED
  BY <1>1 DEF ClockInv

\* What an action preserves is in order.
LEMMA PreservedClock ==
    ASSUME TypeOK, ClockInv, UNCHANGED <<now, occupant, outdated>>, Preserved
    PROVE  ClockInv'
<1>1. \A f \in outdated : f \in Freight /\ freight[f].state # "absent"
  BY DEF TypeOK, ClockInv
<1>2. \A f \in outdated : /\ freight'[f].state # "absent"
                          /\ f \in Live' => f \in Live /\ freight'[f].since = freight[f].since
  BY <1>1 DEF Preserved, Live
<1>3. \A f \in Freight : freight'[f].since \in {0, freight[f].since, now}
  BY DEF Preserved
<1> QED
  BY <1>2, <1>3, ClockStep

\* The current Freight is some Freight, or none.
LEMMA CurrentType ==
    ASSUME TypeOK
    PROVE  /\ up.current \in NilOrFreight /\ promo.freight \in NilOrFreight
           /\ 0 \in NilOrFreight
           /\ Freight \subseteq NilOrFreight
           /\ up.current # 0 => up.current \in Freight
<1>1. up.current \in NilOrFreight /\ promo.freight \in NilOrFreight
  BY DEF TypeOK, RegularStage, Promotion
<1>2. NFreight \in Nat
  BY FreightLifecycleAssumption
<1> QED
  BY <1>1, <1>2 DEF NilOrFreight, Freight

\* Every step keeps the types and the clock in order.
LEMMA TypeStep == TypeOK /\ ClockInv /\ [Next]_vars => TypeOK' /\ ClockInv'
<1> SUFFICES ASSUME TypeOK, ClockInv, [Next]_vars PROVE TypeOK' /\ ClockInv'
  OBVIOUS
<1>0. /\ 0 \in NilOrFreight /\ Freight \subseteq NilOrFreight
      /\ up.current \in NilOrFreight /\ promo.freight \in NilOrFreight
  BY CurrentType
<1>1. CASE Discover
  <2>1. Preserved
    BY <1>1, DiscoverPreserves
  <2>2. TypeOK'
    BY <1>1, <2>1 DEF Discover, Preserved, TypeOK
  <2> QED
    BY <1>1, <2>1, <2>2, PreservedClock DEF Discover
<1>2. CASE Tick
  <2>1. now' = now + 1 /\ now < MaxTime /\ now \in Nat /\ now >= 1 /\ MaxTime \in Nat
    BY <1>2, Clock DEF Tick, TypeOK
  <2>2. now' \in Times
    BY <2>1 DEF Times
  <2>3. TypeOK'
    BY <1>2, <2>2 DEF Tick, TypeOK
  <2>4. \A f \in Freight : freight[f].since \in Nat
    BY StatusFields
  <2>5. occupant.since \in Nat
    BY Clock DEF TypeOK, Occupant
  <2> QED
    BY <1>2, <2>1, <2>3, <2>4, <2>5 DEF Tick, ClockInv, Live
<1>3. ASSUME NEW f \in Freight, Promote(f) PROVE TypeOK' /\ ClockInv'
  BY <1>0, <1>3 DEF Promote, TypeOK, Promotion, ClockInv, Live
<1>4. CASE BeginSteps
  BY <1>4 DEF BeginSteps, TypeOK, Promotion, ClockInv, Live
<1>5. CASE EndSteps
  BY <1>5 DEF EndSteps, TypeOK, Promotion, ClockInv, Live
<1>6. CASE SyncPromotions
  <2>1. NoPromotion \in Promotion /\ [promo EXCEPT !.at = "elected"] \in Promotion
    BY <1>0 DEF NoPromotion, Promotion, TypeOK
  <2>2. [NewStage EXCEPT !.current = promo.freight] \in RegularStage
    BY <1>0 DEF NewStage, RegularStage
  <2>3. Occupied(promo.freight) \in Occupant /\ Occupied(promo.freight).since <= now
    <3>1. now \in NilOrTime /\ now \in Nat
      BY Clock DEF TypeOK
    <3> QED
      <4>1. occupant \in Occupant /\ occupant.since <= now
        BY DEF TypeOK, ClockInv
      <4>2. [freight |-> promo.freight, since |-> now] \in Occupant
        BY <1>0, <3>1 DEF Occupant
      <4> QED
        BY <3>1, <4>1, <4>2 DEF Occupied
  <2>4. /\ promo' \in {promo, NoPromotion, [promo EXCEPT !.at = "elected"]}
        /\ up' \in {up, [NewStage EXCEPT !.current = promo.freight]}
        /\ occupant' \in {occupant, Occupied(promo.freight)}
        /\ pass' = "listing Freight"
        /\ UNCHANGED <<now, freight, outdated, down, doomed, faults, deletes>>
    BY <1>6 DEF SyncPromotions
  <2>5. TypeOK'
    BY <2>1, <2>2, <2>3, <2>4 DEF TypeOK
  <2> QED
    BY <2>3, <2>4, <2>5 DEF ClockInv, Live
<1>7. CASE ListFreight
  <2>1. outdated' = Outdated /\ pass' = "patching Freight"
        /\ UNCHANGED <<now, freight, promo, up, down, doomed, faults, deletes, occupant>>
    BY <1>7 DEF ListFreight
  <2>2. TypeOK'
    BY <2>1 DEF TypeOK, Outdated, Live
  <2> QED
    BY <2>1, <2>2 DEF ClockInv, Outdated, Live
<1>18. ASSUME NEW f \in Freight, PatchOutdated(f) PROVE TypeOK' /\ ClockInv'
  <2>1. /\ f \in outdated /\ outdated' \in {outdated \ {f}, {}}
        /\ pass' \in {"patching Freight", "idle"}
        /\ UNCHANGED <<now, promo, up, down, doomed, faults, deletes, occupant>>
    BY <1>18 DEF PatchOutdated
  <2>2. f \in Live => freight[f].since # 0
    BY <2>1 DEF ClockInv
  <2>3. /\ freight' \in [Freight -> FreightStatus]
        /\ \A g \in Freight :
               /\ freight'[g].state = freight[g].state
               /\ g # f => freight'[g] = freight[g]
        /\ f \in Live => freight'[f].since = 0
        /\ f \notin Live => freight' = freight
    BY <1>18, <2>2, OutdatedPatched
  <2>4. TypeOK'
    BY <2>1, <2>3 DEF TypeOK
  <2>5. \A g \in outdated' : g \in Freight /\ g # f /\ g \in outdated
    BY <2>1 DEF TypeOK
  <2>6. \A g \in outdated' : /\ freight'[g].state # "absent"
                             /\ g \in Live' => g \in Live /\ freight'[g].since = freight[g].since
    BY <2>3, <2>5 DEF ClockInv, Live
  <2>7. \A g \in Freight : freight'[g].since \in {0, freight[g].since, now}
    BY <2>3
  <2> QED
    BY <2>1, <2>4, <2>5, <2>6, <2>7, ClockStep
<1>19. CASE PatchCurrent
  <2>1. /\ freight' \in [Freight -> FreightStatus]
        /\ \A f \in Freight : freight'[f].since \in {0, freight[f].since, now}
    BY <1>19, CurrentPatched
  <2>2. down' \in ControlFlowStage
    BY <1>19 DEF PatchCurrent, Enqueued, ControlFlowStage, TypeOK
  <2>3. outdated = {} /\ outdated' = outdated /\ pass' \in {"verifying", "idle"}
        /\ UNCHANGED <<now, promo, up, doomed, faults, deletes, occupant>>
    BY <1>19 DEF PatchCurrent
  <2>4. TypeOK'
    BY <2>1, <2>2, <2>3 DEF TypeOK
  <2> QED
    BY <2>1, <2>3, <2>4, ClockStep
<1>8. CASE VerifyFreight
  <2>1. Preserved
    BY <1>8, VerifyPreserves
  <2>2. up' \in RegularStage
    <3>1. PICK healthy \in BOOLEAN, verdict \in {"none", "Running", "Successful", "Failed"} :
              up' = [up EXCEPT !.healthy = healthy, !.verification = verdict]
      <4>1. up.verification \in {"none", "Running", "Successful", "Failed"}
        BY DEF TypeOK, RegularStage
      <4>2. \A healthy \in BOOLEAN :
                Verdicts(healthy) \subseteq {"none", "Running", "Successful", "Failed"}
        BY <4>1 DEF Verdicts
      <4> QED
        BY <1>8, <4>1, <4>2 DEF VerifyFreight
    <3> QED
      BY <3>1 DEF TypeOK, RegularStage
  <2>3. down' \in ControlFlowStage
    BY <1>8 DEF VerifyFreight, Enqueued, ControlFlowStage, TypeOK
  <2>4. pass' = "idle" /\ UNCHANGED <<now, promo, outdated, doomed, faults, deletes, occupant>>
    BY <1>8 DEF VerifyFreight
  <2>5. TypeOK'
    BY <2>1, <2>2, <2>3, <2>4 DEF Preserved, TypeOK
  <2> QED
    BY <2>1, <2>4, <2>5, PreservedClock
<1>9. CASE HandleDelete
  <2>1. Preserved
    BY <1>9, StagesPreserve
  <2>2. NoPromotion \in Promotion /\ [NewStage EXCEPT !.state = "gone"] \in RegularStage
    BY <1>0 DEF NoPromotion, Promotion, NewStage, RegularStage
  <2>3. TypeOK'
    BY <1>9, <2>1, <2>2 DEF HandleDelete, Preserved, TypeOK
  <2> QED
    BY <1>9, <2>1, <2>3, PreservedClock DEF HandleDelete
<1>10. CASE FailPass
  <2>1. faults' \in 0 .. MaxFaults
    <3>1. faults \in 0 .. MaxFaults /\ faults < MaxFaults /\ faults' = faults + 1
      BY <1>10 DEF FailPass, TypeOK
    <3>2. MaxFaults \in Nat
      BY FreightLifecycleAssumption
    <3> QED
      BY <3>1, <3>2
  <2> QED
    BY <1>10, <2>1 DEF FailPass, TypeOK, ClockInv
<1>11. CASE ReconcileControlFlow
  <2>1. Preserved
    BY <1>11, StagesPreserve
  <2>2. TypeOK'
    BY <1>11, <2>1 DEF ReconcileControlFlow, Preserved, TypeOK, ControlFlowStage
  <2> QED
    BY <1>11, <2>1, <2>2, PreservedClock DEF ReconcileControlFlow
<1>12. CASE HandleControlFlowDelete
  <2>1. Preserved
    BY <1>12, StagesPreserve
  <2>2. TypeOK'
    BY <1>12, <2>1 DEF HandleControlFlowDelete, Preserved, TypeOK, ControlFlowStage
  <2> QED
    BY <1>12, <2>1, <2>2, PreservedClock DEF HandleControlFlowDelete
<1>13. CASE DeleteStage
  <2>1. deletes' \in 0 .. MaxDeletes
    <3>1. deletes \in 0 .. MaxDeletes /\ deletes < MaxDeletes /\ deletes' = deletes + 1
      BY <1>13 DEF DeleteStage, TypeOK
    <3>2. MaxDeletes \in Nat
      BY FreightLifecycleAssumption
    <3> QED
      BY <3>1, <3>2
  <2>2. up' \in RegularStage /\ down' \in ControlFlowStage
    BY <1>13 DEF DeleteStage, TypeOK, RegularStage, ControlFlowStage
  <2> QED
    BY <1>13, <2>1, <2>2 DEF DeleteStage, TypeOK, ClockInv, Live
<1>14. CASE CreateStage
  <2>1. up' \in RegularStage /\ down' \in ControlFlowStage
    <3>1. NewStage \in RegularStage /\ [state |-> "live", queued |-> TRUE] \in ControlFlowStage
      BY <1>0 DEF NewStage, RegularStage, ControlFlowStage
    <3> QED
      BY <1>14, <3>1 DEF CreateStage, TypeOK
  <2> QED
    BY <1>14, <2>1 DEF CreateStage, TypeOK, ClockInv, Live
<1>15. CASE ListGarbage
  <2>1. doomed' \subseteq Freight
    BY <1>15 DEF ListGarbage, Garbage, Live
  <2> QED
    BY <1>15, <2>1 DEF ListGarbage, TypeOK, ClockInv, Live
<1>16. ASSUME NEW f \in Freight, CollectFreight(f) PROVE TypeOK' /\ ClockInv'
  <2>1. /\ freight' \in [Freight -> FreightStatus]
        /\ \A g \in Freight : freight'[g].since \in {0, freight[g].since, now}
    BY <1>16, CollectType
  <2>2. TypeOK'
    BY <1>16, <2>1 DEF CollectFreight, TypeOK
  <2>3. UNCHANGED <<now, occupant, outdated>>
    BY <1>16 DEF CollectFreight
  <2>4. \A g \in outdated : /\ freight'[g].state # "absent"
                            /\ g \in Live' => g \in Live /\ freight'[g].since = freight[g].since
    <3>1. \A g \in outdated : g \in Freight /\ freight[g].state # "absent"
      BY DEF TypeOK, ClockInv
    <3> QED
      BY <1>16, <3>1, CollectType DEF Live
  <2> QED
    BY <2>1, <2>2, <2>3, <2>4, ClockStep
<1>17. CASE UNCHANGED vars
  BY <1>17 DEF vars, TypeOK, ClockInv, Live
<1> QED
  BY <1>1, <1>2, <1>3, <1>4, <1>5, <1>6, <1>7, <1>8, <1>9, <1>10, <1>11, <1>12, <1>13, <1>14,
     <1>15, <1>16, <1>17, <1>18, <1>19 DEF Next, ReconcileRegular, SyncFreight

\* The initial state is well typed.
LEMMA TypeInit == Init => TypeOK /\ ClockInv
<1> SUFFICES ASSUME Init PROVE TypeOK /\ ClockInv
  OBVIOUS
<1>1. 1 \in Times /\ 0 \in 0 .. MaxFaults /\ 0 \in 0 .. MaxDeletes /\ 0 \in NilOrFreight
  <2>1. MaxTime \in Nat /\ MaxTime # 0 /\ MaxFaults \in Nat /\ MaxDeletes \in Nat /\ NFreight \in Nat
    BY FreightLifecycleAssumption
  <2> QED
    BY <2>1 DEF Times, NilOrFreight
<1>2. NoFreight \in FreightStatus /\ NoFreight.since = 0
  BY Clock DEF NoFreight, FreightStatus
<1>3. /\ NoPromotion \in Promotion
      /\ NewStage \in RegularStage
      /\ down \in ControlFlowStage
      /\ occupant \in Occupant /\ occupant.since = 0
  BY <1>1, Clock
     DEF Init, NoPromotion, Promotion, NewStage, RegularStage, ControlFlowStage, Occupant
<1>4. TypeOK
  BY <1>1, <1>2, <1>3 DEF Init, TypeOK
<1> QED
  BY <1>2, <1>3, <1>4 DEF Init, ClockInv

\* Types, and the clock, are always in order.
THEOREM AlwaysClockInv == Spec => [](TypeOK /\ ClockInv)
<1> QED
  BY TypeInit, TypeStep, PTL DEF Spec

\* Type correctness of the Freight model: in particular no soak has a negative
\* length or one that exceeds the time that has passed.
THEOREM TypeCorrect == Spec => []TypeOK
<1> QED
  BY AlwaysClockInv, PTL

(***************************************************************************)
(* Freight that is being verified exists                                   *)
(***************************************************************************)

\* What is preserved lives on.
LEMMA LivesOn ==
    ASSUME Preserved
    PROVE  Live \subseteq Live'
BY DEF Preserved, Live

\* A step that deletes nothing and leaves the Stage and its pass alone keeps VerifyInv.
LEMMA VerifyInvKept ==
    ASSUME VerifyInv, Live \subseteq Live', UNCHANGED pass,
           up'.current = up.current, up'.verification = up.verification
    PROVE  VerifyInv'
BY DEF VerifyInv, VerifiedExists

\* VerifyInv is inductive, given the types.
LEMMA VerifyInvStep ==
    ASSUME TypeOK, ClockInv, VerifyInv, [Next]_vars
    PROVE  VerifyInv'
<1>1. CASE Discover
  <2>1. Live \subseteq Live'
    BY <1>1, DiscoverPreserves, LivesOn
  <2> QED
    BY <1>1, <2>1, VerifyInvKept DEF Discover
<1>2. CASE Tick
  BY <1>2, VerifyInvKept DEF Tick, Live
<1>3. ASSUME NEW f \in Freight, Promote(f) PROVE VerifyInv'
  BY <1>3, VerifyInvKept DEF Promote, Live
<1>4. CASE BeginSteps \/ EndSteps
  BY <1>4, VerifyInvKept DEF BeginSteps, EndSteps, Live
<1>5. CASE SyncPromotions
  <2>1. pass' = "listing Freight" /\ UNCHANGED freight
    BY <1>5 DEF SyncPromotions
  <2>2. up' = up \/ up'.verification = "none"
    BY <1>5 DEF SyncPromotions, NewStage
  <2> QED
    BY <2>1, <2>2 DEF VerifyInv, VerifiedExists, Live
<1>6. CASE ListFreight
  BY <1>6 DEF ListFreight, VerifyInv, VerifiedExists, Live
<1>7. ASSUME NEW f \in Freight, PatchOutdated(f) PROVE VerifyInv'
  <2>1. f \in Live => freight[f].since # 0
    BY <1>7 DEF PatchOutdated, ClockInv
  <2>2. Live' = Live
    BY <1>7, <2>1, OutdatedPatched DEF Live
  <2>3. pass' # "verifying" /\ UNCHANGED up
    BY <1>7 DEF PatchOutdated
  <2> QED
    BY <2>2, <2>3 DEF VerifyInv, VerifiedExists
<1>8. CASE PatchCurrent
  <2>1. Live' = Live /\ (pass' = "verifying" /\ up.current # 0 => up.current \in Live)
    BY <1>8, CurrentPatched DEF Live
  <2>2. UNCHANGED up
    BY <1>8 DEF PatchCurrent
  <2> QED
    BY <2>1, <2>2 DEF VerifyInv, VerifiedExists
<1>9. CASE VerifyFreight
  <2>1. Live \subseteq Live'
    BY <1>9, VerifyPreserves, LivesOn
  <2>2. pass = "verifying" /\ pass' = "idle" /\ up'.current = up.current
    BY <1>9 DEF VerifyFreight, TypeOK, RegularStage
  <2>3. up.current = 0 => up'.verification = up.verification
    BY <1>9 DEF VerifyFreight, TypeOK, RegularStage
  <2> QED
    BY <2>1, <2>2, <2>3 DEF VerifyInv, VerifiedExists
<1>10. CASE HandleDelete
  <2>1. up'.verification = "none" /\ up'.current = 0
    BY <1>10 DEF HandleDelete, NewStage
  <2> QED
    BY <2>1 DEF VerifyInv, VerifiedExists
<1>11. CASE FailPass
  BY <1>11 DEF FailPass, VerifyInv, VerifiedExists, Live
<1>12. CASE ReconcileControlFlow \/ HandleControlFlowDelete
  <2>1. Live \subseteq Live'
    BY <1>12, StagesPreserve, LivesOn
  <2>2. UNCHANGED <<up, pass>>
    BY <1>12 DEF ReconcileControlFlow, HandleControlFlowDelete
  <2> QED
    BY <2>1, <2>2, VerifyInvKept
<1>13. CASE DeleteStage
  <2>1. /\ up'.current = up.current /\ up'.verification = up.verification
        /\ UNCHANGED <<freight, pass>>
    BY <1>13 DEF DeleteStage, TypeOK, RegularStage
  <2> QED
    BY <2>1, VerifyInvKept DEF Live
<1>14. CASE CreateStage
  <2>1. UNCHANGED <<freight, pass>> /\ (up' = up \/ (up'.verification = "none" /\ up'.current = 0))
    BY <1>14 DEF CreateStage, NewStage
  <2> QED
    BY <2>1 DEF VerifyInv, VerifiedExists, Live
<1>15. CASE ListGarbage
  BY <1>15, VerifyInvKept DEF ListGarbage, Live
<1>16. ASSUME NEW f \in Freight, CollectFreight(f) PROVE VerifyInv'
  <2>1. \A g \in Freight : g # f \/ up.current = f => freight'[g] = freight[g]
    BY <1>16, CollectType
  <2>2. UNCHANGED <<up, pass>>
    BY <1>16 DEF CollectFreight
  <2>3. up.current \in Live => up.current \in Live'
    BY <2>1 DEF Live
  <2> QED
    BY <2>2, <2>3 DEF VerifyInv, VerifiedExists
<1>17. CASE UNCHANGED vars
  BY <1>17, VerifyInvKept DEF vars, Live
<1> QED
  BY <1>1, <1>2, <1>3, <1>4, <1>5, <1>6, <1>7, <1>8, <1>9, <1>10, <1>11, <1>12, <1>13, <1>14,
     <1>15, <1>16, <1>17 DEF Next, ReconcileRegular, SyncFreight

\* Freight a Stage has begun to verify is never collected, however promotion, passes,
\* the collector's list and its deletions interleave, and however many passes fail
\* (cleanWarehouseFreight, ValidateDelete).
THEOREM AlwaysVerifiedExists == Spec => []VerifiedExists
<1>1. Init => VerifyInv
  BY DEF Init, VerifyInv, VerifiedExists, NewStage
<1>2. TypeOK /\ ClockInv /\ VerifyInv /\ [Next]_vars => VerifyInv'
  BY VerifyInvStep
<1>3. VerifyInv => VerifiedExists
  BY DEF VerifyInv
<1> QED
  BY <1>1, <1>2, <1>3, AlwaysClockInv, PTL DEF Spec

(***************************************************************************)
(* Soak times are not overstated                                           *)
(***************************************************************************)

\* At most one pass fails half-way.
OneFault == MaxFaults <= 1

\* What runs where the Stage deploys is some Freight, or none.
LEMMA OccupantType ==
    ASSUME TypeOK
    PROVE  occupant.freight # 0 => occupant.freight \in Freight
<1>1. occupant.freight \in NilOrFreight /\ NFreight \in Nat
  BY FreightLifecycleAssumption DEF TypeOK, Occupant
<1> QED
  BY <1>1 DEF NilOrFreight, Freight

\* A step that leaves the Stage, its Promotion and its pass alone, and puts no
\* Freight into the Stage, keeps SoakInv.
LEMMA SoakPreserved ==
    ASSUME TypeOK, SoakInv, UNCHANGED <<pass, outdated, faults, occupant>>,
           up'.current \in {0, up.current}, up'.state = "gone" => up'.current = 0,
           pass = "patching Freight" => up'.current = up.current,
           Promoting' => Promoting,
           \A f \in Freight : \/ freight'[f].since = 0
                              \/ freight'[f].since = freight[f].since /\ (f \in Live => f \in Live')
    PROVE  SoakInv'
<1>1. Clean => Clean'
  BY DEF Clean
<1>2. occupant.freight # 0 => occupant.freight \in Freight
  BY OccupantType
<1>3. SoakNotOverstated'
  BY <1>2 DEF SoakInv, SoakNotOverstated
<1>4. OneIn'
  BY DEF SoakInv, OneIn
<1>5. ListInv'
  <2> SUFFICES ASSUME pass = "patching Freight"
               PROVE  /\ \A f \in Freight : freight'[f].since # 0 => f \in outdated \cup {up.current}
                      /\ \A f \in outdated, g \in Freight : freight'[g].since # 0 => g = f
    BY DEF ListInv
  <2>1. \A f \in Freight : freight'[f].since # 0 => freight[f].since # 0
    OBVIOUS
  <2> QED
    BY <2>1 DEF SoakInv, ListInv
<1>6. Syncing' <=> Syncing
  BY DEF Syncing
<1>7. /\ up'.current # 0 => occupant'.freight = up'.current
      /\ up'.state = "gone" => up'.current = 0
      /\ faults' = 0 /\ (~Syncing' \/ Promoting') => Clean'
      /\ Promoting' /\ ~Syncing' => Clean'
  BY <1>1, <1>6 DEF SoakInv
<1> QED
  BY <1>3, <1>4, <1>5, <1>7 DEF SoakInv

\* Preserved Freight keeps SoakInv, if the Stage is left alone.
LEMMA SoakKept ==
    ASSUME TypeOK, SoakInv, UNCHANGED <<pass, outdated, faults, occupant, up>>,
           Promoting' => Promoting, Preserved \/ UNCHANGED freight
    PROVE  SoakInv'
<1>1. \A f \in Freight : \/ freight'[f].since = 0
                         \/ freight'[f].since = freight[f].since /\ (f \in Live => f \in Live')
  BY DEF Preserved, Live
<1>2. up'.state = "gone" => up'.current = 0
  BY DEF SoakInv
<1> QED
  BY <1>1, <1>2, SoakPreserved

\* SoakInv is inductive, given the types and the clock, as long as at most one
\* pass fails.
LEMMA SoakStep ==
    ASSUME OneFault, TypeOK, ClockInv, SoakInv, [Next]_vars
    PROVE  SoakInv'
<1>0. occupant.freight # 0 => occupant.freight \in Freight
  BY OccupantType
<1>1. CASE Discover
  <2>1. UNCHANGED <<pass, outdated, faults, occupant, up, promo>>
    BY <1>1 DEF Discover
  <2> QED
    BY <1>1, <2>1, DiscoverPreserves, SoakKept DEF Promoting
<1>2. CASE Tick
  BY <1>2, SoakKept DEF Tick, Promoting
<1>3. ASSUME NEW f \in Freight, Promote(f) PROVE SoakInv'
  BY <1>3, SoakKept DEF Promote, Promoting
<1>4. CASE BeginSteps
  <2>1. Promoting
    BY <1>4 DEF BeginSteps, Promoting
  <2> QED
    BY <1>4, <2>1, SoakKept DEF BeginSteps
<1>5. CASE EndSteps
  <2>1. Promoting
    BY <1>5 DEF EndSteps, Promoting
  <2> QED
    BY <1>5, <2>1, SoakKept DEF EndSteps
<1>6. CASE SyncPromotions
  <2>1. pass = "idle" /\ pass' = "listing Freight" /\ UNCHANGED <<freight, faults>>
    BY <1>6 DEF SyncPromotions
  <2>4. OneIn' /\ ListInv' /\ Syncing' /\ ~Syncing
    BY <2>1 DEF SoakInv, OneIn, ListInv, Syncing, Live
  <2>2. CASE promo.at = "Succeeded"
    <3>1. /\ promo'.at = "none"
          /\ up'.current = promo.freight /\ up'.state = "live"
          /\ occupant' = Occupied(promo.freight)
      <4>1. /\ promo' = NoPromotion
            /\ up' = [NewStage EXCEPT !.current = promo.freight]
            /\ occupant' = Occupied(promo.freight)
        BY <1>6, <2>2 DEF SyncPromotions
      <4>2. /\ NoPromotion.at = "none"
            /\ [NewStage EXCEPT !.current = promo.freight].current = promo.freight
            /\ [NewStage EXCEPT !.current = promo.freight].state = "live"
        BY DEF NoPromotion, NewStage
      <4> QED
        BY <4>1, <4>2
    <3>2. Clean
      BY <2>2, <2>4 DEF SoakInv, Promoting
    <3>3. occupant'.freight = promo.freight
      BY <3>1 DEF Occupied
    <3>4. SoakNotOverstated'
      <4>1. CASE promo.freight = occupant.freight
        BY <2>1, <3>1, <4>1 DEF Occupied, SoakInv, SoakNotOverstated
      <4>2. CASE promo.freight # occupant.freight
        <5>1. promo.freight # 0 => promo.freight \in Freight
          <6>1. promo.freight \in NilOrFreight /\ NFreight \in Nat
            BY FreightLifecycleAssumption DEF TypeOK, Promotion
          <6> QED
            BY <6>1 DEF NilOrFreight, Freight
        <5>2. promo.freight # 0 => freight[promo.freight].since = 0
          BY <3>2, <4>2, <5>1 DEF Clean
        <5> QED
          BY <2>1, <3>3, <5>2 DEF SoakNotOverstated
      <4> QED
        BY <4>1, <4>2
    <3> QED
      BY <2>4, <3>1, <3>3, <3>4 DEF SoakInv, Promoting
  <2>3. CASE promo.at # "Succeeded"
    <3>1. UNCHANGED <<up, occupant>>
      BY <1>6, <2>3 DEF SyncPromotions
    <3>2. faults = 0 => Clean
      BY <2>4 DEF SoakInv
    <3>3. (faults' = 0 => Clean') /\ SoakNotOverstated'
      BY <2>1, <3>1, <3>2 DEF SoakInv, Clean, SoakNotOverstated
    <3>4. /\ up'.current # 0 => occupant'.freight = up'.current
          /\ up'.state = "gone" => up'.current = 0
      BY <3>1 DEF SoakInv
    <3> QED
      BY <2>4, <3>3, <3>4 DEF SoakInv
  <2> QED
    BY <2>2, <2>3
<1>7. CASE ListFreight
  <2>1. /\ pass = "listing Freight" /\ pass' = "patching Freight" /\ outdated' = Outdated
        /\ UNCHANGED <<freight, promo, up, faults, occupant>>
    BY <1>7 DEF ListFreight
  <2>2. ListInv'
    BY <2>1 DEF SoakInv, OneIn, ListInv, Outdated, Live
  <2>3. /\ OneIn' /\ SoakNotOverstated'
        /\ (Clean' <=> Clean) /\ (Promoting' <=> Promoting) /\ Syncing /\ Syncing'
    BY <2>1 DEF SoakInv, OneIn, SoakNotOverstated, Clean, Promoting, Syncing, Live
  <2> QED
    BY <2>1, <2>2, <2>3 DEF SoakInv
<1>18. ASSUME NEW f \in Freight, PatchOutdated(f) PROVE SoakInv'
  <2>1. /\ pass = "patching Freight" /\ f \in outdated
        /\ UNCHANGED <<promo, up, faults, occupant>>
    BY <1>18 DEF PatchOutdated
  <2>2. f \in Live => freight[f].since # 0
    BY <2>1 DEF ClockInv
  <2>3. \A g \in Freight : freight[g].since # 0 => g = f /\ f \in Live
    BY <2>1 DEF SoakInv, ListInv, OneIn
  <2>4. \A g \in Freight : freight'[g].since = 0
    BY <1>18, <2>2, <2>3, OutdatedPatched
  <2>5. OneIn' /\ ListInv' /\ Clean' /\ SoakNotOverstated'
    BY <1>0, <2>1, <2>4 DEF OneIn, ListInv, Clean, SoakNotOverstated
  <2> QED
    BY <2>1, <2>5 DEF SoakInv
<1>19. CASE PatchCurrent
  <2>1. /\ pass = "patching Freight" /\ pass' \in {"verifying", "idle"} /\ outdated = {}
        /\ UNCHANGED <<up, occupant>>
    BY <1>19 DEF PatchCurrent
  <2>2. \A f \in Freight : freight[f].since # 0 => f = up.current
    BY <2>1 DEF SoakInv, ListInv
  <2>3. /\ freight' = freight \/ up.current \in Live
        /\ \A f \in Freight : /\ freight'[f].state = freight[f].state
                              /\ f # up.current => freight'[f] = freight[f]
                              /\ freight'[f].since \in {freight[f].since, now}
    BY <1>19, CurrentPatched
  <2>4. \A f \in Freight : freight'[f].since # 0 => f = up.current
    BY <2>2, <2>3
  <2>5. 0 \notin Freight
    BY FreightLifecycleAssumption DEF Freight
  <2>6. Clean'
    BY <2>1, <2>4, <2>5 DEF Clean, SoakInv
  <2>7. OneIn'
    <3>1. \A f \in Freight : freight'[f].since # 0 => f \in Live
      BY <2>3, <2>4 DEF SoakInv, OneIn
    <3>2. Live' = Live
      BY <2>3 DEF Live
    <3> QED
      BY <2>4, <3>1, <3>2 DEF OneIn
  <2>8. SoakNotOverstated'
    <3> SUFFICES ASSUME occupant.freight # 0, freight'[occupant.freight].since # 0
                 PROVE  freight'[occupant.freight].since >= occupant.since
      BY <2>1 DEF SoakNotOverstated
    <3>1. freight'[occupant.freight].since \in {freight[occupant.freight].since, now}
      BY <1>0, <2>3
    <3>2. now \in Nat /\ occupant.since \in Nat /\ occupant.since <= now
      BY Clock DEF TypeOK, Occupant, ClockInv
    <3> QED
      BY <3>1, <3>2 DEF SoakInv, SoakNotOverstated
  <2>9. ListInv'
    BY <2>1 DEF ListInv
  <2> QED
    BY <2>1, <2>6, <2>7, <2>8, <2>9 DEF SoakInv
<1>8. CASE VerifyFreight
  <2>1. Preserved
    BY <1>8, VerifyPreserves
  <2>2. /\ pass = "verifying" /\ pass' = "idle"
        /\ up'.current = up.current /\ up'.state = up.state
        /\ UNCHANGED <<promo, faults, occupant>>
    BY <1>8 DEF VerifyFreight, TypeOK, RegularStage
  <2>3. (Clean => Clean') /\ OneIn'
    BY <2>1, <2>2 DEF Preserved, Clean, SoakInv, OneIn, Live
  <2>4. SoakNotOverstated'
    BY <1>0, <2>1, <2>2 DEF Preserved, SoakInv, SoakNotOverstated
  <2>5. ListInv' /\ ~Syncing /\ ~Syncing' /\ (Promoting' <=> Promoting)
    BY <2>2 DEF ListInv, Syncing, Promoting
  <2> QED
    BY <2>2, <2>3, <2>4, <2>5 DEF SoakInv
<1>9. CASE HandleDelete
  <2>1. /\ UNCHANGED <<pass, outdated, faults, occupant>> /\ pass = "idle"
        /\ up'.current = 0 /\ ~Promoting'
    BY <1>9 DEF HandleDelete, NewStage, NoPromotion, Promoting
  <2>2. \A f \in Freight : freight'[f].since = freight[f].since /\ (f \in Live => f \in Live')
    BY <1>9, StagesPreserve DEF Preserved, Live
  <2> QED
    BY <2>1, <2>2, SoakPreserved
<1>10. CASE FailPass
  <2>1. /\ faults = 0 /\ faults' = 1
        /\ pass' = "idle"
        /\ UNCHANGED <<freight, promo, up, occupant>>
    <3>1. /\ faults \in 0 .. MaxFaults /\ faults < MaxFaults /\ faults' = faults + 1
          /\ pass' = "idle"
          /\ UNCHANGED <<freight, promo, up, occupant>>
      BY <1>10 DEF FailPass, TypeOK
    <3>2. MaxFaults \in Nat /\ MaxFaults <= 1
      BY FreightLifecycleAssumption DEF OneFault
    <3> QED
      BY <3>1, <3>2
  <2>2. (Promoting' <=> Promoting) /\ (Clean' <=> Clean) /\ SoakNotOverstated' /\ OneIn' /\ ListInv'
    BY <2>1 DEF SoakInv, Promoting, Clean, SoakNotOverstated, OneIn, ListInv, Live
  <2>3. Promoting => Clean
    BY <2>1 DEF SoakInv
  <2>4. /\ up'.current # 0 => occupant'.freight = up'.current
        /\ up'.state = "gone" => up'.current = 0
    BY <2>1 DEF SoakInv
  <2>5. faults' # 0 /\ (Promoting' => Clean')
    BY <2>1, <2>2, <2>3
  <2> QED
    BY <2>2, <2>4, <2>5, Zenon DEF SoakInv
<1>11. CASE ReconcileControlFlow
  <2>1. UNCHANGED <<pass, outdated, faults, occupant, up, promo>>
    BY <1>11 DEF ReconcileControlFlow
  <2> QED
    BY <1>11, <2>1, StagesPreserve, SoakKept DEF Promoting
<1>12. CASE HandleControlFlowDelete
  <2>1. UNCHANGED <<pass, outdated, faults, occupant, up, promo>>
    BY <1>12 DEF HandleControlFlowDelete
  <2> QED
    BY <1>12, <2>1, StagesPreserve, SoakKept DEF Promoting
<1>13. CASE DeleteStage
  <2>1. /\ up'.current = up.current /\ (up'.state = "gone" => up.state = "gone")
        /\ UNCHANGED <<pass, outdated, faults, occupant, freight, promo>>
    BY <1>13 DEF DeleteStage, TypeOK, RegularStage
  <2>2. up'.state = "gone" => up'.current = 0
    BY <2>1 DEF SoakInv
  <2> QED
    BY <2>1, <2>2, SoakPreserved DEF Promoting, Live
<1>14. CASE CreateStage
  <2>1. /\ up' = up \/ (up.state = "gone" /\ up'.current = 0)
        /\ UNCHANGED <<pass, outdated, faults, occupant, freight, promo>>
    BY <1>14 DEF CreateStage, NewStage
  <2>2. up'.current = up.current /\ (up'.state = "gone" => up'.current = 0)
    BY <2>1 DEF SoakInv
  <2> QED
    BY <2>1, <2>2, SoakPreserved DEF Promoting, Live
<1>15. CASE ListGarbage
  BY <1>15, SoakKept DEF ListGarbage, Promoting
<1>16. ASSUME NEW f \in Freight, CollectFreight(f) PROVE SoakInv'
  <2>1. UNCHANGED <<pass, outdated, faults, occupant, up, promo>>
    BY <1>16 DEF CollectFreight
  <2>2. \A g \in Freight : \/ freight'[g].since = 0
                           \/ freight'[g].since = freight[g].since /\ (g \in Live => g \in Live')
    BY <1>16, CollectType DEF Live
  <2>3. up'.state = "gone" => up'.current = 0
    BY <2>1 DEF SoakInv
  <2> QED
    BY <2>1, <2>2, <2>3, SoakPreserved DEF Promoting
<1>17. CASE UNCHANGED vars
  BY <1>17, SoakKept DEF vars, Promoting
<1> QED
  BY <1>1, <1>2, <1>3, <1>4, <1>5, <1>6, <1>7, <1>8, <1>9, <1>10, <1>11, <1>12, <1>13, <1>14,
     <1>15, <1>16, <1>17, <1>18, <1>19 DEF Next, ReconcileRegular, SyncFreight

\* As long as at most one pass fails half-way, no soak is counted from before the
\* Freight was put into the Stage, for any number of Freight, Promotions and
\* deleted Stages (syncFreight).
THEOREM AlwaysSoakNotOverstated ==
    ASSUME OneFault
    PROVE  Spec => []SoakNotOverstated
<1>1. Init => SoakInv
  <2> SUFFICES ASSUME Init PROVE SoakInv
    OBVIOUS
  <2>1. up.current = 0 /\ occupant.freight = 0 /\ \A f \in Freight : freight[f].since = 0
    BY DEF Init, NewStage, NoFreight
  <2> QED
    <3>1. pass = "idle" /\ up.state = "live"
      BY DEF Init, NewStage
    <3> QED
      BY <2>1, <3>1 DEF SoakInv, Clean, SoakNotOverstated, OneIn, ListInv
<1>2. TypeOK /\ ClockInv /\ SoakInv /\ [Next]_vars => SoakInv'
  BY SoakStep
<1>3. SoakInv => SoakNotOverstated
  BY DEF SoakInv
<1> QED
  BY <1>1, <1>2, <1>3, AlwaysClockInv, PTL DEF Spec
=============================================================================
