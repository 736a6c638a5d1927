--------------------------- MODULE Verification ---------------------------
(***************************************************************************)
(* How the Stage reconciler verifies the Freight a Stage has been given:   *)
(* it starts an AnalysisRun (Argo Rollouts), or adopts one it already      *)
(* started for the same Freight, polls it, aborts it or starts over at a   *)
(* user's request, and marks the Freight as verified in the Stage once the *)
(* verdict is good.                                                        *)
(*                                                                         *)
(* The Promotions of the Stage are reduced to one at a time (StagePromo-   *)
(* tions models the queue): what matters here is when the current          *)
(* FreightCollection is replaced and when a re-verification is requested.  *)
(* A FreightCollection's ID is a hash of the names of its Freight, so it   *)
(* is the Freight here, and promoting the same Freight again yields a new  *)
(* collection with the old ID and no verification history.                 *)
(***************************************************************************)
EXTENDS Naturals, Sequences

CONSTANTS
    Freight,             \* names of Freight
    NoFreight,           \* a nil reference
    Rollbacks,           \* may Freight be promoted again after other Freight
    AnnotationOutcomes,  \* may the request to re-verify fail to be written
    MaxInfos,            \* bound: VerificationInfos, hence AnalysisRuns
    MaxPromotions,       \* bound
    MaxFaults            \* bound: requests to the API server that fail, crashes

Infos == 1 .. MaxInfos
NilOrInfo == 0 .. MaxInfos
Runs == Infos
NilOrRun == NilOrInfo
NilOrFreight == Freight \cup {NoFreight}

ASSUME VerificationAssumption ==
    /\ NoFreight \notin Freight
    /\ Rollbacks \in BOOLEAN
    /\ AnnotationOutcomes \subseteq BOOLEAN
    /\ MaxInfos \in Nat
    /\ MaxPromotions \in Nat
    /\ MaxFaults \in Nat

VARIABLES
    stage,       \* the Stage: status and annotations
    checks,      \* what the health checks report
    promo,       \* the Promotion the Stage is, or was last, occupied with
    run,         \* the AnalysisRuns, as the API server stores them
    runCache,    \* the phases of the AnalysisRuns the informer knows of
    verified,    \* Freight whose status says verifiedIn this Stage
    infos,       \* VerificationInfos so far
    runs,        \* AnalysisRuns so far
    promotions,  \* Promotions so far
    promoted,    \* Freight that has been promoted
    faults,      \* failed requests and crashes so far
    aborted,     \* history: VerificationInfos whose AnalysisRun was terminated
    renewed      \* history: runs that predate the last re-promotion of the
                 \* current Freight

vars == <<stage, checks, promo, run, runCache, verified, infos, runs, promotions, promoted,
          faults, aborted, renewed>>

\* Failed stands for Failed, Error, Aborted and Inconclusive alike; Running for
\* the empty phase, Pending and Running.
Verdicts == {"Successful", "Failed"}
Info == [id: Infos, phase: Verdicts \cup {"Running"}, run: NilOrRun]
Run == [freight: NilOrFreight, phase: Verdicts \cup {"Running", "absent"}, terminate: BOOLEAN]

StageType == [
    configured: BOOLEAN,                          \* does the spec ask for verification
    freight: NilOrFreight,                        \* the current FreightCollection
    history: Seq(Info),                           \* its verifications, newest first
    promoting: NilOrFreight,                      \* currentPromotion
    last: {"none", "Succeeded", "Failed"},        \* lastPromotion
    health: {"nil", "Healthy", "Other"},
    reverify: NilOrInfo,                          \* annotations: the ID they name
    abort: NilOrInfo]

TypeOK ==
    /\ stage \in StageType
    /\ checks \in {"Healthy", "Other"}
    /\ promo \in [freight: NilOrFreight, phase: {"none", "Pending", "Succeeded", "Failed"}]
    /\ run \in [Runs -> Run]
    /\ runCache \in [Runs -> Verdicts \cup {"Running", "absent"}]
    /\ verified \subseteq Freight
    /\ infos \in NilOrInfo
    /\ runs \in NilOrRun
    /\ promotions \in 0 .. MaxPromotions
    /\ promoted \subseteq Freight
    /\ faults \in 0 .. MaxFaults
    /\ aborted \subseteq Infos
    /\ renewed \in NilOrRun

Init ==
    /\ \E configured \in BOOLEAN :
       stage = [configured |-> configured, freight |-> NoFreight, history |-> <<>>, promoting |-> NoFreight,
                last |-> "none", health |-> "nil", reverify |-> 0, abort |-> 0]
    /\ checks = "Healthy"
    /\ promo = [freight |-> NoFreight, phase |-> "none"]
    /\ run = [r \in Runs |-> [freight |-> NoFreight, phase |-> "absent", terminate |-> FALSE]]
    /\ runCache = [r \in Runs |-> "absent"]
    /\ verified = {}
    /\ infos = 0
    /\ runs = 0
    /\ promotions = 0
    /\ promoted = {}
    /\ faults = 0
    /\ aborted = {}
    /\ renewed = 0

\* A pass with some faults: how many more there are.
Faults(n) ==
    /\ faults + n <= MaxFaults
    /\ faults' = faults + n

HasCurrent(s) == s.history # <<>>
Current(s) == Head(s.history)
IsTerminal(info) == info.phase \in Verdicts
Verifying(s) == HasCurrent(s) /\ ~IsTerminal(Current(s))

\* VerificationInfoStack.UpdateOrPush: the entry with the same ID, or a new top.
UpdateOrPush(s, info) ==
    IF \E i \in DOMAIN s.history : s.history[i].id = info.id
    THEN [s EXCEPT !.history = [i \in DOMAIN s.history |->
              IF s.history[i].id = info.id THEN info ELSE s.history[i]]]
    ELSE [s EXCEPT !.history = <<info>> \o s.history]

(***************************************************************************)
(* The first half of a pass: syncPromotions and assessHealth               *)
(***************************************************************************)

\* A finished Promotion is replayed: a success makes its Freight current.
\* Otherwise the next one is elected unless the current Freight is being
\* verified, or still has to be and nothing says it is unhealthy.
SyncPromotions(s) ==
    IF s.promoting # NoFreight /\ promo.phase = "Succeeded"
    THEN [s EXCEPT !.promoting = NoFreight, !.last = "Succeeded", !.freight = promo.freight,
                   !.history = <<>>, !.health = "nil"]
    ELSE IF s.promoting # NoFreight /\ promo.phase = "Failed"
    THEN [s EXCEPT !.promoting = NoFreight, !.last = "Failed"]
    ELSE IF /\ promo.phase = "Pending"
            /\ s.freight # NoFreight =>
                  /\ ~Verifying(s)
                  /\ s.health \in {"nil", "Healthy"} => HasCurrent(s)
    THEN [s EXCEPT !.promoting = promo.freight]
    ELSE s

AssessHealth(s) ==
    [s EXCEPT !.health =
        IF s.promoting # NoFreight THEN "Other"
        ELSE IF s.last = "none" THEN "nil"
        ELSE IF s.last = "Failed" THEN "Other"
        ELSE checks]

(***************************************************************************)
(* verifyStageFreight.  Each of the formulae below is one way through it:  *)
(* s is what the first half of the pass made of the Stage.  When the pass  *)
(* breaks off before its result is persisted (~saved), what it did to      *)
(* AnalysisRuns remains.                                                   *)
(***************************************************************************)
\* Mutant: any verdict will do.
MarkVerifiedAnyVerdict(w) ==
    IF w.health = "Healthy" /\ HasCurrent(w) /\ ~Verifying(w) THEN {w.freight} ELSE {}

\* markFreightVerifiedForStage
MarkVerified(w) ==
    IF w.health = "Healthy" /\ HasCurrent(w) /\ Current(w).phase = "Successful"
    THEN {w.freight} ELSE {}

\* The end of a pass: w is the Stage's new status.
Persist(w, saved) ==
    IF saved
    THEN /\ stage' = w
         /\ verified' = verified \cup MarkVerified(w)
         /\ renewed' = IF stage.promoting = NoFreight \/ promo.phase # "Succeeded" THEN renewed
                       ELSE IF promo.freight = stage.freight /\ HasCurrent(stage) THEN runs
                       ELSE 0
    ELSE UNCHANGED <<stage, verified, renewed>>

Verifiable(s) == s.freight # NoFreight /\ s.promoting = NoFreight

\* An AnalysisRun is due: none yet, or the user asked to repeat the last one.
Due(s) == HasCurrent(s) => IsTerminal(Current(s)) /\ s.reverify = Current(s).id

NothingToVerify(s, failing, saved) ==
    /\ ~failing
    /\ Verifiable(s) => ~Verifying(s) /\ (Due(s) => s.health # "Healthy")
    /\ Persist(s, saved)
    /\ UNCHANGED <<run, infos, runs, aborted>>

\* Mutant: the run's own verdict is recorded for a verification that was aborted.
AbortVerificationVerdict(s, failing, saved) ==
    LET info == Current(s)
    IN  /\ Verifiable(s) /\ Verifying(s)
        /\ s.abort = info.id
        /\ ~failing
        /\ run' = [run EXCEPT ![info.run].terminate = TRUE]
        /\ aborted' = aborted \cup {info.id}
        /\ Persist(UpdateOrPush(s, [info EXCEPT !.phase =
                  IF run[info.run].phase \in Verdicts THEN run[info.run].phase ELSE "Failed"]), saved)
        /\ UNCHANGED <<infos, runs>>

\* The run is told to terminate and the verification counts as Failed, whatever
\* the run will report; if the run cannot be told, as an Error.
AbortVerification(s, failing, saved) ==
    LET info == Current(s)
    IN  /\ Verifiable(s) /\ Verifying(s)
        /\ s.abort = info.id
        /\ IF failing THEN UNCHANGED <<run, aborted>>
           ELSE /\ run' = [run EXCEPT ![info.run].terminate = TRUE]
                /\ aborted' = aborted \cup {info.id}
        /\ Persist(UpdateOrPush(s, [info EXCEPT !.phase = "Failed"]), saved)
        /\ UNCHANGED <<infos, runs>>

\* Mutant: an unhealthy Stage does not look at its AnalysisRun.
GetVerificationResultHealthy(s, failing, saved) ==
    LET info == Current(s)
        phase == runCache[info.run]
    IN  /\ Verifiable(s) /\ Verifying(s)
        /\ s.abort # info.id
        /\ Persist(UpdateOrPush(s, [info EXCEPT !.phase =
                  IF s.health # "Healthy" THEN info.phase
                  ELSE IF failing \/ phase = "absent" THEN "Failed" ELSE phase]), saved)
        /\ UNCHANGED <<run, infos, runs, aborted>>

\* Mutant: an AnalysisRun that is not found goes unnoticed.
GetVerificationResultBlindly(s, failing, saved) ==
    LET info == Current(s)
    IN  /\ Verifiable(s) /\ Verifying(s)
        /\ s.abort # info.id
        /\ Persist(UpdateOrPush(s, [info EXCEPT !.phase = runCache[info.run]]), saved)
        /\ UNCHANGED <<run, infos, runs, aborted>>

\* The run's phase becomes the verification's; one that cannot be read, or is
\* not in the informer's cache yet, is an Error.
GetVerificationResult(s, failing, saved) ==
    LET info == Current(s)
        phase == runCache[info.run]
    IN  /\ Verifiable(s) /\ Verifying(s)
        /\ s.abort # info.id
        /\ Persist(UpdateOrPush(s, [info EXCEPT !.phase =
                  IF failing \/ phase = "absent" THEN "Failed" ELSE phase]), saved)
        /\ UNCHANGED <<run, infos, runs, aborted>>

StartsVerification(s) ==
    /\ Verifiable(s) /\ Due(s)
    /\ s.health = "Healthy"
    /\ infos < MaxInfos
    /\ infos' = infos + 1

\* Nothing is configured: an instant success.
SkipVerification(s, failing, saved) ==
    /\ ~failing
    /\ ~s.configured
    /\ StartsVerification(s)
    /\ Persist(UpdateOrPush(s, [id |-> infos', phase |-> "Successful", run |-> 0]), saved)
    /\ UNCHANGED <<run, runs, aborted>>

\* findExistingAnalysisRun: the AnalysisRuns of the FreightCollection, as cached.
Existing(s) == {r \in Runs : runCache[r] # "absent" /\ run[r].freight = s.freight}
Latest(S) == CHOOSE r \in S : \A q \in S : q <= r

\* Mutant: adoption looks at the request's ID instead of its presence.
AdoptRunUnlessForID(s, failing, saved) ==
    /\ ~failing
    /\ s.configured
    /\ StartsVerification(s)
    /\ HasCurrent(s) => s.reverify # Current(s).id
    /\ Existing(s) # {}
    /\ Persist(UpdateOrPush(s, [id |-> infos', phase |-> runCache[Latest(Existing(s))],
                            run |-> Latest(Existing(s))]), saved)
    /\ UNCHANGED <<run, runs, aborted>>

\* The most recent AnalysisRun for the collection's ID is adopted, unless a
\* request to re-verify was ever written: it is never removed.
AdoptRun(s, failing, saved) ==
    /\ ~failing
    /\ s.configured
    /\ StartsVerification(s)
    /\ s.reverify = 0
    /\ Existing(s) # {}
    /\ Persist(UpdateOrPush(s, [id |-> infos', phase |-> runCache[Latest(Existing(s))],
                            run |-> Latest(Existing(s))]), saved)
    /\ UNCHANGED <<run, runs, aborted>>

\* A new AnalysisRun.
CreateRun(s, failing, saved) ==
    /\ ~failing
    /\ s.configured
    /\ StartsVerification(s)
    /\ s.reverify # 0 \/ Existing(s) = {}
    /\ runs' = runs + 1
    /\ run' = [run EXCEPT ![runs'] =
           [freight |-> s.freight, phase |-> "Running", terminate |-> FALSE]]
    /\ Persist(UpdateOrPush(s, [id |-> infos', phase |-> "Running", run |-> runs']), saved)
    /\ UNCHANGED aborted

\* The AnalysisRun cannot be listed, built or created, or the Rollouts
\* integration is disabled: an Error.
FailToCreateRun(s, failing, saved) ==
    /\ failing
    /\ s.configured
    /\ StartsVerification(s)
    /\ Persist(UpdateOrPush(s, [id |-> infos', phase |-> "Failed", run |-> 0]), saved)
    /\ UNCHANGED <<run, runs, aborted>>

VerifyStageFreight(s, failing, saved) ==
    \/ NothingToVerify(s, failing, saved)
    \/ AbortVerification(s, failing, saved)
    \/ GetVerificationResult(s, failing, saved)
    \/ SkipVerification(s, failing, saved)
    \/ AdoptRun(s, failing, saved)
    \/ CreateRun(s, failing, saved)
    \/ FailToCreateRun(s, failing, saved)

\* One pass of the Stage reconciler.  failing: a request about the AnalysisRun
\* fails.
Reconcile(failing, saved) ==
    /\ Faults((IF failing THEN 1 ELSE 0) + (IF saved THEN 0 ELSE 1))
    /\ \E s \in {AssessHealth(SyncPromotions(stage))} : VerifyStageFreight(s, failing, saved)
    /\ UNCHANGED <<checks, promo, runCache, promotions, promoted>>

(***************************************************************************)
(* Promotions, users, Argo Rollouts, the informer                          *)
(***************************************************************************)

\* A new Promotion for Freight f.
Promote(f) ==
    /\ promotions < MaxPromotions
    /\ promo.phase # "Pending" /\ stage.promoting = NoFreight
    /\ Rollbacks \/ f = stage.freight \/ f \notin promoted
    /\ promo' = [freight |-> f, phase |-> "Pending"]
    /\ promotions' = promotions + 1
    /\ promoted' = promoted \cup {f}
    /\ UNCHANGED <<stage, checks, run, runCache, verified, infos, runs, faults, aborted,
                   renewed>>

\* Does a successful Promotion ask for the verification to be repeated?
IsRepromotion == promo.freight = stage.freight /\ HasCurrent(stage)

\* The steps succeed.  Promoting the current Freight again first writes a request
\* to re-verify it; failing that is only logged.  Then the success is recorded,
\* or that patch is lost and the Promotion runs again.
SucceedPromotion ==
    /\ stage.promoting # NoFreight /\ promo.phase = "Pending"
    /\ \E annotated \in AnnotationOutcomes :
           stage' = IF IsRepromotion /\ annotated
                    THEN [stage EXCEPT !.reverify = Current(stage).id] ELSE stage
    /\ \/ promo' = [promo EXCEPT !.phase = "Succeeded"] /\ UNCHANGED faults
       \/ Faults(1) /\ UNCHANGED promo
    /\ UNCHANGED <<checks, run, runCache, verified, infos, runs, promotions, promoted, aborted,
                   renewed>>

FailPromotion ==
    /\ stage.promoting # NoFreight /\ promo.phase = "Pending"
    /\ promo' = [promo EXCEPT !.phase = "Failed"]
    /\ UNCHANGED <<stage, checks, run, runCache, verified, infos, runs, promotions, promoted, faults,
                   aborted, renewed>>

\* The user asks for the current verification to be repeated.
ReverifyStageFreight ==
    /\ stage.freight # NoFreight /\ HasCurrent(stage)
    /\ stage.reverify # Current(stage).id
    /\ stage' = [stage EXCEPT !.reverify = Current(stage).id]
    /\ UNCHANGED <<checks, promo, run, runCache, verified, infos, runs, promotions, promoted, faults,
                   aborted, renewed>>

\* The user asks for the current verification to be aborted.
AbortStageFreightVerification ==
    /\ stage.freight # NoFreight /\ Verifying(stage)
    /\ stage.abort # Current(stage).id
    /\ stage' = [stage EXCEPT !.abort = Current(stage).id]
    /\ UNCHANGED <<checks, promo, run, runCache, verified, infos, runs, promotions, promoted, faults,
                   aborted, renewed>>

\* Argo Rollouts completes a run.  One that was told to terminate reports success.
CompleteRun(r) ==
    /\ run[r].phase = "Running"
    /\ \E verdict \in IF run[r].terminate THEN {"Successful"} ELSE Verdicts :
           run' = [run EXCEPT ![r].phase = verdict]
    /\ UNCHANGED <<stage, checks, promo, runCache, verified, infos, runs, promotions, promoted, faults,
                   aborted, renewed>>

\* The AnalysisRun informer catches up.
SyncRunCache ==
    /\ runCache' = [r \in Runs |-> run[r].phase]
    /\ runCache' # runCache
    /\ UNCHANGED <<stage, checks, promo, run, verified, infos, runs, promotions, promoted, faults,
                   aborted, renewed>>

\* What the Stage's health checks report changes.
ChangeHealth ==
    /\ checks' = IF checks = "Healthy" THEN "Other" ELSE "Healthy"
    /\ UNCHANGED <<stage, promo, run, runCache, verified, infos, runs, promotions, promoted,
                   faults, aborted, renewed>>

Next ==
    \/ \E failing, saved \in BOOLEAN : Reconcile(failing, saved)
    \/ \E f \in Freight : Promote(f)
    \/ SucceedPromotion
    \/ FailPromotion
    \/ ReverifyStageFreight
    \/ AbortStageFreightVerification
    \/ \E r \in Runs : CompleteRun(r)
    \/ SyncRunCache
    \/ ChangeHealth

(***************************************************************************)
(* AnalysisRuns complete, informers catch up, and the Stage is reconciled  *)
(* again and again: the watch on AnalysisRuns enqueues it, and so does the *)
(* periodic requeue.  Its health may be anything each time.                *)
(***************************************************************************)
Fairness ==
    /\ \A r \in Runs : WF_vars(CompleteRun(r))
    /\ WF_vars(SyncRunCache)
    /\ WF_vars(Reconcile(FALSE, TRUE))

Spec == Init /\ [][Next]_vars /\ Fairness

(***************************************************************************)
(* Properties                                                              *)
(***************************************************************************)

\* A verification whose AnalysisRun was terminated at a user's request never comes
\* out as a success, although the run itself reports one and the pass that
\* terminated it may have been lost before it recorded anything.
AbortSticks ==
    \A i \in DOMAIN stage.history :
        stage.history[i].id \in aborted => stage.history[i].phase # "Successful"

\* Freight is marked as verified in the Stage only if some AnalysisRun for it ran
\* its course and succeeded, or if the Stage asks for no verification
\* (markFreightVerifiedForStage).
VerifiedEarned ==
    \A f \in verified :
        \/ ~stage.configured
        \/ \E r \in Runs : /\ run[r].freight = f
                          /\ run[r].phase = "Successful"
                          /\ ~run[r].terminate

\* Promoting the current Freight again has it verified again: no verdict of an
\* AnalysisRun that predates the Promotion is reused for it.
RepromotionReverified ==
    \A i \in DOMAIN stage.history : stage.history[i].run # 0 => stage.history[i].run > renewed

\* Every verification that was started ends, whatever the Stage's health, so that
\* the next Promotion is not held back forever.
EveryVerificationEnds == Verifying(stage) ~> ~Verifying(stage)
=============================================================================
