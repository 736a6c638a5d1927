------------------------- MODULE StagePromotions -------------------------
(***************************************************************************)
(* How one Stage and the Promotions queued for it make progress together.  *)
(*                                                                         *)
(* Two reconcilers share the work.  The Stage reconciler elects one        *)
(* Promotion (status.currentPromotion), waits for it to finish, replays    *)
(* every newly finished Promotion into lastPromotion, freightHistory and   *)
(* the auto-promotion hold, and elects the next one.  The Promotion        *)
(* reconciler runs a Promotion only while the Stage names it.  They talk   *)
(* through the Kubernetes API server alone: both read most objects from an *)
(* informer cache that lags behind it, and neither takes a lock.           *)
(*                                                                         *)
(* A Promotion is named by a number.  Real names embed a ULID, and the     *)
(* code compares names as strings wherever it means creation time.  0      *)
(* stands for a nil reference.                                             *)
(***************************************************************************)
EXTENDS Naturals, FiniteSets

CONSTANTS
    N,             \* number of Promotions ever created for the Stage
    Intents,       \* auto-promotion intents a Promotion may carry
    Deletable,     \* phases in which a Promotion may be deleted
    InOrder,       \* TRUE: Promotions become visible in the order of their names
    HistoryLimit,  \* entries kept in freightHistory (10 in the code)
    MaxFaults,     \* bound: controller restarts and Stage passes that break off
    MaxToggles     \* bound: changes of the auto-promotion policy

Names == 1 .. N
NilOrName == 0 .. N

Terminal == {"Succeeded", "Failed", "Aborted"}   \* Failed covers Errored
NonTerminal == {"New", "Pending", "Running"}     \* New: no phase yet
Phases == NonTerminal \cup Terminal \cup {"absent", "gone"}

ASSUME ConstantsAssumption ==
    /\ N \in Nat
    /\ Intents \subseteq {"none", "hold", "resume"}
    /\ Deletable \subseteq NonTerminal \cup Terminal
    /\ InOrder \in BOOLEAN
    /\ HistoryLimit \in Nat \ {0}
    /\ MaxFaults \in Nat
    /\ MaxToggles \in Nat

VARIABLES
    promo,      \* the Promotions, as the API server stores them
    pCache,     \* the informer's copy: a past value of promo
    stage,      \* the Stage's status, as the API server stores it
    sCache,     \* the informer's copy: a past value of stage
    analysis,   \* the AnalysisRun, if any, that verifies each Promotion's Freight
    queue,      \* the Promotion controller's work queue
    worker,     \* what the Promotion controller is doing with each Promotion
    auto,       \* is auto-promotion enabled for the Stage (ProjectConfig)
    faults,     \* controller restarts and broken Stage passes so far
    toggles     \* policy changes so far

vars == <<promo, pCache, stage, sCache, analysis, queue, worker, auto, faults, toggles>>

(***************************************************************************)
(* Types                                                                   *)
(***************************************************************************)
Promotion == [phase: Phases, abort: BOOLEAN, intent: {"none", "hold", "resume"}]

\* freightHistory and the verification history of its first entry are one JSON
\* list, so they are one field: a merge patch replaces them together.
History == [recorded: SUBSET Names, verification: {"none", "running", "done"}]

PromotionRef == [name: NilOrName, phase: Terminal \cup {"none"}]

StageStatus == [
    current: NilOrName,
    last: PromotionRef,
    history: History,
    health: {"nil", "Healthy", "Other"},
    hold: NilOrName]                  \* the Promotion that set the hold

NoPromotion == [phase |-> "absent", abort |-> FALSE, intent |-> "none"]
NewStage == [
    current |-> 0,
    last |-> [name |-> 0, phase |-> "none"],
    history |-> [recorded |-> {}, verification |-> "none"],
    health |-> "nil",
    hold |-> 0]

(***************************************************************************)
(* Ordering Promotions                                                     *)
(***************************************************************************)
Listed(view) == {p \in Names : view[p].phase \in NonTerminal \cup Terminal}

\* Running first, then the other non-terminal phases, then the terminal ones.
PhaseRank(phase) == IF phase = "Running" THEN 0 ELSE IF phase \in NonTerminal THEN 1 ELSE 2

\* Mutant: newest first whatever the phase.
BeforeNewestFirst(view, p, q) ==
    LET rp == PhaseRank(view[p].phase)
        rq == PhaseRank(view[q].phase)
    IN  rp < rq \/ (rp = rq /\ q < p)

\* Oldest first among the non-terminal, newest first among the terminal.
Before(view, p, q) ==
    LET rp == PhaseRank(view[p].phase)
        rq == PhaseRank(view[q].phase)
    IN  rp < rq \/ (rp = rq /\ IF rp < 2 THEN p < q ELSE q < p)

IsHighest(view, p) ==
    /\ p \in Listed(view)
    /\ \A q \in Listed(view) \ {p} : Before(view, p, q)

\* Mutant: the IsTerminal test is missing.
NewPromosAnyPhase(view, last) ==
    {p \in Listed(view) :
        \A q \in Listed(view) : (q = p \/ Before(view, q, p)) => q > last}

\* The scan over the sorted list stops at the first name that is not newer than
\* the last Promotion replayed, whatever that Promotion's phase.
NewPromos(view, last) ==
    {p \in Listed(view) :
        /\ view[p].phase \in Terminal
        /\ \A q \in Listed(view) : (q = p \/ Before(view, q, p)) => q > last}

MaxOf(S) == CHOOSE p \in S : \A q \in S : q <= p

\* Mutant: keeps one entry too few.
TruncateShort(S) == {p \in S : Cardinality({q \in S : q > p}) < HistoryLimit - 1}

\* FreightHistory.Record: names only grow, so the oldest entries drop off.
Truncate(S) == {p \in S : Cardinality({q \in S : q > p}) < HistoryLimit}

(***************************************************************************)
(* The Stage reconciler                                                    *)
(***************************************************************************)

\* Mutant: a release leaves the hold alone.
ReplayHoldNoRelease(hold, view, new, enabled) ==
    LET deciders == {p \in new : view[p].phase # "Aborted" /\ view[p].intent # "none"}
    IN  IF ~enabled THEN 0
        ELSE IF deciders = {} THEN hold
        ELSE IF view[MaxOf(deciders)].intent = "hold" THEN MaxOf(deciders) ELSE hold

\* A requested, non-Aborted Promotion replayed last decides the hold.  An
\* Aborted one withdrew its intent; with auto-promotion off there are no holds.
ReplayHold(hold, view, new, enabled) ==
    LET deciders == {p \in new : view[p].phase # "Aborted" /\ view[p].intent # "none"}
    IN  IF ~enabled THEN 0
        ELSE IF deciders = {} THEN hold
        ELSE IF view[MaxOf(deciders)].intent = "hold" THEN MaxOf(deciders) ELSE 0

\* Mutant: only the newest of the finished Promotions is replayed.
ReplayNewest(s, view, enabled) ==
    LET new == NewPromos(view, s.last.name)
        succeeded == {p \in new : p = MaxOf(new) /\ view[p].phase = "Succeeded"}
    IN  [current |-> 0,
         last |-> IF new = {} THEN s.last
                  ELSE [name |-> MaxOf(new), phase |-> view[MaxOf(new)].phase],
         history |-> IF succeeded = {} THEN s.history
                     ELSE [recorded |-> Truncate(s.history.recorded \cup succeeded),
                           verification |-> "none"],
         health |-> IF succeeded = {} THEN s.health ELSE "nil",
         hold |-> ReplayHold(s.hold, view, new, enabled)]

\* The end of a round: give up currentPromotion and replay what has finished,
\* oldest first, so that the newest one ends up in lastPromotion.
Replay(s, view, enabled) ==
    LET new == NewPromos(view, s.last.name)
        succeeded == {p \in new : view[p].phase = "Succeeded"}
    IN  [current |-> 0,
         last |-> IF new = {} THEN s.last
                  ELSE [name |-> MaxOf(new), phase |-> view[MaxOf(new)].phase],
         history |-> IF succeeded = {} THEN s.history
                     ELSE [recorded |-> Truncate(s.history.recorded \cup succeeded),
                           verification |-> "none"],
         health |-> IF succeeded = {} THEN s.health ELSE "nil",
         hold |-> ReplayHold(s.hold, view, new, enabled)]

\* May the next Promotion start?  Not while the current Freight is being
\* verified, nor while it still has to be and nothing says it is unhealthy.
GateOpen(s) ==
    \/ s.history.recorded = {}
    \/ /\ s.history.verification # "running"
       /\ s.health \in {"nil", "Healthy"} => s.history.verification = "done"

\* The head of the sorted list is p, and p still has to run.
IsNext(view, p) == IsHighest(view, p) /\ view[p].phase \in NonTerminal

\* Mutant: the round does not end with the last Promotion of the list.
SyncPromotionsNoEnd(s, view, enabled) ==
    LET kept == [s EXCEPT !.hold = IF enabled THEN s.hold ELSE 0]
    IN  IF Listed(view) = {} THEN [kept EXCEPT !.current = 0]
        ELSE IF s.current # 0 /\ ~IsHighest(view, s.current)
             THEN Replay(s, view, enabled)
        ELSE IF GateOpen(s) /\ \E p \in Names : IsNext(view, p)
             THEN [kept EXCEPT !.current = CHOOSE p \in Names : IsNext(view, p)]
        ELSE kept

\* Without Promotions there is nothing to do.  A current Promotion that is no
\* longer the next one is over: the round ends, and the next is left to the
\* next pass.  Otherwise, and if the gate is open, elect the next one.
SyncPromotions(s, view, enabled) ==
    LET kept == [s EXCEPT !.hold = IF enabled THEN s.hold ELSE 0]
    IN  IF Listed(view) = {} THEN [kept EXCEPT !.current = 0]
        ELSE IF s.current # 0 /\ ~IsNext(view, s.current)
             THEN Replay(s, view, enabled)
        ELSE IF GateOpen(s) /\ \E p \in Names : IsNext(view, p)
             THEN [kept EXCEPT !.current = CHOOSE p \in Names : IsNext(view, p)]
        ELSE kept

\* check: what running the last Promotion's health checks reports.
AssessHealth(s, check) ==
    [s EXCEPT !.health =
        IF s.current # 0 THEN "Other"
        ELSE IF s.last.name = 0 THEN "nil"
        ELSE IF s.last.phase # "Succeeded" THEN "Other"
        ELSE check]

\* The phase of the verification of the current Freight after this pass.  v =
\* "done": none is configured, it is aborted, or an error ends it.  Otherwise a
\* running one reports its AnalysisRun, one that is not a re-verification adopts
\* an AnalysisRun that already exists for the same Freight, and the rest start.
VerificationPhase(s, runs, v) ==
    LET now == s.history.verification
        run == runs[MaxOf(s.history.recorded)]
    IN  CASE now = "running" -> IF v = "done" THEN "done" ELSE run
          [] now = "none" -> IF s.health # "Healthy" THEN now
                             ELSE IF v = "running" /\ run # "none" THEN run ELSE v
          [] now = "done" -> IF s.health # "Healthy" THEN now ELSE v

NothingToVerify(s) == s.history.recorded = {} \/ s.current # 0

VerifyStageFreight(s, runs, v) ==
    IF NothingToVerify(s) THEN s
    ELSE [s EXCEPT !.history.verification = VerificationPhase(s, runs, v)]

\* Does this pass create an AnalysisRun?
CreatesRun(s, runs, v) ==
    /\ ~NothingToVerify(s)
    /\ s.health = "Healthy" /\ v = "running"
    /\ \/ s.history.verification = "done"
       \/ s.history.verification = "none" /\ runs[MaxOf(s.history.recorded)] = "none"

\* A JSON merge patch carries the fields that differ from the base the caller
\* holds; the others keep the server's value.
Merged(server, base, new) == IF new = base THEN server ELSE new

PatchStatus(server, base, new) ==
    [current |-> Merged(server.current, base.current, new.current),
     last |-> [name |-> Merged(server.last.name, base.last.name, new.last.name),
               phase |-> Merged(server.last.phase, base.last.phase, new.last.phase)],
     history |-> Merged(server.history, base.history, new.history),
     health |-> Merged(server.health, base.health, new.health),
     hold |-> Merged(server.hold, base.hold, new.hold)]

Fault ==
    /\ faults < MaxFaults
    /\ faults' = faults + 1

\* One pass.  Each sub-reconciler works on the previous one's result and its own
\* result is patched into the Stage; a patch that fails is logged, an error or a
\* crash ends the pass.  The pass was to verify Freight (ran), and saved is the
\* last sub-reconciler whose result was persisted.  A patch that gets through
\* refreshes the base of the next one from the server's answer, so after two of
\* them (whole) the Stage is exactly what the pass believes it to be, whatever
\* the server knew better; after a single one it is a merge.
ReconcileStage(check, v, ran, saved, whole) ==
    /\ \E w1 \in {SyncPromotions(sCache, pCache, auto)} :
       \E w2 \in {AssessHealth(w1, check)} :
       \E w \in {CASE saved = 0 -> sCache
                    [] saved = 1 -> w1
                    [] saved = 2 -> w2
                    [] saved = 3 -> VerifyStageFreight(w2, analysis, v)} :
          /\ stage' = IF whole THEN w ELSE PatchStatus(stage, sCache, w)
          /\ analysis' = IF ran /\ CreatesRun(w2, analysis, v)
                         THEN [analysis EXCEPT ![MaxOf(w2.history.recorded)] = "running"]
                         ELSE analysis
    /\ UNCHANGED <<promo, pCache, sCache, queue, worker, auto, toggles>>

(***************************************************************************)
(* The Promotion reconciler                                                *)
(***************************************************************************)
Requeue(p) == queue' = queue \cup {p}

SetPhase(p, phase) == promo' = [promo EXCEPT ![p].phase = phase]

SetWorker(p, w) == worker' = [worker EXCEPT ![p] = w]

\* Take p off the work queue and look at it: first at the cached copy, then at
\* the API server's.
Dequeue(p) ==
    /\ p \in queue
    /\ worker[p] = "idle"
    /\ queue' = queue \ {p}

Reconcilable(p) ==
    /\ pCache[p].phase \in NonTerminal
    /\ promo[p].phase \in NonTerminal

\* Finished or deleted: nothing left to do.
ReconcileIgnore(p) ==
    /\ Dequeue(p)
    /\ ~Reconcilable(p)
    /\ UNCHANGED <<promo, pCache, stage, sCache, analysis, worker, auto, faults, toggles>>

\* terminatePromotion: the user asked for an abort.
ReconcileAbort(p) ==
    /\ Dequeue(p)
    /\ Reconcilable(p)
    /\ promo[p].abort
    /\ SetPhase(p, "Aborted")
    /\ UNCHANGED <<pCache, stage, sCache, analysis, worker, auto, faults, toggles>>

\* Mutant: a Stage with no current Promotion lets anyone through.
StageAwaitsAnyone(s, p) == s.current \in {0, p}

StageAwaitsPromotion(s, p) == s.current = p

\* Not this Promotion's turn: a new one becomes Pending and waits for the watch
\* on the Stage to enqueue it again.
ReconcileWait(p) ==
    /\ Dequeue(p)
    /\ Reconcilable(p)
    /\ ~promo[p].abort
    /\ ~StageAwaitsPromotion(sCache, p)
    /\ SetPhase(p, IF promo[p].phase = "New" THEN "Pending" ELSE promo[p].phase)
    /\ UNCHANGED <<pCache, stage, sCache, analysis, worker, auto, faults, toggles>>

\* Its turn: one that is already Running goes straight on to its steps.
ReconcileAdmit(p) ==
    /\ Dequeue(p)
    /\ Reconcilable(p)
    /\ ~promo[p].abort
    /\ StageAwaitsPromotion(sCache, p)
    /\ SetPhase(p, IF promo[p].phase = "New" THEN "Pending" ELSE promo[p].phase)
    /\ SetWorker(p, IF promo[p].phase = "Running" THEN "promoting" ELSE "admitted")
    /\ UNCHANGED <<pCache, stage, sCache, analysis, auto, faults, toggles>>

\* Record that the Promotion is Running before its first step executes.
MarkRunning(p) ==
    /\ worker[p] = "admitted"
    /\ promo[p].phase \in NonTerminal
    /\ SetPhase(p, "Running")
    /\ SetWorker(p, "promoting")
    /\ UNCHANGED <<pCache, stage, sCache, analysis, queue, auto, faults, toggles>>

\* The steps have run as far as they can; record how far that is.  Running
\* means a step is waiting or will be retried.
FinishPromote(p, outcome) ==
    /\ worker[p] = "promoting"
    /\ promo[p].phase \in NonTerminal
    /\ SetPhase(p, outcome)
    /\ SetWorker(p, "idle")
    /\ IF outcome = "Running" THEN Requeue(p) ELSE UNCHANGED queue
    /\ UNCHANGED <<pCache, stage, sCache, analysis, auto, faults, toggles>>

\* The status patch is lost, or the Promotion was deleted under the worker.
LosePatch(p) ==
    /\ worker[p] \in {"admitted", "promoting"}
    /\ SetWorker(p, "idle")
    /\ Requeue(p)
    /\ UNCHANGED <<promo, pCache, stage, sCache, analysis, auto, faults, toggles>>

(***************************************************************************)
(* Users, informers, restarts                                              *)
(***************************************************************************)
Create(p, intent) ==
    /\ promo[p].phase = "absent"
    /\ InOrder => \A q \in 1 .. (p - 1) : promo[q].phase # "absent"
    /\ promo' = [promo EXCEPT ![p] = [phase |-> "New", abort |-> FALSE, intent |-> intent]]
    /\ UNCHANGED <<pCache, stage, sCache, analysis, queue, worker, auto, faults, toggles>>

AbortPromotion(p) ==
    /\ promo[p].phase \in NonTerminal
    /\ ~promo[p].abort
    /\ promo' = [promo EXCEPT ![p].abort = TRUE]
    /\ UNCHANGED <<pCache, stage, sCache, analysis, queue, worker, auto, faults, toggles>>

Delete(p) ==
    /\ promo[p].phase \in Deletable
    /\ SetPhase(p, "gone")
    /\ UNCHANGED <<pCache, stage, sCache, analysis, queue, worker, auto, faults, toggles>>

ToggleAutoPromotion ==
    /\ toggles < MaxToggles
    /\ auto' = ~auto
    /\ toggles' = toggles + 1
    /\ UNCHANGED <<promo, pCache, stage, sCache, analysis, queue, worker, faults>>

\* The Promotion informer catches up.  Creations and abort requests pass the
\* controller's event filter; a mere phase change does not.
SyncPromotionCache ==
    /\ pCache # promo
    /\ pCache' = promo
    /\ queue' = queue \cup {p \in Listed(promo) :
                    pCache[p].phase = "absent" \/ (promo[p].abort /\ ~pCache[p].abort)}
    /\ UNCHANGED <<promo, stage, sCache, analysis, worker, auto, faults, toggles>>

\* Mutant: no watch on the Stage.
SyncStageCacheSilently ==
    /\ sCache # stage
    /\ sCache' = stage
    /\ UNCHANGED <<promo, pCache, stage, analysis, queue, worker, auto, faults, toggles>>

\* The Stage informer catches up and the Promotion controller's watch enqueues
\* the Promotion the Stage has newly acknowledged.
SyncStageCache ==
    /\ sCache # stage
    /\ sCache' = stage
    /\ queue' = queue \cup ({stage.current} \ {0, sCache.current})
    /\ UNCHANGED <<promo, pCache, stage, analysis, worker, auto, faults, toggles>>

\* Argo Rollouts finishes an AnalysisRun.
CompleteAnalysis(p) ==
    /\ analysis[p] = "running"
    /\ analysis' = [analysis EXCEPT ![p] = "done"]
    /\ UNCHANGED <<promo, pCache, stage, sCache, queue, worker, auto, faults, toggles>>

\* The controller restarts: workers and queues are lost, informers list
\* everything afresh and report every Promotion as created.
Restart ==
    /\ Fault
    /\ worker' = [p \in Names |-> "idle"]
    /\ pCache' = promo
    /\ sCache' = stage
    /\ queue' = Listed(promo)
    /\ UNCHANGED <<promo, stage, analysis, auto, toggles>>

Init ==
    /\ promo = [p \in Names |-> NoPromotion]
    /\ pCache = promo
    /\ stage = NewStage
    /\ sCache = stage
    /\ analysis = [p \in Names |-> "none"]
    /\ queue = {}
    /\ worker = [p \in Names |-> "idle"]
    /\ auto = TRUE
    /\ faults = 0
    /\ toggles = 0

Checks == {"Healthy", "Other"}
Verdicts == {"running", "done"}

\* A pass that ends, or whose patches no longer get through, before it has
\* verified anything.
BrokenPass ==
    /\ Fault
    /\ \E whole \in BOOLEAN :
        \/ ReconcileStage("Healthy", "done", FALSE, 1, whole)
        \/ \E check \in Checks : ReconcileStage(check, "done", FALSE, 2, whole)

\* A pass that creates an AnalysisRun and does not get round to recording it.
OrphanRun ==
    /\ Fault
    /\ \E saved \in 0 .. 2, whole \in BOOLEAN :
        /\ saved = 0 => ~whole
        /\ ReconcileStage("Healthy", "running", TRUE, saved, whole)

\* A pass that gets to its end.
FullPass(whole) ==
    /\ \E check \in Checks, v \in Verdicts : ReconcileStage(check, v, TRUE, 3, whole)
    /\ UNCHANGED faults

PromotionStep(p) ==
    \/ ReconcileIgnore(p) \/ ReconcileAbort(p) \/ ReconcileWait(p) \/ ReconcileAdmit(p)
    \/ MarkRunning(p)
    \/ \E outcome \in {"Running", "Succeeded", "Failed"} : FinishPromote(p, outcome)
    \/ LosePatch(p)

UserStep(p) ==
    \/ \E intent \in Intents : Create(p, intent)
    \/ AbortPromotion(p)
    \/ Delete(p)

Next ==
    \/ BrokenPass
    \/ OrphanRun
    \/ \E whole \in BOOLEAN : FullPass(whole)
    \/ \E p \in Names : PromotionStep(p) \/ UserStep(p) \/ CompleteAnalysis(p)
    \/ ToggleAutoPromotion
    \/ SyncPromotionCache
    \/ SyncStageCache
    \/ Restart

\* Informers deliver; queued work is picked up; a Stage is reconciled at least
\* every five minutes; an AnalysisRun, the steps of a Promotion and the patches
\* that record them get through sooner or later.
Fairness ==
    /\ WF_vars(SyncPromotionCache)
    /\ SF_vars(SyncStageCache)
    /\ WF_vars(FullPass(TRUE))
    /\ \A p \in Names :
        /\ WF_vars(CompleteAnalysis(p))
        /\ WF_vars(ReconcileIgnore(p) \/ ReconcileAbort(p) \/ ReconcileWait(p) \/ ReconcileAdmit(p))
        /\ SF_vars(MarkRunning(p))
        /\ SF_vars(\E outcome \in {"Succeeded", "Failed"} : FinishPromote(p, outcome))

Spec == Init /\ [][Next]_vars
FairSpec == Spec /\ Fairness

(***************************************************************************)
(* Properties                                                              *)
(***************************************************************************)

\* Every variable keeps its shape; in particular lastPromotion only ever names
\* a Promotion with a terminal phase, and a restart leaves no worker behind.
TypeOK ==
    /\ promo \in [Names -> Promotion]
    /\ pCache \in [Names -> Promotion]
    /\ stage \in StageStatus
    /\ sCache \in StageStatus
    /\ analysis \in [Names -> {"none", "running", "done"}]
    /\ queue \subseteq Names
    /\ worker \in [Names -> {"idle", "admitted", "promoting"}]
    /\ auto \in BOOLEAN
    /\ faults \in 0 .. MaxFaults
    /\ toggles \in 0 .. MaxToggles

\* p's steps may be executing, or it claims the Stage.
Active(p) == promo[p].phase = "Running" \/ worker[p] # "idle"

\* "The Stage's own Promotions are serialized one at a time by the Stage's
\* current Promotion" (StageAwaitsPromotion): two Promotions of one Stage are
\* never both running, whatever the two reconcilers' caches show them.
Serialized == \A p, q \in Names : Active(p) /\ Active(q) => p = q

\* A later-named Promotion the Stage has already replayed although it never
\* ran: it was aborted, or deleted, while it was still queued.
Overtaken(p) ==
    \E q \in Names :
        /\ p < q /\ q <= stage.last.name
        /\ promo[q].phase \in {"Aborted", "gone"}

\* Once the Stage's lastPromotion has moved past a Promotion that succeeded,
\* that Promotion's Freight is in freightHistory ("each succeeded round's
\* Freight belongs in the Stage's history"), unless newer entries pushed it out
\* or the Promotion was overtaken by one that left the queue before it.  Stale
\* caches, lost patches and restarts never lose an outcome.
OutcomeRecorded ==
    \A p \in Names :
        promo[p].phase = "Succeeded" /\ p <= stage.last.name =>
            \/ p \in stage.history.recorded
            \/ /\ Cardinality(stage.history.recorded) = HistoryLimit
               /\ \A q \in stage.history.recorded : p < q
            \/ Overtaken(p)

\* The pass that moves lastPromotion past a Promotion that has succeeded is the
\* one that records its Freight, however stale the Stage and the Promotions it
\* read: no later pass would look at that Promotion again.
SuccessReplayedWhole ==
    [][ \A p \in Names :
          /\ promo[p].phase = "Succeeded"
          /\ stage.last.name < p /\ p <= stage'.last.name
          => \/ p \in stage'.history.recorded
             \/ /\ Cardinality(stage'.history.recorded) = HistoryLimit
                /\ \A q \in stage'.history.recorded : p < q ]_vars

\* syncPromotions, on successful Promotions: "then we should add the Freight to
\* the history of successfully promoted Freight", without exception.
EverySuccessRecorded ==
    \A p \in Names :
        promo[p].phase = "Succeeded" /\ p <= stage.last.name => p \in stage.history.recorded

\* Holds are replayed "in order so a later release correctly supersedes an
\* earlier hold": no pass, however stale, brings back a hold once a newer
\* Promotion that resumes auto-promotion has been replayed.
ReleaseSupersedesHold ==
    \A q \in Names :
        /\ stage.hold # 0 /\ stage.hold < q /\ q <= stage.last.name
        /\ promo[q].intent = "resume" /\ promo[q].phase \in {"Succeeded", "Failed"}
        => Overtaken(q)

\* Every Promotion that is created is eventually finished or deleted: no wakeup
\* is lost between the two controllers and the Stage's gate opens again.
EveryPromotionFinishes ==
    \A p \in Names :
        promo[p].phase \in NonTerminal ~> promo[p].phase \in Terminal \cup {"gone"}

\* A Promotion that succeeded is eventually behind the Stage's lastPromotion.
EverySuccessReplayed ==
    \A p \in Names : promo[p].phase = "Succeeded" ~>
        (stage.last.name >= p \/ promo[p].phase = "gone")

(***************************************************************************)
(* Why Promotions are serialized: an inductive invariant.                  *)
(***************************************************************************)
Done(p) == promo[p].phase \in Terminal \cup {"gone"}

OldersDone(p) == \A q \in Names : q < p => Done(q)

\* Names become known in order, to the API server and to the informer.
KnownInOrder ==
    \A p, q \in Names : q < p =>
        /\ promo[p].phase # "absent" => promo[q].phase # "absent"
        /\ pCache[p].phase # "absent" => pCache[q].phase # "absent"

\* The informer shows a past, and what is over stays over.
CacheIsPast ==
    \A p \in Names :
        /\ pCache[p].phase # "absent" => promo[p].phase # "absent"
        /\ pCache[p].phase \in Terminal \cup {"gone"} => Done(p)

\* A Stage names a Promotion, in the API server or in a stale copy, only when
\* every older one is over.
CurrentIsOldest ==
    \A c \in {stage.current, sCache.current} :
        c # 0 => promo[c].phase # "absent" /\ OldersDone(c)

\* So does whatever acts on it.
ActiveIsOldest ==
    \A p \in Names :
        Active(p) \/ pCache[p].phase = "Running" => OldersDone(p)

\* Nobody finishes a Promotion under the worker that has it.
WorkerOwns == \A p \in Names : worker[p] # "idle" => promo[p].phase \in {"Pending", "Running"}

\* The two controllers never disagree about whose turn it is: every copy of the
\* Stage, current or stale, names a Promotion all of whose predecessors are over,
\* and only that Promotion is ever worked on.  This is what makes the lock-free
\* hand-over through currentPromotion safe.
SerialInv == KnownInOrder /\ CacheIsPast /\ CurrentIsOldest /\ ActiveIsOldest /\ WorkerOwns

(***************************************************************************)
(* Refinement: the two reconcilers implement a serial queue.               *)
(***************************************************************************)
QueueState(phase) ==
    CASE phase = "absent" -> "absent"
      [] phase \in {"New", "Pending"} -> "waiting"
      [] phase = "Running" -> "running"
      [] OTHER -> "done"

Queue == INSTANCE PromotionQueue WITH
    N <- N, state <- [p \in Names |-> QueueState(promo[p].phase)]

\* The Promotions of a Stage start one at a time and in the order of their
\* names, as PromotionQueue says.
ImplementsQueue == Queue!QSpec
=============================================================================
