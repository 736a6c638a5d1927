---------------------------- MODULE StepEngine ----------------------------
(***************************************************************************)
(* How one Running Promotion executes its steps.                           *)
(*                                                                         *)
(* The Promotion reconciler calls promote once per reconciliation.  It     *)
(* makes the Promotion's working directory if it is not there, starts at   *)
(* the step the Promotion's status names (or all over again in a new       *)
(* directory), and executes steps until one has to be waited for or        *)
(* retried, or until there are none left.  Everything it learns stays in   *)
(* memory until the status is patched at the end of the pass, so a crash   *)
(* or a lost patch makes the next pass repeat steps.                       *)
(*                                                                         *)
(* One loop iteration of ExecuteSteps is one action.  Steps are numbered   *)
(* from 1 here, from 0 in the code.                                        *)
(***************************************************************************)
EXTENDS Naturals, FiniteSets, Sequences

CONSTANTS
    K,         \* number of steps
    Plans,     \* the step lists to consider: a set of functions 1 .. K -> Step
    Results,   \* what a step runner may return
    MaxFaults  \* bound: crashes and lost patches

Indices == 1 .. K

\* hasIf: the step has an "if" expression; limit: its error threshold, after
\* defaulting; timed: it has a positive timeout; checked: it registers a health
\* check when it succeeds.
Step == [hasIf: BOOLEAN, continueOnError: BOOLEAN, limit: Nat \ {0},
         timed: BOOLEAN, checked: BOOLEAN]

StepStatuses == {"Succeeded", "Skipped", "Running", "Aborted", "Failed", "Errored"}

\* A runner returns a status, perhaps no valid one, and an error, perhaps one
\* marked as terminal.  A panic is (Errored, terminal).
Result == [status: StepStatuses \cup {"invalid"}, err: {"nil", "error", "terminal"}]

ASSUME StepEngineAssumption ==
    /\ K \in Nat \ {0}
    /\ Plans \subseteq [Indices -> Step]
    /\ Results \subseteq Result
    /\ MaxFaults \in Nat

VARIABLES
    plan,      \* the Promotion's spec.steps, retry policies included
    status,    \* the Promotion's status, as the API server stores it
    abort,     \* has the user asked for an abort
    pass,      \* the pass in progress: its working copy of the status, or idle
    dir,       \* the working directory: does it exist, which steps ran in it
    faults,    \* crashes and lost patches so far
    streak     \* observer: for each step, its failures in a row (up to its limit)

vars == <<plan, status, abort, pass, dir, faults, streak>>

(***************************************************************************)
(* Types                                                                   *)
(***************************************************************************)
Terminal == {"Succeeded", "Failed", "Errored", "Aborted"}

\* StepExecutionMetadata; status "none" stands for an entry not yet appended.
Meta == [status: StepStatuses \cup {"none"}, started: BOOLEAN, finished: BOOLEAN, errors: Nat]

PromotionStatus == [
    phase: {"Running"} \cup Terminal,
    current: Indices,               \* currentStep
    metas: [Indices -> Meta],       \* stepExecutionMetadata
    checks: Seq(Indices)]           \* healthChecks, by the step they come from

\* at: the next step to execute; K + 1 when there is none left.  "saving": the
\* pass is over and its working copy, new, is about to be patched.
Pass == [pc: {"idle", "working", "saving"}, at: 1 .. (K + 1), new: PromotionStatus]

NoMeta == [status |-> "none", started |-> FALSE, finished |-> FALSE, errors |-> 0]
FreshStatus == [phase |-> "Running", current |-> 1,
                metas |-> [i \in Indices |-> NoMeta], checks |-> <<>>]
Idle == [pc |-> "idle", at |-> 1, new |-> FreshStatus]
NoDir == [exists |-> FALSE, ran |-> {}]

(***************************************************************************)
(* Deciding                                                                *)
(***************************************************************************)

\* Mutant: continueOnError is forgotten.
HasFailuresStrict(metas) == \E i \in Indices : metas[i].status \in {"Errored", "Failed"}

\* Mutant: only technical failures count.
HasFailuresErrored(metas) ==
    \E i \in Indices : ~plan[i].continueOnError /\ metas[i].status = "Errored"

HasFailures(metas) ==
    \E i \in Indices : ~plan[i].continueOnError /\ metas[i].status \in {"Errored", "Failed"}

\* What the "if" of a step that has not started yet may come to.  Without one
\* the step is skipped after a failure; an expression may evaluate to anything,
\* or not at all.
Decisions(i, metas) ==
    IF metas[i].started THEN {"run"}
    ELSE IF plan[i].hasIf THEN {"run", "skip", "error"}
    ELSE IF HasFailures(metas) THEN {"skip"} ELSE {"run"}

\* Mutant: any status is taken for a valid one.
ValidAlways(result) == TRUE

Valid(result) == result.status \in StepStatuses

\* An error turns every status but Failed into Errored; Errored is an error.
ReconcileResult(r) ==
    [status |-> IF r.err # "nil" /\ r.status # "Failed" THEN "Errored" ELSE r.status,
     err |-> IF r.err = "nil" /\ r.status = "Errored" THEN "error" ELSE r.err]

\* Mutant: the threshold is exceeded rather than met.
CompleteLate(i, meta, r, late) ==
    LET errors == IF r.err = "error" THEN meta.errors + 1 ELSE meta.errors
        over == r.err = "terminal" \/ (r.err = "error" /\ errors > plan[i].limit)
        timedOut == ~over /\ plan[i].timed /\ late
    IN  IF r.status \in {"Succeeded", "Skipped"}
        THEN [meta EXCEPT !.status = r.status, !.finished = TRUE]
        ELSE [meta EXCEPT !.status = IF timedOut THEN "Errored" ELSE r.status,
                          !.errors = errors,
                          !.finished = over \/ timedOut]

\* Mutant: the timeout is only looked at after an error.
CompletePatiently(i, meta, r, late) ==
    LET errors == IF r.err = "error" THEN meta.errors + 1 ELSE meta.errors
        over == r.err = "terminal" \/ (r.err = "error" /\ errors >= plan[i].limit)
        timedOut == ~over /\ r.err # "nil" /\ plan[i].timed /\ late
    IN  IF r.status \in {"Succeeded", "Skipped"}
        THEN [meta EXCEPT !.status = r.status, !.finished = TRUE]
        ELSE [meta EXCEPT !.status = IF timedOut THEN "Errored" ELSE r.status,
                          !.errors = errors,
                          !.finished = over \/ timedOut]

\* determineStepCompletion: the step's metadata after an attempt whose result,
\* after ReconcileResult, is r; late: its timeout has elapsed.  Unless it is
\* finished the step will be attempted again.
Complete(i, meta, r, late) ==
    LET errors == IF r.err = "error" THEN meta.errors + 1 ELSE meta.errors
        over == r.err = "terminal" \/ (r.err = "error" /\ errors >= plan[i].limit)
        timedOut == ~over /\ plan[i].timed /\ late
    IN  IF r.status \in {"Succeeded", "Skipped"}
        THEN [meta EXCEPT !.status = r.status, !.finished = TRUE]
        ELSE [meta EXCEPT !.status = IF timedOut THEN "Errored" ELSE r.status,
                          !.errors = errors,
                          !.finished = over \/ timedOut]

\* Mutant: the last step decides.
FinalPhaseOfLast(metas) ==
    CASE metas[K].status \in {"Succeeded", "Skipped", "none"} -> "Succeeded"
      [] metas[K].status \in {"Failed", "Aborted"} -> metas[K].status
      [] OTHER -> "Errored"

\* DetermineFinalPhase: the most severe status among the steps that count.
FinalPhase(metas) ==
    LET counted == {metas[i].status : i \in {j \in Indices : ~plan[j].continueOnError}}
    IN  IF "Errored" \in counted THEN "Errored"
        ELSE IF "Failed" \in counted THEN "Failed"
        ELSE IF "Aborted" \in counted THEN "Aborted"
        ELSE IF "Running" \in counted THEN "Errored"
        ELSE "Succeeded"

(***************************************************************************)
(* A pass                                                                  *)
(***************************************************************************)
Working == pass.pc = "working"

\* Mutant: a new directory, but the metadata of the old one.
StartOverBlindly(st, fresh) == st

\* Mutant: the health checks of the earlier round are kept.
StartOverKeepingChecks(st, fresh) ==
    IF fresh THEN [FreshStatus EXCEPT !.checks = st.checks] ELSE st

\* In a directory that did not exist the Promotion starts from the beginning,
\* without the metadata and health checks of an earlier round.
StartOver(st, fresh) == IF fresh THEN FreshStatus ELSE st

\* Mutant: every pass starts from the first step.
StartFromFirst(st) == 1

StartFrom(st) == st.current

Startable ==
    /\ pass.pc = "idle"
    /\ status.phase = "Running"
    /\ ~abort

\* The reconciler picks up a Running Promotion nobody wants aborted; promote
\* makes the working directory and calls the engine.
Begin ==
    /\ Startable
    /\ LET st == StartOver(status, ~dir.exists)
       IN  pass' = [pc |-> "working", at |-> StartFrom(st), new |-> st]
    /\ dir' = [dir EXCEPT !.exists = TRUE]
    /\ streak' = IF dir.exists THEN streak ELSE [i \in Indices |-> 0]
    /\ UNCHANGED <<plan, status, abort, faults>>

\* The reconciler keeps the status the pass began with and makes it Errored.
GiveUp ==
    /\ pass' = [pc |-> "saving", at |-> 1, new |-> [status EXCEPT !.phase = "Errored"]]
    /\ UNCHANGED <<plan, status, abort, dir, faults, streak>>

\* promote gives up before it comes to the steps: the Freight is gone or not
\* available to the Stage, the Target cannot be resolved, the directory cannot
\* be made.
Reject == Startable /\ GiveUp

\* promote panics between two steps; the reconciler recovers.  What the pass
\* had learnt is lost with it.
Panic == Working /\ GiveUp

MoveOn(i, meta) ==
    pass' = [pass EXCEPT !.at = i + 1, !.new.metas[i] = meta]

\* The "if" says no, or cannot be evaluated.  The step has neither started nor
\* finished.
SkipStep(decision) ==
    /\ Working
    /\ \E i \in Indices :
        /\ i = pass.at
        /\ decision \in Decisions(i, pass.new.metas) \ {"run"}
        /\ MoveOn(i, [pass.new.metas[i] EXCEPT
                        !.status = IF decision = "skip" THEN "Skipped" ELSE "Errored"])
    /\ UNCHANGED <<plan, status, abort, dir, faults, streak>>

\* The step cannot be executed: no runner is registered for its kind, or its
\* context cannot be built (then it counts as started).
MisconfiguredStep(started) ==
    /\ Working
    /\ \E i \in Indices :
        /\ i = pass.at
        /\ "run" \in Decisions(i, pass.new.metas)
        /\ MoveOn(i, [pass.new.metas[i] EXCEPT !.status = "Errored",
                                               !.started = @ \/ started])
    /\ UNCHANGED <<plan, status, abort, dir, faults, streak>>

\* The step runs.  A valid result completes it, or ends the pass with the
\* Promotion still Running; an invalid one makes the step Errored.
ExecuteStep(result, late) ==
    /\ Working
    /\ \E i \in Indices :
        /\ i = pass.at
        /\ "run" \in Decisions(i, pass.new.metas)
        /\ dir' = [dir EXCEPT !.ran = @ \cup {i}]
        /\ LET meta == [pass.new.metas[i] EXCEPT !.started = TRUE]
               r == ReconcileResult(result)
               done == IF Valid(result) THEN Complete(i, meta, r, late)
                       ELSE [meta EXCEPT !.status = "Errored", !.finished = TRUE]
               checks == IF done.status = "Succeeded" /\ plan[i].checked
                         THEN Append(pass.new.checks, i) ELSE pass.new.checks
           IN  /\ pass' = [pc |-> IF done.finished THEN "working" ELSE "saving",
                           at |-> IF done.finished THEN i + 1 ELSE i,
                           new |-> [pass.new EXCEPT
                                      !.metas[i] = done,
                                      !.checks = checks,
                                      !.current = IF done.finished THEN @ ELSE i]]
               /\ streak' = [streak EXCEPT
                    ![i] = IF r.status \notin {"Failed", "Errored"} THEN 0
                           ELSE IF @ < plan[i].limit THEN @ + 1 ELSE @]
    /\ UNCHANGED <<plan, status, abort, faults>>

\* No step is left.
FinishSteps ==
    /\ Working
    /\ pass.at = K + 1
    /\ pass' = [pass EXCEPT !.pc = "saving",
                            !.new.phase = FinalPhase(pass.new.metas),
                            !.new.current = K]
    /\ UNCHANGED <<plan, status, abort, dir, faults, streak>>

\* The status is patched; a finished Promotion's directory is removed whether
\* or not the patch got through.
RemoveDirIfDone == dir' = IF pass.new.phase \in Terminal THEN NoDir ELSE dir

SavePass ==
    /\ pass.pc = "saving"
    /\ status' = pass.new
    /\ pass' = Idle
    /\ RemoveDirIfDone
    /\ UNCHANGED <<plan, abort, faults, streak>>

\* The API server finds the new status invalid.  The Promotion is made Errored
\* with a second patch, on top of what was stored.
RefuseSave ==
    /\ pass.pc = "saving"
    /\ status' = [status EXCEPT !.phase = "Errored"]
    /\ pass' = Idle
    /\ RemoveDirIfDone
    /\ UNCHANGED <<plan, abort, faults, streak>>

LoseSave ==
    /\ pass.pc = "saving"
    /\ faults < MaxFaults
    /\ faults' = faults + 1
    /\ pass' = Idle
    /\ RemoveDirIfDone
    /\ UNCHANGED <<plan, status, abort, streak>>

(***************************************************************************)
(* Aborts and crashes                                                      *)
(***************************************************************************)
RequestAbort ==
    /\ ~abort
    /\ status.phase = "Running"
    /\ abort' = TRUE
    /\ UNCHANGED <<plan, status, pass, dir, faults, streak>>

IsCurrentStepRunning ==
    /\ \A j \in Indices : j > status.current => status.metas[j].status = "none"
    /\ status.metas[status.current].status = "Running"

\* terminatePromotion: the next reconciliation heeds the request.
Terminate ==
    /\ pass.pc = "idle"
    /\ status.phase = "Running"
    /\ abort
    /\ status' = [status EXCEPT
            !.phase = "Aborted",
            !.metas[status.current] = IF IsCurrentStepRunning
                THEN [@ EXCEPT !.status = "Aborted", !.finished = TRUE] ELSE @]
    /\ dir' = NoDir
    /\ UNCHANGED <<plan, abort, pass, faults, streak>>

\* The controller dies.  A restarted container keeps the pod's /tmp, a replaced
\* pod does not (keeps), and neither does a graceful shutdown: the steps end
\* Errored because their context is cancelled, the patch fails for the same
\* reason, and the directory is removed.
Crash(keeps) ==
    /\ faults < MaxFaults
    /\ faults' = faults + 1
    /\ pass' = Idle
    /\ dir' = IF keeps THEN dir ELSE NoDir
    /\ UNCHANGED <<plan, status, abort, streak>>

Init ==
    /\ plan \in Plans
    /\ status = FreshStatus
    /\ abort = FALSE
    /\ pass = Idle
    /\ dir = NoDir
    /\ faults = 0
    /\ streak = [i \in Indices |-> 0]

TryStep ==
    \/ \E decision \in {"skip", "error"} : SkipStep(decision)
    \/ \E started \in BOOLEAN : MisconfiguredStep(started)
    \/ \E result \in Results, late \in BOOLEAN : ExecuteStep(result, late)

Next ==
    \/ Begin \/ Reject
    \/ TryStep
    \/ Panic
    \/ FinishSteps \/ SavePass \/ RefuseSave \/ LoseSave
    \/ RequestAbort \/ Terminate
    \/ \E keeps \in BOOLEAN : Crash(keeps)

\* A Running Promotion is requeued after every pass, a pass runs to its end and
\* time passes: a step that is attempted again and again is in the end attempted
\* after its timeout.
Fairness ==
    /\ WF_vars(Begin)
    /\ WF_vars(TryStep \/ Panic)
    /\ WF_vars(FinishSteps)
    /\ WF_vars(SavePass \/ RefuseSave)
    /\ WF_vars(Terminate)
    /\ SF_vars(\E result \in Results : ExecuteStep(result, TRUE))

Spec == Init /\ [][Next]_vars
FairSpec == Spec /\ Fairness

(***************************************************************************)
(* Properties                                                              *)
(***************************************************************************)

\* Every variable keeps its shape: in particular a pass never indexes a step
\* beyond the list, and an error count never leaves the naturals.
TypeOK ==
    /\ plan \in Plans
    /\ status \in PromotionStatus
    /\ abort \in BOOLEAN
    /\ pass \in Pass
    /\ dir \in [exists: BOOLEAN, ran: SUBSET Indices]
    /\ faults \in 0 .. MaxFaults
    /\ streak \in [Indices -> Nat]

\* "If we're working with a fresh directory, we should start the promotion
\* process again from the beginning" (promote): a step never executes in a
\* directory from which the work of an earlier, succeeded step is missing.  This
\* survives any one crash or lost patch, but not two: that the directory is new is
\* known only to the pass that made it, and if that pass is lost the next one
\* finds a directory and resumes in the middle.
InheritedWork ==
    Working => \A j \in Indices : pass.new.metas[j].status = "Succeeded" => j \in dir.ran

\* A step that ran in this directory and that the Promotion's status records as
\* finished is never executed a second time: a pass resumes where the last
\* recorded one stopped (StartFromStep).
NoRepeat ==
    Working /\ pass.at \in dir.ran => ~status.metas[pass.at].finished

\* The recorded health checks are exactly those of the steps that succeeded:
\* starting over, resuming and repeating a pass neither duplicate nor lose one.
HealthChecksExact ==
    \A i \in Indices :
        Cardinality({k \in DOMAIN status.checks : status.checks[k] = i}) =
            IF plan[i].checked /\ status.metas[i].status = "Succeeded" THEN 1 ELSE 0

\* ShouldSkip: without an "if", a step "is automatically skipped if any of the
\* previous steps have errored or failed", also when the failure happened in an
\* earlier pass; continueOnError exempts a step from being such a failure.
FailureStops ==
    \A i \in Indices :
        status.metas[i].started /\ ~plan[i].hasIf =>
            \A j \in 1 .. (i - 1) :
                plan[j].continueOnError \/ status.metas[j].status \notin {"Failed", "Errored"}

\* A failure that continueOnError excuses does not keep a later step from
\* running: without an "if", a step is skipped only because of a step that counts.
SkippedForAReason ==
    \A i \in Indices :
        /\ status.metas[i].status = "Skipped"
        /\ ~status.metas[i].started /\ ~plan[i].hasIf
        => \E j \in 1 .. (i - 1) :
              /\ ~plan[j].continueOnError
              /\ status.metas[j].status \in {"Failed", "Errored"}

\* A Promotion succeeds exactly when every step has been dealt with and each one
\* that counts succeeded or was skipped.
SuccessEarned ==
    status.phase = "Succeeded" =>
        \A i \in Indices :
            /\ status.metas[i].status # "none"
            /\ \/ plan[i].continueOnError
               \/ status.metas[i].status \in {"Succeeded", "Skipped"}

\* Recoverable errors are retried fewer times than the step's threshold: the
\* attempt that meets it finishes the step.
ErrorsBounded ==
    \A i \in Indices :
        pass.new.metas[i].errors >= plan[i].limit => pass.new.metas[i].finished

\* A Promotion whose steps all have a timeout is over some day, whatever its
\* steps return and whatever crashes.
TimeoutsEndIt == (\A i \in Indices : plan[i].timed) ~> status.phase \in Terminal

\* The docs let a step "not ... fail the Promotion until three consecutive failed
\* attempts" with errorThreshold 3: a step is only given up for its errors after
\* that many failures in a row.
GivenUpAfterStreak ==
    \A i \in Indices :
        pass.new.metas[i].errors >= plan[i].limit => streak[i] >= plan[i].limit

(***************************************************************************)
(* Why steps are neither repeated nor retried too often: an inductive      *)
(* invariant.                                                              *)
(***************************************************************************)

\* No step from n on is finished.
Open(metas, n) == \A j \in Indices : j >= n => ~metas[j].finished

\* Meeting the error threshold finishes a step.
Bounded(metas) ==
    \A i \in Indices : metas[i].errors >= plan[i].limit => metas[i].finished

\* In every copy of the status, recorded or in the making, the finished steps lie
\* before the step that is up next, so that whichever copy a pass resumes from,
\* after a crash or a lost patch too, it attempts unfinished steps only.
StepInv ==
    /\ Bounded(status.metas) /\ Bounded(pass.new.metas)
    /\ status.phase = "Running" => Open(status.metas, status.current)
    /\ Working => Open(pass.new.metas, pass.at)
    /\ pass.pc = "saving" /\ pass.new.phase = "Running" => Open(pass.new.metas, pass.new.current)
    /\ ~dir.exists => ~Working /\ dir.ran = {}
    /\ Working => \A j \in Indices :
                     j >= pass.at /\ j \in dir.ran => ~status.metas[j].finished
=============================================================================
