------------------------- MODULE StepEngineProofs -------------------------
(***************************************************************************)
(* Proofs about StepEngine, for any number of steps, any plan, any results *)
(* and any number of crashes and lost patches: its types, that a step is   *)
(* neither repeated nor retried beyond its error threshold, and that what  *)
(* the recorded status says about failures, skipped steps, health checks   *)
(* and success is right.  That a step finds the work of the earlier ones   *)
(* is proved for at most one fault.                                        *)
(***************************************************************************)
EXTENDS StepEngine, FiniteSetTheorems, TLAPS

\* The statuses a Promotion and a pass start with are well formed.
LEMMA FreshStatusType == FreshStatus \in PromotionStatus /\ Idle \in Pass
<1> USE StepEngineAssumption
<1>1. 1 \in Indices /\ 1 \in 1 .. (K + 1)
  BY DEF Indices
<1>2. NoMeta \in Meta
  BY DEF NoMeta, Meta
<1>3. FreshStatus \in PromotionStatus
  BY <1>1, <1>2 DEF FreshStatus, PromotionStatus
<1> QED
  BY <1>1, <1>3 DEF Idle, Pass

\* What an attempt leaves behind is well-formed metadata.
LEMMA CompleteType ==
    ASSUME NEW i \in Indices, NEW meta \in Meta, NEW r \in Result, NEW late \in BOOLEAN,
           r.status \in StepStatuses
    PROVE  Complete(i, meta, r, late) \in Meta
<1>1. meta.errors + 1 \in Nat /\ meta.errors \in Nat
  BY DEF Meta
<1> QED
  BY <1>1 DEF Complete, Meta, Result, StepStatuses

\* A valid result stays valid when status and error are reconciled.
LEMMA ReconcileResultType ==
    ASSUME NEW r \in Result, Valid(r)
    PROVE  ReconcileResult(r) \in Result /\ ReconcileResult(r).status \in StepStatuses
BY DEF ReconcileResult, Result, Valid, StepStatuses

\* A Promotion without steps left gets a terminal phase (DetermineFinalPhase).
LEMMA FinalPhaseType == \A metas : FinalPhase(metas) \in Terminal
BY DEF FinalPhase, Terminal

\* The metadata an executed step ends with.
Executed(i, meta, result, late) ==
    IF Valid(result) THEN Complete(i, meta, ReconcileResult(result), late)
    ELSE [meta EXCEPT !.status = "Errored", !.finished = TRUE]

\* An attempt, with a valid result or not, leaves well-formed metadata.
LEMMA ExecutedType ==
    ASSUME NEW i \in Indices, NEW meta \in Meta, NEW result \in Result, NEW late \in BOOLEAN
    PROVE  Executed(i, meta, result, late) \in Meta
<1>1. CASE Valid(result)
  BY <1>1, ReconcileResultType, CompleteType DEF Executed
<1>2. CASE ~Valid(result)
  BY <1>2 DEF Executed, Meta, StepStatuses
<1> QED
  BY <1>1, <1>2

\* Updating one step of a pass keeps the pass well formed.
LEMMA MoveOnType ==
    ASSUME pass \in Pass, NEW i \in Indices, NEW meta \in Meta, MoveOn(i, meta)
    PROVE  pass' \in Pass
<1> USE StepEngineAssumption
<1>1. i + 1 \in 1 .. (K + 1)
  BY DEF Indices
<1> QED
  BY <1>1 DEF MoveOn, Pass, PromotionStatus

\* What an execution of step i does, apart from how it counts health checks and
\* failures in a row.
Attempts(i, result, late) ==
    LET done == Executed(i, [pass.new.metas[i] EXCEPT !.started = TRUE], result, late)
    IN  /\ Working /\ i = pass.at
        /\ dir' = [dir EXCEPT !.ran = @ \cup {i}]
        /\ \E checks \in {pass.new.checks, Append(pass.new.checks, i)} :
              pass' = [pc |-> IF done.finished THEN "working" ELSE "saving",
                       at |-> IF done.finished THEN i + 1 ELSE i,
                       new |-> [pass.new EXCEPT
                                  !.metas[i] = done,
                                  !.checks = checks,
                                  !.current = IF done.finished THEN @ ELSE i]]
        /\ \E n \in {0, streak[i], streak[i] + 1} : streak' = [streak EXCEPT ![i] = n]
        /\ UNCHANGED <<plan, status, abort, faults>>

\* The working copy of the status has the type of a status.
LEMMA PassNewType ==
    TypeOK => /\ pass.new \in PromotionStatus
              /\ \A i \in Indices : pass.new.metas[i] \in Meta
              /\ pass.new.checks \in Seq(Indices)
BY DEF TypeOK, Pass, PromotionStatus

\* ExecuteStep is an attempt at the step that is up next.
LEMMA ExecuteStepAttempts ==
    ASSUME NEW result \in Results, NEW late \in BOOLEAN, ExecuteStep(result, late)
    PROVE  \E i \in Indices : Attempts(i, result, late)
BY DEF ExecuteStep, Attempts, Executed

\* An attempt keeps the types.
LEMMA AttemptsType ==
    ASSUME TypeOK, NEW result \in Results, NEW late \in BOOLEAN,
           NEW i \in Indices, Attempts(i, result, late)
    PROVE  TypeOK'
<1> USE StepEngineAssumption
<1> DEFINE done == Executed(i, [pass.new.metas[i] EXCEPT !.started = TRUE], result, late)
<1>0. pass.new.metas[i] \in Meta /\ pass.new.checks \in Seq(Indices)
  BY PassNewType
<1>1. [pass.new.metas[i] EXCEPT !.started = TRUE] \in Meta
  BY <1>0 DEF Meta
<1>2. done \in Meta
  BY <1>1, ExecutedType
<1>3. PICK checks \in {pass.new.checks, Append(pass.new.checks, i)} :
        pass' = [pc |-> IF done.finished THEN "working" ELSE "saving",
                 at |-> IF done.finished THEN i + 1 ELSE i,
                 new |-> [pass.new EXCEPT
                            !.metas[i] = done,
                            !.checks = checks,
                            !.current = IF done.finished THEN @ ELSE i]]
  BY DEF Attempts
<1>4. checks \in Seq(Indices)
  <2>1. Append(pass.new.checks, i) \in Seq(Indices)
    BY <1>0
  <2>2. checks = pass.new.checks \/ checks = Append(pass.new.checks, i)
    BY ONLY checks \in {pass.new.checks, Append(pass.new.checks, i)}, Zenon
  <2> QED
    BY <1>0, <2>1, <2>2
<1>5. i \in 1 .. (K + 1) /\ i + 1 \in 1 .. (K + 1)
  BY DEF Indices
<1>6. pass' \in Pass
  <2> HIDE DEF done
  <2> QED
    BY <1>2, <1>3, <1>4, <1>5 DEF TypeOK, Pass, PromotionStatus
<1>7. streak' \in [Indices -> Nat]
  BY DEF Attempts, TypeOK
<1>8. dir' \in [exists: BOOLEAN, ran: SUBSET Indices]
  BY DEF Attempts, TypeOK
<1>9. UNCHANGED <<plan, status, abort, faults>>
  BY DEF Attempts
<1> QED
  BY <1>6, <1>7, <1>8, <1>9 DEF TypeOK

\* TypeOK is inductive.
LEMMA TypeOKStep == TypeOK /\ [Next]_vars => TypeOK'
<1> USE StepEngineAssumption, FreshStatusType
<1> SUFFICES ASSUME TypeOK, [Next]_vars PROVE TypeOK'
  OBVIOUS
<1>1. CASE Begin
  <2>1. StartOver(status, ~dir.exists) \in PromotionStatus
    BY DEF StartOver, TypeOK
  <2>2. pass' \in Pass
    BY <1>1, <2>1 DEF Begin, StartFrom, Pass, PromotionStatus, Indices
  <2> QED
    BY <1>1, <2>2 DEF Begin, TypeOK
<1>2. CASE GiveUp
  <2>1. [status EXCEPT !.phase = "Errored"] \in PromotionStatus
    BY DEF TypeOK, PromotionStatus, Terminal
  <2>2. pass' \in Pass
    BY <1>2, <2>1 DEF GiveUp, Pass
  <2> QED
    BY <1>2, <2>2 DEF GiveUp, TypeOK
<1>3. ASSUME NEW decision \in {"skip", "error"}, SkipStep(decision) PROVE TypeOK'
  <2>1. PICK i \in Indices : MoveOn(i, [pass.new.metas[i] EXCEPT
                        !.status = IF decision = "skip" THEN "Skipped" ELSE "Errored"])
    BY <1>3 DEF SkipStep
  <2>2. [pass.new.metas[i] EXCEPT
                        !.status = IF decision = "skip" THEN "Skipped" ELSE "Errored"] \in Meta
    BY PassNewType DEF Meta, StepStatuses
  <2>3. pass' \in Pass
    BY <2>1, <2>2, MoveOnType DEF TypeOK
  <2> QED
    BY <1>3, <2>3 DEF SkipStep, TypeOK
<1>4. ASSUME NEW started \in BOOLEAN, MisconfiguredStep(started) PROVE TypeOK'
  <2>1. PICK i \in Indices : MoveOn(i, [pass.new.metas[i] EXCEPT !.status = "Errored",
                                               !.started = @ \/ started])
    BY <1>4 DEF MisconfiguredStep
  <2>2. [pass.new.metas[i] EXCEPT !.status = "Errored", !.started = @ \/ started] \in Meta
    BY PassNewType DEF Meta, StepStatuses
  <2>3. pass' \in Pass
    BY <2>1, <2>2, MoveOnType DEF TypeOK
  <2> QED
    BY <1>4, <2>3 DEF MisconfiguredStep, TypeOK
<1>5. ASSUME NEW result \in Results, NEW late \in BOOLEAN, ExecuteStep(result, late)
      PROVE  TypeOK'
  BY <1>5, ExecuteStepAttempts, AttemptsType
<1>6. CASE FinishSteps
  <2>1. FinalPhase(pass.new.metas) \in Terminal
    BY FinalPhaseType
  <2>2. K \in Indices
    BY DEF Indices
  <2>3. pass' = [pass EXCEPT !.pc = "saving",
                             !.new = [@ EXCEPT !.phase = FinalPhase(pass.new.metas),
                                               !.current = K]]
    BY <1>6 DEF FinishSteps, TypeOK, Pass, PromotionStatus
  <2>4. [pass.new EXCEPT !.phase = FinalPhase(pass.new.metas), !.current = K]
            \in PromotionStatus
    BY <2>1, <2>2, PassNewType DEF PromotionStatus
  <2>5. pass' \in Pass
    BY <2>3, <2>4 DEF TypeOK, Pass
  <2> QED
    BY <1>6, <2>5 DEF FinishSteps, TypeOK
<1>7. CASE SavePass
  BY <1>7 DEF SavePass, RemoveDirIfDone, NoDir, TypeOK, Pass
<1>r. CASE RefuseSave
  BY <1>r DEF RefuseSave, RemoveDirIfDone, NoDir, TypeOK, PromotionStatus, Terminal
<1>8. CASE LoseSave
  BY <1>8 DEF LoseSave, RemoveDirIfDone, NoDir, TypeOK, Pass
<1>9. CASE RequestAbort
  BY <1>9 DEF RequestAbort, TypeOK
<1>10. CASE Terminate
  <2> DEFINE c == status.current
             meta == IF IsCurrentStepRunning
                     THEN [status.metas[c] EXCEPT !.status = "Aborted", !.finished = TRUE]
                     ELSE status.metas[c]
  <2>1. status \in PromotionStatus /\ c \in Indices /\ status.metas[c] \in Meta
    BY DEF TypeOK, PromotionStatus
  <2>2. meta \in Meta
    BY <2>1 DEF Meta, StepStatuses
  <2>3. status' = [status EXCEPT !.phase = "Aborted", !.metas = [@ EXCEPT ![c] = meta]]
    BY <1>10, <2>1 DEF Terminate, PromotionStatus
  <2>4. status' \in PromotionStatus
    <3> HIDE DEF c, meta
    <3> QED
      BY <2>1, <2>2, <2>3 DEF PromotionStatus, Terminal
  <2> QED
    BY <1>10, <2>4 DEF Terminate, TypeOK, NoDir
<1>11. ASSUME NEW keeps \in BOOLEAN, Crash(keeps) PROVE TypeOK'
  BY <1>11 DEF Crash, TypeOK, NoDir
<1>12. CASE UNCHANGED vars
  BY <1>12 DEF vars, TypeOK
<1> QED
  BY <1>1, <1>2, <1>3, <1>4, <1>5, <1>6, <1>7, <1>r, <1>8, <1>9, <1>10, <1>11, <1>12
     DEF Next, TryStep, Reject, Panic

\* The initial states are well formed.
LEMMA InitType == Init => TypeOK
<1> SUFFICES ASSUME Init PROVE TypeOK
  OBVIOUS
<1>1. faults \in 0 .. MaxFaults /\ streak \in [Indices -> Nat]
  BY StepEngineAssumption DEF Init
<1>2. dir \in [exists: BOOLEAN, ran: SUBSET Indices]
  BY DEF Init, NoDir
<1> QED
  BY <1>1, <1>2, FreshStatusType DEF Init, TypeOK

\* The shape of every variable of StepEngine is preserved by every step: a pass
\* never indexes a step beyond the list, whatever crashes (ExecuteSteps).
THEOREM TypeCorrect == Spec => []TypeOK
BY InitType, TypeOKStep, PTL DEF Spec

\* An attempt at an unfinished step below its threshold either stays below it or
\* finishes the step.
LEMMA CompleteBounded ==
    ASSUME TypeOK, NEW i \in Indices, NEW meta \in Meta, NEW r \in Result, NEW late \in BOOLEAN,
           meta.errors < plan[i].limit,
           Complete(i, meta, r, late).errors >= plan[i].limit
    PROVE  Complete(i, meta, r, late).finished
<1>1. plan[i].limit \in Nat
  BY StepEngineAssumption DEF TypeOK, Step
<1>2. meta.errors \in Nat
  BY DEF Meta
<1>3. CASE r.status \in {"Succeeded", "Skipped"}
  BY <1>1, <1>2, <1>3 DEF Complete, Meta
<1>4. CASE r.status \notin {"Succeeded", "Skipped"}
  <2> DEFINE errors == IF r.err = "error" THEN meta.errors + 1 ELSE meta.errors
             over == r.err = "terminal" \/ (r.err = "error" /\ errors >= plan[i].limit)
             timedOut == ~over /\ plan[i].timed /\ late
  <2>1. /\ Complete(i, meta, r, late).errors = errors
        /\ Complete(i, meta, r, late).finished = (over \/ timedOut)
    BY <1>4 DEF Complete, Meta
  <2>2. r.err = "error"
    BY <1>1, <1>2, <2>1
  <2>3. over
    BY <2>1, <2>2
  <2> QED
    BY <2>1, <2>3
<1> QED
  BY <1>3, <1>4

\* An attempt that meets the error threshold finishes the step.
LEMMA ExecutedBounded ==
    ASSUME TypeOK, NEW i \in Indices, NEW meta \in Meta, NEW result \in Result, NEW late \in BOOLEAN,
           meta.errors < plan[i].limit,
           Executed(i, meta, result, late).errors >= plan[i].limit
    PROVE  Executed(i, meta, result, late).finished
<1>1. CASE Valid(result)
  BY <1>1, ReconcileResultType, CompleteBounded DEF Executed
<1>2. CASE ~Valid(result)
  BY <1>2 DEF Executed, Meta
<1> QED
  BY <1>1, <1>2

\* In the status a Promotion starts over with no step is finished.
LEMMA FreshIsOpen == TypeOK => Bounded(FreshStatus.metas) /\ \A n \in Nat : Open(FreshStatus.metas, n)
<1> SUFFICES ASSUME TypeOK PROVE Bounded(FreshStatus.metas) /\ \A n \in Nat : Open(FreshStatus.metas, n)
  OBVIOUS
<1>1. \A i \in Indices : plan[i].limit \in Nat \ {0}
  BY StepEngineAssumption DEF TypeOK, Step
<1> QED
  BY <1>1 DEF FreshStatus, NoMeta, Bounded, Open

\* A step that is passed over keeps its error count and is not finished.
LEMMA MoveOnInv ==
    ASSUME TypeOK, StepInv, Working, NEW i \in Indices, i = pass.at, NEW meta \in Meta,
           meta.errors = pass.new.metas[i].errors, meta.finished = pass.new.metas[i].finished,
           MoveOn(i, meta), UNCHANGED <<plan, status, abort, dir, faults, streak>>
    PROVE  StepInv'
<1> USE StepEngineAssumption
<1>1. /\ pass'.pc = "working" /\ pass'.at = i + 1
      /\ pass'.new.metas = [pass.new.metas EXCEPT ![i] = meta]
  BY DEF MoveOn, TypeOK, Pass, PromotionStatus, Working
<1>2. Bounded(pass.new.metas)'
  BY <1>1 DEF StepInv, Bounded, TypeOK, Pass, PromotionStatus
<1>3. Working' /\ Open(pass.new.metas, pass.at)'
  <2>1. Working'
    BY <1>1 DEF Working
  <2>2. ASSUME NEW j \in Indices, j >= i + 1
        PROVE  ~pass'.new.metas[j].finished
    <3>1. j # i /\ j >= i
      BY <2>2 DEF Indices
    <3>2. pass'.new.metas[j] = pass.new.metas[j]
      BY <1>1, <3>1 DEF TypeOK, Pass, PromotionStatus
    <3> QED
      BY <3>1, <3>2 DEF StepInv, Open
  <2> QED
    BY <1>1, <2>1, <2>2 DEF Open
<1>4. \A j \in Indices : j >= pass.at' /\ j \in dir.ran => ~status.metas[j].finished
  BY <1>1 DEF StepInv, Indices
<1> QED
  BY <1>1, <1>2, <1>3, <1>4 DEF StepInv, Bounded, Open, Working

\* An attempt preserves StepInv.
LEMMA AttemptsInv ==
    ASSUME TypeOK, StepInv, NEW result \in Results, NEW late \in BOOLEAN,
           NEW i \in Indices, Attempts(i, result, late)
    PROVE  StepInv'
<1> USE StepEngineAssumption
<1> DEFINE meta == [pass.new.metas[i] EXCEPT !.started = TRUE]
           done == Executed(i, meta, result, late)
<1>0. pass.new \in PromotionStatus /\ pass.new.metas \in [Indices -> Meta]
  BY DEF TypeOK, Pass, PromotionStatus
<1>1. meta \in Meta /\ meta.errors = pass.new.metas[i].errors
  BY <1>0 DEF Meta
<1>2. plan[i].limit \in Nat /\ meta.errors \in Nat
  BY <1>1 DEF TypeOK, Step, Meta
<1>3. Working /\ i = pass.at /\ UNCHANGED <<plan, status>>
  BY DEF Attempts
<1>4. meta.errors < plan[i].limit
  BY <1>0, <1>1, <1>2, <1>3 DEF StepInv, Bounded, Open, Indices
<1>5. done \in Meta /\ (done.errors >= plan[i].limit => done.finished)
  BY <1>1, <1>4, ExecutedType, ExecutedBounded
<1> HIDE DEF done
<1>6. /\ pass'.pc = IF done.finished THEN "working" ELSE "saving"
      /\ pass'.at = IF done.finished THEN i + 1 ELSE i
      /\ pass'.new.metas = [pass.new.metas EXCEPT ![i] = done]
      /\ ~done.finished => pass'.new.current = i
  <2>1. PICK checks :
          pass' = [pc |-> IF done.finished THEN "working" ELSE "saving",
                   at |-> IF done.finished THEN i + 1 ELSE i,
                   new |-> [pass.new EXCEPT
                              !.metas[i] = done,
                              !.checks = checks,
                              !.current = IF done.finished THEN @ ELSE i]]
    BY DEF Attempts, done
  <2> QED
    BY <1>0, <2>1 DEF PromotionStatus
<1>7. dir'.ran = dir.ran \cup {i} /\ dir'.exists = dir.exists
  BY DEF Attempts, TypeOK
<1>8. Bounded(pass.new.metas)'
  BY <1>0, <1>3, <1>5, <1>6 DEF StepInv, Bounded
<1>9. Working' => Open(pass.new.metas, pass.at)'
  BY <1>0, <1>3, <1>6 DEF StepInv, Working, Open, Indices
<1>10. (pass.pc = "saving" /\ pass.new.phase = "Running" => Open(pass.new.metas, pass.new.current))'
  BY <1>0, <1>3, <1>6 DEF StepInv, Open, Indices
<1>11. Working' => \A j \in Indices :
                     j >= pass'.at /\ j \in dir'.ran => ~status'.metas[j].finished
  BY <1>3, <1>6, <1>7 DEF StepInv, Working, Indices
<1>12. dir'.exists
  BY <1>3, <1>7 DEF StepInv, TypeOK
<1> QED
  BY <1>3, <1>8, <1>9, <1>10, <1>11, <1>12 DEF StepInv, Bounded, Open

\* StepInv is inductive.
LEMMA StepInvStep == TypeOK /\ StepInv /\ [Next]_vars => StepInv'
<1> USE StepEngineAssumption
<1> SUFFICES ASSUME TypeOK, StepInv, [Next]_vars PROVE StepInv'
  OBVIOUS
<1>0. Bounded(FreshStatus.metas) /\ \A n \in Nat : Open(FreshStatus.metas, n)
  BY FreshIsOpen
<1>1. CASE Begin
  <2> DEFINE st == StartOver(status, ~dir.exists)
  <2>1. /\ pass'.pc = "working" /\ pass'.at = st.current /\ pass'.new = st
        /\ dir'.exists /\ dir'.ran = dir.ran
        /\ UNCHANGED <<plan, status>> /\ status.phase = "Running"
    BY <1>1 DEF Begin, Startable, StartFrom, TypeOK
  <2>2. CASE dir.exists
    <3>1. st = status
      BY <2>2 DEF StartOver
    <3> QED
      BY <2>1, <2>2, <3>1 DEF StepInv, Bounded, Open, Working
  <2>3. CASE ~dir.exists
    <3>1. st = FreshStatus /\ FreshStatus.current = 1
      BY <2>3 DEF StartOver, FreshStatus
    <3>2. Bounded(pass.new.metas)' /\ Open(pass.new.metas, pass.at)'
      BY <1>0, <2>1, <3>1 DEF Bounded, Open
    <3> QED
      BY <2>1, <2>3, <3>2 DEF StepInv, Bounded, Open, Working
  <2> QED
    BY <2>2, <2>3
<1>2. CASE GiveUp
  <2>1. /\ pass'.pc = "saving" /\ pass'.new.metas = status.metas /\ pass'.new.phase = "Errored"
        /\ UNCHANGED <<plan, status, dir>>
    BY <1>2 DEF GiveUp, TypeOK, PromotionStatus
  <2> QED
    BY <2>1 DEF StepInv, Bounded, Open, Working
<1>3. ASSUME NEW decision \in {"skip", "error"}, SkipStep(decision) PROVE StepInv'
  <2>1. PICK i \in Indices :
            /\ i = pass.at
            /\ MoveOn(i, [pass.new.metas[i] EXCEPT
                            !.status = IF decision = "skip" THEN "Skipped" ELSE "Errored"])
    BY <1>3 DEF SkipStep
  <2> DEFINE meta == [pass.new.metas[i] EXCEPT
                            !.status = IF decision = "skip" THEN "Skipped" ELSE "Errored"]
  <2>2. /\ meta \in Meta /\ meta.errors = pass.new.metas[i].errors
        /\ meta.finished = pass.new.metas[i].finished
    BY PassNewType DEF Meta, StepStatuses
  <2>3. Working /\ UNCHANGED <<plan, status, abort, dir, faults, streak>>
    BY <1>3 DEF SkipStep
  <2> QED
    BY <2>1, <2>2, <2>3, MoveOnInv
<1>4. ASSUME NEW started \in BOOLEAN, MisconfiguredStep(started) PROVE StepInv'
  <2>1. PICK i \in Indices :
            /\ i = pass.at
            /\ MoveOn(i, [pass.new.metas[i] EXCEPT !.status = "Errored",
                                                   !.started = @ \/ started])
    BY <1>4 DEF MisconfiguredStep
  <2> DEFINE meta == [pass.new.metas[i] EXCEPT !.status = "Errored", !.started = @ \/ started]
  <2>2. /\ meta \in Meta /\ meta.errors = pass.new.metas[i].errors
        /\ meta.finished = pass.new.metas[i].finished
    BY PassNewType DEF Meta, StepStatuses
  <2>3. Working /\ UNCHANGED <<plan, status, abort, dir, faults, streak>>
    BY <1>4 DEF MisconfiguredStep
  <2> QED
    BY <2>1, <2>2, <2>3, MoveOnInv
<1>5. ASSUME NEW result \in Results, NEW late \in BOOLEAN, ExecuteStep(result, late)
      PROVE  StepInv'
  BY <1>5, ExecuteStepAttempts, AttemptsInv
<1>6. CASE FinishSteps
  <2>1. FinalPhase(pass.new.metas) \in Terminal
    BY FinalPhaseType
  <2>2. /\ pass'.pc = "saving" /\ pass'.new.metas = pass.new.metas
        /\ pass'.new.phase = FinalPhase(pass.new.metas)
        /\ UNCHANGED <<plan, status, dir>>
    BY <1>6 DEF FinishSteps, TypeOK, Pass, PromotionStatus
  <2> QED
    BY <2>1, <2>2 DEF StepInv, Bounded, Open, Working, Terminal
<1>7. CASE SavePass
  <2>1. /\ pass' = Idle /\ status' = pass.new /\ plan' = plan /\ pass.pc = "saving"
        /\ dir' = NoDir \/ dir' = dir
    BY <1>7 DEF SavePass, RemoveDirIfDone
  <2> QED
    BY <1>0, <2>1 DEF StepInv, Bounded, Open, Working, Idle, NoDir
<1>r. CASE RefuseSave
  <2>1. /\ pass' = Idle /\ plan' = plan /\ status'.phase = "Errored"
        /\ status'.metas = status.metas
        /\ dir' = NoDir \/ dir' = dir
    BY <1>r DEF RefuseSave, RemoveDirIfDone, TypeOK, PromotionStatus
  <2> QED
    BY <1>0, <2>1 DEF StepInv, Bounded, Open, Working, Idle, NoDir
<1>8. CASE LoseSave
  <2>1. /\ pass' = Idle /\ UNCHANGED <<plan, status>>
        /\ dir' = NoDir \/ dir' = dir
    BY <1>8 DEF LoseSave, RemoveDirIfDone
  <2> QED
    BY <1>0, <2>1 DEF StepInv, Bounded, Open, Working, Idle, NoDir
<1>9. CASE RequestAbort
  BY <1>9 DEF RequestAbort, StepInv, Bounded, Open, Working
<1>10. CASE Terminate
  <2> DEFINE c == status.current
             meta == IF IsCurrentStepRunning
                     THEN [status.metas[c] EXCEPT !.status = "Aborted", !.finished = TRUE]
                     ELSE status.metas[c]
  <2>1. status \in PromotionStatus /\ c \in Indices /\ status.metas[c] \in Meta
    BY DEF TypeOK, PromotionStatus
  <2>2. meta.errors = status.metas[c].errors /\ (status.metas[c].finished => meta.finished)
    BY <2>1 DEF Meta
  <2>3. /\ status'.phase = "Aborted" /\ status'.metas = [status.metas EXCEPT ![c] = meta]
        /\ UNCHANGED <<plan, pass>> /\ pass.pc = "idle" /\ dir' = NoDir
    BY <1>10, <2>1 DEF Terminate, PromotionStatus
  <2>4. Bounded(status.metas)'
    <3> HIDE DEF c, meta
    <3> QED
      BY <2>1, <2>2, <2>3 DEF StepInv, Bounded, PromotionStatus
  <2> QED
    BY <2>3, <2>4 DEF StepInv, Bounded, Open, Working, NoDir
<1>11. ASSUME NEW keeps \in BOOLEAN, Crash(keeps) PROVE StepInv'
  <2>1. /\ pass' = Idle /\ UNCHANGED <<plan, status>>
        /\ dir' = NoDir \/ dir' = dir
    BY <1>11 DEF Crash
  <2> QED
    BY <1>0, <2>1 DEF StepInv, Bounded, Open, Working, Idle, NoDir
<1>12. CASE UNCHANGED vars
  BY <1>12 DEF vars, StepInv, Bounded, Open, Working
<1> QED
  BY <1>1, <1>2, <1>3, <1>4, <1>5, <1>6, <1>7, <1>r, <1>8, <1>9, <1>10, <1>11, <1>12
     DEF Next, TryStep, Reject, Panic

\* In every copy of a Promotion's status the finished steps lie before the step
\* that is up next, whatever crashes and whichever patches are lost
\* (ExecuteSteps, promote).
THEOREM AlwaysStepInv == Spec => []StepInv
<1>1. Init => TypeOK /\ StepInv
  <2> SUFFICES ASSUME Init PROVE TypeOK /\ StepInv
    OBVIOUS
  <2>1. TypeOK
    BY InitType
  <2>2. Bounded(FreshStatus.metas) /\ Open(FreshStatus.metas, 1)
    BY <2>1, FreshIsOpen
  <2> QED
    BY <2>1, <2>2 DEF Init, StepInv, Bounded, Open, Working, Idle, NoDir, FreshStatus
<1> QED
  BY <1>1, TypeOKStep, StepInvStep, PTL DEF Spec

\* determineStepCompletion: no attempt leaves a step open that has met its error
\* threshold, in however many passes its errors were collected.
THEOREM AlwaysErrorsBounded == Spec => []ErrorsBounded
<1>1. StepInv => ErrorsBounded
  BY DEF StepInv, Bounded, ErrorsBounded
<1> QED
  BY <1>1, AlwaysStepInv, PTL

\* promote, ExecuteSteps: a step that ran in this working directory and is
\* recorded as finished is never executed again.
THEOREM AlwaysNoRepeat == Spec => []NoRepeat
<1>1. TypeOK /\ StepInv => NoRepeat
  BY DEF StepInv, NoRepeat, TypeOK, Indices
<1> QED
  BY <1>1, TypeCorrect, AlwaysStepInv, PTL

(***************************************************************************)
(* What a copy of the status says about the steps it has dealt with        *)
(***************************************************************************)

\* Step n is up next: the steps before it have been dealt with, the ones after
\* it have not been looked at, and n itself has at most been attempted in vain.
UpNext(metas, n) ==
    \A j \in Indices :
        /\ j < n => metas[j].status # "none"
        /\ j >= n => \/ metas[j] = NoMeta
                     \/ /\ j = n
                        /\ metas[j].started
                        /\ metas[j].status \notin {"Succeeded", "Skipped"}

\* A failure that counts.
Failing(meta, j) == ~plan[j].continueOnError /\ meta.status \in {"Failed", "Errored"}

\* FailureStops, of any copy.
Stops(metas) ==
    \A i \in Indices :
        metas[i].started /\ ~plan[i].hasIf =>
            \A j \in 1 .. (i - 1) : ~Failing(metas[j], j)

\* SkippedForAReason, of any copy.
Reasons(metas) ==
    \A i \in Indices :
        metas[i].status = "Skipped" /\ ~metas[i].started /\ ~plan[i].hasIf =>
            \E j \in 1 .. (i - 1) : Failing(metas[j], j)

\* Where the health check of step i is recorded.
Places(checks, i) == {k \in DOMAIN checks : checks[k] = i}

\* HealthChecksExact, of any copy and without counting.
Exact(metas, checks) ==
    \A i \in Indices :
        IF plan[i].checked /\ metas[i].status = "Succeeded"
        THEN \E k \in DOMAIN checks : Places(checks, i) = {k}
        ELSE Places(checks, i) = {}

\* SuccessEarned, of any copy.
Earned(metas) ==
    \A i \in Indices :
        /\ metas[i].status # "none"
        /\ plan[i].continueOnError \/ metas[i].status \in {"Succeeded", "Skipped"}

Recorded(st) == Stops(st.metas) /\ Reasons(st.metas) /\ Exact(st.metas, st.checks)

\* In every copy of the status, recorded or in the making, the steps before the
\* one that is up next have been dealt with for good, so what the copy says about
\* them is settled when a later pass resumes from it.
CopyInv ==
    /\ Recorded(status) /\ Recorded(pass.new)
    /\ status.phase = "Running" => UpNext(status.metas, status.current)
    /\ status.phase = "Succeeded" => Earned(status.metas)
    /\ Working => pass.new.phase = "Running" /\ UpNext(pass.new.metas, pass.at)
    /\ pass.pc = "saving" /\ pass.new.phase = "Running" =>
          UpNext(pass.new.metas, pass.new.current)
    /\ pass.pc = "saving" /\ pass.new.phase = "Succeeded" => Earned(pass.new.metas)

\* The directory holds the work of every step recorded as succeeded.
Kept(metas) == \A j \in Indices : metas[j].status = "Succeeded" => j \in dir.ran

\* Work can only be missing from the directory after a fault; with no second one
\* to come, the pass that makes the directory anew is not lost.
WorkInv ==
    /\ Working => Kept(pass.new.metas)
    /\ pass.pc = "saving" /\ pass.new.phase = "Running" => Kept(pass.new.metas)
    /\ status.phase = "Running" /\ ~Kept(status.metas) =>
          /\ faults >= 1
          /\ dir.exists => pass.pc # "idle"

\* Once step i has been dealt with, step i + 1 is up next.
LEMMA UpNextOn ==
    ASSUME NEW metas \in [Indices -> Meta], NEW i \in Indices, NEW m \in Meta,
           UpNext(metas, i), m.status # "none"
    PROVE  UpNext([metas EXCEPT ![i] = m], i + 1)
<1> SUFFICES ASSUME NEW j \in Indices
             PROVE  /\ j < i + 1 => [metas EXCEPT ![i] = m][j].status # "none"
                    /\ j >= i + 1 => [metas EXCEPT ![i] = m][j] = NoMeta
  BY DEF UpNext
<1>1. K \in Nat /\ i \in Nat /\ j \in Nat
  BY StepEngineAssumption DEF Indices
<1>2. CASE j = i
  BY <1>1, <1>2
<1>3. CASE j # i
  BY <1>1, <1>3 DEF UpNext
<1> QED
  BY <1>2, <1>3

\* After an attempt in vain step i is still up next.
LEMMA UpNextStays ==
    ASSUME NEW metas \in [Indices -> Meta], NEW i \in Indices, NEW m \in Meta,
           UpNext(metas, i), m.started, m.status \notin {"Succeeded", "Skipped"}
    PROVE  UpNext([metas EXCEPT ![i] = m], i)
<1>1. K \in Nat /\ Indices \subseteq Nat
  BY StepEngineAssumption DEF Indices
<1> QED
  BY <1>1 DEF UpNext

\* A step that starts although it has no "if" follows no failure that counts, and
\* the steps before it do not change any more.
LEMMA StopsStep ==
    ASSUME NEW metas \in [Indices -> Meta], NEW i \in Indices, NEW m \in Meta,
           UpNext(metas, i), Stops(metas),
           m.started /\ ~plan[i].hasIf => metas[i].started \/ ~HasFailures(metas)
    PROVE  Stops([metas EXCEPT ![i] = m])
<1> DEFINE new == [metas EXCEPT ![i] = m]
<1>0. K \in Nat /\ Indices \subseteq Nat
  BY StepEngineAssumption DEF Indices
<1> SUFFICES ASSUME NEW k \in Indices, new[k].started, ~plan[k].hasIf,
                    NEW j \in 1 .. (k - 1)
             PROVE  ~Failing(new[j], j)
  BY DEF Stops
<1>1. j \in Indices /\ j < k /\ k \in Nat /\ j \in Nat /\ i \in Nat
  BY <1>0 DEF Indices
<1>2. k <= i
  <2>1. CASE k > i
    BY <1>0, <1>1, <2>1 DEF UpNext, NoMeta
  <2> QED
    BY <1>1, <2>1
<1>3. new[j] = metas[j]
  BY <1>1, <1>2
<1>4. CASE k = i
  BY <1>1, <1>3, <1>4 DEF Stops, HasFailures, Failing
<1>5. CASE k # i
  BY <1>1, <1>3, <1>5 DEF Stops
<1> QED
  BY <1>4, <1>5

\* A step without an "if" that has not started is skipped because of a failure
\* that counts: one before it, as nothing has happened to the others.
LEMMA ReasonsStep ==
    ASSUME NEW metas \in [Indices -> Meta], NEW i \in Indices, NEW m \in Meta,
           UpNext(metas, i), Reasons(metas),
           m.status = "Skipped" /\ ~m.started /\ ~plan[i].hasIf =>
              HasFailures(metas) /\ ~metas[i].started
    PROVE  Reasons([metas EXCEPT ![i] = m])
<1> DEFINE new == [metas EXCEPT ![i] = m]
<1>0. K \in Nat /\ Indices \subseteq Nat
  BY StepEngineAssumption DEF Indices
<1> SUFFICES ASSUME NEW k \in Indices, new[k].status = "Skipped", ~new[k].started, ~plan[k].hasIf
             PROVE  \E j \in 1 .. (k - 1) : Failing(new[j], j)
  BY DEF Reasons
<1>1. k \in Nat /\ i \in Nat
  BY <1>0
<1>2. k <= i
  <2>1. CASE k > i
    BY <1>0, <1>1, <2>1 DEF UpNext, NoMeta
  <2> QED
    BY <1>1, <2>1
<1>3. \E j \in 1 .. (k - 1) : Failing(metas[j], j)
  <2>1. CASE k = i
    <3>1. HasFailures(metas) /\ ~metas[i].started
      BY <2>1
    <3>2. PICK j \in Indices : Failing(metas[j], j)
      BY <3>1 DEF HasFailures, Failing
    <3>3. j < i
      BY <1>0, <3>1, <3>2 DEF UpNext, NoMeta, Failing
    <3> QED
      BY <2>1, <3>2, <3>3 DEF Indices
  <2>2. CASE k # i
    BY <2>2 DEF Reasons
  <2> QED
    BY <2>1, <2>2
<1>4. \A j \in 1 .. (k - 1) : new[j] = metas[j]
  <2> SUFFICES ASSUME NEW j \in 1 .. (k - 1) PROVE new[j] = metas[j]
    OBVIOUS
  <2>1. j \in Indices /\ j # i
    BY <1>0, <1>1, <1>2 DEF Indices
  <2> QED
    BY <2>1
<1> QED
  BY <1>3, <1>4

\* Where the checks are once that of step i is appended.
LEMMA PlacesAppend ==
    ASSUME NEW checks \in Seq(Indices), NEW i \in Indices, NEW j \in Indices
    PROVE  /\ j = i => Places(Append(checks, i), j) = Places(checks, j) \cup {Len(checks) + 1}
           /\ j # i => Places(Append(checks, i), j) = Places(checks, j)
           /\ Len(checks) + 1 \in DOMAIN Append(checks, i)
           /\ DOMAIN checks \subseteq DOMAIN Append(checks, i)
<1> DEFINE new == Append(checks, i)
           n == Len(checks)
<1>1. n \in Nat /\ DOMAIN checks = 1 .. n /\ DOMAIN new = 1 .. (n + 1)
  OBVIOUS
<1>2. new[n + 1] = i /\ \A k \in 1 .. n : new[k] = checks[k]
  BY <1>1
<1>3. \A k : k \in 1 .. (n + 1) <=> k \in 1 .. n \/ k = n + 1
  BY <1>1
<1>4. n + 1 \notin 1 .. n
  BY <1>1
<1> HIDE DEF new, n
<1>5. DOMAIN checks \subseteq DOMAIN new /\ n + 1 \in DOMAIN new
  BY <1>1, <1>3
<1>6. ASSUME j = i PROVE Places(new, j) = Places(checks, j) \cup {n + 1}
  BY <1>1, <1>2, <1>3, <1>4, <1>6, Zenon DEF Places
<1>7. ASSUME j # i PROVE Places(new, j) = Places(checks, j)
  BY <1>1, <1>2, <1>3, <1>4, <1>7, Zenon DEF Places
<1> QED
  BY <1>5, <1>6, <1>7 DEF new, n

\* The checks after step i has been dealt with.
Noted(checks, i, m) ==
    IF m.status = "Succeeded" /\ plan[i].checked THEN Append(checks, i) ELSE checks

\* A step's health check is recorded when it succeeds, which it had not before.
LEMMA ExactStep ==
    ASSUME NEW metas \in [Indices -> Meta], NEW checks \in Seq(Indices),
           NEW i \in Indices, NEW m \in Meta,
           metas[i].status # "Succeeded", Exact(metas, checks)
    PROVE  Exact([metas EXCEPT ![i] = m], Noted(checks, i, m))
<1> DEFINE new == [metas EXCEPT ![i] = m]
           after == Noted(checks, i, m)
           n == Len(checks) + 1
<1> SUFFICES ASSUME NEW j \in Indices
             PROVE  IF plan[j].checked /\ new[j].status = "Succeeded"
                    THEN \E k \in DOMAIN after : Places(after, j) = {k}
                    ELSE Places(after, j) = {}
  BY DEF Exact
<1>0. Places(checks, i) = {}
  BY DEF Exact
<1>1. CASE j = i /\ m.status = "Succeeded" /\ plan[i].checked
  <2>1. after = Append(checks, i) /\ new[j] = m
    BY <1>1 DEF Noted
  <2>2. Places(after, j) = Places(checks, i) \cup {n} /\ n \in DOMAIN after
    BY <1>1, <2>1, PlacesAppend
  <2>3. Places(after, j) = {n}
    BY <1>0, <2>2
  <2> QED
    BY <1>1, <2>1, <2>2, <2>3
<1>2. CASE j = i /\ ~(m.status = "Succeeded" /\ plan[i].checked)
  BY <1>0, <1>2 DEF Noted
<1>3. CASE j # i
  <2>1. new[j] = metas[j]
    BY <1>3
  <2>2. Places(after, j) = Places(checks, j) /\ DOMAIN checks \subseteq DOMAIN after
    BY <1>3, PlacesAppend DEF Noted
  <2> HIDE DEF new, after
  <2> QED
    BY <2>1, <2>2 DEF Exact
<1> QED
  BY <1>1, <1>2, <1>3

\* What every way of dealing with step i, attempting it included, does to a pass.
Deals(i, m) ==
    /\ Working /\ i = pass.at
    /\ pass'.new.metas = [pass.new.metas EXCEPT ![i] = m]
    /\ pass'.new.checks = Noted(pass.new.checks, i, m)
    /\ pass'.new.phase = pass.new.phase
    /\ \/ pass'.pc = "working" /\ pass'.at = i + 1
       \/ /\ pass'.pc = "saving" /\ pass'.new.current = i
          /\ m.started /\ m.status \notin {"Succeeded", "Skipped"}

\* Dealing with a step preserves CopyInv.
LEMMA DealsInv ==
    ASSUME TypeOK, CopyInv, NEW i \in Indices, NEW m \in Meta, Deals(i, m),
           m.status # "none",
           m.started /\ ~plan[i].hasIf =>
              pass.new.metas[i].started \/ ~HasFailures(pass.new.metas),
           m.status = "Skipped" /\ ~m.started /\ ~plan[i].hasIf =>
              HasFailures(pass.new.metas) /\ ~pass.new.metas[i].started,
           UNCHANGED <<plan, status>>
    PROVE  CopyInv'
<1> DEFINE metas == pass.new.metas
           checks == pass.new.checks
<1>1. metas \in [Indices -> Meta] /\ checks \in Seq(Indices)
  BY DEF TypeOK, Pass, PromotionStatus
<1>2. /\ UpNext(metas, i) /\ Stops(metas) /\ Reasons(metas) /\ Exact(metas, checks)
      /\ pass.new.phase = "Running"
  BY DEF CopyInv, Recorded, Deals
<1>3. metas[i].status # "Succeeded"
  <2>1. i >= i
    BY StepEngineAssumption DEF Indices
  <2> QED
    BY <1>2, <2>1 DEF UpNext, NoMeta
<1>4. /\ UpNext([metas EXCEPT ![i] = m], i + 1)
      /\ m.started /\ m.status \notin {"Succeeded", "Skipped"} =>
            UpNext([metas EXCEPT ![i] = m], i)
  BY <1>1, <1>2, UpNextOn, UpNextStays
<1>5. Stops([metas EXCEPT ![i] = m]) /\ Reasons([metas EXCEPT ![i] = m])
  BY <1>1, <1>2, StopsStep, ReasonsStep
<1>6. Exact([metas EXCEPT ![i] = m], Noted(checks, i, m))
  BY <1>1, <1>2, <1>3, ExactStep
<1> DEFINE after == [metas EXCEPT ![i] = m]
           noted == Noted(checks, i, m)
<1>7. pass'.new.metas = after /\ pass'.new.checks = noted /\ pass'.new.phase = "Running"
  BY <1>2 DEF Deals
<1> HIDE DEF after, noted
<1>8. Recorded(pass.new)'
  BY <1>5, <1>6, <1>7 DEF after, noted, Recorded, Stops, Reasons, Exact, Failing, Places
<1>9. Recorded(status)' /\ (status.phase = "Running" => UpNext(status.metas, status.current))'
       /\ (status.phase = "Succeeded" => Earned(status.metas))'
  BY DEF CopyInv, Recorded, Stops, Reasons, Exact, Failing, Places, UpNext, Earned
<1>10. (Working => pass.new.phase = "Running" /\ UpNext(pass.new.metas, pass.at))'
  BY <1>4, <1>7 DEF after, Deals, Working, UpNext
<1>11. (pass.pc = "saving" /\ pass.new.phase = "Running" =>
          UpNext(pass.new.metas, pass.new.current))'
  BY <1>4, <1>7 DEF after, Deals, UpNext
<1> QED
  BY <1>7, <1>8, <1>9, <1>10, <1>11 DEF CopyInv

\* A step that has been executed has started and has a status, and unless it is
\* finished it has neither succeeded nor been skipped.
LEMMA ExecutedStatus ==
    ASSUME NEW i \in Indices, NEW meta \in Meta, NEW result \in Result, NEW late \in BOOLEAN,
           meta.started
    PROVE  LET m == Executed(i, meta, result, late)
           IN  /\ m.started /\ m.status # "none"
               /\ ~m.finished => m.status \notin {"Succeeded", "Skipped"}
<1>1. CASE Valid(result)
  <2> DEFINE r == ReconcileResult(result)
  <2>1. r.status \in StepStatuses
    BY <1>1, ReconcileResultType
  <2>2. Executed(i, meta, result, late) = Complete(i, meta, r, late)
    BY <1>1 DEF Executed
  <2> HIDE DEF r
  <2> QED
    BY <2>1, <2>2 DEF Complete, Meta, StepStatuses
<1>2. CASE ~Valid(result)
  BY <1>2 DEF Executed, Meta
<1> QED
  BY <1>1, <1>2

\* Passing over a step deals with it.
LEMMA MoveOnDeals ==
    ASSUME TypeOK, NEW i \in Indices, NEW m \in Meta, Working, i = pass.at, MoveOn(i, m),
           m.status # "Succeeded"
    PROVE  Deals(i, m)
BY DEF MoveOn, Deals, Noted, TypeOK, Pass, PromotionStatus, Working

\* Executing a step deals with it; whether it may run is for its "if" to say.
LEMMA ExecuteStepDeals ==
    ASSUME TypeOK, NEW result \in Results, NEW late \in BOOLEAN, ExecuteStep(result, late)
    PROVE  \E i \in Indices :
              LET m == Executed(i, [pass.new.metas[i] EXCEPT !.started = TRUE], result, late)
              IN  /\ Deals(i, m) /\ m \in Meta /\ m.started /\ m.status # "none"
                  /\ "run" \in Decisions(i, pass.new.metas)
                  /\ dir' = [dir EXCEPT !.ran = @ \cup {i}]
                  /\ UNCHANGED <<plan, status, abort, faults>>
<1>1. PICK i \in Indices :
        /\ i = pass.at
        /\ "run" \in Decisions(i, pass.new.metas)
        /\ dir' = [dir EXCEPT !.ran = @ \cup {i}]
        /\ LET meta == [pass.new.metas[i] EXCEPT !.started = TRUE]
               done == Executed(i, meta, result, late)
               checks == IF done.status = "Succeeded" /\ plan[i].checked
                         THEN Append(pass.new.checks, i) ELSE pass.new.checks
           IN  pass' = [pc |-> IF done.finished THEN "working" ELSE "saving",
                        at |-> IF done.finished THEN i + 1 ELSE i,
                        new |-> [pass.new EXCEPT
                                   !.metas[i] = done,
                                   !.checks = checks,
                                   !.current = IF done.finished THEN @ ELSE i]]
  BY DEF ExecuteStep, Executed
<1> DEFINE meta == [pass.new.metas[i] EXCEPT !.started = TRUE]
           m == Executed(i, meta, result, late)
<1>2. pass.new.metas[i] \in Meta /\ pass.new \in PromotionStatus
  BY PassNewType
<1>3. meta \in Meta /\ meta.started
  BY <1>2 DEF Meta
<1>4. result \in Result
  BY StepEngineAssumption
<1>5. /\ m \in Meta /\ m.started /\ m.status # "none"
      /\ ~m.finished => m.status \notin {"Succeeded", "Skipped"}
  BY <1>3, <1>4, ExecutedType, ExecutedStatus
<1>6. pass' = [pc |-> IF m.finished THEN "working" ELSE "saving",
               at |-> IF m.finished THEN i + 1 ELSE i,
               new |-> [pass.new EXCEPT
                          !.metas[i] = m,
                          !.checks = Noted(pass.new.checks, i, m),
                          !.current = IF m.finished THEN @ ELSE i]]
  BY <1>1 DEF Noted
<1> HIDE DEF m
<1>7. Working
  BY DEF ExecuteStep
<1>8. Deals(i, m)
  <2> DEFINE n == Noted(pass.new.checks, i, m)
  <2>1. i = pass.at
    BY <1>1
  <2> HIDE DEF n
  <2>2. pass' = [pc |-> IF m.finished THEN "working" ELSE "saving",
                 at |-> IF m.finished THEN i + 1 ELSE i,
                 new |-> [pass.new EXCEPT
                            !.metas[i] = m,
                            !.checks = n,
                            !.current = IF m.finished THEN @ ELSE i]]
    BY <1>6 DEF n
  <2>3. /\ pass'.new.metas = [pass.new.metas EXCEPT ![i] = m]
        /\ pass'.new.checks = n /\ pass'.new.phase = pass.new.phase
        /\ ~m.finished => pass'.new.current = i
    BY <1>2, <2>2 DEF PromotionStatus
  <2>4. /\ pass'.pc = IF m.finished THEN "working" ELSE "saving"
        /\ pass'.at = IF m.finished THEN i + 1 ELSE i
    BY <2>2
  <2> QED
    BY <1>5, <1>7, <2>1, <2>3, <2>4 DEF Deals, n
<1>9. UNCHANGED <<plan, status, abort, faults>>
  BY DEF ExecuteStep
<1> QED
  BY <1>1, <1>5, <1>8, <1>9 DEF m

\* A step that may run has started before, or has an "if", or follows no failure
\* that counts.
LEMMA MayRun ==
    ASSUME NEW i \in Indices, NEW metas, "run" \in Decisions(i, metas)
    PROVE  ~plan[i].hasIf => metas[i].started \/ ~HasFailures(metas)
BY DEF Decisions

\* Nothing has been recorded in the status a Promotion starts over with.
LEMMA FreshRecorded ==
    TypeOK => Recorded(FreshStatus) /\ UpNext(FreshStatus.metas, 1)
<1>1. \A i \in Indices : FreshStatus.metas[i] = NoMeta
  BY DEF FreshStatus
<1>2. FreshStatus.checks = <<>> /\ \A i \in Indices : Places(<<>>, i) = {}
  BY DEF FreshStatus, Places
<1>3. Stops(FreshStatus.metas) /\ Reasons(FreshStatus.metas)
  BY <1>1 DEF Stops, Reasons, NoMeta
<1>4. Exact(FreshStatus.metas, FreshStatus.checks)
  BY <1>1, <1>2 DEF Exact, NoMeta
<1>5. UpNext(FreshStatus.metas, 1)
  BY <1>1, StepEngineAssumption DEF UpNext, Indices
<1> QED
  BY <1>3, <1>4, <1>5 DEF Recorded

\* When no step is left and the final phase is Succeeded, success is earned.
LEMMA FinalEarned ==
    ASSUME NEW metas \in [Indices -> Meta], UpNext(metas, K + 1), FinalPhase(metas) = "Succeeded"
    PROVE  Earned(metas)
<1> DEFINE counted == {metas[i].status : i \in {j \in Indices : ~plan[j].continueOnError}}
<1>1. {"Errored", "Failed", "Aborted", "Running"} \cap counted = {}
  BY DEF FinalPhase
<1> SUFFICES ASSUME NEW i \in Indices
             PROVE  /\ metas[i].status # "none"
                    /\ plan[i].continueOnError \/ metas[i].status \in {"Succeeded", "Skipped"}
  BY DEF Earned
<1>2. metas[i].status # "none"
  BY StepEngineAssumption DEF UpNext, Indices
<1>3. ~plan[i].continueOnError => metas[i].status \in counted
  OBVIOUS
<1>4. metas[i].status \in StepStatuses \cup {"none"}
  BY DEF Meta
<1> HIDE DEF counted
<1> QED
  BY <1>1, <1>2, <1>3, <1>4 DEF StepStatuses

\* CopyInv is inductive.
LEMMA CopyInvStep == TypeOK /\ CopyInv /\ [Next]_vars => CopyInv'
<1> USE StepEngineAssumption
<1> SUFFICES ASSUME TypeOK, CopyInv, [Next]_vars PROVE CopyInv'
  OBVIOUS
<1>0. Recorded(FreshStatus) /\ UpNext(FreshStatus.metas, 1) /\ FreshStatus.current = 1
      /\ FreshStatus.phase = "Running"
  BY FreshRecorded DEF FreshStatus
<1> USE DEF Recorded, Stops, Reasons, Exact, Failing, Places, UpNext, Earned
<1>1. CASE Begin
  <2>1. /\ pass'.pc = "working" /\ UNCHANGED <<plan, status>> /\ status.phase = "Running"
        /\ \/ pass'.new = status /\ pass'.at = status.current
           \/ pass'.new = FreshStatus /\ pass'.at = 1
    BY <1>0, <1>1 DEF Begin, Startable, StartOver, StartFrom
  <2> QED
    BY <1>0, <2>1 DEF CopyInv, Working
<1>2. CASE GiveUp
  <2>1. /\ pass'.pc = "saving" /\ pass'.new.metas = status.metas
        /\ pass'.new.checks = status.checks /\ pass'.new.phase = "Errored"
        /\ UNCHANGED <<plan, status>>
    BY <1>2 DEF GiveUp, TypeOK, PromotionStatus
  <2> QED
    BY <2>1 DEF CopyInv, Working
<1>3. ASSUME NEW decision \in {"skip", "error"}, SkipStep(decision) PROVE CopyInv'
  <2>1. PICK i \in Indices :
            /\ i = pass.at
            /\ decision \in Decisions(i, pass.new.metas) \ {"run"}
            /\ MoveOn(i, [pass.new.metas[i] EXCEPT
                            !.status = IF decision = "skip" THEN "Skipped" ELSE "Errored"])
    BY <1>3 DEF SkipStep
  <2> DEFINE m == [pass.new.metas[i] EXCEPT
                            !.status = IF decision = "skip" THEN "Skipped" ELSE "Errored"]
  <2>2. /\ m \in Meta /\ m.started = pass.new.metas[i].started
        /\ m.status = IF decision = "skip" THEN "Skipped" ELSE "Errored"
    BY PassNewType DEF Meta, StepStatuses
  <2>3. Working /\ UNCHANGED <<plan, status, abort, dir, faults, streak>>
    BY <1>3 DEF SkipStep
  <2>4. MoveOn(i, m)
    BY <2>1
  <2> HIDE DEF m
  <2>5. Deals(i, m)
    BY <2>1, <2>2, <2>3, <2>4, MoveOnDeals
  <2>6. m.status = "Skipped" /\ ~m.started /\ ~plan[i].hasIf =>
              HasFailures(pass.new.metas) /\ ~pass.new.metas[i].started
    BY <2>1, <2>2 DEF Decisions
  <2>7. m.started /\ ~plan[i].hasIf => pass.new.metas[i].started
    BY <2>2
  <2> QED
    BY <2>2, <2>3, <2>5, <2>6, <2>7, DealsInv
<1>4. ASSUME NEW started \in BOOLEAN, MisconfiguredStep(started) PROVE CopyInv'
  <2>1. PICK i \in Indices :
            /\ i = pass.at
            /\ "run" \in Decisions(i, pass.new.metas)
            /\ MoveOn(i, [pass.new.metas[i] EXCEPT !.status = "Errored",
                                                   !.started = @ \/ started])
    BY <1>4 DEF MisconfiguredStep
  <2> DEFINE m == [pass.new.metas[i] EXCEPT !.status = "Errored", !.started = @ \/ started]
  <2>2. m \in Meta /\ m.status = "Errored"
    BY PassNewType DEF Meta, StepStatuses
  <2>3. Working /\ UNCHANGED <<plan, status, abort, dir, faults, streak>>
    BY <1>4 DEF MisconfiguredStep
  <2>4. MoveOn(i, m)
    BY <2>1
  <2> HIDE DEF m
  <2>5. Deals(i, m)
    BY <2>1, <2>2, <2>3, <2>4, MoveOnDeals
  <2>6. ~plan[i].hasIf => pass.new.metas[i].started \/ ~HasFailures(pass.new.metas)
    BY <2>1, MayRun
  <2> QED
    BY <2>2, <2>3, <2>5, <2>6, DealsInv
<1>5. ASSUME NEW result \in Results, NEW late \in BOOLEAN, ExecuteStep(result, late)
      PROVE  CopyInv'
  <2>1. PICK i \in Indices :
              LET m == Executed(i, [pass.new.metas[i] EXCEPT !.started = TRUE], result, late)
              IN  /\ Deals(i, m) /\ m \in Meta /\ m.started /\ m.status # "none"
                  /\ "run" \in Decisions(i, pass.new.metas)
                  /\ dir' = [dir EXCEPT !.ran = @ \cup {i}]
                  /\ UNCHANGED <<plan, status, abort, faults>>
    BY <1>5, ExecuteStepDeals
  <2> DEFINE m == Executed(i, [pass.new.metas[i] EXCEPT !.started = TRUE], result, late)
  <2>2. /\ Deals(i, m) /\ m \in Meta /\ m.started /\ m.status # "none"
        /\ "run" \in Decisions(i, pass.new.metas) /\ UNCHANGED <<plan, status>>
    BY <2>1
  <2> HIDE DEF m
  <2>3. ~plan[i].hasIf => pass.new.metas[i].started \/ ~HasFailures(pass.new.metas)
    BY <2>2, MayRun
  <2> QED
    BY <2>2, <2>3, DealsInv
<1>6. CASE FinishSteps
  <2>1. /\ pass'.pc = "saving" /\ pass'.new.metas = pass.new.metas
        /\ pass'.new.checks = pass.new.checks
        /\ pass'.new.phase = FinalPhase(pass.new.metas)
        /\ UNCHANGED <<plan, status>> /\ Working /\ pass.at = K + 1
    BY <1>6 DEF FinishSteps, TypeOK, Pass, PromotionStatus
  <2>2. FinalPhase(pass.new.metas) = "Succeeded" => Earned(pass.new.metas)
    <3>1. pass.new.metas \in [Indices -> Meta]
      BY DEF TypeOK, Pass, PromotionStatus
    <3>2. UpNext(pass.new.metas, K + 1)
      BY <2>1 DEF CopyInv
    <3> QED
      BY <3>1, <3>2, FinalEarned
  <2>3. FinalPhase(pass.new.metas) # "Running"
    BY FinalPhaseType DEF Terminal
  <2> QED
    BY <2>1, <2>2, <2>3 DEF CopyInv, Working
<1>7. CASE SavePass
  <2>1. pass' = Idle /\ status' = pass.new /\ plan' = plan /\ pass.pc = "saving"
    BY <1>7 DEF SavePass
  <2>2. pass'.pc = "idle" /\ pass'.new = FreshStatus
    BY <2>1 DEF Idle
  <2> QED
    BY <1>0, <2>1, <2>2 DEF CopyInv, Working
<1>r. CASE RefuseSave
  <2>1. /\ pass'.pc = "idle" /\ pass'.new = FreshStatus /\ plan' = plan
        /\ status'.phase = "Errored" /\ status'.metas = status.metas
        /\ status'.checks = status.checks
    BY <1>r DEF RefuseSave, Idle, TypeOK, PromotionStatus
  <2> QED
    BY <1>0, <2>1 DEF CopyInv, Working
<1>8. CASE LoseSave
  <2>1. pass'.pc = "idle" /\ pass'.new = FreshStatus /\ UNCHANGED <<plan, status>>
    BY <1>8 DEF LoseSave, Idle
  <2> QED
    BY <1>0, <2>1 DEF CopyInv, Working
<1>9. CASE RequestAbort
  BY <1>9 DEF RequestAbort, CopyInv, Working
<1>10. CASE Terminate
  <2> DEFINE c == status.current
             meta == IF IsCurrentStepRunning
                     THEN [status.metas[c] EXCEPT !.status = "Aborted", !.finished = TRUE]
                     ELSE status.metas[c]
  <2>1. status \in PromotionStatus /\ c \in Indices /\ status.metas[c] \in Meta
    BY DEF TypeOK, PromotionStatus
  <2>2. /\ \/ meta = status.metas[c]
           \/ status.metas[c].status = "Running" /\ meta.status = "Aborted"
        /\ meta.started = status.metas[c].started
    BY <2>1 DEF Meta, IsCurrentStepRunning
  <2>3. /\ status'.phase = "Aborted" /\ status'.metas = [status.metas EXCEPT ![c] = meta]
        /\ status'.checks = status.checks
        /\ UNCHANGED <<plan, pass>> /\ pass.pc = "idle"
    BY <1>10, <2>1 DEF Terminate, PromotionStatus
  <2>4. Stops(status.metas)' /\ Reasons(status.metas)' /\ Exact(status.metas, status.checks)'
    <3> HIDE DEF c, meta
    <3>1. \A j \in Indices : /\ status'.metas[j].started = status.metas[j].started
                             /\ \/ status'.metas[j].status = status.metas[j].status
                                \/ /\ status.metas[j].status = "Running"
                                   /\ status'.metas[j].status = "Aborted"
      BY <2>1, <2>2, <2>3 DEF PromotionStatus
    <3>2. \A i \in Indices : 1 .. (i - 1) \subseteq Indices
      BY DEF Indices
    <3>3. Stops(status.metas) /\ Reasons(status.metas) /\ Exact(status.metas, status.checks)
      BY DEF CopyInv
    <3>4. Stops(status.metas)'
      BY <2>3, <3>1, <3>2, <3>3
    <3>5. Reasons(status.metas)'
      BY <2>3, <3>1, <3>2, <3>3
    <3>6. Exact(status.metas, status.checks)'
      BY <2>3, <3>1, <3>3
    <3> QED
      BY <3>4, <3>5, <3>6
  <2> QED
    BY <2>3, <2>4 DEF CopyInv, Working
<1>11. ASSUME NEW keeps \in BOOLEAN, Crash(keeps) PROVE CopyInv'
  <2>1. pass'.pc = "idle" /\ pass'.new = FreshStatus /\ UNCHANGED <<plan, status>>
    BY <1>11 DEF Crash, Idle
  <2> QED
    BY <1>0, <2>1 DEF CopyInv, Working
<1>12. CASE UNCHANGED vars
  BY <1>12 DEF vars, CopyInv, Working
<1> QED
  BY <1>1, <1>2, <1>3, <1>4, <1>5, <1>6, <1>7, <1>r, <1>8, <1>9, <1>10, <1>11, <1>12
     DEF Next, TryStep, Reject, Panic

\* In every copy of a Promotion's status, what it says about the steps before the
\* one that is up next is settled (ExecuteSteps, promote).
THEOREM AlwaysCopyInv == Spec => []CopyInv
<1>1. Init => TypeOK /\ CopyInv
  <2> SUFFICES ASSUME Init PROVE TypeOK /\ CopyInv
    OBVIOUS
  <2>1. TypeOK
    BY InitType
  <2>2. Recorded(FreshStatus) /\ UpNext(FreshStatus.metas, 1)
    BY <2>1, FreshRecorded
  <2>3. status = FreshStatus /\ pass.pc = "idle" /\ pass.new = FreshStatus
        /\ FreshStatus.phase = "Running" /\ FreshStatus.current = 1
    BY DEF Init, Idle, FreshStatus
  <2> QED
    BY <2>1, <2>2, <2>3 DEF CopyInv, Working
<1> QED
  BY <1>1, TypeOKStep, CopyInvStep, PTL DEF Spec

\* Without an "if", no step starts after a failure that counts, also when the
\* failure happened in an earlier pass (ShouldSkip).
THEOREM AlwaysFailureStops == Spec => []FailureStops
<1>1. CopyInv => FailureStops
  BY DEF CopyInv, Recorded, Stops, Failing, FailureStops
<1> QED
  BY <1>1, AlwaysCopyInv, PTL

\* Without an "if", a step is skipped only because of an earlier failure that
\* counts (ShouldSkip, HasFailures).
THEOREM AlwaysSkippedForAReason == Spec => []SkippedForAReason
<1>1. CopyInv => SkippedForAReason
  BY DEF CopyInv, Recorded, Reasons, Failing, SkippedForAReason
<1> QED
  BY <1>1, AlwaysCopyInv, PTL

\* A Promotion succeeds only when every step was dealt with and each one that
\* counts succeeded or was skipped (DetermineFinalPhase).
THEOREM AlwaysSuccessEarned == Spec => []SuccessEarned
<1>1. CopyInv => SuccessEarned
  BY DEF CopyInv, Earned, SuccessEarned
<1> QED
  BY <1>1, AlwaysCopyInv, PTL

\* Starting over, resuming and repeating passes neither duplicates nor loses a
\* health check (ExecuteSteps, promote).
THEOREM AlwaysHealthChecksExact == Spec => []HealthChecksExact
<1>1. CopyInv => HealthChecksExact
  <2> SUFFICES ASSUME CopyInv, NEW i \in Indices
               PROVE  Cardinality(Places(status.checks, i)) =
                        IF plan[i].checked /\ status.metas[i].status = "Succeeded" THEN 1 ELSE 0
    BY DEF HealthChecksExact, Places
  <2>1. IF plan[i].checked /\ status.metas[i].status = "Succeeded"
        THEN \E k \in DOMAIN status.checks : Places(status.checks, i) = {k}
        ELSE Places(status.checks, i) = {}
    BY DEF CopyInv, Recorded, Exact
  <2>2. Cardinality({}) = 0
    BY FS_EmptySet
  <2>3. \A k : Cardinality({k}) = 1
    BY FS_Singleton
  <2> QED
    BY <2>1, <2>2, <2>3
<1> QED
  BY <1>1, AlwaysCopyInv, PTL

\* With at most one crash or lost patch, WorkInv is inductive.
LEMMA WorkInvStep ==
    ASSUME MaxFaults <= 1, TypeOK, WorkInv, [Next]_vars
    PROVE  WorkInv'
<1> USE StepEngineAssumption DEF Kept
<1>0. \A j \in Indices : FreshStatus.metas[j].status = "none"
  BY DEF FreshStatus, NoMeta
<1>a. faults \in Nat /\ faults <= 1 /\ MaxFaults \in Nat
  BY DEF TypeOK
<1>1. CASE Begin
  <2>1. /\ pass'.pc = "working" /\ UNCHANGED <<status, faults>> /\ status.phase = "Running"
        /\ pass.pc = "idle" /\ dir'.ran = dir.ran
        /\ IF dir.exists THEN pass'.new = status ELSE pass'.new = FreshStatus
    BY <1>1 DEF Begin, Startable, StartOver, TypeOK
  <2> QED
    BY <1>0, <2>1 DEF WorkInv, Working
<1>2. CASE GiveUp
  <2>1. /\ pass'.pc = "saving" /\ pass'.new.phase = "Errored"
        /\ UNCHANGED <<status, dir, faults>>
    BY <1>2 DEF GiveUp, TypeOK, PromotionStatus
  <2> QED
    BY <2>1 DEF WorkInv, Working
<1>3. ASSUME NEW i \in Indices, NEW m \in Meta, Deals(i, m), UNCHANGED <<status, faults>>,
             dir'.exists = dir.exists, dir.ran \subseteq dir'.ran,
             m.status = "Succeeded" => i \in dir'.ran
      PROVE  WorkInv'
  <2>1. pass.new.metas \in [Indices -> Meta]
    BY DEF TypeOK, Pass, PromotionStatus
  <2>2. pass'.new.metas = [pass.new.metas EXCEPT ![i] = m] /\ Working /\ pass'.pc # "idle"
    BY <1>3 DEF Deals
  <2>3. Kept(pass.new.metas)'
    BY <1>3, <2>1, <2>2 DEF WorkInv
  <2> QED
    BY <1>3, <2>2, <2>3 DEF WorkInv
<1>4. ASSUME NEW decision \in {"skip", "error"}, SkipStep(decision) PROVE WorkInv'
  <2>1. PICK i \in Indices :
            /\ i = pass.at
            /\ MoveOn(i, [pass.new.metas[i] EXCEPT
                            !.status = IF decision = "skip" THEN "Skipped" ELSE "Errored"])
    BY <1>4 DEF SkipStep
  <2> DEFINE m == [pass.new.metas[i] EXCEPT
                            !.status = IF decision = "skip" THEN "Skipped" ELSE "Errored"]
  <2>2. m \in Meta /\ m.status # "Succeeded"
    BY PassNewType DEF Meta, StepStatuses
  <2>3. Working /\ UNCHANGED <<plan, status, abort, dir, faults, streak>>
    BY <1>4 DEF SkipStep
  <2>4. MoveOn(i, m)
    BY <2>1
  <2> HIDE DEF m
  <2>5. Deals(i, m)
    BY <2>1, <2>2, <2>3, <2>4, MoveOnDeals
  <2> QED
    BY <1>3, <2>2, <2>3, <2>5
<1>5. ASSUME NEW started \in BOOLEAN, MisconfiguredStep(started) PROVE WorkInv'
  <2>1. PICK i \in Indices :
            /\ i = pass.at
            /\ MoveOn(i, [pass.new.metas[i] EXCEPT !.status = "Errored",
                                                   !.started = @ \/ started])
    BY <1>5 DEF MisconfiguredStep
  <2> DEFINE m == [pass.new.metas[i] EXCEPT !.status = "Errored", !.started = @ \/ started]
  <2>2. m \in Meta /\ m.status # "Succeeded"
    BY PassNewType DEF Meta, StepStatuses
  <2>3. Working /\ UNCHANGED <<plan, status, abort, dir, faults, streak>>
    BY <1>5 DEF MisconfiguredStep
  <2>4. MoveOn(i, m)
    BY <2>1
  <2> HIDE DEF m
  <2>5. Deals(i, m)
    BY <2>1, <2>2, <2>3, <2>4, MoveOnDeals
  <2> QED
    BY <1>3, <2>2, <2>3, <2>5
<1>6. ASSUME NEW result \in Results, NEW late \in BOOLEAN, ExecuteStep(result, late)
      PROVE  WorkInv'
  <2>1. PICK i \in Indices :
              LET m == Executed(i, [pass.new.metas[i] EXCEPT !.started = TRUE], result, late)
              IN  /\ Deals(i, m) /\ m \in Meta /\ m.started /\ m.status # "none"
                  /\ "run" \in Decisions(i, pass.new.metas)
                  /\ dir' = [dir EXCEPT !.ran = @ \cup {i}]
                  /\ UNCHANGED <<plan, status, abort, faults>>
    BY <1>6, ExecuteStepDeals
  <2> DEFINE m == Executed(i, [pass.new.metas[i] EXCEPT !.started = TRUE], result, late)
  <2>2. /\ Deals(i, m) /\ m \in Meta /\ UNCHANGED <<status, faults>>
        /\ dir' = [dir EXCEPT !.ran = @ \cup {i}]
    BY <2>1
  <2> HIDE DEF m
  <2>3. dir'.exists = dir.exists /\ dir'.ran = dir.ran \cup {i}
    BY <2>2 DEF TypeOK
  <2> QED
    BY <1>3, <2>2, <2>3
<1>7. CASE FinishSteps
  <2>1. /\ pass'.pc = "saving" /\ pass'.new.phase \in Terminal
        /\ UNCHANGED <<status, dir, faults>>
    BY <1>7, FinalPhaseType DEF FinishSteps, TypeOK, Pass, PromotionStatus
  <2> QED
    BY <2>1 DEF WorkInv, Working, Terminal
<1>8. CASE SavePass
  <2>1. /\ pass'.pc = "idle" /\ status' = pass.new /\ pass.pc = "saving"
        /\ pass.new.phase = "Running" => dir' = dir
    BY <1>8 DEF SavePass, RemoveDirIfDone, Idle, Terminal
  <2> QED
    BY <2>1 DEF WorkInv, Working
<1>r. CASE RefuseSave
  <2>1. pass'.pc = "idle" /\ status'.phase = "Errored"
    BY <1>r DEF RefuseSave, Idle, TypeOK, PromotionStatus
  <2> QED
    BY <2>1 DEF WorkInv, Working
<1>9. CASE LoseSave
  <2>1. /\ pass'.pc = "idle" /\ status' = status /\ faults' >= 1 /\ faults = 0
        /\ dir' = dir \/ ~dir'.exists
    BY <1>9, <1>a DEF LoseSave, RemoveDirIfDone, Idle, NoDir
  <2> QED
    BY <2>1 DEF WorkInv, Working
<1>10. CASE RequestAbort
  BY <1>10 DEF RequestAbort, WorkInv, Working
<1>11. CASE Terminate
  <2>1. status'.phase = "Aborted" /\ pass.pc = "idle" /\ pass' = pass
    BY <1>11 DEF Terminate, TypeOK, PromotionStatus
  <2> QED
    BY <2>1 DEF WorkInv, Working
<1>12. ASSUME NEW keeps \in BOOLEAN, Crash(keeps) PROVE WorkInv'
  <2>1. /\ pass'.pc = "idle" /\ status' = status /\ faults' >= 1 /\ faults = 0
        /\ dir' = dir \/ ~dir'.exists
    BY <1>12, <1>a DEF Crash, Idle, NoDir
  <2> QED
    BY <2>1 DEF WorkInv, Working
<1>13. CASE UNCHANGED vars
  BY <1>13 DEF vars, WorkInv, Working
<1> QED
  BY <1>1, <1>2, <1>4, <1>5, <1>6, <1>7, <1>r, <1>8, <1>9, <1>10, <1>11, <1>12, <1>13
     DEF Next, TryStep, Reject, Panic

\* With at most one crash or lost patch, no step executes in a directory from
\* which the work of an earlier, succeeded step is missing (promote).
THEOREM AlwaysInheritedWork ==
    ASSUME MaxFaults <= 1
    PROVE  Spec => []InheritedWork
<1>1. Init => WorkInv
  BY DEF Init, WorkInv, Kept, Working, Idle, FreshStatus, NoMeta
<1>2. TypeOK /\ WorkInv /\ [Next]_vars => WorkInv'
  BY WorkInvStep
<1>3. WorkInv => InheritedWork
  BY DEF WorkInv, Kept, InheritedWork
<1> QED
  BY <1>1, <1>2, <1>3, TypeCorrect, PTL DEF Spec
=============================================================================
