----------------------- MODULE StagePromotionsProofs -----------------------
(***************************************************************************)
(* Proofs about StagePromotions, for any number of Promotions, any history *)
(* limit, any number of restarts and any interleaving.                     *)
(***************************************************************************)
EXTENDS StagePromotions, WellFoundedInduction, TLAPS

(***************************************************************************)
(* The operators of the Stage reconciler                                   *)
(***************************************************************************)

\* The largest of a set of names is one of them: MaxOf picks the Promotion that
\* is replayed last.
LEMMA MaxOfLemma ==
    ASSUME NEW S, S \subseteq Names, S # {}
    PROVE  /\ MaxOf(S) \in S
           /\ \A q \in S : q <= MaxOf(S)
<1> DEFINE T == {N - p : p \in S}
<1>1. T \subseteq Nat /\ T # {}
  <2>1. \A p \in S : N - p \in Nat
    BY ConstantsAssumption DEF Names
  <2> QED
    BY <2>1, Zenon
<1>2. PICK x \in T : \A y \in T : ~(<<y, x>> \in OpToRel(<, Nat))
  BY <1>1, NatLessThanWellFounded, WFMin, Zenon
<1>3. PICK m \in S : x = N - m
  BY <1>2
<1>4. \A q \in S : q <= m
  <2> SUFFICES ASSUME NEW q \in S PROVE q <= m
    OBVIOUS
  <2>1. N - q \in T /\ N - q \in Nat /\ x \in Nat
    BY <1>1, <1>2
  <2>2. ~(N - q < x)
    BY <1>2, <2>1 DEF OpToRel
  <2> QED
    BY <2>1, <2>2, <1>3, ConstantsAssumption DEF Names
<1> QED
  BY <1>3, <1>4 DEF MaxOf

\* Replaying finished Promotions yields a well-formed status: lastPromotion
\* names a Promotion and carries its terminal phase.
LEMMA ReplayType ==
    ASSUME NEW s \in StageStatus, NEW view \in [Names -> Promotion], NEW enabled \in BOOLEAN
    PROVE  Replay(s, view, enabled) \in StageStatus
<1> DEFINE new == NewPromos(view, s.last.name)
           succeeded == {p \in new : view[p].phase = "Succeeded"}
           deciders == {p \in new : view[p].phase # "Aborted" /\ view[p].intent # "none"}
<1>1. new \subseteq Names /\ \A p \in new : view[p].phase \in Terminal
  BY DEF NewPromos, Listed
<1>2. new # {} => MaxOf(new) \in new
  BY <1>1, MaxOfLemma
<1>3. deciders # {} => MaxOf(deciders) \in Names
  BY <1>1, MaxOfLemma
<1>4. s.hold \in NilOrName /\ s.last \in PromotionRef /\ s.history \in History
      /\ s.health \in {"nil", "Healthy", "Other"}
  BY DEF StageStatus
<1>5. ReplayHold(s.hold, view, new, enabled) \in NilOrName
  BY <1>3, <1>4, ConstantsAssumption DEF ReplayHold, NilOrName, Names
<1>6. (IF new = {} THEN s.last ELSE [name |-> MaxOf(new), phase |-> view[MaxOf(new)].phase])
        \in PromotionRef
  BY <1>1, <1>2, <1>4, ConstantsAssumption DEF PromotionRef, NilOrName, Names
<1>7. (IF succeeded = {} THEN s.history
       ELSE [recorded |-> Truncate(s.history.recorded \cup succeeded), verification |-> "none"])
        \in History
  BY <1>1, <1>4 DEF History, Truncate
<1> HIDE DEF new, succeeded
<1> QED
  BY <1>4, <1>5, <1>6, <1>7, ConstantsAssumption
     DEF Replay, StageStatus, NilOrName, new, succeeded

\* syncPromotions yields a well-formed status.
LEMMA SyncPromotionsType ==
    ASSUME NEW s \in StageStatus, NEW view \in [Names -> Promotion], NEW enabled \in BOOLEAN
    PROVE  SyncPromotions(s, view, enabled) \in StageStatus
<1> DEFINE kept == [s EXCEPT !.hold = IF enabled THEN s.hold ELSE 0]
           chosen == CHOOSE p \in Names : IsNext(view, p)
<1>1. 0 \in NilOrName /\ Names \subseteq NilOrName
  BY ConstantsAssumption DEF NilOrName, Names
<1>2. kept \in StageStatus
  BY <1>1 DEF StageStatus
<1>3. [kept EXCEPT !.current = 0] \in StageStatus
  BY <1>1, <1>2 DEF StageStatus
<1>4. (\E p \in Names : IsNext(view, p)) => [kept EXCEPT !.current = chosen] \in StageStatus
  <2> HAVE \E p \in Names : IsNext(view, p)
  <2>1. chosen \in Names
    OBVIOUS
  <2> QED
    BY <2>1, <1>1, <1>2 DEF StageStatus
<1>5. Replay(s, view, enabled) \in StageStatus
  BY ReplayType
<1> HIDE DEF kept, chosen
<1> QED
  BY <1>2, <1>3, <1>4, <1>5 DEF SyncPromotions, kept, chosen

\* assessHealth yields a well-formed status.
LEMMA AssessHealthType ==
    ASSUME NEW s \in StageStatus, NEW check \in Checks
    PROVE  AssessHealth(s, check) \in StageStatus
BY DEF AssessHealth, StageStatus, Checks

\* verifyStageFreight yields a well-formed status.
LEMMA VerifyStageFreightType ==
    ASSUME NEW s \in StageStatus, NEW v \in Verdicts,
           NEW runs \in [Names -> {"none", "running", "done"}]
    PROVE  VerifyStageFreight(s, runs, v) \in StageStatus
<1>1. CASE NothingToVerify(s)
  BY <1>1 DEF VerifyStageFreight
<1>2. CASE ~NothingToVerify(s)
  <2>1. s.history \in History /\ s.history.recorded # {}
    BY <1>2 DEF NothingToVerify, StageStatus
  <2>2. MaxOf(s.history.recorded) \in Names
    BY <2>1, MaxOfLemma DEF History
  <2>3. VerificationPhase(s, runs, v) \in {"none", "running", "done"}
    BY <2>1, <2>2 DEF VerificationPhase, History, Verdicts
  <2> QED
    BY <1>2, <2>1, <2>3 DEF VerifyStageFreight, StageStatus, History
<1> QED
  BY <1>1, <1>2

\* A merge patch of well-formed statuses yields a well-formed status.
LEMMA PatchStatusType ==
    ASSUME NEW server \in StageStatus, NEW base \in StageStatus, NEW new \in StageStatus
    PROVE  PatchStatus(server, base, new) \in StageStatus
BY DEF PatchStatus, Merged, StageStatus, PromotionRef

\* Whatever a pass of the Stage reconciler persists, the Stage stays well formed.
LEMMA ReconcileStageType ==
    ASSUME TypeOK,
           NEW check \in Checks, NEW v \in Verdicts, NEW ran \in BOOLEAN,
           NEW saved \in 0 .. 3, NEW whole \in BOOLEAN,
           ReconcileStage(check, v, ran, saved, whole)
    PROVE  /\ stage' \in StageStatus
           /\ analysis' \in [Names -> {"none", "running", "done"}]
<1> DEFINE w1 == SyncPromotions(sCache, pCache, auto)
           w2 == AssessHealth(w1, check)
           w3 == VerifyStageFreight(w2, analysis, v)
           w == CASE saved = 0 -> sCache [] saved = 1 -> w1
                  [] saved = 2 -> w2 [] saved = 3 -> w3
<1>1. w1 \in StageStatus
  BY SyncPromotionsType DEF TypeOK
<1>2. w2 \in StageStatus
  BY <1>1, AssessHealthType
<1>3. w3 \in StageStatus
  BY <1>2, VerifyStageFreightType DEF TypeOK
<1>4. w \in StageStatus
  <2> HIDE DEF w1, w2, w3
  <2> QED
    BY <1>1, <1>2, <1>3 DEF TypeOK
<1>5. stage' = IF whole THEN w ELSE PatchStatus(stage, sCache, w)
  BY DEF ReconcileStage
<1>6. PatchStatus(stage, sCache, w) \in StageStatus
  <2> HIDE DEF w
  <2> QED
    BY <1>4, PatchStatusType DEF TypeOK
<1>7. stage' \in StageStatus
  <2> HIDE DEF w
  <2> QED
    BY <1>4, <1>5, <1>6
<1>8. analysis' \in [Names -> {"none", "running", "done"}]
  <2>1. analysis' = IF ran /\ CreatesRun(w2, analysis, v)
                    THEN [analysis EXCEPT ![MaxOf(w2.history.recorded)] = "running"]
                    ELSE analysis
    BY DEF ReconcileStage
  <2> HIDE DEF w2
  <2> QED
    BY <2>1 DEF TypeOK
<1> QED
  BY <1>7, <1>8

\* TypeOK is inductive.
LEMMA TypeOKStep == TypeOK /\ [Next]_vars => TypeOK'
<1> SUFFICES ASSUME TypeOK, [Next]_vars PROVE TypeOK'
  OBVIOUS
<1>1. CASE BrokenPass
  <2>1. PICK check \in Checks, saved \in {1, 2}, whole \in BOOLEAN :
            ReconcileStage(check, "done", FALSE, saved, whole)
    BY <1>1 DEF BrokenPass, Checks
  <2>2. saved \in 0 .. 3 /\ "done" \in Verdicts /\ FALSE \in BOOLEAN
    BY DEF Verdicts
  <2>3. stage' \in StageStatus /\ analysis' \in [Names -> {"none", "running", "done"}]
    BY <2>1, <2>2, ReconcileStageType
  <2> QED
    BY <1>1, <2>1, <2>3, ConstantsAssumption DEF TypeOK, BrokenPass, Fault, ReconcileStage
<1>2. CASE OrphanRun
  <2>1. PICK saved \in 0 .. 2, whole \in BOOLEAN :
            ReconcileStage("Healthy", "running", TRUE, saved, whole)
    BY <1>2 DEF OrphanRun
  <2>2. saved \in 0 .. 3 /\ "running" \in Verdicts /\ "Healthy" \in Checks /\ TRUE \in BOOLEAN
    BY DEF Verdicts, Checks
  <2>3. stage' \in StageStatus /\ analysis' \in [Names -> {"none", "running", "done"}]
    BY <2>1, <2>2, ReconcileStageType
  <2> QED
    BY <1>2, <2>1, <2>3, ConstantsAssumption DEF TypeOK, OrphanRun, Fault, ReconcileStage
<1>3. ASSUME NEW whole \in BOOLEAN, FullPass(whole) PROVE TypeOK'
  <2>1. PICK check \in Checks, v \in Verdicts : ReconcileStage(check, v, TRUE, 3, whole)
    BY <1>3 DEF FullPass
  <2>2. 3 \in 0 .. 3 /\ TRUE \in BOOLEAN
    OBVIOUS
  <2>3. stage' \in StageStatus /\ analysis' \in [Names -> {"none", "running", "done"}]
    BY <2>1, <2>2, ReconcileStageType
  <2> QED
    BY <1>3, <2>1, <2>3 DEF TypeOK, FullPass, ReconcileStage
<1> USE DEF TypeOK
<1>4. ASSUME NEW p \in Names, PromotionStep(p) PROVE TypeOK'
  <2> USE DEF SetPhase, SetWorker, Dequeue, Requeue, Promotion, Phases, NonTerminal, Terminal
  <2>1. CASE ReconcileIgnore(p)
    BY <2>1 DEF ReconcileIgnore
  <2>2. CASE ReconcileAbort(p)
    BY <2>2 DEF ReconcileAbort
  <2>3. CASE ReconcileWait(p)
    BY <2>3 DEF ReconcileWait
  <2>4. CASE ReconcileAdmit(p)
    BY <2>4 DEF ReconcileAdmit
  <2>5. CASE MarkRunning(p)
    BY <2>5 DEF MarkRunning
  <2>6. ASSUME NEW outcome \in {"Running", "Succeeded", "Failed"}, FinishPromote(p, outcome)
        PROVE  TypeOK'
    BY <2>6 DEF FinishPromote
  <2>7. CASE LosePatch(p)
    BY <2>7 DEF LosePatch
  <2> QED
    BY <1>4, <2>1, <2>2, <2>3, <2>4, <2>5, <2>6, <2>7 DEF PromotionStep
<1>5. ASSUME NEW p \in Names, UserStep(p) PROVE TypeOK'
  <2> USE DEF SetPhase, Promotion, Phases, NonTerminal, Terminal
  <2>1. ASSUME NEW intent \in Intents, Create(p, intent) PROVE TypeOK'
    BY <2>1, ConstantsAssumption DEF Create
  <2>2. CASE AbortPromotion(p)
    BY <2>2 DEF AbortPromotion
  <2>3. CASE Delete(p)
    BY <2>3 DEF Delete
  <2> QED
    BY <1>5, <2>1, <2>2, <2>3 DEF UserStep
<1>6. ASSUME NEW p \in Names, CompleteAnalysis(p) PROVE TypeOK'
  BY <1>6 DEF CompleteAnalysis
<1>7. CASE ToggleAutoPromotion
  BY <1>7, ConstantsAssumption DEF ToggleAutoPromotion
<1>8. CASE SyncPromotionCache
  BY <1>8 DEF SyncPromotionCache, Listed
<1>9. CASE SyncStageCache
  <2>1. stage.current \in NilOrName
    BY DEF StageStatus
  <2>2. {stage.current} \ {0, sCache.current} \subseteq Names
    BY <2>1, ConstantsAssumption DEF NilOrName, Names
  <2>3. queue' \subseteq Names
    BY <1>9, <2>2 DEF SyncStageCache
  <2> QED
    BY <1>9, <2>3 DEF SyncStageCache
<1>10. CASE Restart
  BY <1>10, ConstantsAssumption DEF Restart, Fault, Listed
<1>11. CASE UNCHANGED vars
  BY <1>11 DEF vars
<1> QED
  BY <1>1, <1>2, <1>3, <1>4, <1>5, <1>6, <1>7, <1>8, <1>9, <1>10, <1>11 DEF Next

\* Every reachable state is well formed, for every value of the constants.
THEOREM TypeCorrect == Spec => []TypeOK
<1>1. Init => TypeOK
  BY ConstantsAssumption
     DEF Init, TypeOK, NoPromotion, NewStage, Promotion, Phases, StageStatus, PromotionRef,
         History, NilOrName
<1> QED
  BY <1>1, TypeOKStep, PTL DEF Spec

(***************************************************************************)
(* Serialization                                                           *)
(***************************************************************************)

\* Promotions become visible in the order of their names, and only finished
\* ones are deleted.
Orderly == InOrder /\ Deletable \subseteq Terminal

\* What syncPromotions may leave in currentPromotion: nothing, what it found, or
\* the head of the list of Promotions the informer shows.
LEMMA SyncPromotionsCurrent ==
    ASSUME NEW s \in StageStatus, NEW view \in [Names -> Promotion], NEW enabled \in BOOLEAN
    PROVE  LET c == SyncPromotions(s, view, enabled).current
           IN  c \in {0, s.current} \/ (c \in Names /\ IsNext(view, c))
<1> DEFINE kept == [s EXCEPT !.hold = IF enabled THEN s.hold ELSE 0]
           chosen == CHOOSE p \in Names : IsNext(view, p)
<1>1. kept \in StageStatus /\ kept.current = s.current
  BY ConstantsAssumption DEF StageStatus, NilOrName
<1>2. Replay(s, view, enabled).current = 0
  BY DEF Replay
<1>3. (\E p \in Names : IsNext(view, p)) => chosen \in Names /\ IsNext(view, chosen)
  OBVIOUS
<1>4. \A c : [kept EXCEPT !.current = c].current = c
  BY <1>1 DEF StageStatus
<1> HIDE DEF kept, chosen
<1> QED
  BY <1>1, <1>2, <1>3, <1>4 DEF SyncPromotions, kept, chosen

\* A pass leaves in currentPromotion what the API server or the pass's own, stale
\* copy had there, nothing, or the head of the list the informer shows.
LEMMA ReconcileStageCurrent ==
    ASSUME TypeOK,
           NEW check \in Checks, NEW v \in Verdicts, NEW ran \in BOOLEAN,
           NEW saved \in 0 .. 3, NEW whole \in BOOLEAN,
           ReconcileStage(check, v, ran, saved, whole)
    PROVE  \/ stage'.current \in {0, stage.current, sCache.current}
           \/ stage'.current \in Names /\ IsNext(pCache, stage'.current)
<1> DEFINE w1 == SyncPromotions(sCache, pCache, auto)
           w2 == AssessHealth(w1, check)
           w3 == VerifyStageFreight(w2, analysis, v)
           w == CASE saved = 0 -> sCache [] saved = 1 -> w1
                  [] saved = 2 -> w2 [] saved = 3 -> w3
<1>1. w1 \in StageStatus
  BY SyncPromotionsType DEF TypeOK
<1>2. w1.current \in {0, sCache.current} \/ (w1.current \in Names /\ IsNext(pCache, w1.current))
  BY SyncPromotionsCurrent DEF TypeOK
<1>3. w2 \in StageStatus /\ w2.current = w1.current
  <2> HIDE DEF w1
  <2> QED
    BY <1>1, AssessHealthType DEF AssessHealth, StageStatus
<1>4. w3.current = w2.current
  <2> HIDE DEF w2
  <2> QED
    BY <1>3 DEF VerifyStageFreight, StageStatus
<1>5. w.current \in {w1.current, sCache.current}
  <2> HIDE DEF w1, w2, w3
  <2> QED
    BY <1>3, <1>4
<1>6. stage' = IF whole THEN w ELSE PatchStatus(stage, sCache, w)
  BY DEF ReconcileStage
<1>7. stage'.current \in {w.current, stage.current}
  <2> HIDE DEF w
  <2> QED
    BY <1>6 DEF PatchStatus, Merged
<1> HIDE DEF w1, w
<1> QED
  BY <1>2, <1>5, <1>7

\* The heart of the argument: the head of the list the informer shows, however
\* old that list is, has no unfinished predecessor.
LEMMA NextIsOldest ==
    ASSUME TypeOK, KnownInOrder, CacheIsPast, ActiveIsOldest,
           NEW p \in Names, IsNext(pCache, p)
    PROVE  promo[p].phase # "absent" /\ OldersDone(p)
<1>1. p \in Listed(pCache) /\ pCache[p].phase \in NonTerminal /\ pCache[p].phase # "absent"
  BY DEF IsNext, IsHighest, NonTerminal
<1>2. promo[p].phase # "absent"
  BY <1>1 DEF CacheIsPast
<1>3. ASSUME NEW q \in Names, q < p PROVE Done(q)
  <2>1. pCache[q].phase # "absent"
    BY <1>1, <1>3 DEF KnownInOrder
  <2>2. CASE pCache[q].phase \in Terminal \cup {"gone"}
    BY <2>2 DEF CacheIsPast
  <2>3. CASE pCache[q].phase \in NonTerminal
    <3>1. q \in Listed(pCache) \ {p}
      BY <1>3, <2>3 DEF Listed, Names
    <3>2. Before(pCache, p, q)
      BY <3>1 DEF IsNext, IsHighest
    <3>3. PhaseRank(pCache[q].phase) \in {0, 1} /\ PhaseRank(pCache[p].phase) \in {0, 1}
      BY <1>1, <2>3 DEF PhaseRank
    <3>4. ~(p < q)
      BY <1>3 DEF Names
    <3>5. PhaseRank(pCache[p].phase) < PhaseRank(pCache[q].phase)
      BY <3>2, <3>3, <3>4 DEF Before
    <3>6. pCache[p].phase = "Running"
      BY <1>1, <3>3, <3>5 DEF PhaseRank
    <3> QED
      BY <1>3, <3>6 DEF ActiveIsOldest, OldersDone
  <2> QED
    BY <2>1, <2>2, <2>3 DEF TypeOK, Promotion, Phases
<1> QED
  BY <1>2, <1>3 DEF OldersDone

\* What the Promotion reconciler and its users do to promo: existing Promotions
\* stay known, and what is over stays over.
LEMMA PromotionsMoveForward ==
    ASSUME TypeOK, Orderly, [Next]_vars, NEW p \in Names
    PROVE  /\ Done(p) => Done(p)'
           /\ promo[p].phase # "absent" => promo[p].phase' # "absent"
<1> USE DEF Done, Terminal, NonTerminal
<1>1. CASE UNCHANGED promo
  BY <1>1
<1>2. ASSUME NEW q \in Names, NEW new \in {"Pending", "Running", "Succeeded", "Failed", "Aborted"},
             promo[q].phase \in NonTerminal, promo' = [promo EXCEPT ![q].phase = new]
      PROVE  /\ Done(p) => Done(p)'
             /\ promo[p].phase # "absent" => promo[p].phase' # "absent"
  BY <1>2 DEF TypeOK, Promotion
<1>3. ASSUME NEW q \in Names, PromotionStep(q), ~UNCHANGED promo
      PROVE  \E new \in {"Pending", "Running", "Succeeded", "Failed", "Aborted"} :
                 promo[q].phase \in NonTerminal /\ promo' = [promo EXCEPT ![q].phase = new]
  BY <1>3 DEF PromotionStep, ReconcileIgnore, ReconcileAbort, ReconcileWait, ReconcileAdmit,
              MarkRunning, FinishPromote, LosePatch, Reconcilable, SetPhase
<1>4. ASSUME NEW q \in Names, UserStep(q)
      PROVE  /\ Done(p) => Done(p)'
             /\ promo[p].phase # "absent" => promo[p].phase' # "absent"
  BY <1>4 DEF UserStep, Create, AbortPromotion, Delete, SetPhase, Orderly, TypeOK, Promotion
<1>5. CASE \E q \in Names : PromotionStep(q)
  BY <1>5, <1>1, <1>2, <1>3
<1>6. CASE \E q \in Names : UserStep(q)
  BY <1>6, <1>4
<1>7. CASE \E q \in Names : CompleteAnalysis(q)
  BY <1>7, <1>1 DEF CompleteAnalysis
<1>8. CASE BrokenPass \/ OrphanRun \/ \E whole \in BOOLEAN : FullPass(whole)
  BY <1>8, <1>1 DEF BrokenPass, OrphanRun, FullPass, ReconcileStage
<1>9. CASE ToggleAutoPromotion \/ SyncPromotionCache \/ SyncStageCache \/ Restart \/ UNCHANGED vars
  BY <1>9, <1>1 DEF ToggleAutoPromotion, SyncPromotionCache, SyncStageCache, Restart, vars
<1> QED
  BY <1>5, <1>6, <1>7, <1>8, <1>9 DEF Next

\* A pass of the Stage reconciler, of whatever kind, preserves SerialInv.
LEMMA StagePassSerial ==
    ASSUME TypeOK, Orderly, SerialInv,
           NEW check \in Checks, NEW v \in Verdicts, NEW ran \in BOOLEAN,
           NEW saved \in 0 .. 3, NEW whole \in BOOLEAN,
           ReconcileStage(check, v, ran, saved, whole)
    PROVE  SerialInv'
<1>1. UNCHANGED <<promo, pCache, sCache, worker>>
  BY DEF ReconcileStage
<1>2. /\ KnownInOrder' /\ CacheIsPast' /\ ActiveIsOldest' /\ WorkerOwns'
  BY <1>1 DEF SerialInv, KnownInOrder, CacheIsPast, ActiveIsOldest, WorkerOwns, Active,
              OldersDone, Done
<1>3. ASSUME NEW c, c # 0, c \in {stage'.current, sCache'.current}
      PROVE  promo[c].phase # "absent" /\ OldersDone(c)
  <2>1. \/ c \in {stage.current, sCache.current}
        \/ c \in Names /\ IsNext(pCache, c)
    BY <1>1, <1>3, ReconcileStageCurrent
  <2>2. CASE c \in {stage.current, sCache.current}
    BY <1>3, <2>2 DEF SerialInv, CurrentIsOldest
  <2>3. CASE c \in Names /\ IsNext(pCache, c)
    BY <2>3, NextIsOldest DEF SerialInv
  <2> QED
    BY <2>1, <2>2, <2>3
<1>4. CurrentIsOldest'
  BY <1>1, <1>3 DEF CurrentIsOldest, OldersDone, Done
<1> QED
  BY <1>2, <1>4 DEF SerialInv

\* SerialInv is inductive, given the type invariant.
LEMMA SerialInvStep ==
    ASSUME TypeOK, Orderly, SerialInv, [Next]_vars
    PROVE  SerialInv'
<1>1. \A p \in Names : /\ Done(p) => Done(p)'
                       /\ OldersDone(p) => OldersDone(p)'
                       /\ promo[p].phase # "absent" => promo[p].phase' # "absent"
  BY PromotionsMoveForward DEF OldersDone
<1>2. CASE BrokenPass
  <2>1. PICK check \in Checks, saved \in {1, 2}, whole \in BOOLEAN :
            ReconcileStage(check, "done", FALSE, saved, whole)
    BY <1>2 DEF BrokenPass, Checks
  <2>2. saved \in 0 .. 3 /\ "done" \in Verdicts /\ FALSE \in BOOLEAN
    BY DEF Verdicts
  <2> QED
    BY <2>1, <2>2, StagePassSerial
<1>3. CASE OrphanRun
  <2>1. PICK saved \in 0 .. 2, whole \in BOOLEAN :
            ReconcileStage("Healthy", "running", TRUE, saved, whole)
    BY <1>3 DEF OrphanRun
  <2>2. saved \in 0 .. 3 /\ "running" \in Verdicts /\ "Healthy" \in Checks /\ TRUE \in BOOLEAN
    BY DEF Verdicts, Checks
  <2> QED
    BY <2>1, <2>2, StagePassSerial
<1>4. ASSUME NEW whole \in BOOLEAN, FullPass(whole) PROVE SerialInv'
  <2>1. PICK check \in Checks, v \in Verdicts : ReconcileStage(check, v, TRUE, 3, whole)
    BY <1>4 DEF FullPass
  <2>2. 3 \in 0 .. 3 /\ TRUE \in BOOLEAN
    OBVIOUS
  <2> QED
    BY <2>1, <2>2, StagePassSerial
<1>5. ASSUME NEW p \in Names, PromotionStep(p) PROVE SerialInv'
  <2>1. UNCHANGED <<pCache, stage, sCache>>
    BY <1>5 DEF PromotionStep, ReconcileIgnore, ReconcileAbort, ReconcileWait, ReconcileAdmit,
                MarkRunning, FinishPromote, LosePatch
  <2>2. \A q \in Names \ {p} : promo'[q] = promo[q] /\ worker'[q] = worker[q]
    BY <1>5 DEF PromotionStep, ReconcileIgnore, ReconcileAbort, ReconcileWait, ReconcileAdmit,
                MarkRunning, FinishPromote, LosePatch, SetPhase, SetWorker, TypeOK
  <2>3. promo[p].phase = "absent" => promo'[p].phase = "absent"
    BY <1>5 DEF PromotionStep, ReconcileIgnore, ReconcileAbort, ReconcileWait, ReconcileAdmit,
                MarkRunning, FinishPromote, LosePatch, Reconcilable, NonTerminal
  <2>4. Active(p)' => OldersDone(p)
    <3> USE DEF Active, TypeOK, Promotion, SetPhase, SetWorker
    <3>1. Active(p) => OldersDone(p)
      BY DEF SerialInv, ActiveIsOldest
    <3>2. CASE ReconcileIgnore(p)
      BY <3>1, <3>2 DEF ReconcileIgnore
    <3>3. CASE ReconcileAbort(p)
      BY <3>1, <3>3 DEF ReconcileAbort
    <3>4. CASE ReconcileWait(p)
      BY <3>1, <3>4 DEF ReconcileWait
    <3>5. CASE ReconcileAdmit(p)
      <4>1. sCache.current = p /\ p # 0
        BY <3>5 DEF ReconcileAdmit, StageAwaitsPromotion, Names
      <4> QED
        BY <4>1 DEF SerialInv, CurrentIsOldest
    <3>6. CASE MarkRunning(p)
      BY <3>1, <3>6 DEF MarkRunning
    <3>7. ASSUME NEW outcome \in {"Running", "Succeeded", "Failed"}, FinishPromote(p, outcome)
          PROVE  OldersDone(p)
      BY <3>1, <3>7 DEF FinishPromote
    <3>8. CASE LosePatch(p)
      BY <3>1, <3>8 DEF LosePatch
    <3> QED
      BY <1>5, <3>2, <3>3, <3>4, <3>5, <3>6, <3>7, <3>8 DEF PromotionStep
  <2>5. worker'[p] # "idle" => promo'[p].phase \in {"Pending", "Running"}
    <3> USE DEF TypeOK, Promotion, SetPhase, SetWorker, Dequeue, NonTerminal
    <3>1. CASE ReconcileIgnore(p) \/ ReconcileAbort(p) \/ ReconcileWait(p) \/ LosePatch(p)
      BY <3>1 DEF ReconcileIgnore, ReconcileAbort, ReconcileWait, LosePatch
    <3>2. CASE ReconcileAdmit(p)
      BY <3>2 DEF ReconcileAdmit, Reconcilable
    <3>3. CASE MarkRunning(p)
      BY <3>3 DEF MarkRunning
    <3>4. ASSUME NEW outcome \in {"Running", "Succeeded", "Failed"}, FinishPromote(p, outcome)
          PROVE  worker'[p] = "idle"
      BY <3>4 DEF FinishPromote
    <3> QED
      BY <1>5, <3>1, <3>2, <3>3, <3>4 DEF PromotionStep
  <2>6. KnownInOrder'
    BY <1>1, <2>1, <2>2, <2>3 DEF SerialInv, KnownInOrder
  <2>7. CacheIsPast'
    BY <1>1, <2>1 DEF SerialInv, CacheIsPast
  <2>8. CurrentIsOldest'
    BY <1>1, <2>1, ConstantsAssumption
       DEF SerialInv, CurrentIsOldest, TypeOK, StageStatus, NilOrName, Names
  <2>9. ActiveIsOldest'
    <3> SUFFICES ASSUME NEW q \in Names, Active(q)' \/ pCache'[q].phase = "Running"
                 PROVE  OldersDone(q)'
      BY DEF ActiveIsOldest
    <3>1. CASE pCache'[q].phase = "Running"
      BY <1>1, <2>1, <3>1 DEF SerialInv, ActiveIsOldest
    <3>2. CASE Active(q)' /\ q = p
      BY <1>1, <2>4, <3>2
    <3>3. CASE Active(q)' /\ q # p
      BY <1>1, <2>2, <3>3 DEF SerialInv, ActiveIsOldest, Active
    <3> QED
      BY <3>1, <3>2, <3>3
  <2>10. WorkerOwns'
    BY <2>2, <2>5 DEF SerialInv, WorkerOwns
  <2> QED
    BY <2>6, <2>7, <2>8, <2>9, <2>10 DEF SerialInv
<1>6. ASSUME NEW p \in Names, UserStep(p) PROVE SerialInv'
  <2>1. UNCHANGED <<pCache, stage, sCache, worker>>
    BY <1>6 DEF UserStep, Create, AbortPromotion, Delete
  <2>2. \A q \in Names \ {p} : promo'[q] = promo[q]
    BY <1>6 DEF UserStep, Create, AbortPromotion, Delete, SetPhase, TypeOK
  <2>3. promo'[p].phase \in {promo[p].phase, "New", "gone"}
    BY <1>6 DEF UserStep, Create, AbortPromotion, Delete, SetPhase, TypeOK, Promotion
  <2>4. worker[p] # "idle" => promo'[p].phase = promo[p].phase
    <3> HAVE worker[p] # "idle"
    <3>1. promo[p].phase \in {"Pending", "Running"}
      BY DEF SerialInv, WorkerOwns
    <3>2. ~Delete(p) /\ \A intent \in Intents : ~Create(p, intent)
      BY <3>1 DEF Delete, Create, Orderly, Terminal
    <3>3. AbortPromotion(p)
      BY <1>6, <3>2 DEF UserStep
    <3> QED
      BY <3>3 DEF AbortPromotion, TypeOK, Promotion
  <2>5. promo[p].phase = "absent" /\ promo'[p].phase # "absent" =>
            \A q \in Names : q < p => promo[q].phase # "absent"
    <3>1. ASSUME NEW intent \in Intents, Create(p, intent), NEW q \in Names, q < p
          PROVE  promo[q].phase # "absent"
      <4>1. q \in 1 .. (p - 1)
        BY <3>1 DEF Names
      <4> QED
        BY <3>1, <4>1 DEF Create, Orderly
    <3>2. CASE AbortPromotion(p) \/ Delete(p)
      BY <3>2, ConstantsAssumption
         DEF AbortPromotion, Delete, NonTerminal, Terminal
    <3> QED
      BY <1>6, <3>1, <3>2 DEF UserStep
  <2>6. KnownInOrder'
    BY <1>1, <2>1, <2>2, <2>5 DEF SerialInv, KnownInOrder, Names
  <2>7. CacheIsPast'
    BY <1>1, <2>1 DEF SerialInv, CacheIsPast
  <2>8. CurrentIsOldest'
    BY <1>1, <2>1, ConstantsAssumption
       DEF SerialInv, CurrentIsOldest, TypeOK, StageStatus, NilOrName, Names
  <2>9. ActiveIsOldest'
    BY <1>1, <2>1, <2>2, <2>3 DEF SerialInv, ActiveIsOldest, Active
  <2>10. WorkerOwns'
    BY <2>1, <2>2, <2>4 DEF SerialInv, WorkerOwns
  <2> QED
    BY <2>6, <2>7, <2>8, <2>9, <2>10 DEF SerialInv
<1>7. CASE SyncPromotionCache
  <2>1. UNCHANGED <<promo, stage, sCache, worker>> /\ pCache' = promo
    BY <1>7 DEF SyncPromotionCache
  <2> QED
    BY <2>1 DEF SerialInv, KnownInOrder, CacheIsPast, CurrentIsOldest, ActiveIsOldest,
                WorkerOwns, Active, OldersDone, Done
<1>8. CASE SyncStageCache
  <2>1. UNCHANGED <<promo, pCache, stage, worker>> /\ sCache' = stage
    BY <1>8 DEF SyncStageCache
  <2> QED
    BY <2>1 DEF SerialInv, KnownInOrder, CacheIsPast, CurrentIsOldest, ActiveIsOldest,
                WorkerOwns, Active, OldersDone, Done
<1>9. CASE Restart
  <2>1. /\ UNCHANGED <<promo, stage>> /\ pCache' = promo /\ sCache' = stage
        /\ \A p \in Names : worker'[p] = "idle"
    BY <1>9 DEF Restart
  <2> QED
    BY <2>1 DEF SerialInv, KnownInOrder, CacheIsPast, CurrentIsOldest, ActiveIsOldest,
                WorkerOwns, Active, OldersDone, Done
<1>10. CASE ToggleAutoPromotion \/ (\E p \in Names : CompleteAnalysis(p)) \/ UNCHANGED vars
  <2>1. UNCHANGED <<promo, pCache, stage, sCache, worker>>
    BY <1>10 DEF ToggleAutoPromotion, CompleteAnalysis, vars
  <2> QED
    BY <2>1 DEF SerialInv, KnownInOrder, CacheIsPast, CurrentIsOldest, ActiveIsOldest,
                WorkerOwns, Active, OldersDone, Done
<1> QED
  BY <1>2, <1>3, <1>4, <1>5, <1>6, <1>7, <1>8, <1>9, <1>10 DEF Next

\* SerialInv, together with types, rules out two active Promotions.
LEMMA SerialInvImpliesSerialized ==
    ASSUME TypeOK, SerialInv
    PROVE  Serialized
<1> SUFFICES ASSUME NEW p \in Names, NEW q \in Names, Active(p), Active(q), p < q
             PROVE  FALSE
  BY DEF Serialized, Names
<1>1. Done(p)
  BY DEF SerialInv, ActiveIsOldest, OldersDone
<1>2. promo[p].phase \in {"Pending", "Running"}
  BY DEF SerialInv, WorkerOwns, Active
<1> QED
  BY <1>1, <1>2 DEF Done, Terminal

\* For any number of Promotions, restarts, lost patches and stale reads: as long
\* as Promotions become visible in the order of their names and only finished
\* ones are deleted, the inductive invariant always holds.
THEOREM AlwaysSerialInv ==
    ASSUME Orderly
    PROVE  Spec => []SerialInv
<1>1. Init => SerialInv
  BY ConstantsAssumption
     DEF Init, SerialInv, KnownInOrder, CacheIsPast, CurrentIsOldest, ActiveIsOldest,
         WorkerOwns, Active, NoPromotion, NewStage, Terminal, Done, OldersDone
<1>2. TypeOK /\ SerialInv /\ [Next]_vars => SerialInv'
  BY SerialInvStep
<1> QED
  BY <1>1, <1>2, TypeCorrect, PTL DEF Spec

\* Under the same conditions two Promotions of a Stage are never both running.
THEOREM AlwaysSerialized ==
    ASSUME Orderly
    PROVE  Spec => []Serialized
<1>1. TypeOK /\ SerialInv => Serialized
  BY SerialInvImpliesSerialized
<1> QED
  BY <1>1, TypeCorrect, AlwaysSerialInv, PTL

(***************************************************************************)
(* Refinement                                                              *)
(***************************************************************************)
qstate == [p \in Names |-> QueueState(promo[p].phase)]

\* Steps that leave every phase alone leave the abstract queue alone.
LEMMA SamePhases ==
    ASSUME \A p \in Names : promo'[p].phase = promo[p].phase
    PROVE  qstate' = qstate
BY DEF qstate

\* A step that changes the phase of one Promotion changes its state in the queue.
LEMMA OnePhaseChanges ==
    ASSUME NEW p \in Names, NEW new, promo'[p].phase = new,
           \A q \in Names \ {p} : promo'[q].phase = promo[q].phase
    PROVE  qstate' = [qstate EXCEPT ![p] = QueueState(new)]
<1>1. \A q \in Names \ {p} : QueueState(promo'[q].phase) = QueueState(promo[q].phase)
  OBVIOUS
<1>2. QueueState(promo'[p].phase) = QueueState(new)
  OBVIOUS
<1>3. qstate' = [q \in Names |-> QueueState(promo'[q].phase)]
  BY DEF qstate
<1>4. [qstate EXCEPT ![p] = QueueState(new)] =
        [q \in Names |-> IF q = p THEN QueueState(new) ELSE QueueState(promo[q].phase)]
  BY DEF qstate
<1> QED
  BY <1>1, <1>2, <1>3, <1>4, Zenon

\* The same, for a step of the Promotion reconciler.
LEMMA OnePhase ==
    ASSUME TypeOK, NEW p \in Names, NEW new,
           promo' = [promo EXCEPT ![p].phase = new]
    PROVE  qstate' = [qstate EXCEPT ![p] = QueueState(new)]
<1>1. promo'[p].phase = new /\ \A q \in Names \ {p} : promo'[q].phase = promo[q].phase
  BY DEF TypeOK, Promotion
<1> QED
  BY <1>1, OnePhaseChanges

\* A Promotion that is or becomes Running is the first of the queue.
LEMMA MayStart ==
    ASSUME TypeOK, SerialInv, NEW p \in Names, worker[p] # "idle", promo[p].phase # "Running"
    PROVE  /\ \A q \in Names : qstate[q] # "running"
           /\ \A q \in Names : q < p => qstate[q] = "done"
<1>1. promo[p].phase = "Pending" /\ OldersDone(p)
  BY DEF SerialInv, WorkerOwns, ActiveIsOldest, Active
<1>2. ASSUME NEW q \in Names, promo[q].phase = "Running" PROVE FALSE
  <2>1. OldersDone(q)
    BY <1>2 DEF SerialInv, ActiveIsOldest, Active
  <2>2. CASE q < p
    BY <1>1, <1>2, <2>2 DEF OldersDone, Done, Terminal
  <2>3. CASE p < q
    BY <1>1, <2>1, <2>3 DEF OldersDone, Done, Terminal
  <2>4. CASE p = q
    BY <1>1, <1>2, <2>4
  <2> QED
    BY <2>2, <2>3, <2>4 DEF Names
<1>3. \A q \in Names : QueueState(promo[q].phase) # "running"
  BY <1>2 DEF QueueState
<1>4. \A q \in Names : Done(q) => QueueState(promo[q].phase) = "done"
  BY DEF Done, QueueState, Terminal
<1> QED
  BY <1>1, <1>3, <1>4 DEF qstate, OldersDone

\* Every step of the two reconcilers is a step of the queue, or none.
LEMMA QueueStep ==
    ASSUME TypeOK, Orderly, SerialInv, [Next]_vars
    PROVE  [Queue!QNext]_qstate
<1> USE DEF Queue!QNext, Queue!QNames, Names
<1>1. CASE \A p \in Names : promo'[p].phase = promo[p].phase
  BY <1>1, SamePhases
<1>2. ASSUME NEW p \in Names, NEW new \in {"Succeeded", "Failed", "Aborted"},
             promo[p].phase \in NonTerminal, promo' = [promo EXCEPT ![p].phase = new]
      PROVE  [Queue!QNext]_qstate
  <2>1. qstate' = [qstate EXCEPT ![p] = "done"]
    BY <1>2, OnePhase DEF QueueState, Terminal
  <2>2. qstate[p] \in {"waiting", "running"}
    BY <1>2 DEF qstate, QueueState, NonTerminal
  <2>3. Queue!Finish(p) \/ Queue!Withdraw(p)
    BY <2>1, <2>2 DEF Queue!Finish, Queue!Withdraw, qstate
  <2> QED
    BY <2>3
<1>3. ASSUME NEW p \in Names, worker[p] # "idle", promo' = [promo EXCEPT ![p].phase = "Running"]
      PROVE  [Queue!QNext]_qstate
  <2>1. CASE promo[p].phase = "Running"
    BY <1>1, <1>3, <2>1 DEF TypeOK, Promotion
  <2>2. CASE promo[p].phase # "Running"
    <3>1. qstate' = [qstate EXCEPT ![p] = "running"]
      BY <1>3, OnePhase DEF QueueState
    <3>2. qstate[p] = "waiting"
      BY <1>3, <2>2 DEF qstate, QueueState, SerialInv, WorkerOwns
    <3>3. Queue!Start(p)
      BY <1>3, <2>2, <3>1, <3>2, MayStart DEF Queue!Start, qstate
    <3> QED
      BY <3>3
  <2> QED
    BY <2>1, <2>2
<1>4. ASSUME NEW p \in Names, PromotionStep(p) PROVE [Queue!QNext]_qstate
  <2> USE DEF SetPhase, Reconcilable
  <2>1. CASE ReconcileIgnore(p) \/ LosePatch(p)
    BY <1>1, <2>1 DEF ReconcileIgnore, LosePatch
  <2>2. CASE ReconcileAbort(p)
    BY <1>2, <2>2 DEF ReconcileAbort
  <2>3. CASE ReconcileWait(p) \/ ReconcileAdmit(p)
    <3>1. PICK new \in {"Pending", promo[p].phase} :
              /\ promo' = [promo EXCEPT ![p].phase = new]
              /\ new = "Pending" => promo[p].phase \in {"New", "Pending"}
      BY <2>3 DEF ReconcileWait, ReconcileAdmit
    <3>2. qstate' = [qstate EXCEPT ![p] = QueueState(new)]
      BY <3>1, OnePhase
    <3>3. QueueState(new) = qstate[p]
      BY <3>1 DEF QueueState, qstate
    <3> QED
      BY <3>2, <3>3 DEF qstate
  <2>4. CASE MarkRunning(p)
    BY <1>3, <2>4 DEF MarkRunning
  <2>5. ASSUME NEW outcome \in {"Running", "Succeeded", "Failed"}, FinishPromote(p, outcome)
        PROVE  [Queue!QNext]_qstate
    BY <1>2, <1>3, <2>5 DEF FinishPromote
  <2> QED
    BY <1>4, <2>1, <2>2, <2>3, <2>4, <2>5 DEF PromotionStep
<1>5. ASSUME NEW p \in Names, UserStep(p) PROVE [Queue!QNext]_qstate
  <2>1. ASSUME NEW intent \in Intents, Create(p, intent) PROVE Queue!Arrive(p)
    <3>1. promo'[p].phase = "New" /\ \A q \in Names \ {p} : promo'[q].phase = promo[q].phase
      BY <2>1 DEF Create, TypeOK
    <3>2. qstate' = [qstate EXCEPT ![p] = "waiting"]
      <4>1. qstate' = [qstate EXCEPT ![p] = QueueState("New")]
        BY <3>1, OnePhaseChanges
      <4>2. QueueState("New") = "waiting"
        BY DEF QueueState
      <4> QED
        BY <4>1, <4>2
    <3>3. qstate[p] = "absent"
      BY <2>1 DEF Create, qstate, QueueState
    <3> QED
      BY <3>2, <3>3 DEF Queue!Arrive, qstate
  <2>2. CASE AbortPromotion(p)
    BY <1>1, <2>2 DEF AbortPromotion, TypeOK, Promotion
  <2>3. CASE Delete(p)
    <3>1. qstate' = [qstate EXCEPT ![p] = "done"]
      <4>1. qstate' = [qstate EXCEPT ![p] = QueueState("gone")]
        BY <2>3, OnePhase DEF Delete, SetPhase
      <4>2. QueueState("gone") = "done"
        BY DEF QueueState
      <4> QED
        BY <4>1, <4>2
    <3>2. qstate[p] = "done"
      BY <2>3 DEF Delete, Orderly, Terminal, qstate, QueueState
    <3> QED
      BY <3>1, <3>2 DEF qstate
  <2> QED
    BY <1>5, <2>1, <2>2, <2>3 DEF UserStep
<1>6. CASE UNCHANGED promo
  BY <1>1, <1>6
<1>7. CASE BrokenPass \/ OrphanRun \/ \E whole \in BOOLEAN : FullPass(whole)
  BY <1>6, <1>7 DEF BrokenPass, OrphanRun, FullPass, ReconcileStage
<1>8. CASE \/ ToggleAutoPromotion \/ SyncPromotionCache \/ SyncStageCache \/ Restart
           \/ (\E p \in Names : CompleteAnalysis(p)) \/ UNCHANGED vars
  BY <1>6, <1>8 DEF ToggleAutoPromotion, SyncPromotionCache, SyncStageCache, Restart,
                    CompleteAnalysis, vars
<1> QED
  BY <1>4, <1>5, <1>7, <1>8 DEF Next

\* The two reconcilers implement the serial queue of PromotionQueue: the
\* Promotions of a Stage start one at a time and in the order of their names,
\* for any number of them and however stale the copies the reconcilers read.
THEOREM RefinesQueue ==
    ASSUME Orderly
    PROVE  Spec => ImplementsQueue
<1>1. Init => Queue!QInit
  BY DEF Init, Queue!QInit, Queue!QNames, Names, NoPromotion, QueueState
<1>2. TypeOK /\ SerialInv /\ [Next]_vars => [Queue!QNext]_qstate
  BY QueueStep
<1> QED
  BY <1>1, <1>2, TypeCorrect, AlwaysSerialInv, PTL DEF Spec, ImplementsQueue, Queue!QSpec, qstate
=============================================================================
