------------------------- MODULE VerificationProofs -------------------------
(***************************************************************************)
(* Proofs about Verification, for any Freight and any number of            *)
(* Promotions, verifications, AnalysisRuns, failed requests and lost       *)
(* passes.                                                                 *)
(***************************************************************************)
EXTENDS Verification, SequenceTheorems, WellFoundedInduction, TLAPS

(***************************************************************************)
(* The inductive invariants                                                *)
(***************************************************************************)

\* A verification history of which the IDs and AnalysisRuns have been handed
\* out, each ID once, and in which only the newest entry may be open.
WellKept(history, n, m) ==
    \A i \in DOMAIN history :
        /\ history[i].id <= n
        /\ history[i].run <= m
        /\ history[i].phase = "Running" => i = 1 /\ history[i].run # 0
        /\ \A j \in DOMAIN history : history[i].id = history[j].id => i = j

\* What was terminated is not successful, and while it is open the request to
\* abort it still stands: the next pass will find it again.
AbortStands(history, abort, A) ==
    \A i \in DOMAIN history :
        history[i].id \in A =>
            /\ history[i].phase # "Successful"
            /\ history[i].phase = "Running" => abort = history[i].id

HistoryInv ==
    /\ promo.phase # "none" => promo.freight \in Freight
    /\ HasCurrent(stage) => stage.freight \in Freight
    /\ runs <= infos
    /\ aborted \subseteq 1 .. infos
    /\ \A r \in Runs : r > runs => run[r].phase = "absent" /\ run[r].freight = NoFreight
    /\ WellKept(stage.history, infos, runs)
    /\ AbortStands(stage.history, stage.abort, aborted)

\* A success that will be replayed as a re-promotion has left its request, and
\* a request once written is never taken back: no run is adopted any more.
RenewInv ==
    /\ renewed <= runs
    /\ renewed # 0 => stage.reverify # 0
    /\ stage.promoting # NoFreight /\ promo.phase = "Succeeded" /\ IsRepromotion =>
           stage.reverify # 0
    /\ RepromotionReverified

\* Some AnalysisRun for f, none of those in X, ran its course and succeeded;
\* g are the AnalysisRuns.
Earned(g, f, X) ==
    \E r \in Runs \ X : g[r].freight = f /\ g[r].phase = "Successful" /\ ~g[r].terminate

\* The AnalysisRun the Stage is waiting for.  It may still be terminated.
Awaited(s) == IF Verifying(s) THEN {Current(s).run} ELSE {}

\* No AnalysisRun for f was terminated.
Undisturbed(g, f) == \A r \in Runs : g[r].freight = f => ~g[r].terminate

\* Only Freight that has been promoted is known.
PromotedInv ==
    /\ verified \subseteq promoted
    /\ {stage.freight, promo.freight} \subseteq promoted \cup {NoFreight}
    /\ \A r \in Runs : run[r].freight \in promoted \cup {NoFreight}

EarnedInv ==
    /\ \A r \in Runs : runCache[r] \in Verdicts => run[r].phase = runCache[r]
    /\ promo.phase \in {"Pending", "Succeeded"} /\ promo.freight # stage.freight =>
           promo.freight \notin verified /\ Undisturbed(run, promo.freight)
    /\ stage.freight # NoFreight /\ ~HasCurrent(stage) /\ stage.reverify = 0 =>
           stage.freight \notin verified /\ Undisturbed(run, stage.freight)
    /\ Verifying(stage) =>
           /\ run[Current(stage).run].freight = stage.freight
           /\ run[Current(stage).run].terminate => Current(stage).id \in aborted
    /\ stage.configured =>
           /\ \A f \in verified : Earned(run, f, Awaited(stage))
           /\ HasCurrent(stage) /\ Current(stage).phase = "Successful" =>
                  Earned(run, stage.freight, {})

(***************************************************************************)
(* The operators of a pass                                                 *)
(***************************************************************************)

\* The most recent of some AnalysisRuns is one of them (findExistingAnalysisRun).
LEMMA LatestLemma ==
    ASSUME NEW S, S \subseteq Runs, S # {}
    PROVE  Latest(S) \in S
<1> DEFINE T == {MaxInfos - r : r \in S}
<1>1. T \subseteq Nat /\ T # {}
  <2>1. \A r \in S : MaxInfos - r \in Nat
    BY VerificationAssumption DEF Runs, Infos
  <2> QED
    BY <2>1, Zenon
<1>2. PICK x \in T : \A y \in T : ~(<<y, x>> \in OpToRel(<, Nat))
  BY <1>1, NatLessThanWellFounded, WFMin, Zenon
<1>3. PICK m \in S : x = MaxInfos - m
  BY <1>2
<1>4. \A q \in S : q <= m
  <2> SUFFICES ASSUME NEW q \in S PROVE q <= m
    OBVIOUS
  <2>1. MaxInfos - q \in T /\ MaxInfos - q \in Nat /\ x \in Nat
    BY <1>1, <1>2
  <2>2. ~(MaxInfos - q < x)
    BY <1>2, <2>1 DEF OpToRel
  <2> QED
    BY <2>1, <2>2, <1>3, VerificationAssumption DEF Runs, Infos
<1> QED
  BY <1>3, <1>4 DEF Latest

\* The newest entry of a history.
LEMMA CurrentEntry ==
    ASSUME NEW s, s.history \in Seq(Info), HasCurrent(s)
    PROVE  /\ Current(s) = s.history[1]
           /\ 1 \in DOMAIN s.history
           /\ Current(s) \in Info
BY HeadTailProperties, ElementOfSeq, LenProperties, EmptySeq DEF HasCurrent, Current

\* The Stage after the first half of a pass.
FirstHalf == AssessHealth(SyncPromotions(stage))

\* Does this pass replay a Promotion that succeeded?
Replays == stage.promoting # NoFreight /\ promo.phase = "Succeeded"

\* The first half of a pass replaces the current Freight, and forgets its
\* verifications, exactly if it replays a success; it touches no annotation.
LEMMA FirstHalfLemma ==
    ASSUME TypeOK
    PROVE  /\ FirstHalf \in StageType
           /\ FirstHalf.freight = IF Replays THEN promo.freight ELSE stage.freight
           /\ FirstHalf.history = IF Replays THEN <<>> ELSE stage.history
           /\ FirstHalf.configured = stage.configured
           /\ FirstHalf.reverify = stage.reverify
           /\ FirstHalf.abort = stage.abort
<1> DEFINE t == SyncPromotions(stage)
<1>1. <<>> \in Seq(Info)
  OBVIOUS
<1>2. /\ t \in StageType
      /\ t.freight = IF Replays THEN promo.freight ELSE stage.freight
      /\ t.history = IF Replays THEN <<>> ELSE stage.history
      /\ t.configured = stage.configured
      /\ t.reverify = stage.reverify
      /\ t.abort = stage.abort
  BY <1>1 DEF TypeOK, StageType, SyncPromotions, Replays, NilOrFreight
<1> HIDE DEF t
<1>3. (IF t.promoting # NoFreight THEN "Other"
        ELSE IF t.last = "none" THEN "nil"
        ELSE IF t.last = "Failed" THEN "Other"
        ELSE checks) \in {"nil", "Healthy", "Other"}
  BY DEF TypeOK
<1> QED
  BY <1>2, <1>3 DEF FirstHalf, AssessHealth, StageType, t

\* No Promotion that succeeded is current once the first half of a pass is over.
LEMMA FirstHalfPromoting ==
    ASSUME TypeOK
    PROVE  FirstHalf.promoting # NoFreight => promo.phase # "Succeeded"
BY DEF TypeOK, StageType, FirstHalf, AssessHealth, SyncPromotions

\* Two statuses differ in the verification history only.
OnlyHistory(s, w) ==
    /\ w.configured = s.configured
    /\ w.freight = s.freight
    /\ w.promoting = s.promoting
    /\ w.last = s.last
    /\ w.health = s.health
    /\ w.reverify = s.reverify
    /\ w.abort = s.abort

\* A history is another one with its newest entry replaced.
NewHead(info, h, g) == g = [i \in DOMAIN h |-> IF i = 1 THEN info ELSE h[i]]

\* Recording a new phase for the current verification changes that entry alone.
LEMMA UpdateCurrent ==
    ASSUME NEW s \in StageType, HasCurrent(s), NEW n, NEW m, WellKept(s.history, n, m),
           NEW phase \in Verdicts \cup {"Running"}, NEW info,
           info = [Current(s) EXCEPT !.phase = phase], NEW w, w = UpdateOrPush(s, info)
    PROVE  /\ w \in StageType
           /\ NewHead(info, s.history, w.history)
           /\ info \in Info
           /\ HasCurrent(w)
           /\ Current(w) = info
           /\ OnlyHistory(s, w)
<1> DEFINE h == s.history
           new == [i \in DOMAIN h |-> IF i = 1 THEN info ELSE h[i]]
<1>1. h \in Seq(Info) /\ 1 \in DOMAIN h /\ Current(s) = h[1] /\ Current(s) \in Info
  BY CurrentEntry DEF StageType
<1>2. info \in Info /\ info.id = h[1].id
  BY <1>1 DEF Info
<1>3. \A i \in DOMAIN h : h[i].id = info.id <=> i = 1
  BY <1>1, <1>2 DEF WellKept
<1>4. UpdateOrPush(s, info) = [s EXCEPT !.history = [i \in DOMAIN h |->
          IF h[i].id = info.id THEN info ELSE h[i]]]
  BY <1>1, <1>2 DEF UpdateOrPush
<1>5. w = [s EXCEPT !.history = new]
  BY <1>3, <1>4
<1>6. new \in Seq(Info) /\ 1 \in DOMAIN new
  <2>1. new = [h EXCEPT ![1] = info] /\ DOMAIN h = 1 .. Len(h)
    BY <1>1, LenProperties
  <2> QED
    BY <1>1, <1>2, <2>1, ExceptSeq
<1>7. w \in StageType /\ w.history = new
  BY <1>5, <1>6 DEF StageType
<1>8. HasCurrent(w)
  BY <1>6, <1>7, EmptySeq DEF HasCurrent
<1>9. Current(w) = info
  BY <1>6, <1>7, <1>8, <1>1, CurrentEntry
<1>10. OnlyHistory(s, w)
  BY <1>5 DEF OnlyHistory, StageType
<1> QED
  BY <1>2, <1>7, <1>8, <1>9, <1>10 DEF NewHead

\* A history is another one with a new entry on top.
OnTop(info, h, g) ==
    /\ Len(g) = Len(h) + 1
    /\ \A i \in 1 .. Len(h) + 1 : g[i] = IF i = 1 THEN info ELSE h[i - 1]

\* A verification with a fresh ID becomes the newest entry.
LEMMA PushNew ==
    ASSUME NEW s \in StageType, NEW n \in Nat, NEW m, WellKept(s.history, n, m),
           NEW info \in Info, info.id > n, NEW w, w = UpdateOrPush(s, info)
    PROVE  /\ w \in StageType
           /\ OnTop(info, s.history, w.history)
           /\ HasCurrent(w)
           /\ Current(w) = info
           /\ OnlyHistory(s, w)
<1> DEFINE h == s.history
           new == <<info>> \o h
<1>1. h \in Seq(Info) /\ <<info>> \in Seq(Info)
  BY DEF StageType
<1>2. \A i \in DOMAIN h : h[i].id # info.id
  <2> SUFFICES ASSUME NEW i \in DOMAIN h PROVE h[i].id # info.id
    OBVIOUS
  <2>1. h[i] \in Info /\ h[i].id <= n
    BY <1>1, ElementOfSeq, LenProperties DEF WellKept
  <2> QED
    BY <2>1, VerificationAssumption DEF Info, Infos
<1>3. w = [s EXCEPT !.history = new]
  BY <1>2 DEF UpdateOrPush
<1>4. /\ new \in Seq(Info)
      /\ Len(new) = Len(h) + 1
      /\ Len(h) \in Nat
      /\ \A i \in 1 .. Len(h) + 1 : new[i] = IF i = 1 THEN info ELSE h[i - 1]
  BY <1>1, ConcatProperties, LenProperties
<1>5. w \in StageType /\ w.history = new
  BY <1>3, <1>4 DEF StageType
<1>6. new # <<>> /\ 1 \in 1 .. Len(h) + 1
  BY <1>4
<1>7. HasCurrent(w)
  BY <1>5, <1>6 DEF HasCurrent
<1>8. Current(w) = info
  BY <1>4, <1>5, <1>6, <1>7, CurrentEntry
<1>9. OnlyHistory(s, w)
  BY <1>3 DEF OnlyHistory, StageType
<1> QED
  BY <1>4, <1>5, <1>7, <1>8, <1>9 DEF OnTop

(***************************************************************************)
(* Histories stay well kept, and aborts stand                              *)
(***************************************************************************)

\* More IDs and AnalysisRuns handed out: what was well kept still is.
LEMMA WellKeptGrows ==
    ASSUME NEW h \in Seq(Info), NEW n \in Nat, NEW m \in Nat, NEW n2 \in Nat, NEW m2 \in Nat,
           WellKept(h, n, m), n <= n2, m <= m2
    PROVE  WellKept(h, n2, m2)
<1> SUFFICES ASSUME NEW i \in DOMAIN h PROVE h[i].id <= n2 /\ h[i].run <= m2
  BY DEF WellKept
<1>1. h[i] \in Info
  BY ElementOfSeq, LenProperties
<1>2. h[i].id \in Nat /\ h[i].run \in Nat
  BY <1>1, VerificationAssumption DEF Info, Infos, NilOrRun, NilOrInfo
<1> QED
  BY <1>2 DEF WellKept

\* Recording a phase keeps a history well kept, and an abort standing unless a
\* success is recorded for what was aborted.
LEMMA UpdateKeeps ==
    ASSUME NEW s \in StageType, Verifying(s), NEW n, NEW m, WellKept(s.history, n, m),
           NEW phase \in Verdicts \cup {"Running"}, NEW info,
           info = [Current(s) EXCEPT !.phase = phase], NEW w, w = UpdateOrPush(s, info),
           NEW A, AbortStands(s.history, s.abort, A)
    PROVE  /\ WellKept(w.history, n, m)
           /\ (info.id \in A => phase # "Successful") => AbortStands(w.history, w.abort, A)
<1>1. HasCurrent(s) /\ Current(s).phase = "Running"
  <2>1. HasCurrent(s) /\ ~(Current(s).phase \in Verdicts)
    BY DEF Verifying, IsTerminal
  <2>2. Current(s) \in Info
    BY <2>1, CurrentEntry DEF StageType
  <2> QED
    BY <2>1, <2>2 DEF Info
<1>2. /\ NewHead(info, s.history, w.history)
      /\ OnlyHistory(s, w)
  BY <1>1, UpdateCurrent
<1>3. 1 \in DOMAIN s.history /\ Current(s) = s.history[1] /\ Current(s) \in Info
  BY <1>1, CurrentEntry DEF StageType
<1>4. info.id = s.history[1].id /\ info.run = s.history[1].run /\ info.phase = phase
  BY <1>3 DEF Info
<1>5. /\ DOMAIN w.history = DOMAIN s.history
      /\ \A i \in DOMAIN s.history :
             /\ w.history[i].id = s.history[i].id
             /\ w.history[i].run = s.history[i].run
             /\ w.history[i].phase = IF i = 1 THEN phase ELSE s.history[i].phase
      /\ w.abort = s.abort
  <2>1. w.abort = s.abort
    BY <1>2 DEF OnlyHistory
  <2> QED
    BY <1>2, <1>4, <2>1 DEF NewHead
<1>6. WellKept(w.history, n, m)
  BY <1>1, <1>3, <1>5 DEF WellKept
<1>7. ASSUME info.id \in A => phase # "Successful"
      PROVE  AbortStands(w.history, w.abort, A)
  BY <1>1, <1>3, <1>4, <1>5, <1>7 DEF AbortStands
<1> QED
  BY <1>6, <1>7

\* A new verification, started when none is open, keeps a history well kept.
LEMMA PushKeeps ==
    ASSUME NEW s \in StageType, Due(s), NEW n \in Nat, NEW m \in Nat, WellKept(s.history, n, m),
           NEW m2 \in Nat, m <= m2, NEW info \in Info, info.id = n + 1, info.run <= m2,
           info.phase = "Running" => info.run # 0, NEW w, w = UpdateOrPush(s, info),
           NEW A, A \subseteq 1 .. n, AbortStands(s.history, s.abort, A)
    PROVE  /\ WellKept(w.history, n + 1, m2)
           /\ AbortStands(w.history, w.abort, A)
<1> DEFINE h == s.history
<1>0. info.id > n
  OBVIOUS
<1>1. w \in StageType /\ OnTop(info, h, w.history) /\ OnlyHistory(s, w)
  BY <1>0, PushNew
<1>2. h \in Seq(Info) /\ w.history \in Seq(Info)
  BY <1>1 DEF StageType
<1>3. DOMAIN h = 1 .. Len(h) /\ Len(h) \in Nat /\ DOMAIN w.history = 1 .. Len(h) + 1
  BY <1>1, <1>2, LenProperties DEF OnTop
<1>4. \A i \in DOMAIN h : /\ h[i].id \in Nat /\ h[i].run \in Nat
                          /\ h[i].id <= n /\ h[i].run <= m
  <2> SUFFICES ASSUME NEW i \in DOMAIN h
               PROVE  /\ h[i].id \in Nat /\ h[i].run \in Nat
                      /\ h[i].id <= n /\ h[i].run <= m
    OBVIOUS
  <2>1. h[i] \in Info
    BY <1>2, <1>3, ElementOfSeq
  <2> QED
    BY <2>1, VerificationAssumption DEF WellKept, Info, Infos, NilOrRun, NilOrInfo
<1>5. \A i \in DOMAIN h : h[i].phase # "Running"
  <2>1. CASE h = <<>>
    BY <2>1, <1>3
  <2>2. CASE h # <<>>
    <3>1. HasCurrent(s)
      BY <2>2 DEF HasCurrent
    <3>2. Current(s).phase \in Verdicts /\ Current(s) = h[1]
      BY <3>1, <1>2, CurrentEntry DEF Due, IsTerminal
    <3> QED
      BY <3>2 DEF WellKept, Verdicts
  <2> QED
    BY <2>1, <2>2
<1>6. \A i \in DOMAIN w.history : i # 1 => i - 1 \in DOMAIN h /\ w.history[i] = h[i - 1]
  BY <1>1, <1>3 DEF OnTop
<1>7. 1 \in DOMAIN w.history /\ w.history[1] = info
  <2>1. 1 \in 1 .. Len(h) + 1
    BY <1>3
  <2> QED
    BY <2>1, <1>1, <1>3 DEF OnTop
<1>8. info.id \in Nat /\ info.run \in Nat
  BY VerificationAssumption DEF Info, Infos, NilOrRun, NilOrInfo
<1>9. WellKept(w.history, n + 1, m2)
  <2>1. SUFFICES ASSUME NEW i \in DOMAIN w.history
                 PROVE  /\ w.history[i].id <= n + 1
                        /\ w.history[i].run <= m2
                        /\ w.history[i].phase = "Running" => i = 1 /\ w.history[i].run # 0
                        /\ \A j \in DOMAIN w.history :
                               w.history[i].id = w.history[j].id => i = j
    BY DEF WellKept
  <2>2. /\ w.history[i].id <= n + 1
        /\ w.history[i].run <= m2
        /\ w.history[i].phase = "Running" => i = 1 /\ w.history[i].run # 0
    BY <1>4, <1>5, <1>6, <1>7, <1>8
  <2>3. ASSUME NEW j \in DOMAIN w.history, w.history[i].id = w.history[j].id
        PROVE  i = j
    <3>1. CASE i = 1 /\ j # 1
      BY <3>1, <2>3, <1>4, <1>6, <1>7
    <3>2. CASE i # 1 /\ j = 1
      BY <3>2, <2>3, <1>4, <1>6, <1>7
    <3>3. CASE i # 1 /\ j # 1
      <4>1. i - 1 \in DOMAIN h /\ j - 1 \in DOMAIN h /\ h[i - 1].id = h[j - 1].id
        BY <3>3, <2>3, <1>6
      <4>2. i - 1 = j - 1
        BY <4>1 DEF WellKept
      <4> QED
        BY <4>2, <1>3
    <3> QED
      BY <3>1, <3>2, <3>3
  <2> QED
    BY <2>2, <2>3
<1>10. AbortStands(w.history, w.abort, A)
  <2> SUFFICES ASSUME NEW i \in DOMAIN w.history, w.history[i].id \in A
               PROVE  /\ w.history[i].phase # "Successful"
                      /\ w.history[i].phase = "Running" => w.abort = w.history[i].id
    BY DEF AbortStands
  <2>1. i # 1
    BY <1>7, <1>8
  <2>2. i - 1 \in DOMAIN h /\ w.history[i] = h[i - 1]
    BY <2>1, <1>6
  <2>3. w.abort = s.abort
    BY <1>1 DEF OnlyHistory
  <2> QED
    BY <2>2, <2>3, <1>5 DEF AbortStands
<1> QED
  BY <1>9, <1>10

\* The first half of a pass keeps what HistoryInv says of the Stage.
LEMMA FirstHalfKept ==
    ASSUME TypeOK, HistoryInv
    PROVE  /\ WellKept(FirstHalf.history, infos, runs)
           /\ AbortStands(FirstHalf.history, FirstHalf.abort, aborted)
           /\ HasCurrent(FirstHalf) => FirstHalf.freight \in Freight
<1>1. CASE Replays
  <2>1. FirstHalf.history = <<>>
    BY <1>1, FirstHalfLemma
  <2> QED
    BY <2>1 DEF WellKept, AbortStands, HasCurrent
<1>2. CASE ~Replays
  <2>1. /\ FirstHalf.history = stage.history
        /\ FirstHalf.freight = stage.freight
        /\ FirstHalf.abort = stage.abort
    BY <1>2, FirstHalfLemma
  <2> QED
    BY <2>1 DEF HistoryInv, HasCurrent
<1> QED
  BY <1>1, <1>2

\* What the end of a pass leaves behind.
LEMMA PersistType ==
    ASSUME TypeOK, NEW saved \in BOOLEAN, NEW w \in StageType,
           HasCurrent(w) => w.freight \in Freight, Persist(w, saved)
    PROVE  /\ stage' = IF saved THEN w ELSE stage
           /\ stage' \in StageType
           /\ verified' \subseteq Freight
           /\ renewed' \in NilOrRun
<1>1. CASE saved
  <2>1. MarkVerified(w) \subseteq Freight
    BY DEF MarkVerified
  <2> QED
    BY <1>1, <2>1, VerificationAssumption DEF Persist, TypeOK, NilOrRun, NilOrInfo
<1>2. CASE ~saved
  BY <1>2 DEF Persist, TypeOK
<1> QED
  BY <1>1, <1>2

\* The variables a pass may change are well typed.
PassType ==
    /\ stage \in StageType
    /\ run \in [Runs -> Run]
    /\ verified \subseteq Freight
    /\ infos \in NilOrInfo
    /\ runs \in NilOrRun
    /\ aborted \subseteq Infos
    /\ renewed \in NilOrRun

\* A pass that records a phase for the open verification.
LEMMA UpdatePass ==
    ASSUME TypeOK, HistoryInv, NEW saved \in BOOLEAN, NEW s, s = FirstHalf,
           Verifying(s), NEW phase \in Verdicts \cup {"Running"},
           Persist(UpdateOrPush(s, [Current(s) EXCEPT !.phase = phase]), saved),
           Current(s).id \in aborted' => phase # "Successful" /\ stage.abort = Current(s).id,
           aborted' \in {aborted, aborted \cup {Current(s).id}},
           run' \in [Runs -> Run],
           \A r \in Runs : run'[r].phase = run[r].phase /\ run'[r].freight = run[r].freight,
           UNCHANGED <<promo, infos, runs>>
    PROVE  PassType' /\ HistoryInv'
<1> DEFINE info == [Current(s) EXCEPT !.phase = phase]
           w == UpdateOrPush(s, info)
<1>1. s \in StageType /\ ~Replays /\ s.history = stage.history /\ s.abort = stage.abort
  <2>1. s \in StageType /\ s.abort = stage.abort
    BY FirstHalfLemma
  <2>2. s.history # <<>>
    BY DEF Verifying, HasCurrent
  <2> QED
    BY <2>1, <2>2, FirstHalfLemma
<1>2. /\ WellKept(s.history, infos, runs)
      /\ AbortStands(s.history, s.abort, aborted)
      /\ s.freight \in Freight
  BY FirstHalfKept DEF Verifying
<1>3. HasCurrent(s) /\ Current(s) = s.history[1] /\ 1 \in DOMAIN s.history /\ Current(s) \in Info
  BY <1>1, CurrentEntry DEF Verifying, StageType
<1>4. Current(s).phase = "Running" /\ info.id = Current(s).id
  BY <1>3 DEF Verifying, IsTerminal, Info
<1>5. /\ w \in StageType
      /\ HasCurrent(w)
      /\ OnlyHistory(s, w)
  BY <1>1, <1>2, <1>3, UpdateCurrent
<1>6. w.freight \in Freight
  BY <1>2, <1>5 DEF OnlyHistory
<1>7. /\ stage' = IF saved THEN w ELSE stage
      /\ stage' \in StageType
      /\ verified' \subseteq Freight
      /\ renewed' \in NilOrRun
  BY <1>5, <1>6, PersistType
<1>8. Current(s).id \in 1 .. infos /\ Current(s).id \in Infos
  <2>1. Current(s).id <= infos
    BY <1>2, <1>3 DEF WellKept
  <2> QED
    BY <2>1, <1>3, VerificationAssumption DEF Info, Infos, TypeOK, NilOrInfo
<1>9. PassType'
  BY <1>7, <1>8 DEF PassType, TypeOK
<1>10. AbortStands(s.history, s.abort, aborted')
  <2> SUFFICES ASSUME NEW i \in DOMAIN s.history, s.history[i].id \in aborted'
               PROVE  /\ s.history[i].phase # "Successful"
                      /\ s.history[i].phase = "Running" => s.abort = s.history[i].id
    BY DEF AbortStands
  <2>1. CASE s.history[i].id = Current(s).id
    <3>1. i = 1
      BY <2>1, <1>2, <1>3 DEF WellKept
    <3> QED
      BY <3>1, <1>1, <1>3, <1>4
  <2>2. CASE s.history[i].id # Current(s).id
    BY <2>2, <1>2 DEF AbortStands
  <2> QED
    BY <2>1, <2>2
<1>11. WellKept(w.history, infos, runs) /\ AbortStands(w.history, w.abort, aborted')
  <2>1. info = [Current(s) EXCEPT !.phase = phase] /\ w = UpdateOrPush(s, info)
    OBVIOUS
  <2>2. info.id \in aborted' => phase # "Successful"
    BY <1>4
  <2> HIDE DEF info, w
  <2>3. \A n, m, A : WellKept(s.history, n, m) /\ AbortStands(s.history, s.abort, A) =>
            /\ WellKept(w.history, n, m)
            /\ (info.id \in A => phase # "Successful") => AbortStands(w.history, w.abort, A)
    BY <1>1, <2>1, UpdateKeeps
  <2> QED
    BY <1>2, <1>10, <2>2, <2>3
<1>12. /\ WellKept(stage'.history, infos, runs)
       /\ AbortStands(stage'.history, stage'.abort, aborted')
       /\ HasCurrent(stage') => stage'.freight \in Freight
  <2>1. CASE saved
    BY <2>1, <1>6, <1>7, <1>11
  <2>2. CASE ~saved
    BY <2>2, <1>1, <1>2, <1>7, <1>10 DEF HistoryInv
  <2> QED
    BY <2>1, <2>2
<1>13. HasCurrent(stage)' = HasCurrent(stage')
  BY DEF HasCurrent
<1> QED
  BY <1>8, <1>9, <1>12, <1>13 DEF HistoryInv, HasCurrent

\* A pass that starts a verification, with a new AnalysisRun or without.
LEMMA PushPass ==
    ASSUME TypeOK, HistoryInv, NEW saved \in BOOLEAN, NEW s, s = FirstHalf,
           StartsVerification(s), NEW phase \in Verdicts \cup {"Running"}, NEW r \in NilOrRun,
           Persist(UpdateOrPush(s, [id |-> infos', phase |-> phase, run |-> r]), saved),
           r <= runs', phase = "Running" => r # 0,
           \/ UNCHANGED <<run, runs>>
           \/ /\ runs' = runs + 1
              /\ \E f \in NilOrFreight : run' = [run EXCEPT ![runs'] =
                     [freight |-> f, phase |-> "Running", terminate |-> FALSE]],
           UNCHANGED <<promo, aborted>>
    PROVE  PassType' /\ HistoryInv'
<1> DEFINE info == [id |-> infos', phase |-> phase, run |-> r]
           w == UpdateOrPush(s, info)
<1>1. s \in StageType /\ WellKept(s.history, infos, runs)
      /\ AbortStands(s.history, s.abort, aborted) /\ Due(s) /\ s.freight \in Freight
  BY FirstHalfLemma, FirstHalfKept
     DEF StartsVerification, Verifiable, StageType, NilOrFreight
<1>2. /\ infos \in Nat /\ runs \in Nat /\ infos' = infos + 1 /\ infos' \in Infos
      /\ runs' \in Nat /\ runs <= runs' /\ runs' <= infos'
      /\ runs' \in NilOrRun
  <2>1. infos \in Nat /\ runs \in Nat /\ runs <= infos /\ infos < MaxInfos /\ infos' = infos + 1
    BY VerificationAssumption DEF TypeOK, HistoryInv, NilOrInfo, NilOrRun, StartsVerification
  <2>2. runs' = runs \/ runs' = runs + 1
    OBVIOUS
  <2> QED
    BY <2>1, <2>2, VerificationAssumption DEF Infos, NilOrInfo, NilOrRun
<1>3. info \in Info
  BY <1>2 DEF Info
<1>4. info.id = infos + 1 /\ info.run <= runs' /\ (info.phase = "Running" => info.run # 0)
  BY <1>2
<1>5. aborted \subseteq 1 .. infos
  BY DEF HistoryInv
<1>6. w = UpdateOrPush(s, info) /\ Persist(w, saved)
  OBVIOUS
<1> HIDE DEF info, w
<1>7. w \in StageType /\ OnlyHistory(s, w) /\ HasCurrent(w)
  <2>1. info.id > infos
    BY <1>2, <1>4
  <2> QED
    BY <1>1, <1>2, <1>3, <1>6, <2>1, PushNew
<1>8. w.freight \in Freight
  BY <1>1, <1>7 DEF OnlyHistory
<1>9. WellKept(w.history, infos + 1, runs') /\ AbortStands(w.history, w.abort, aborted)
  BY <1>1, <1>2, <1>3, <1>4, <1>5, <1>6, PushKeeps
<1>10. /\ stage' = IF saved THEN w ELSE stage
       /\ stage' \in StageType
       /\ verified' \subseteq Freight
       /\ renewed' \in NilOrRun
  BY <1>6, <1>7, <1>8, PersistType
<1>11. /\ run' \in [Runs -> Run]
       /\ \A q \in Runs : q > runs' => run'[q].phase = "absent" /\ run'[q].freight = NoFreight
  <2>1. CASE UNCHANGED <<run, runs>>
    BY <2>1 DEF TypeOK, HistoryInv
  <2>2. CASE /\ runs' = runs + 1
             /\ \E f \in NilOrFreight : run' = [run EXCEPT ![runs'] =
                    [freight |-> f, phase |-> "Running", terminate |-> FALSE]]
    <3>1. PICK f \in NilOrFreight : run' = [run EXCEPT ![runs'] =
                    [freight |-> f, phase |-> "Running", terminate |-> FALSE]]
      BY <2>2
    <3>2. [freight |-> f, phase |-> "Running", terminate |-> FALSE] \in Run
      BY DEF Run
    <3>3. \A q \in Runs : q > runs' => q # runs' /\ q > runs
      BY <1>2, <2>2, VerificationAssumption DEF Runs, Infos
    <3> QED
      BY <3>1, <3>2, <3>3 DEF TypeOK, HistoryInv
  <2> QED
    BY <2>1, <2>2
<1>12. PassType'
  BY <1>2, <1>10, <1>11 DEF PassType, TypeOK, NilOrInfo, Infos
<1>13. WellKept(stage.history, infos + 1, runs')
  <2>1. stage.history \in Seq(Info) /\ WellKept(stage.history, infos, runs)
    BY DEF TypeOK, StageType, HistoryInv
  <2> QED
    BY <2>1, <1>2, WellKeptGrows
<1>14. /\ WellKept(stage'.history, infos', runs')
       /\ AbortStands(stage'.history, stage'.abort, aborted')
       /\ stage'.history # <<>> => stage'.freight \in Freight
  <2>1. CASE saved
    BY <2>1, <1>2, <1>8, <1>9, <1>10
  <2>2. CASE ~saved
    BY <2>2, <1>2, <1>10, <1>13 DEF HistoryInv, HasCurrent
  <2> QED
    BY <2>1, <2>2
<1>15. aborted' \subseteq 1 .. infos'
  BY <1>2, <1>5
<1> QED
  BY <1>2, <1>11, <1>12, <1>14, <1>15 DEF HistoryInv, HasCurrent

\* AnalysisRun q has been told to terminate.
Terminated(q, g) ==
    /\ g \in [Runs -> Run]
    /\ \A r \in Runs :
           /\ g[r].phase = run[r].phase
           /\ g[r].freight = run[r].freight
           /\ g[r].terminate <=> r = q \/ run[r].terminate

\* Telling an AnalysisRun to terminate changes nothing else about it.
LEMMA TerminateRun ==
    ASSUME TypeOK, NEW q \in Runs, NEW g, g = [run EXCEPT ![q].terminate = TRUE]
    PROVE  Terminated(q, g)
<1>1. run \in [Runs -> Run] /\ run[q] \in Run
  BY DEF TypeOK
<1>2. [run[q] EXCEPT !.terminate = TRUE] \in Run
  BY <1>1 DEF Run
<1>3. g = [r \in Runs |-> IF r = q THEN [run[q] EXCEPT !.terminate = TRUE] ELSE run[r]]
  BY <1>1
<1>4. g \in [Runs -> Run]
  BY <1>1, <1>2, <1>3
<1>5. ASSUME NEW r \in Runs
      PROVE  /\ g[r].phase = run[r].phase
             /\ g[r].freight = run[r].freight
             /\ g[r].terminate <=> r = q \/ run[r].terminate
  <2>1. CASE r = q
    <3>1. g[r] = [run[q] EXCEPT !.terminate = TRUE]
      BY <1>3, <2>1
    <3>2. g[r].terminate = TRUE /\ g[r].phase = run[q].phase /\ g[r].freight = run[q].freight
      BY <3>1, <1>1 DEF Run
    <3> QED
      BY <2>1, <3>2
  <2>2. CASE r # q
    BY <1>3, <2>2
  <2> QED
    BY <2>1, <2>2
<1> QED
  BY <1>4, <1>5 DEF Terminated

\* An open verification waits for an AnalysisRun, and if that was terminated on
\* its behalf the request to abort stands.
LEMMA AwaitedRun ==
    ASSUME TypeOK, HistoryInv, Verifying(FirstHalf)
    PROVE  /\ HasCurrent(FirstHalf)
           /\ Current(FirstHalf) \in Info
           /\ Current(FirstHalf).phase = "Running"
           /\ Current(FirstHalf).run \in Runs
           /\ Current(FirstHalf).id \in aborted => FirstHalf.abort = Current(FirstHalf).id
<1> DEFINE s == FirstHalf
<1>1. /\ s \in StageType
      /\ WellKept(s.history, infos, runs)
      /\ AbortStands(s.history, s.abort, aborted)
  BY FirstHalfLemma, FirstHalfKept
<1> HIDE DEF s
<1>2. Verifying(s)
  BY DEF s
<1>3. HasCurrent(s) /\ Current(s) \in Info /\ Current(s) = s.history[1] /\ 1 \in DOMAIN s.history
  BY <1>1, <1>2, CurrentEntry DEF Verifying, StageType
<1>4. Current(s).phase = "Running"
  BY <1>2, <1>3 DEF Verifying, IsTerminal, Info
<1>5. Current(s).run # 0
  BY <1>1, <1>3, <1>4 DEF WellKept
<1>6. Current(s).run \in Runs
  BY <1>3, <1>5, VerificationAssumption DEF Info, NilOrRun, NilOrInfo, Runs, Infos
<1> QED
  BY <1>1, <1>3, <1>4, <1>6 DEF AbortStands, s

\* Whichever way verifyStageFreight takes, its result is well formed, histories
\* stay well kept and aborts stand.
LEMMA PassInv ==
    ASSUME TypeOK, HistoryInv, NEW failing \in BOOLEAN, NEW saved \in BOOLEAN, NEW s,
           s = FirstHalf, VerifyStageFreight(s, failing, saved), UNCHANGED <<promo, runCache>>
    PROVE  PassType' /\ HistoryInv'
<1>1. /\ s \in StageType
      /\ WellKept(s.history, infos, runs)
      /\ AbortStands(s.history, s.abort, aborted)
      /\ HasCurrent(s) => s.freight \in Freight
      /\ s.abort = stage.abort
  BY FirstHalfLemma, FirstHalfKept
<1>2. Verifying(s) => /\ HasCurrent(s)
                      /\ Current(s) \in Info
                      /\ Current(s).phase = "Running"
                      /\ Current(s).run \in Runs
                      /\ Current(s).id \in aborted => s.abort = Current(s).id
  BY AwaitedRun
<1>3. CASE NothingToVerify(s, failing, saved)
  <2>1. Persist(s, saved) /\ UNCHANGED <<run, infos, runs, aborted>>
    BY <1>3 DEF NothingToVerify
  <2>2. /\ stage' = IF saved THEN s ELSE stage
        /\ stage' \in StageType
        /\ verified' \subseteq Freight
        /\ renewed' \in NilOrRun
    BY <1>1, <2>1, PersistType
  <2>3. PassType'
    BY <2>1, <2>2 DEF PassType, TypeOK
  <2> QED
    BY <1>1, <2>1, <2>2, <2>3 DEF HistoryInv, HasCurrent
<1>4. CASE AbortVerification(s, failing, saved)
  <2>1. /\ Verifying(s)
        /\ s.abort = Current(s).id
        /\ Persist(UpdateOrPush(s, [Current(s) EXCEPT !.phase = "Failed"]), saved)
        /\ UNCHANGED <<infos, runs>>
        /\ aborted' \in {aborted, aborted \cup {Current(s).id}}
        /\ run' \in {run, [run EXCEPT ![Current(s).run].terminate = TRUE]}
    BY <1>4 DEF AbortVerification
  <2>2. /\ run' \in [Runs -> Run]
        /\ \A r \in Runs : run'[r].phase = run[r].phase /\ run'[r].freight = run[r].freight
    <3>1. CASE run' = run
      BY <3>1 DEF TypeOK
    <3>2. CASE run' = [run EXCEPT ![Current(s).run].terminate = TRUE]
      <4>1. Current(s).run \in Runs
        BY <2>1, <1>2
      <4>2. Terminated(Current(s).run, run')
        BY <3>2, <4>1, TerminateRun, Zenon
      <4> QED
        BY <4>2 DEF Terminated
    <3> QED
      BY <2>1, <3>1, <3>2
  <2> QED
    BY <1>1, <2>1, <2>2, UpdatePass DEF Verdicts
<1>5. CASE GetVerificationResult(s, failing, saved)
  <2> DEFINE phase == IF failing \/ runCache[Current(s).run] = "absent" THEN "Failed"
                      ELSE runCache[Current(s).run]
  <2>1. /\ Verifying(s)
        /\ s.abort # Current(s).id
        /\ Persist(UpdateOrPush(s, [Current(s) EXCEPT !.phase = phase]), saved)
        /\ UNCHANGED <<run, infos, runs, aborted>>
    BY <1>5 DEF GetVerificationResult
  <2>2. phase \in Verdicts \cup {"Running"}
    BY <1>2, <2>1 DEF TypeOK, Verdicts
  <2>3. Current(s).id \notin aborted'
    BY <1>2, <2>1
  <2>4. run' \in [Runs -> Run]
    BY <2>1 DEF TypeOK
  <2> HIDE DEF phase
  <2> QED
    BY <2>1, <2>2, <2>3, <2>4, UpdatePass
<1>6. CASE SkipVerification(s, failing, saved)
  <2>1. /\ StartsVerification(s)
        /\ Persist(UpdateOrPush(s, [id |-> infos', phase |-> "Successful", run |-> 0]), saved)
        /\ UNCHANGED <<run, runs, aborted>>
    BY <1>6 DEF SkipVerification
  <2>2. 0 \in NilOrRun /\ 0 <= runs' /\ "Successful" \in Verdicts \cup {"Running"}
    BY <2>1, VerificationAssumption DEF TypeOK, NilOrRun, NilOrInfo, Verdicts
  <2> QED
    BY <2>1, <2>2, PushPass
<1>7. CASE AdoptRun(s, failing, saved)
  <2> DEFINE r == Latest(Existing(s))
  <2>1. /\ StartsVerification(s)
        /\ Existing(s) # {}
        /\ Persist(UpdateOrPush(s, [id |-> infos', phase |-> runCache[r], run |-> r]), saved)
        /\ UNCHANGED <<run, runs, aborted>>
    BY <1>7 DEF AdoptRun
  <2>2. r \in Existing(s)
    BY <2>1, LatestLemma DEF Existing
  <2> HIDE DEF r
  <2>3. r \in Runs /\ runCache[r] # "absent" /\ run[r].freight = s.freight
    BY <2>2 DEF Existing
  <2>4. s.freight # NoFreight
    BY <2>1 DEF StartsVerification, Verifiable
  <2>5. r <= runs' /\ r # 0 /\ r \in NilOrRun
    BY <2>1, <2>3, <2>4, VerificationAssumption
       DEF HistoryInv, TypeOK, Runs, Infos, NilOrRun, NilOrInfo
  <2>6. runCache[r] \in Verdicts \cup {"Running"}
    BY <2>3 DEF TypeOK
  <2> QED
    BY <2>1, <2>5, <2>6, PushPass
<1>8. CASE CreateRun(s, failing, saved)
  <2>1. /\ StartsVerification(s)
        /\ runs' = runs + 1
        /\ run' = [run EXCEPT ![runs'] =
               [freight |-> s.freight, phase |-> "Running", terminate |-> FALSE]]
        /\ Persist(UpdateOrPush(s, [id |-> infos', phase |-> "Running", run |-> runs']), saved)
        /\ UNCHANGED aborted
    BY <1>8 DEF CreateRun
  <2>2. runs' \in NilOrRun /\ runs' <= runs' /\ runs' # 0
    BY <2>1, VerificationAssumption
       DEF StartsVerification, HistoryInv, TypeOK, NilOrRun, NilOrInfo
  <2>3. s.freight \in NilOrFreight
    BY <1>1 DEF StageType
  <2>4. "Running" \in Verdicts \cup {"Running"}
    OBVIOUS
  <2> QED
    BY <2>1, <2>2, <2>3, <2>4, PushPass
<1>9. CASE FailToCreateRun(s, failing, saved)
  <2>1. /\ StartsVerification(s)
        /\ Persist(UpdateOrPush(s, [id |-> infos', phase |-> "Failed", run |-> 0]), saved)
        /\ UNCHANGED <<run, runs, aborted>>
    BY <1>9 DEF FailToCreateRun
  <2>2. 0 \in NilOrRun /\ 0 <= runs' /\ "Failed" \in Verdicts \cup {"Running"}
    BY <2>1, VerificationAssumption DEF TypeOK, NilOrRun, NilOrInfo, Verdicts
  <2> QED
    BY <2>1, <2>2, PushPass
<1> QED
  BY <1>3, <1>4, <1>5, <1>6, <1>7, <1>8, <1>9 DEF VerifyStageFreight

(***************************************************************************)
(* Types and aborts                                                        *)
(***************************************************************************)

\* A request to re-verify or to abort names the current verification.
LEMMA RequestType ==
    ASSUME TypeOK, HasCurrent(stage)
    PROVE  /\ Current(stage).id \in Infos
           /\ [stage EXCEPT !.reverify = Current(stage).id] \in StageType
           /\ [stage EXCEPT !.abort = Current(stage).id] \in StageType
<1>1. Current(stage) \in Info
  BY CurrentEntry DEF TypeOK, StageType
<1>2. Current(stage).id \in Infos /\ Current(stage).id \in NilOrInfo
  BY <1>1, VerificationAssumption DEF Info, Infos, NilOrInfo
<1> QED
  BY <1>2 DEF TypeOK, StageType

\* Every step keeps the types and HistoryInv.
LEMMA HistoryStep == TypeOK /\ HistoryInv /\ [Next]_vars => TypeOK' /\ HistoryInv'
<1> SUFFICES ASSUME TypeOK, HistoryInv, [Next]_vars PROVE TypeOK' /\ HistoryInv'
  OBVIOUS
<1>1. ASSUME NEW failing \in BOOLEAN, NEW saved \in BOOLEAN, Reconcile(failing, saved)
      PROVE  TypeOK' /\ HistoryInv'
  <2>1. /\ VerifyStageFreight(FirstHalf, failing, saved)
        /\ UNCHANGED <<checks, promo, runCache, promotions, promoted>>
    BY <1>1 DEF Reconcile, FirstHalf
  <2>2. PassType' /\ HistoryInv'
    BY <2>1, PassInv
  <2>3. faults' \in 0 .. MaxFaults
    BY <1>1, VerificationAssumption DEF Reconcile, Faults, TypeOK
  <2> QED
    BY <2>1, <2>2, <2>3 DEF TypeOK, PassType
<1>2. ASSUME NEW f \in Freight, Promote(f) PROVE TypeOK' /\ HistoryInv'
  <2>1. promotions' \in 0 .. MaxPromotions
    BY <1>2, VerificationAssumption DEF Promote, TypeOK
  <2>2. TypeOK'
    BY <1>2, <2>1 DEF Promote, TypeOK, NilOrFreight
  <2> QED
    BY <1>2, <2>2 DEF Promote, HistoryInv, HasCurrent
<1>3. CASE SucceedPromotion
  <2>1. \/ stage' = stage
        \/ HasCurrent(stage) /\ stage' = [stage EXCEPT !.reverify = Current(stage).id]
    BY <1>3 DEF SucceedPromotion, IsRepromotion
  <2>2. /\ stage' \in StageType
        /\ stage'.history = stage.history
        /\ stage'.freight = stage.freight
        /\ stage'.abort = stage.abort
    BY <2>1, RequestType DEF TypeOK, StageType
  <2>3. faults' \in 0 .. MaxFaults
    BY <1>3, VerificationAssumption DEF SucceedPromotion, Faults, TypeOK
  <2>4. /\ promo' \in [freight: NilOrFreight, phase: {"none", "Pending", "Succeeded", "Failed"}]
        /\ promo'.freight = promo.freight
        /\ promo.phase # "none"
    BY <1>3 DEF SucceedPromotion, TypeOK
  <2>5. TypeOK'
    BY <1>3, <2>2, <2>3, <2>4 DEF SucceedPromotion, TypeOK
  <2> QED
    BY <1>3, <2>2, <2>4, <2>5 DEF SucceedPromotion, HistoryInv, HasCurrent
<1>4. CASE FailPromotion
  BY <1>4 DEF FailPromotion, TypeOK, HistoryInv, HasCurrent
<1>5. CASE ReverifyStageFreight
  <2>1. /\ stage' \in StageType
        /\ stage'.history = stage.history
        /\ stage'.freight = stage.freight
        /\ stage'.abort = stage.abort
    BY <1>5, RequestType DEF ReverifyStageFreight, TypeOK, StageType
  <2> QED
    BY <1>5, <2>1 DEF ReverifyStageFreight, TypeOK, HistoryInv, HasCurrent
<1>6. CASE AbortStageFreightVerification
  <2>1. HasCurrent(stage) /\ Verifying(stage)
    BY <1>6 DEF AbortStageFreightVerification, Verifying
  <2>2. /\ stage' \in StageType
        /\ stage'.history = stage.history
        /\ stage'.freight = stage.freight
        /\ stage'.abort = Current(stage).id
        /\ stage.abort # Current(stage).id
    BY <1>6, <2>1, RequestType DEF AbortStageFreightVerification, TypeOK, StageType
  <2>3. TypeOK'
    BY <1>6, <2>2 DEF AbortStageFreightVerification, TypeOK
  <2>4. Current(stage) = stage.history[1] /\ Current(stage) \in Info
    BY <2>1, CurrentEntry DEF TypeOK, StageType
  <2>5. AbortStands(stage.history, stage.abort, aborted) /\ WellKept(stage.history, infos, runs)
    BY DEF HistoryInv
  <2>6. AbortStands(stage.history, Current(stage).id, aborted)
    BY <2>4, <2>5 DEF AbortStands, WellKept
  <2> QED
    BY <1>6, <2>2, <2>3, <2>6 DEF AbortStageFreightVerification, HistoryInv, HasCurrent
<1>7. ASSUME NEW r \in Runs, CompleteRun(r) PROVE TypeOK' /\ HistoryInv'
  <2>1. run[r].phase = "Running" /\ \E verdict \in Verdicts : run' = [run EXCEPT ![r].phase = verdict]
    BY <1>7 DEF CompleteRun, Verdicts
  <2>2. run' \in [Runs -> Run]
    BY <2>1 DEF TypeOK, Run
  <2>3. \A q \in Runs : q # r => run'[q] = run[q]
    BY <2>1 DEF TypeOK
  <2>4. ~(r > runs)
    BY <2>1 DEF HistoryInv
  <2>5. TypeOK'
    BY <1>7, <2>2 DEF CompleteRun, TypeOK
  <2> QED
    BY <1>7, <2>3, <2>4, <2>5 DEF CompleteRun, HistoryInv, HasCurrent
<1>8. CASE SyncRunCache
  BY <1>8 DEF SyncRunCache, TypeOK, Run, HistoryInv, HasCurrent
<1>9. CASE ChangeHealth
  BY <1>9 DEF ChangeHealth, TypeOK, HistoryInv, HasCurrent
<1>10. CASE UNCHANGED vars
  BY <1>10 DEF vars, TypeOK, HistoryInv, HasCurrent
<1> QED
  BY <1>1, <1>2, <1>3, <1>4, <1>5, <1>6, <1>7, <1>8, <1>9, <1>10 DEF Next

\* The initial state is well typed and has an empty history.
LEMMA HistoryInit == Init => TypeOK /\ HistoryInv
<1> SUFFICES ASSUME Init PROVE TypeOK /\ HistoryInv
  OBVIOUS
<1>1. 0 \in NilOrInfo /\ 0 \in NilOrRun /\ 0 \in 0 .. MaxPromotions /\ 0 \in 0 .. MaxFaults
  BY VerificationAssumption DEF NilOrInfo, NilOrRun
<1>2. stage \in StageType /\ stage.history = <<>>
  BY <1>1 DEF Init, StageType, NilOrFreight
<1>3. run \in [Runs -> Run]
  BY DEF Init, Run, NilOrFreight
<1>4. promo \in [freight: NilOrFreight, phase: {"none", "Pending", "Succeeded", "Failed"}]
  BY DEF Init, NilOrFreight
<1>5. TypeOK
  BY <1>1, <1>2, <1>3, <1>4 DEF Init, TypeOK
<1>6. \A r \in Runs : run[r].phase = "absent" /\ run[r].freight = NoFreight
  BY DEF Init
<1> QED
  BY <1>2, <1>5, <1>6 DEF Init, HistoryInv, HasCurrent, WellKept, AbortStands

\* Histories stay well kept and aborts stand, however passes, requests, runs and
\* the informer interleave.
THEOREM AlwaysHistoryInv == Spec => [](TypeOK /\ HistoryInv)
<1> QED
  BY HistoryInit, HistoryStep, PTL DEF Spec

\* Type correctness of the verification model.
THEOREM TypeCorrect == Spec => []TypeOK
<1> QED
  BY AlwaysHistoryInv, PTL

\* A verification whose AnalysisRun was terminated never comes out as a success,
\* whatever is lost or repeated (abortVerification, getVerificationResult).
THEOREM AlwaysAbortSticks == Spec => []AbortSticks
<1>1. HistoryInv => AbortSticks
  BY DEF HistoryInv, AbortStands, AbortSticks
<1> QED
  BY <1>1, AlwaysHistoryInv, PTL

(***************************************************************************)
(* Re-promoted Freight is verified again                                   *)
(***************************************************************************)

\* The AnalysisRuns a history refers to: those another one refers to, or r.
RunsFrom(h, g, r) ==
    \A i \in DOMAIN g : g[i].run = r \/ \E j \in DOMAIN h : g[i].run = h[j].run

\* What recording a phase makes of the Stage.
LEMMA Updated ==
    ASSUME TypeOK, HistoryInv, NEW s, s = FirstHalf, Verifying(s),
           NEW phase \in Verdicts \cup {"Running"}, NEW w,
           w = UpdateOrPush(s, [Current(s) EXCEPT !.phase = phase])
    PROVE  /\ w \in StageType
           /\ OnlyHistory(s, w)
           /\ HasCurrent(w)
           /\ Current(w).phase = phase
           /\ Current(w).run = Current(s).run
           /\ Current(w).id = Current(s).id
           /\ RunsFrom(s.history, w.history, 0)
<1> DEFINE info == [Current(s) EXCEPT !.phase = phase]
<1>1. s \in StageType /\ WellKept(s.history, infos, runs) /\ HasCurrent(s)
  BY FirstHalfLemma, FirstHalfKept DEF Verifying
<1>2. Current(s) = s.history[1] /\ 1 \in DOMAIN s.history /\ Current(s) \in Info
  BY <1>1, CurrentEntry DEF StageType
<1>3. info.phase = phase /\ info.run = Current(s).run /\ info.id = Current(s).id
  BY <1>2 DEF Info
<1>4. info = [Current(s) EXCEPT !.phase = phase] /\ w = UpdateOrPush(s, info)
  OBVIOUS
<1> HIDE DEF info
<1>5. w \in StageType /\ HasCurrent(w) /\ Current(w) = info /\ OnlyHistory(s, w)
  BY <1>1, <1>4, UpdateCurrent
<1>6. NewHead(info, s.history, w.history)
  BY <1>1, <1>4, UpdateCurrent
<1>7. RunsFrom(s.history, w.history, 0)
  BY <1>2, <1>3, <1>6 DEF RunsFrom, NewHead
<1> QED
  BY <1>3, <1>5, <1>7

\* What starting a verification makes of the Stage.
LEMMA Pushed ==
    ASSUME TypeOK, HistoryInv, NEW s, s = FirstHalf, StartsVerification(s),
           NEW phase \in Verdicts \cup {"Running"}, NEW r \in NilOrRun, NEW w,
           w = UpdateOrPush(s, [id |-> infos', phase |-> phase, run |-> r])
    PROVE  /\ w \in StageType
           /\ OnlyHistory(s, w)
           /\ HasCurrent(w)
           /\ Current(w) = [id |-> infos', phase |-> phase, run |-> r]
           /\ RunsFrom(s.history, w.history, r)
<1> DEFINE info == [id |-> infos', phase |-> phase, run |-> r]
<1>1. s \in StageType /\ WellKept(s.history, infos, runs)
  BY FirstHalfLemma, FirstHalfKept
<1>2. infos \in Nat /\ infos' = infos + 1 /\ infos' \in Infos
  BY VerificationAssumption DEF TypeOK, NilOrInfo, StartsVerification, Infos
<1>3. info \in Info /\ info.id > infos /\ info.run = r
  BY <1>2 DEF Info
<1>4. w = UpdateOrPush(s, info)
  OBVIOUS
<1> HIDE DEF info
<1>5. /\ w \in StageType
      /\ OnTop(info, s.history, w.history)
      /\ HasCurrent(w)
      /\ Current(w) = info
      /\ OnlyHistory(s, w)
  BY <1>1, <1>2, <1>3, <1>4, PushNew
<1>6. RunsFrom(s.history, w.history, r)
  <2>1. s.history \in Seq(Info) /\ w.history \in Seq(Info)
    BY <1>1, <1>5 DEF StageType
  <2>2. /\ Len(s.history) \in Nat
        /\ DOMAIN s.history = 1 .. Len(s.history)
        /\ DOMAIN w.history = 1 .. Len(s.history) + 1
    BY <1>5, <2>1, LenProperties DEF OnTop
  <2>3. \A i \in DOMAIN w.history : i # 1 => i - 1 \in DOMAIN s.history
    BY <2>2
  <2> QED
    BY <1>3, <1>5, <2>2, <2>3 DEF RunsFrom, OnTop
<1> QED
  BY <1>5, <1>6 DEF info

\* Where the AnalysisRuns of the Stage's history come from: a pass keeps them,
\* creates the newest one of all, or adopts one if no request was ever written.
LEMMA PassRuns ==
    ASSUME TypeOK, HistoryInv, NEW failing \in BOOLEAN, NEW saved \in BOOLEAN, NEW s,
           s = FirstHalf, VerifyStageFreight(s, failing, saved)
    PROVE  \E w \in StageType :
              /\ Persist(w, saved)
              /\ OnlyHistory(s, w)
              /\ \/ runs' = runs /\ RunsFrom(s.history, w.history, 0)
                 \/ runs' = runs + 1 /\ RunsFrom(s.history, w.history, runs + 1)
                 \/ /\ runs' = runs /\ s.reverify = 0
                    /\ \E r \in Runs : RunsFrom(s.history, w.history, r)
<1>0. 0 \in NilOrRun /\ s \in StageType
  BY VerificationAssumption, FirstHalfLemma DEF NilOrRun, NilOrInfo
<1>1. CASE NothingToVerify(s, failing, saved)
  <2>1. OnlyHistory(s, s) /\ RunsFrom(s.history, s.history, 0)
    BY DEF OnlyHistory, RunsFrom
  <2> QED
    BY <1>0, <1>1, <2>1 DEF NothingToVerify
<1>2. CASE AbortVerification(s, failing, saved)
  <2> DEFINE w == UpdateOrPush(s, [Current(s) EXCEPT !.phase = "Failed"])
  <2>1. Verifying(s) /\ Persist(w, saved) /\ runs' = runs
    BY <1>2 DEF AbortVerification
  <2>2. w \in StageType /\ OnlyHistory(s, w) /\ RunsFrom(s.history, w.history, 0)
    BY <2>1, Updated DEF Verdicts
  <2> HIDE DEF w
  <2> QED
    BY <2>1, <2>2
<1>3. CASE GetVerificationResult(s, failing, saved)
  <2> DEFINE phase == IF failing \/ runCache[Current(s).run] = "absent" THEN "Failed"
                      ELSE runCache[Current(s).run]
             w == UpdateOrPush(s, [Current(s) EXCEPT !.phase = phase])
  <2>1. Verifying(s) /\ Persist(w, saved) /\ runs' = runs
    BY <1>3 DEF GetVerificationResult
  <2>2. phase \in Verdicts \cup {"Running"}
    BY <2>1, AwaitedRun DEF TypeOK, Verdicts
  <2> HIDE DEF phase
  <2>3. w \in StageType /\ OnlyHistory(s, w) /\ RunsFrom(s.history, w.history, 0)
    BY <2>1, <2>2, Updated
  <2> HIDE DEF w
  <2> QED
    BY <2>1, <2>3
<1>4. CASE SkipVerification(s, failing, saved)
  <2> DEFINE w == UpdateOrPush(s, [id |-> infos', phase |-> "Successful", run |-> 0])
  <2>1. StartsVerification(s) /\ Persist(w, saved) /\ runs' = runs
    BY <1>4 DEF SkipVerification
  <2>2. w \in StageType /\ OnlyHistory(s, w) /\ RunsFrom(s.history, w.history, 0)
    BY <1>0, <2>1, Pushed DEF Verdicts
  <2> HIDE DEF w
  <2> QED
    BY <2>1, <2>2
<1>5. CASE AdoptRun(s, failing, saved)
  <2> DEFINE r == Latest(Existing(s))
             w == UpdateOrPush(s, [id |-> infos', phase |-> runCache[r], run |-> r])
  <2>1. StartsVerification(s) /\ Persist(w, saved) /\ runs' = runs /\ s.reverify = 0
        /\ Existing(s) # {}
    BY <1>5 DEF AdoptRun
  <2>2. r \in Runs /\ runCache[r] # "absent"
    BY <2>1, LatestLemma DEF Existing
  <2> HIDE DEF r
  <2>3. r \in NilOrRun /\ runCache[r] \in Verdicts \cup {"Running"}
    BY <2>2, VerificationAssumption DEF TypeOK, Runs, Infos, NilOrRun, NilOrInfo
  <2>4. w \in StageType /\ OnlyHistory(s, w) /\ RunsFrom(s.history, w.history, r)
    BY <2>1, <2>3, Pushed
  <2> HIDE DEF w
  <2> QED
    BY <2>1, <2>2, <2>4
<1>6. CASE CreateRun(s, failing, saved)
  <2> DEFINE w == UpdateOrPush(s, [id |-> infos', phase |-> "Running", run |-> runs'])
  <2>1. StartsVerification(s) /\ Persist(w, saved) /\ runs' = runs + 1
    BY <1>6 DEF CreateRun
  <2>2. runs' \in NilOrRun
    BY <2>1, VerificationAssumption
       DEF StartsVerification, HistoryInv, TypeOK, NilOrRun, NilOrInfo
  <2>3. w \in StageType /\ OnlyHistory(s, w) /\ RunsFrom(s.history, w.history, runs')
    BY <2>1, <2>2, Pushed
  <2> HIDE DEF w
  <2> QED
    BY <2>1, <2>3
<1>7. CASE FailToCreateRun(s, failing, saved)
  <2> DEFINE w == UpdateOrPush(s, [id |-> infos', phase |-> "Failed", run |-> 0])
  <2>1. StartsVerification(s) /\ Persist(w, saved) /\ runs' = runs
    BY <1>7 DEF FailToCreateRun
  <2>2. w \in StageType /\ OnlyHistory(s, w) /\ RunsFrom(s.history, w.history, 0)
    BY <1>0, <2>1, Pushed DEF Verdicts
  <2> HIDE DEF w
  <2> QED
    BY <2>1, <2>2
<1> QED
  BY <1>1, <1>2, <1>3, <1>4, <1>5, <1>6, <1>7 DEF VerifyStageFreight

\* The request to re-verify that goes with a re-promotion is always written.
RequestsWritten == AnnotationOutcomes = {TRUE}

\* RenewInv is inductive, given HistoryInv, when requests are always written.
LEMMA RenewStep ==
    ASSUME RequestsWritten, TypeOK, HistoryInv, RenewInv, [Next]_vars
    PROVE  RenewInv'
<1>0. runs \in Nat /\ renewed \in Nat
  BY VerificationAssumption DEF TypeOK, NilOrRun, NilOrInfo
<1>1. ASSUME NEW failing \in BOOLEAN, NEW saved \in BOOLEAN, Reconcile(failing, saved)
      PROVE  RenewInv'
  <2> DEFINE s == FirstHalf
  <2>1. VerifyStageFreight(s, failing, saved) /\ promo' = promo
    BY <1>1 DEF Reconcile, FirstHalf
  <2>2. /\ s.history = IF Replays THEN <<>> ELSE stage.history
        /\ s.reverify = stage.reverify
        /\ s.promoting # NoFreight => promo.phase # "Succeeded"
    BY FirstHalfLemma, FirstHalfPromoting
  <2>3. PICK w \in StageType :
              /\ Persist(w, saved)
              /\ OnlyHistory(s, w)
              /\ \/ runs' = runs /\ RunsFrom(s.history, w.history, 0)
                 \/ runs' = runs + 1 /\ RunsFrom(s.history, w.history, runs + 1)
                 \/ /\ runs' = runs /\ s.reverify = 0
                    /\ \E r \in Runs : RunsFrom(s.history, w.history, r)
    BY <2>1, PassRuns
  <2>4. w.reverify = stage.reverify /\ w.promoting = s.promoting
    BY <2>2, <2>3 DEF OnlyHistory
  <2>5. runs' \in Nat /\ runs <= runs'
    BY <1>0, <2>3
  <2>6. CASE ~saved
    <3>1. UNCHANGED <<stage, renewed>>
      BY <2>3, <2>6 DEF Persist
    <3> QED
      BY <1>0, <2>1, <2>5, <3>1 DEF RenewInv, IsRepromotion, HasCurrent, RepromotionReverified
  <2>7. CASE saved
    <3>1. /\ stage' = w
          /\ renewed' = IF ~Replays THEN renewed ELSE IF IsRepromotion THEN runs ELSE 0
      BY <2>3, <2>7 DEF Persist, Replays, IsRepromotion
    <3>2. renewed' \in Nat /\ renewed' <= runs /\ renewed' <= runs'
      BY <1>0, <2>5, <3>1 DEF RenewInv
    <3>3. renewed' # 0 => stage.reverify # 0
      BY <3>1 DEF RenewInv, Replays
    <3>4. \A i \in DOMAIN w.history : w.history[i].run # 0 => w.history[i].run > renewed'
      <4> SUFFICES ASSUME NEW i \in DOMAIN w.history, w.history[i].run # 0
                   PROVE  w.history[i].run > renewed'
        OBVIOUS
      <4> HIDE DEF s
      <4>1. CASE \E j \in DOMAIN s.history : w.history[i].run = s.history[j].run
        <5>1. s.history = stage.history /\ renewed' = renewed
          BY <2>2, <3>1, <4>1
        <5> QED
          BY <4>1, <5>1 DEF RenewInv, RepromotionReverified
      <4>2. CASE runs' = runs + 1 /\ w.history[i].run = runs + 1
        BY <1>0, <3>2, <4>2
      <4>3. CASE s.reverify = 0 /\ w.history[i].run \in Runs
        <5>1. renewed' = 0
          BY <2>2, <3>3, <4>3
        <5> QED
          BY <4>3, <5>1, VerificationAssumption DEF Runs, Infos
      <4> QED
        BY <2>3, <4>1, <4>2, <4>3 DEF RunsFrom
    <3>5. ~(stage'.promoting # NoFreight /\ promo'.phase = "Succeeded")
      BY <2>1, <2>2, <2>4, <3>1
    <3> HIDE DEF s
    <3> QED
      BY <2>4, <3>1, <3>2, <3>3, <3>4, <3>5 DEF RenewInv, RepromotionReverified
  <2> QED
    BY <2>6, <2>7
<1>2. ASSUME NEW f \in Freight, Promote(f) PROVE RenewInv'
  BY <1>2 DEF Promote, RenewInv, RepromotionReverified
<1>3. CASE SucceedPromotion
  <2>1. stage' = IF IsRepromotion THEN [stage EXCEPT !.reverify = Current(stage).id] ELSE stage
    BY <1>3 DEF SucceedPromotion, RequestsWritten
  <2>2. /\ stage'.history = stage.history
        /\ stage'.freight = stage.freight
        /\ stage.reverify # 0 => stage'.reverify # 0
        /\ IsRepromotion => stage'.reverify # 0
    <3>1. CASE IsRepromotion
      <4>1. Current(stage).id \in Infos
        BY <3>1, RequestType DEF IsRepromotion
      <4>2. Current(stage).id # 0
        BY <4>1, VerificationAssumption DEF Infos
      <4> QED
        BY <2>1, <3>1, <4>2 DEF TypeOK, StageType
    <3>2. CASE ~IsRepromotion
      BY <2>1, <3>2
    <3> QED
      BY <3>1, <3>2
  <2>3. promo'.freight = promo.freight /\ UNCHANGED <<runs, renewed>>
    BY <1>3 DEF SucceedPromotion, TypeOK
  <2>4. IsRepromotion' => IsRepromotion
    BY <2>2, <2>3 DEF IsRepromotion, HasCurrent
  <2> QED
    BY <2>2, <2>3, <2>4 DEF RenewInv, RepromotionReverified
<1>4. CASE FailPromotion
  BY <1>4 DEF FailPromotion, TypeOK, RenewInv, RepromotionReverified
<1>5. CASE ReverifyStageFreight
  <2>1. Current(stage).id # 0
    BY <1>5, RequestType, VerificationAssumption DEF ReverifyStageFreight, Infos
  <2>2. stage'.history = stage.history /\ stage'.reverify # 0
    BY <1>5, <2>1 DEF ReverifyStageFreight, TypeOK, StageType
  <2> QED
    BY <1>5, <2>2 DEF ReverifyStageFreight, RenewInv, RepromotionReverified
<1>6. CASE AbortStageFreightVerification
  <2>1. /\ stage'.history = stage.history
        /\ stage'.freight = stage.freight
        /\ stage'.promoting = stage.promoting
        /\ stage'.reverify = stage.reverify
    BY <1>6 DEF AbortStageFreightVerification, TypeOK, StageType
  <2> QED
    BY <1>6, <2>1
       DEF AbortStageFreightVerification, RenewInv, RepromotionReverified, IsRepromotion, HasCurrent
<1>7. ASSUME NEW r \in Runs, CompleteRun(r) PROVE RenewInv'
  BY <1>7 DEF CompleteRun, RenewInv, RepromotionReverified, IsRepromotion, HasCurrent
<1>8. CASE SyncRunCache
  BY <1>8 DEF SyncRunCache, RenewInv, RepromotionReverified, IsRepromotion, HasCurrent
<1>9. CASE ChangeHealth
  BY <1>9 DEF ChangeHealth, RenewInv, RepromotionReverified, IsRepromotion, HasCurrent
<1>10. CASE UNCHANGED vars
  BY <1>10 DEF vars, RenewInv, RepromotionReverified, IsRepromotion, HasCurrent
<1> QED
  BY <1>1, <1>2, <1>3, <1>4, <1>5, <1>6, <1>7, <1>8, <1>9, <1>10 DEF Next

\* As long as requests to re-verify are always written, a success that is to be
\* replayed as a re-promotion has left one, and no old AnalysisRun is adopted.
THEOREM AlwaysRenewInv ==
    ASSUME RequestsWritten
    PROVE  Spec => []RenewInv
<1>1. Init => RenewInv
  <2> SUFFICES ASSUME Init PROVE RenewInv
    OBVIOUS
  <2>1. runs = 0 /\ renewed = 0 /\ stage.history = <<>> /\ promo.phase = "none"
    BY DEF Init
  <2> QED
    BY <2>1 DEF RenewInv, RepromotionReverified
<1>2. TypeOK /\ HistoryInv /\ RenewInv /\ [Next]_vars => RenewInv'
  BY RenewStep
<1> QED
  BY <1>1, <1>2, AlwaysHistoryInv, PTL DEF Spec

\* Promoting the current Freight again has it verified again, for any number of
\* Promotions and lost passes (the request to re-verify, findExistingAnalysisRun).
THEOREM AlwaysRepromotionReverified ==
    ASSUME RequestsWritten
    PROVE  Spec => []RepromotionReverified
<1>1. RenewInv => RepromotionReverified
  BY DEF RenewInv
<1> QED
  BY <1>1, AlwaysRenewInv, PTL

(***************************************************************************)
(* Verified Freight has earned it                                          *)
(***************************************************************************)

\* What a pass may do to AnalysisRuns: nothing, terminate the one the Stage
\* waits for, or create the next one.
RunChange(s) ==
    \/ UNCHANGED <<run, runs, aborted>>
    \/ /\ Verifying(s)
       /\ Terminated(Current(s).run, run')
       /\ aborted' = aborted \cup {Current(s).id}
       /\ runs' = runs
    \/ /\ runs' = runs + 1
       /\ runs' \in Runs
       /\ run' = [run EXCEPT ![runs'] =
              [freight |-> s.freight, phase |-> "Running", terminate |-> FALSE]]
       /\ aborted' = aborted

\* The AnalysisRun of an open verification of the Stage has been handed out.
LEMMA OpenRun ==
    ASSUME TypeOK, HistoryInv, Verifying(stage)
    PROVE  /\ Current(stage).run \in Runs
           /\ Current(stage).run <= runs
           /\ Current(stage).id \in aborted => stage.abort = Current(stage).id
<1>1. HasCurrent(stage) /\ stage.history \in Seq(Info)
  BY DEF Verifying, TypeOK, StageType
<1>2. Current(stage) \in Info /\ Current(stage) = stage.history[1] /\ 1 \in DOMAIN stage.history
  BY <1>1, CurrentEntry
<1>3. Current(stage).phase = "Running"
  BY <1>2 DEF Verifying, IsTerminal, Info
<1>4. Current(stage).run # 0 /\ Current(stage).run <= runs
  BY <1>2, <1>3 DEF HistoryInv, WellKept
<1>5. Current(stage).id \in aborted => stage.abort = Current(stage).id
  BY <1>2, <1>3 DEF HistoryInv, AbortStands
<1> QED
  BY <1>2, <1>4, <1>5, VerificationAssumption DEF Info, NilOrRun, NilOrInfo, Runs, Infos

\* Unless the first half of a pass replays a success, the same verification is
\* current after it.
LEMMA FirstHalfCurrent ==
    ASSUME TypeOK
    PROVE  /\ HasCurrent(FirstHalf) =>
                  /\ ~Replays
                  /\ HasCurrent(stage)
                  /\ Current(FirstHalf) = Current(stage)
                  /\ Verifying(FirstHalf) <=> Verifying(stage)
                  /\ FirstHalf.freight = stage.freight
           /\ ~Replays => HasCurrent(FirstHalf) = HasCurrent(stage)
<1>1. CASE Replays
  BY <1>1, FirstHalfLemma DEF HasCurrent
<1>2. CASE ~Replays
  <2>1. FirstHalf.history = stage.history /\ FirstHalf.freight = stage.freight
    BY <1>2, FirstHalfLemma
  <2> QED
    BY <1>2, <2>1 DEF HasCurrent, Current, Verifying
<1> QED
  BY <1>1, <1>2

\* What the passes do to AnalysisRuns disturbs none but the awaited one, and
\* takes no earned verdict away.
LEMMA RunsKept ==
    ASSUME TypeOK, HistoryInv, EarnedInv, NEW s, s = FirstHalf, RunChange(s)
    PROVE  /\ \A r \in Runs : runCache[r] \in Verdicts => run'[r].phase = runCache[r]
           /\ \A f : Undisturbed(run, f) /\ (f = stage.freight => ~Verifying(stage)) =>
                  Undisturbed(run', f)
           /\ \A f : Earned(run, f, Awaited(stage)) =>
                  Earned(run', f, Awaited(stage) \cup {r \in Runs : r > runs})
           /\ Verifying(stage) =>
                  /\ run'[Current(stage).run].freight = stage.freight
                  /\ run'[Current(stage).run].terminate => Current(stage).id \in aborted'
<1>1. run \in [Runs -> Run] /\ runs \in Nat
  BY VerificationAssumption DEF TypeOK, NilOrRun, NilOrInfo
<1>2. \A r \in Runs : run[r].phase = "Successful" => ~(r > runs)
  BY DEF HistoryInv
<1>3. CASE UNCHANGED <<run, runs, aborted>>
  BY <1>2, <1>3 DEF EarnedInv, Earned
<1>4. CASE /\ Verifying(s)
           /\ Terminated(Current(s).run, run')
           /\ aborted' = aborted \cup {Current(s).id}
           /\ runs' = runs
  <2>1. Verifying(stage) /\ Current(s) = Current(stage)
    BY <1>4, FirstHalfCurrent DEF Verifying
  <2>2. /\ Current(stage).run \in Runs
        /\ Awaited(stage) = {Current(stage).run}
        /\ run[Current(stage).run].freight = stage.freight
    BY <2>1, OpenRun DEF Awaited, EarnedInv
  <2>3. /\ \A r \in Runs : /\ run'[r].phase = run[r].phase
                           /\ run'[r].freight = run[r].freight
                           /\ r # Current(stage).run => (run'[r].terminate <=> run[r].terminate)
        /\ Current(stage).id \in aborted'
    BY <1>4, <2>1 DEF Terminated
  <2>4. \A r \in Runs : runCache[r] \in Verdicts => run'[r].phase = runCache[r]
    BY <2>3 DEF EarnedInv
  <2>5. \A f : Undisturbed(run, f) /\ (f = stage.freight => ~Verifying(stage)) =>
            Undisturbed(run', f)
    BY <2>1, <2>2, <2>3 DEF Undisturbed
  <2>6. \A f : Earned(run, f, Awaited(stage)) =>
            Earned(run', f, Awaited(stage) \cup {r \in Runs : r > runs})
    BY <1>2, <2>2, <2>3 DEF Earned
  <2> QED
    BY <2>2, <2>3, <2>4, <2>5, <2>6
<1>5. CASE /\ runs' = runs + 1
           /\ runs' \in Runs
           /\ run' = [run EXCEPT ![runs'] =
                  [freight |-> s.freight, phase |-> "Running", terminate |-> FALSE]]
           /\ aborted' = aborted
  <2>1. /\ \A r \in Runs : r # runs' => run'[r] = run[r]
        /\ run'[runs'].terminate = FALSE
    BY <1>1, <1>5
  <2>2. run[runs'].phase = "absent"
    BY <1>1, <1>5 DEF HistoryInv
  <2>3. \A r \in Runs : runCache[r] \in Verdicts => run'[r].phase = runCache[r]
    <3>1. runCache[runs'] \notin Verdicts
      BY <1>5, <2>2 DEF EarnedInv, Verdicts
    <3> QED
      BY <2>1, <3>1 DEF EarnedInv
  <2>4. \A f : Undisturbed(run, f) => Undisturbed(run', f)
    BY <2>1 DEF Undisturbed
  <2>5. \A f : Earned(run, f, Awaited(stage)) =>
            Earned(run', f, Awaited(stage) \cup {r \in Runs : r > runs})
    BY <1>2, <2>1, <2>2 DEF Earned
  <2>6. Verifying(stage) => Current(stage).run \in Runs /\ Current(stage).run # runs'
    BY <1>1, <1>5, OpenRun
  <2>7. Verifying(stage) =>
            /\ run'[Current(stage).run].freight = stage.freight
            /\ run'[Current(stage).run].terminate => Current(stage).id \in aborted'
    BY <1>5, <2>1, <2>6 DEF EarnedInv
  <2> QED
    BY <2>3, <2>4, <2>5, <2>7
<1> QED
  BY <1>3, <1>4, <1>5 DEF RunChange

\* Freight that has no verification history in the Stage, and for which no
\* request to re-verify was written, has no verdict and no terminated run.
LEMMA FreshFreight ==
    ASSUME TypeOK, RenewInv, EarnedInv, NEW s, s = FirstHalf,
           s.freight # NoFreight, ~HasCurrent(s), s.reverify = 0
    PROVE  /\ s.freight \notin verified
           /\ Undisturbed(run, s.freight)
           /\ s.freight = stage.freight => ~HasCurrent(stage)
<1>1. s.reverify = stage.reverify
  BY FirstHalfLemma
<1>2. CASE ~Replays
  <2>1. s.freight = stage.freight /\ ~HasCurrent(stage)
    BY <1>2, FirstHalfLemma, FirstHalfCurrent
  <2> QED
    BY <1>1, <2>1 DEF EarnedInv
<1>3. CASE Replays
  <2>1. s.freight = promo.freight
    BY <1>3, FirstHalfLemma
  <2>2. promo.freight = stage.freight => ~HasCurrent(stage)
    BY <1>1, <1>3 DEF RenewInv, Replays, IsRepromotion
  <2> QED
    BY <1>1, <1>3, <2>1, <2>2 DEF EarnedInv, Replays
<1> QED
  BY <1>2, <1>3

\* A pass that makes w of the Stage, or is lost before it saves it, preserves
\* EarnedInv if w is entitled to what it says.
LEMMA EarnedPass ==
    ASSUME TypeOK, HistoryInv, RenewInv, EarnedInv, NEW saved \in BOOLEAN,
           NEW s, s = FirstHalf, NEW w \in StageType, OnlyHistory(s, w), Persist(w, saved),
           RunChange(s), UNCHANGED <<promo, runCache>>,
           Verifying(w) => /\ run'[Current(w).run].freight = w.freight
                           /\ run'[Current(w).run].terminate => Current(w).id \in aborted',
           stage.configured => \A f \in verified : Earned(run', f, Awaited(w)),
           stage.configured /\ HasCurrent(w) /\ Current(w).phase = "Successful" =>
               Earned(run', w.freight, {}),
           ~HasCurrent(w) => w = s /\ run' = run
    PROVE  EarnedInv'
<1>1. /\ \A r \in Runs : runCache[r] \in Verdicts => run'[r].phase = runCache[r]
      /\ \A f : Undisturbed(run, f) /\ (f = stage.freight => ~Verifying(stage)) =>
             Undisturbed(run', f)
      /\ \A f : Earned(run, f, Awaited(stage)) =>
             Earned(run', f, Awaited(stage) \cup {r \in Runs : r > runs})
      /\ Verifying(stage) =>
             /\ run'[Current(stage).run].freight = stage.freight
             /\ run'[Current(stage).run].terminate => Current(stage).id \in aborted'
  BY RunsKept
<1>2. /\ w.freight = s.freight
      /\ w.configured = stage.configured
      /\ w.reverify = stage.reverify
      /\ w.freight = IF Replays THEN promo.freight ELSE stage.freight
  BY FirstHalfLemma DEF OnlyHistory
<1>3. CASE saved
  <2>1. stage' = w /\ verified' = verified \cup MarkVerified(w)
    BY <1>3 DEF Persist
  <2>2. promo.phase \in {"Pending", "Succeeded"} /\ promo.freight # w.freight =>
            promo.freight \notin verified' /\ Undisturbed(run', promo.freight)
    <3> HAVE promo.phase \in {"Pending", "Succeeded"} /\ promo.freight # w.freight
    <3>1. promo.freight # stage.freight
      BY <1>2
    <3>2. promo.freight \notin verified /\ Undisturbed(run, promo.freight)
      BY <3>1 DEF EarnedInv
    <3>3. promo.freight \notin MarkVerified(w)
      BY DEF MarkVerified
    <3> QED
      BY <1>1, <2>1, <3>1, <3>2, <3>3
  <2>3. w.freight # NoFreight /\ ~HasCurrent(w) /\ w.reverify = 0 =>
            w.freight \notin verified' /\ Undisturbed(run', w.freight)
    <3> HAVE w.freight # NoFreight /\ ~HasCurrent(w) /\ w.reverify = 0
    <3>1. w = s /\ run' = run /\ MarkVerified(w) = {}
      BY DEF MarkVerified
    <3>2. s.freight \notin verified /\ Undisturbed(run, s.freight)
      BY <3>1, FreshFreight
    <3> QED
      BY <2>1, <3>1, <3>2
  <2>4. w.configured =>
            /\ \A f \in verified' : Earned(run', f, Awaited(w))
            /\ HasCurrent(w) /\ Current(w).phase = "Successful" => Earned(run', w.freight, {})
    <3> HAVE w.configured
    <3>1. ASSUME NEW f \in MarkVerified(w) PROVE Earned(run', f, Awaited(w))
      <4>1. f = w.freight /\ HasCurrent(w) /\ Current(w).phase = "Successful"
        BY <3>1 DEF MarkVerified
      <4>2. Awaited(w) = {}
        BY <4>1 DEF Awaited, Verifying, IsTerminal, Verdicts
      <4> QED
        BY <1>2, <4>1, <4>2
    <3> QED
      BY <1>2, <2>1, <3>1
  <2> QED
    BY <1>1, <2>1, <2>2, <2>3, <2>4 DEF EarnedInv, HasCurrent, Verifying, Awaited, Current
<1>4. CASE ~saved
  <2>1. stage' = stage /\ verified' = verified
    BY <1>4 DEF Persist
  <2>2. promo.phase \in {"Pending", "Succeeded"} /\ promo.freight # stage.freight =>
            promo.freight \notin verified' /\ Undisturbed(run', promo.freight)
    BY <1>1, <2>1 DEF EarnedInv
  <2>3. stage.freight # NoFreight /\ ~HasCurrent(stage) /\ stage.reverify = 0 =>
            stage.freight \notin verified' /\ Undisturbed(run', stage.freight)
    BY <1>1, <2>1 DEF EarnedInv, Verifying
  <2>4. \A f \in verified : stage.configured => Earned(run', f, Awaited(stage))
    BY <1>1 DEF EarnedInv, Earned
  <2>5. stage.configured /\ HasCurrent(stage) /\ Current(stage).phase = "Successful" =>
            Earned(run', stage.freight, {})
    <3> HAVE stage.configured /\ HasCurrent(stage) /\ Current(stage).phase = "Successful"
    <3>1. Earned(run, stage.freight, {}) /\ Awaited(stage) = {}
      BY DEF EarnedInv, Awaited, Verifying, IsTerminal, Verdicts
    <3>2. Earned(run', stage.freight, {r \in Runs : r > runs})
      BY <1>1, <3>1
    <3> QED
      BY <3>2 DEF Earned
  <2> QED
    BY <1>1, <2>1, <2>2, <2>3, <2>4, <2>5 DEF EarnedInv, HasCurrent, Verifying, Awaited, Current
<1> QED
  BY <1>3, <1>4

\* Whichever way verifyStageFreight takes, RunChange is all it does to
\* AnalysisRuns.
LEMMA PassRunChange ==
    ASSUME TypeOK, HistoryInv, NEW failing \in BOOLEAN, NEW saved \in BOOLEAN, NEW s,
           s = FirstHalf, VerifyStageFreight(s, failing, saved)
    PROVE  RunChange(s)
<1>1. CASE NothingToVerify(s, failing, saved)
  BY <1>1 DEF NothingToVerify, RunChange
<1>2. CASE AbortVerification(s, failing, saved)
  <2>1. /\ Verifying(s)
        /\ runs' = runs
        /\ \/ UNCHANGED <<run, aborted>>
           \/ /\ run' = [run EXCEPT ![Current(s).run].terminate = TRUE]
              /\ aborted' = aborted \cup {Current(s).id}
    BY <1>2 DEF AbortVerification
  <2>2. Current(s).run \in Runs
    BY <2>1, AwaitedRun
  <2>3. CASE UNCHANGED <<run, aborted>>
    BY <2>1, <2>3 DEF RunChange
  <2>4. CASE /\ run' = [run EXCEPT ![Current(s).run].terminate = TRUE]
             /\ aborted' = aborted \cup {Current(s).id}
    <3>1. Terminated(Current(s).run, run')
      BY <2>2, <2>4, TerminateRun, Zenon
    <3> QED
      BY <2>1, <2>4, <3>1 DEF RunChange
  <2> QED
    BY <2>1, <2>3, <2>4
<1>3. CASE GetVerificationResult(s, failing, saved)
  BY <1>3 DEF GetVerificationResult, RunChange
<1>4. CASE SkipVerification(s, failing, saved)
  BY <1>4 DEF SkipVerification, RunChange
<1>5. CASE AdoptRun(s, failing, saved)
  BY <1>5 DEF AdoptRun, RunChange
<1>6. CASE CreateRun(s, failing, saved)
  <2>1. runs' = runs + 1 /\ StartsVerification(s)
    BY <1>6 DEF CreateRun
  <2>2. runs' \in Runs
    BY <2>1, VerificationAssumption
       DEF StartsVerification, HistoryInv, TypeOK, NilOrRun, NilOrInfo, Runs, Infos
  <2> QED
    BY <1>6, <2>2 DEF CreateRun, RunChange
<1>7. CASE FailToCreateRun(s, failing, saved)
  BY <1>7 DEF FailToCreateRun, RunChange
<1> QED
  BY <1>1, <1>2, <1>3, <1>4, <1>5, <1>6, <1>7 DEF VerifyStageFreight

\* Whichever way verifyStageFreight takes, verified Freight has earned it.
LEMMA EarnedWays ==
    ASSUME TypeOK, HistoryInv, RenewInv, EarnedInv, NEW failing \in BOOLEAN,
           NEW saved \in BOOLEAN, NEW s, s = FirstHalf, VerifyStageFreight(s, failing, saved),
           UNCHANGED <<promo, runCache>>
    PROVE  EarnedInv'
<1>0. 0 \in NilOrRun /\ s \in StageType /\ s.configured = stage.configured
  BY VerificationAssumption, FirstHalfLemma DEF NilOrRun, NilOrInfo
<1>change. RunChange(s)
  BY PassRunChange
<1>1. ASSUME NEW X, X \subseteq Awaited(stage) \cup {r \in Runs : r > runs}
      PROVE  stage.configured => \A f \in verified : Earned(run', f, X)
  <2>1. \A f : Earned(run, f, Awaited(stage)) =>
            Earned(run', f, Awaited(stage) \cup {r \in Runs : r > runs})
    BY <1>change, RunsKept
  <2> QED
    BY <1>1, <2>1 DEF EarnedInv, Earned
<1>2. HasCurrent(s) => /\ HasCurrent(stage)
                       /\ Current(s) = Current(stage)
                       /\ Verifying(s) <=> Verifying(stage)
                       /\ s.freight = stage.freight
  BY FirstHalfCurrent
<1>3. CASE NothingToVerify(s, failing, saved)
  <2>1. Persist(s, saved) /\ UNCHANGED <<run, infos, runs, aborted>>
    BY <1>3 DEF NothingToVerify
  <2>3. Awaited(s) \subseteq Awaited(stage)
    BY <1>2 DEF Awaited, Verifying
  <2>4. stage.configured => \A f \in verified : Earned(run', f, Awaited(s))
    BY <1>1, <2>3
  <2>5. /\ Verifying(s) => /\ run'[Current(s).run].freight = s.freight
                           /\ run'[Current(s).run].terminate => Current(s).id \in aborted'
        /\ stage.configured /\ HasCurrent(s) /\ Current(s).phase = "Successful" =>
               Earned(run', s.freight, {})
    BY <1>2, <2>1 DEF EarnedInv, Verifying
  <2>6. OnlyHistory(s, s)
    BY DEF OnlyHistory
  <2> QED
    BY <1>0, <1>change, <2>1, <2>4, <2>5, <2>6, EarnedPass
<1>4. CASE AbortVerification(s, failing, saved)
  <2> DEFINE w == UpdateOrPush(s, [Current(s) EXCEPT !.phase = "Failed"])
  <2>1. Verifying(s) /\ Persist(w, saved)
    BY <1>4 DEF AbortVerification
  <2>4. w \in StageType /\ OnlyHistory(s, w) /\ HasCurrent(w) /\ Current(w).phase = "Failed"
    <3>1. Verifying(s) /\ "Failed" \in Verdicts \cup {"Running"}
      BY <2>1 DEF Verdicts
    <3> QED
      BY <3>1, Updated
  <2> HIDE DEF w
  <2>5. ~Verifying(w) /\ Awaited(w) = {}
    BY <2>4 DEF Verifying, IsTerminal, Verdicts, Awaited
  <2>6. stage.configured => \A f \in verified : Earned(run', f, Awaited(w))
    BY <1>1, <2>5
  <2>7. Persist(w, saved) /\ Current(w).phase # "Successful"
    BY <2>1, <2>4
  <2> QED
    BY <1>change, <2>4, <2>5, <2>6, <2>7, EarnedPass
<1>5. CASE GetVerificationResult(s, failing, saved)
  <2> DEFINE cached == runCache[Current(s).run]
             phase == IF failing \/ cached = "absent" THEN "Failed" ELSE cached
             w == UpdateOrPush(s, [Current(s) EXCEPT !.phase = phase])
  <2>1. /\ Verifying(s)
        /\ s.abort # Current(s).id
        /\ Persist(w, saved)
        /\ UNCHANGED <<run, runs, aborted>>
    BY <1>5 DEF GetVerificationResult
  <2>2. Current(s).run \in Runs /\ Current(s).id \notin aborted
    BY <2>1, AwaitedRun
  <2>4. phase \in Verdicts \cup {"Running"} /\ (phase = "Successful" => cached = "Successful")
    BY <2>2 DEF TypeOK, Verdicts
  <2> HIDE DEF phase
  <2>5. /\ w \in StageType /\ OnlyHistory(s, w) /\ HasCurrent(w) /\ Current(w).phase = phase
        /\ Current(w).run = Current(s).run /\ Current(w).id = Current(s).id
    BY <2>1, <2>4, Updated
  <2> HIDE DEF w
  <2>6. /\ Verifying(stage)
        /\ run[Current(s).run].freight = s.freight
        /\ ~run[Current(s).run].terminate
        /\ w.freight = s.freight
        /\ Awaited(stage) = {Current(s).run}
    BY <1>2, <2>1, <2>2, <2>5 DEF EarnedInv, Verifying, OnlyHistory, Awaited
  <2>7. Awaited(w) \subseteq Awaited(stage)
    BY <2>5, <2>6 DEF Awaited
  <2>8. stage.configured => \A f \in verified : Earned(run', f, Awaited(w))
    BY <1>1, <2>7
  <2>9. Current(w).phase = "Successful" => Earned(run', w.freight, {})
    <3> HAVE Current(w).phase = "Successful"
    <3>1. run[Current(s).run].phase = "Successful"
      BY <2>2, <2>4, <2>5 DEF EarnedInv, Verdicts
    <3> QED
      BY <2>1, <2>2, <2>6, <3>1 DEF Earned
  <2>10. Verifying(w) => /\ run'[Current(w).run].freight = w.freight
                         /\ run'[Current(w).run].terminate => Current(w).id \in aborted'
    BY <2>1, <2>5, <2>6
  <2> QED
    BY <1>change, <2>1, <2>5, <2>8, <2>9, <2>10, EarnedPass
<1>6. CASE SkipVerification(s, failing, saved)
  <2> DEFINE w == UpdateOrPush(s, [id |-> infos', phase |-> "Successful", run |-> 0])
  <2>1. /\ StartsVerification(s)
        /\ ~stage.configured
        /\ Persist(w, saved)
        /\ UNCHANGED <<run, runs, aborted>>
    BY <1>0, <1>6 DEF SkipVerification
  <2>2. /\ w \in StageType /\ OnlyHistory(s, w) /\ HasCurrent(w)
        /\ Current(w).phase = "Successful"
    BY <1>0, <2>1, Pushed DEF Verdicts
  <2> HIDE DEF w
  <2>3. ~Verifying(w)
    BY <2>2 DEF Verifying, IsTerminal, Verdicts
  <2> QED
    BY <1>change, <2>1, <2>2, <2>3, EarnedPass
<1>7. CASE AdoptRun(s, failing, saved)
  <2> DEFINE r == Latest(Existing(s))
             w == UpdateOrPush(s, [id |-> infos', phase |-> runCache[r], run |-> r])
  <2>1. /\ StartsVerification(s)
        /\ s.reverify = 0
        /\ Existing(s) # {}
        /\ Persist(w, saved)
        /\ UNCHANGED <<run, runs, aborted>>
    BY <1>7 DEF AdoptRun
  <2>2. r \in Runs /\ runCache[r] # "absent" /\ run[r].freight = s.freight
    BY <2>1, LatestLemma DEF Existing
  <2> HIDE DEF r
  <2>3. r \in NilOrRun /\ runCache[r] \in Verdicts \cup {"Running"}
    BY <2>2, VerificationAssumption DEF TypeOK, Runs, Infos, NilOrRun, NilOrInfo
  <2>4. /\ w \in StageType /\ OnlyHistory(s, w) /\ HasCurrent(w)
        /\ Current(w).phase = runCache[r] /\ Current(w).run = r
    BY <2>1, <2>3, Pushed
  <2> HIDE DEF w
  <2>5. ~HasCurrent(s) /\ s.freight # NoFreight
    <3>1. HasCurrent(s) => Current(s) \in Info
      BY <1>0, CurrentEntry DEF StageType
    <3> QED
      BY <2>1, <3>1, VerificationAssumption
         DEF StartsVerification, Verifiable, Due, Info, Infos
  <2>6. s.freight \notin verified /\ ~run[r].terminate
    BY <2>1, <2>2, <2>5, FreshFreight DEF Undisturbed
  <2>7. w.freight = s.freight
    BY <2>4 DEF OnlyHistory
  <2>8. stage.configured => \A f \in verified : Earned(run', f, Awaited(w))
    <3>1. Awaited(w) \subseteq {r}
      BY <2>4 DEF Awaited
    <3>2. \A f \in verified : stage.configured => Earned(run, f, {})
      BY DEF EarnedInv, Earned
    <3> QED
      BY <2>1, <2>2, <2>6, <3>1, <3>2 DEF Earned
  <2>9. Current(w).phase = "Successful" => Earned(run', w.freight, {})
    <3> HAVE Current(w).phase = "Successful"
    <3>1. run[r].phase = "Successful"
      BY <2>2, <2>4 DEF EarnedInv, Verdicts
    <3> QED
      BY <2>1, <2>2, <2>6, <2>7, <3>1 DEF Earned
  <2>10. Verifying(w) => /\ run'[Current(w).run].freight = w.freight
                         /\ run'[Current(w).run].terminate => Current(w).id \in aborted'
    BY <2>1, <2>2, <2>4, <2>6, <2>7
  <2> QED
    BY <1>change, <2>1, <2>4, <2>7, <2>8, <2>9, <2>10, EarnedPass
<1>8. CASE CreateRun(s, failing, saved)
  <2> DEFINE w == UpdateOrPush(s, [id |-> infos', phase |-> "Running", run |-> runs'])
  <2>1. /\ StartsVerification(s)
        /\ runs' = runs + 1
        /\ run' = [run EXCEPT ![runs'] =
               [freight |-> s.freight, phase |-> "Running", terminate |-> FALSE]]
        /\ Persist(w, saved)
        /\ UNCHANGED aborted
    BY <1>8 DEF CreateRun
  <2>2. runs' \in NilOrRun /\ runs' \in Runs /\ runs' > runs
    BY <2>1, VerificationAssumption
       DEF StartsVerification, HistoryInv, TypeOK, NilOrRun, NilOrInfo, Runs, Infos
  <2>3. /\ w \in StageType /\ OnlyHistory(s, w) /\ HasCurrent(w)
        /\ Current(w).phase = "Running" /\ Current(w).run = runs'
    BY <2>1, <2>2, Pushed
  <2> HIDE DEF w
  <2>4. w.freight = s.freight
    BY <2>3 DEF OnlyHistory
  <2>5. Awaited(w) \subseteq {r \in Runs : r > runs}
    BY <2>2, <2>3 DEF Awaited
  <2>6. stage.configured => \A f \in verified : Earned(run', f, Awaited(w))
    BY <1>1, <2>5
  <2>7. run'[runs'].freight = s.freight /\ run'[runs'].terminate = FALSE
    BY <2>1, <2>2 DEF TypeOK
  <2>8. /\ Persist(w, saved)
        /\ Current(w).phase # "Successful"
        /\ run'[Current(w).run].freight = w.freight
        /\ ~run'[Current(w).run].terminate
    BY <2>1, <2>3, <2>4, <2>7
  <2> QED
    BY <1>change, <2>3, <2>4, <2>6, <2>8, EarnedPass
<1>9. CASE FailToCreateRun(s, failing, saved)
  <2> DEFINE w == UpdateOrPush(s, [id |-> infos', phase |-> "Failed", run |-> 0])
  <2>1. StartsVerification(s) /\ Persist(w, saved) /\ UNCHANGED <<run, runs, aborted>>
    BY <1>9 DEF FailToCreateRun
  <2>2. w \in StageType /\ OnlyHistory(s, w) /\ HasCurrent(w) /\ Current(w).phase = "Failed"
    BY <1>0, <2>1, Pushed DEF Verdicts
  <2> HIDE DEF w
  <2>3. ~Verifying(w) /\ Awaited(w) = {}
    BY <2>2 DEF Verifying, IsTerminal, Verdicts, Awaited
  <2>4. stage.configured => \A f \in verified : Earned(run', f, Awaited(w))
    BY <1>1, <2>3
  <2> QED
    BY <1>change, <2>1, <2>2, <2>3, <2>4, EarnedPass
<1> QED
  BY <1>3, <1>4, <1>5, <1>6, <1>7, <1>8, <1>9 DEF VerifyStageFreight

\* Argo Rollouts completing a run changes its phase alone.
LEMMA CompletedRun ==
    ASSUME TypeOK, NEW r \in Runs, CompleteRun(r)
    PROVE  \A q \in Runs : /\ q # r => run'[q].phase = run[q].phase
                           /\ run'[q].freight = run[q].freight
                           /\ run'[q].terminate = run[q].terminate
<1>1. PICK verdict : run' = [run EXCEPT ![r].phase = verdict]
  BY DEF CompleteRun
<1>2. run \in [Runs -> Run] /\ run[r] \in Run
  BY DEF TypeOK
<1>3. run' = [q \in Runs |-> IF q = r THEN [run[r] EXCEPT !.phase = verdict] ELSE run[q]]
  BY <1>1, <1>2
<1> QED
  BY <1>2, <1>3 DEF Run

\* Freight is not promoted again after other Freight.
NoRollbacks == Rollbacks = FALSE

\* Only promoted Freight is known, whatever happens.
LEMMA PromotedStep ==
    ASSUME TypeOK, HistoryInv, PromotedInv, [Next]_vars
    PROVE  PromotedInv'
<1>0. verified' \subseteq Freight /\ NoFreight \notin Freight
  BY HistoryStep, VerificationAssumption DEF TypeOK
<1>1. ASSUME NEW failing \in BOOLEAN, NEW saved \in BOOLEAN, Reconcile(failing, saved)
      PROVE  PromotedInv'
  <2> DEFINE s == FirstHalf
  <2>1. VerifyStageFreight(s, failing, saved) /\ UNCHANGED <<promo, promoted>>
    BY <1>1 DEF Reconcile, FirstHalf
  <2>2. s.freight \in promoted \cup {NoFreight}
    BY FirstHalfLemma DEF PromotedInv
  <2>3. PICK w \in StageType : Persist(w, saved) /\ OnlyHistory(s, w)
    BY <2>1, PassRuns
  <2>4. RunChange(s)
    BY <2>1, PassRunChange
  <2> HIDE DEF s
  <2>5. stage'.freight \in promoted \cup {NoFreight} /\ verified' \subseteq verified \cup {s.freight}
    BY <2>2, <2>3 DEF Persist, OnlyHistory, PromotedInv, MarkVerified
  <2>6. verified' \subseteq promoted
    BY <1>0, <2>2, <2>5 DEF PromotedInv
  <2>7. \A r \in Runs : run'[r].freight \in promoted \cup {NoFreight}
    <3>1. \A r \in Runs : run'[r].freight \in {run[r].freight, s.freight}
      BY <2>4 DEF RunChange, Terminated, TypeOK, Run
    <3> QED
      BY <2>2, <3>1 DEF PromotedInv
  <2> QED
    BY <2>1, <2>5, <2>6, <2>7 DEF PromotedInv
<1>2. ASSUME NEW f \in Freight, Promote(f) PROVE PromotedInv'
  BY <1>2 DEF Promote, PromotedInv
<1>3. CASE SucceedPromotion
  <2>1. stage'.freight = stage.freight /\ promo'.freight = promo.freight
    BY <1>3 DEF SucceedPromotion, TypeOK, StageType
  <2> QED
    BY <1>3, <2>1 DEF SucceedPromotion, PromotedInv
<1>4. CASE FailPromotion
  BY <1>4 DEF FailPromotion, TypeOK, PromotedInv
<1>5. CASE ReverifyStageFreight
  BY <1>5 DEF ReverifyStageFreight, TypeOK, StageType, PromotedInv
<1>6. CASE AbortStageFreightVerification
  BY <1>6 DEF AbortStageFreightVerification, TypeOK, StageType, PromotedInv
<1>7. ASSUME NEW r \in Runs, CompleteRun(r) PROVE PromotedInv'
  BY <1>7, CompletedRun DEF CompleteRun, PromotedInv
<1>8. CASE SyncRunCache
  BY <1>8 DEF SyncRunCache, PromotedInv
<1>9. CASE ChangeHealth
  BY <1>9 DEF ChangeHealth, PromotedInv
<1>10. CASE UNCHANGED vars
  BY <1>10 DEF vars, PromotedInv
<1> QED
  BY <1>1, <1>2, <1>3, <1>4, <1>5, <1>6, <1>7, <1>8, <1>9, <1>10 DEF Next

\* EarnedInv is inductive, given the invariants above, as long as requests are
\* always written and there is no rollback.
LEMMA EarnedStep ==
    ASSUME NoRollbacks, TypeOK, HistoryInv, RenewInv, PromotedInv, EarnedInv, [Next]_vars
    PROVE  EarnedInv'
<1>1. ASSUME NEW failing \in BOOLEAN, NEW saved \in BOOLEAN, Reconcile(failing, saved)
      PROVE  EarnedInv'
  <2>1. VerifyStageFreight(FirstHalf, failing, saved) /\ UNCHANGED <<promo, runCache>>
    BY <1>1 DEF Reconcile, FirstHalf
  <2> QED
    BY <2>1, EarnedWays
<1>2. ASSUME NEW f \in Freight, Promote(f) PROVE EarnedInv'
  <2>1. f # stage.freight => f \notin promoted
    BY <1>2 DEF Promote, NoRollbacks
  <2>2. f # NoFreight
    BY VerificationAssumption
  <2>3. f # stage.freight => f \notin verified /\ Undisturbed(run, f)
    BY <2>1, <2>2 DEF PromotedInv, Undisturbed
  <2>4. promo'.freight = f /\ UNCHANGED <<stage, run, runCache, verified, aborted>>
    BY <1>2 DEF Promote
  <2> QED
    BY <2>3, <2>4 DEF EarnedInv, Awaited, Verifying, HasCurrent, Current
<1>3. CASE SucceedPromotion
  <2>1. \/ stage' = stage
        \/ HasCurrent(stage) /\ stage' = [stage EXCEPT !.reverify = Current(stage).id]
    BY <1>3 DEF SucceedPromotion, IsRepromotion
  <2>2. /\ stage'.history = stage.history
        /\ stage'.freight = stage.freight
        /\ stage'.configured = stage.configured
        /\ ~HasCurrent(stage) => stage'.reverify = stage.reverify
    BY <2>1 DEF TypeOK, StageType
  <2>3. promo'.freight = promo.freight /\ promo.phase = "Pending"
        /\ UNCHANGED <<run, runCache, verified, aborted>>
    BY <1>3 DEF SucceedPromotion, TypeOK
  <2> QED
    BY <2>2, <2>3 DEF EarnedInv, Awaited, Verifying, HasCurrent, Current
<1>4. CASE FailPromotion
  <2>1. promo'.phase = "Failed" /\ UNCHANGED <<stage, run, runCache, verified, aborted>>
    BY <1>4 DEF FailPromotion, TypeOK
  <2> QED
    BY <2>1 DEF EarnedInv, Awaited, Verifying, HasCurrent, Current
<1>5. CASE ReverifyStageFreight
  <2>1. /\ stage'.history = stage.history
        /\ stage'.freight = stage.freight
        /\ stage'.configured = stage.configured
        /\ HasCurrent(stage)
        /\ UNCHANGED <<promo, run, runCache, verified, aborted>>
    BY <1>5 DEF ReverifyStageFreight, TypeOK, StageType
  <2> QED
    BY <2>1 DEF EarnedInv, Awaited, Verifying, HasCurrent, Current
<1>6. CASE AbortStageFreightVerification
  <2>1. /\ stage'.history = stage.history
        /\ stage'.freight = stage.freight
        /\ stage'.configured = stage.configured
        /\ stage'.reverify = stage.reverify
        /\ UNCHANGED <<promo, run, runCache, verified, aborted>>
    BY <1>6 DEF AbortStageFreightVerification, TypeOK, StageType
  <2> QED
    BY <2>1 DEF EarnedInv, Awaited, Verifying, HasCurrent, Current
<1>7. ASSUME NEW r \in Runs, CompleteRun(r) PROVE EarnedInv'
  <2>1. /\ run[r].phase = "Running"
        /\ \A q \in Runs : /\ q # r => run'[q].phase = run[q].phase
                           /\ run'[q].freight = run[q].freight
                           /\ run'[q].terminate = run[q].terminate
    BY <1>7, CompletedRun DEF CompleteRun
  <2>2. UNCHANGED <<stage, promo, runCache, verified, aborted>>
    BY <1>7 DEF CompleteRun
  <2>3. \A q \in Runs : runCache[q] \in Verdicts => run'[q].phase = runCache[q]
    BY <2>1 DEF EarnedInv, Verdicts
  <2>4. \A f : Undisturbed(run, f) => Undisturbed(run', f)
    BY <2>1 DEF Undisturbed
  <2>5. \A f, X : Earned(run, f, X) => Earned(run', f, X)
    BY <2>1 DEF Earned
  <2>6. Verifying(stage) => Current(stage).run \in Runs
    BY OpenRun
  <2>7. Verifying(stage) =>
            /\ run'[Current(stage).run].freight = stage.freight
            /\ run'[Current(stage).run].terminate => Current(stage).id \in aborted
    BY <2>1, <2>6 DEF EarnedInv
  <2> QED
    BY <2>2, <2>3, <2>4, <2>5, <2>7 DEF EarnedInv, Awaited, Verifying, HasCurrent, Current
<1>8. CASE SyncRunCache
  <2>1. /\ \A r \in Runs : runCache'[r] = run[r].phase
        /\ UNCHANGED <<stage, promo, run, verified, aborted>>
    BY <1>8 DEF SyncRunCache
  <2> QED
    BY <2>1 DEF EarnedInv, Awaited, Verifying, HasCurrent, Current
<1>9. CASE ChangeHealth
  BY <1>9 DEF ChangeHealth, EarnedInv, Awaited, Verifying, HasCurrent, Current
<1>10. CASE UNCHANGED vars
  BY <1>10 DEF vars, EarnedInv, Awaited, Verifying, HasCurrent, Current
<1> QED
  BY <1>1, <1>2, <1>3, <1>4, <1>5, <1>6, <1>7, <1>8, <1>9, <1>10 DEF Next

\* As long as requests are always written and there is no rollback, every verdict
\* the Stage acts on was earned.
THEOREM AlwaysEarnedInv ==
    ASSUME RequestsWritten, NoRollbacks
    PROVE  Spec => [](PromotedInv /\ EarnedInv)
<1>1. Init => PromotedInv /\ EarnedInv
  <2> SUFFICES ASSUME Init PROVE PromotedInv /\ EarnedInv
    OBVIOUS
  <2>1. /\ stage.freight = NoFreight /\ stage.history = <<>>
        /\ promo.freight = NoFreight /\ promo.phase = "none"
        /\ verified = {}
        /\ \A r \in Runs : run[r].freight = NoFreight /\ runCache[r] = "absent"
    BY DEF Init
  <2>2. ~HasCurrent(stage) /\ ~Verifying(stage)
    BY <2>1 DEF HasCurrent, Verifying
  <2> QED
    BY <2>1, <2>2 DEF PromotedInv, EarnedInv, Verdicts
<1>2. TypeOK /\ HistoryInv /\ PromotedInv /\ [Next]_vars => PromotedInv'
  BY PromotedStep
<1>3. TypeOK /\ HistoryInv /\ RenewInv /\ PromotedInv /\ EarnedInv /\ [Next]_vars => EarnedInv'
  BY EarnedStep
<1> QED
  BY <1>1, <1>2, <1>3, AlwaysHistoryInv, AlwaysRenewInv, PTL DEF Spec

\* Under the same conditions Freight is marked as verified only if an AnalysisRun
\* for it ran its course and succeeded, or nothing is configured
\* (markFreightVerifiedForStage).
THEOREM AlwaysVerifiedEarned ==
    ASSUME RequestsWritten, NoRollbacks
    PROVE  Spec => []VerifiedEarned
<1>1. TypeOK /\ EarnedInv => VerifiedEarned
  BY DEF EarnedInv, VerifiedEarned, Earned
<1> QED
  BY <1>1, AlwaysHistoryInv, AlwaysEarnedInv, PTL
=============================================================================
