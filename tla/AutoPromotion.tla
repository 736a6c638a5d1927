--------------------------- MODULE AutoPromotion ---------------------------
(***************************************************************************)
(* Auto-promotion of a Stage that requests Freight from several origins,   *)
(* and what the Stage believes to be running: the FreightCollections its   *)
(* Promotions build on one another.                                        *)
(*                                                                         *)
(* A user who promotes anything but the candidate of an origin puts a hold *)
(* on the origin; promoting the candidate releases it.  The admission      *)
(* webhook writes the intent on the Promotion.  The Stage reconciler makes *)
(* it durable when it replays the Promotion, and lays the intents it has   *)
(* not replayed yet over the durable ones before it auto-promotes.  The    *)
(* garbage collector deletes old Promotions meanwhile.                     *)
(*                                                                         *)
(* A Promotion is a number, in the order of creation, and so is the        *)
(* Freight of an origin, in the order of discovery; 0 stands for none.     *)
(* Auto-promotion is enabled throughout.  The reconciler lists Promotions  *)
(* from an informer cache that lags behind the API server; the rest goes   *)
(* stale as what it read in an earlier step of the same pass.              *)
(***************************************************************************)
EXTENDS Naturals, FiniteSets

CONSTANTS
    NOrigins,      \* origins the Stage requests Freight from
    Matching,      \* origins with the selection policy MatchUpstream
    Supply,        \* bound: Freight of each origin
    Initially,     \* what the Stage runs at first, by Promotions long gone
    Manual,        \* bound: origins whose Freight users promote by hand
    N,             \* bound: Promotions
    MaxFaults,     \* bound: Promotions that fail or are aborted, though they need not
    MaxRetained,   \* the garbage collector's MaxRetainedPromotions
    AbortQueued    \* may a Promotion be aborted before it is its turn

Origins == 1 .. NOrigins
Names == 1 .. N
NilOrName == 0 .. N

ASSUME AutoPromotionAssumption ==
    /\ NOrigins \in Nat \ {0}
    /\ Matching \subseteq Origins
    /\ Supply \in [Origins -> Nat \ {0}]
    /\ Initially \in [Origins -> {0, 1}]
    /\ Manual \subseteq Origins
    /\ N \in Nat
    /\ MaxFaults \in Nat
    /\ MaxRetained \in Nat \ {0}
    /\ AbortQueued \in BOOLEAN

VARIABLES
    available,  \* the Freight of each origin that is available to the Stage
    promo,      \* every Promotion so far
    pCache,     \* the copy the Stage reconciler's informer has of it
    stage,      \* the Stage's status
    pass        \* the Stage reconciler's pass in progress

vars == <<available, promo, pCache, stage, pass>>

Terminal == {"Succeeded", "Failed", "Aborted"}
NonTerminal == {"Pending", "Running"}

\* The Freight of each origin; all 0 for a nil FreightCollection.
Collection == [Origins -> Nat]
NoCollection == [o \in Origins |-> 0]

Promotion == [
    phase: {"absent"} \cup NonTerminal \cup Terminal,
    deleted: BOOLEAN,
    auto: BOOLEAN,                        \* created by auto-promotion
    overtakes: NilOrName,                 \* ... although the informer had this hold
    origin: Origins,
    freight: Nat,
    intent: {"none", "hold", "resume"},   \* for its origin
    started: BOOLEAN,                     \* status.startedAt
    collection: Collection]               \* status.freightCollection

StageStatus == [
    current: NilOrName,
    awaited: BOOLEAN,        \* currentPromotion.freight is known
    last: NilOrName,
    lastCollection: Collection,
    running: Collection,     \* freightHistory.Current()
    holds: SUBSET Origins]

Pass == [
    at: {"idle", "synced", "holding", "deciding"},
    held: SUBSET Origins,    \* status.effectiveAutoPromotionHolds
    pick: Collection]        \* what may be promoted of the origins the loop has to visit

TypeOK ==
    /\ available \in [Origins -> SUBSET Nat]
    /\ promo \in [Names -> Promotion]
    /\ pCache \in [Names -> Promotion]
    /\ stage \in StageStatus
    /\ pass \in Pass
    /\ pass.at = "deciding" <=> pass.pick # NoCollection

NoPromotion == [phase |-> "absent", deleted |-> FALSE, auto |-> FALSE, overtakes |-> 0,
                origin |-> 1, freight |-> 0, intent |-> "none", started |-> FALSE,
                collection |-> NoCollection]
IdlePass == [at |-> "idle", held |-> {}, pick |-> NoCollection]

\* There is Freight of every origin already, and the Stage may run some of it.
Init ==
    /\ available = [o \in Origins |-> {1}]
    /\ promo = [p \in Names |-> NoPromotion]
    /\ pCache = promo
    /\ stage = [current |-> 0, awaited |-> FALSE, last |-> 0, lastCollection |-> Initially,
                running |-> Initially, holds |-> {}]
    /\ pass = IdlePass

MaxOf(S) == CHOOSE m \in S : \A n \in S : n <= m
MaxOrZero(S) == IF S = {} THEN 0 ELSE MaxOf(S)

Created == {p \in Names : promo[p].phase # "absent"}
Listed == {p \in Created : ~promo[p].deleted}
Waiting == {p \in Listed : promo[p].phase \in NonTerminal}

\* What the informer has had, what it lists, and what of that is unfinished.
Cached == {p \in Names : pCache[p].phase # "absent"}
Seen == {p \in Cached : ~pCache[p].deleted}
SeenWaiting == {p \in Seen : pCache[p].phase \in NonTerminal}

MayFail == Cardinality({p \in Created : promo[p].phase \in {"Failed", "Aborted"}}) < MaxFaults

\* The name the next Promotion gets.
NextName == Cardinality(Created) + 1

\* SelectAutoPromotionCandidates: the newest, but none while MatchUpstream finds
\* more than one upstream.
Candidate(o) ==
    IF o \in Matching /\ Cardinality(available[o]) > 1 THEN 0 ELSE MaxOf(available[o])

(***************************************************************************)
(* The Stage reconciler                                                    *)
(***************************************************************************)

\* Running first, then Pending, oldest first, then the finished ones, newest first.
Before(p, q) ==
    LET rank(x) == CASE pCache[x].phase = "Running" -> 0
                     [] pCache[x].phase = "Pending" -> 1
                     [] OTHER -> 2
    IN  rank(p) < rank(q) \/ (rank(p) = rank(q) /\ IF rank(p) < 2 THEN p < q ELSE q < p)

\* The finished Promotions the scan of the sorted list reaches before it meets
\* one that is not newer than the last one replayed.
NewPromos ==
    {p \in Seen :
        /\ pCache[p].phase \in Terminal
        /\ \A q \in Seen : (q = p \/ Before(q, p)) => q > stage.last}

\* The newest of the Promotions in S with an intent for origin o that stands.
Decider(S, o) ==
    MaxOrZero({p \in S : /\ pCache[p].phase # "Aborted"
                         /\ pCache[p].origin = o
                         /\ pCache[p].intent # "none"})

\* The holds that remain when the intents of S are applied to holds, in order.
Applied(holds, S) ==
    {o \in Origins : IF Decider(S, o) = 0 THEN o \in holds
                     ELSE pCache[Decider(S, o)].intent = "hold"}

\* The end of a round: replay what has finished.  lastPromotion's collection is
\* that of the newest one; one that never started and has none takes over the
\* collection of the one before it.
Replay ==
    LET bearers == {p \in NewPromos : pCache[p].started \/ pCache[p].collection # NoCollection}
        succeeded == {p \in NewPromos : pCache[p].phase = "Succeeded"}
    IN  [current |-> 0,
         awaited |-> FALSE,
         last |-> IF NewPromos = {} THEN stage.last ELSE MaxOf(NewPromos),
         lastCollection |-> IF bearers = {} THEN stage.lastCollection
                            ELSE pCache[MaxOf(bearers)].collection,
         running |-> IF succeeded = {} THEN stage.running
                     ELSE pCache[MaxOf(succeeded)].collection,
         holds |-> Applied(stage.holds, NewPromos)]

IsNext(p) == p \in SeenWaiting /\ \A q \in SeenWaiting \ {p} : Before(p, q)

\* currentPromotion names the Freight only once the Promotion's own status does.
Elect(p) ==
    [stage EXCEPT !.current = p, !.awaited = pCache[p].collection # NoCollection]

\* open: the current Freight has been verified, or need not be (Verification).
SyncPromotions(open) ==
    /\ pass.at = "idle"
    /\ pass' = [pass EXCEPT !.at = "synced"]
    /\ stage' = IF Seen = {} THEN [stage EXCEPT !.current = 0, !.awaited = FALSE]
                ELSE IF stage.current # 0 /\ ~IsNext(stage.current) THEN Replay
                ELSE IF open /\ SeenWaiting # {} THEN Elect(CHOOSE p \in SeenWaiting : IsNext(p))
                ELSE stage
    /\ UNCHANGED <<available, promo, pCache>>

\* Mutant: every Promotion that still exists is considered, replayed or not.
EffectiveHoldsOfAll == Applied(stage.holds, Seen)

\* computeEffectiveAutoPromotionHolds: the durable holds, overlaid with the
\* intents that are newer than the last Promotion replayed.
EffectiveHolds == Applied(stage.holds, {p \in Seen : p > stage.last})

Awaited(o, f) ==
    /\ stage.current # 0 /\ stage.awaited
    /\ pCache[stage.current].origin = o /\ pCache[stage.current].freight = f

\* Mutant: a held origin is not recognised.
ChosenHeld(o) ==
    IF stage.running[o] = Candidate(o) \/ Awaited(o, Candidate(o)) THEN 0 ELSE Candidate(o)

\* The candidate of origin o, unless the origin is held, or the Stage has the
\* candidate already or awaits it.
Chosen(o) ==
    IF \/ o \in pass.held
       \/ stage.running[o] = Candidate(o)
       \/ Awaited(o, Candidate(o))
    THEN 0
    ELSE Candidate(o)

ComputeHolds ==
    /\ pass.at = "synced"
    /\ pass' = [pass EXCEPT !.at = "holding", !.held = EffectiveHolds]
    /\ UNCHANGED <<available, promo, pCache, stage>>

\* Mutant: the loop goes one origin too far.
VisitOneMore(pick) == [IdlePass EXCEPT !.at = "deciding", !.pick = pick]

\* The loop has the origins of pick to visit, and skips the others.
Visit(pick) ==
    IF pick = NoCollection THEN IdlePass
    ELSE [IdlePass EXCEPT !.at = "deciding", !.pick = pick]

\* The beginning of autoPromoteFreight, another sub-reconciler: candidates are read,
\* and the Stage compared with them.  Nothing but the next pass changes what the
\* Stage is compared as.
SelectCandidates ==
    /\ pass.at = "holding"
    /\ pass' = Visit([o \in Origins |-> Chosen(o)])
    /\ UNCHANGED <<available, promo, pCache, stage>>

For(o, f) == {p \in Seen : pCache[p].origin = o /\ pCache[p].freight = f}

\* Mutant: only unfinished Promotions count.
UnfinishedExists(o, f) == \E p \in For(o, f) : pCache[p].phase \in NonTerminal

\* unprocessedPromotionExistsForStageFreight
UnprocessedExists(o, f) ==
    \E p \in For(o, f) :
        \/ pCache[p].phase \in NonTerminal
        \/ pCache[p].phase = "Succeeded" /\ p > stage.last

\* newestTerminalPromotionForStageFreight did not succeed.
FailedBefore(o, f) ==
    LET finished == {p \in For(o, f) : pCache[p].phase \in Terminal}
    IN  finished # {} /\ pCache[MaxOf(finished)].phase # "Succeeded"

\* Promotions are listed again for every origin.
Eligible(o, f) == ~UnprocessedExists(o, f) /\ ~FailedBefore(o, f)

\* The newest intent for origin o that stands, among all the Promotions the
\* informer has ever had, and whether it is a hold.
Standing(o) == Decider(Cached, o)
IsHeld(o) == Standing(o) # 0 /\ pCache[Standing(o)].intent = "hold"

\* The hold it overtakes is recorded for the properties.
Autopromoted(o, f) ==
    [promo EXCEPT ![NextName] = [NoPromotion EXCEPT
        !.phase = "Pending", !.auto = TRUE, !.overtakes = IF IsHeld(o) THEN Standing(o) ELSE 0,
        !.origin = o, !.freight = f]]

NextVisited(o) == pass.pick[o] # 0 /\ \A q \in Origins : pass.pick[q] # 0 => o <= q

\* Mutant: the loop ends at the first origin it skips.
AutoPromoteFreightOfFirst(admitted) ==
    \E o \in Origins :
        /\ NextVisited(o)
        /\ promo' = IF admitted /\ Eligible(o, pass.pick[o]) /\ NextName <= N
                    THEN Autopromoted(o, pass.pick[o]) ELSE promo
        /\ pass' = IF Eligible(o, pass.pick[o]) THEN Visit([pass.pick EXCEPT ![o] = 0]) ELSE IdlePass
        /\ UNCHANGED <<available, pCache, stage>>

\* One iteration of autoPromoteFreight's loop.  A Promotion the admission webhooks
\* deny is left to a later pass.
AutoPromoteFreight(admitted) ==
    \E o \in Origins :
        /\ NextVisited(o)
        /\ promo' = IF admitted /\ Eligible(o, pass.pick[o]) /\ NextName <= N
                    THEN Autopromoted(o, pass.pick[o]) ELSE promo
        /\ pass' = Visit([pass.pick EXCEPT ![o] = 0])
        /\ UNCHANGED <<available, pCache, stage>>

(***************************************************************************)
(* The Promotion reconciler                                                *)
(***************************************************************************)

\* Mutant: only the last Promotion is asked.
InheritableFreightOfLast == stage.lastCollection

\* inheritableFreight: what a new collection carries over.
InheritableFreight ==
    IF stage.lastCollection # NoCollection THEN stage.lastCollection ELSE stage.running

\* NewFreightCollectionForStage
NewFreightCollection(p) ==
    [o \in Origins |->
        IF o = promo[p].origin THEN promo[p].freight
        ELSE IF NOrigins > 1 THEN InheritableFreight[o] ELSE 0]

Start(p) ==
    /\ stage.current = p
    /\ promo[p].phase = "Pending" /\ ~promo[p].deleted
    /\ promo' = [promo EXCEPT ![p].phase = "Running", ![p].started = TRUE]
    /\ UNCHANGED <<available, pCache, stage, pass>>

\* The steps run as far as they can, if the Freight is still available.
ExecuteSteps(p) ==
    /\ stage.current = p
    /\ promo[p].phase = "Running"
    /\ promo[p].freight \in available[promo[p].origin]
    /\ \E outcome \in {"Running", "Succeeded"} \cup (IF MayFail THEN {"Failed"} ELSE {}) :
           promo' = [promo EXCEPT ![p].phase = outcome, ![p].collection = NewFreightCollection(p)]
    /\ UNCHANGED <<available, pCache, stage, pass>>

\* An error before the first step, as when the Freight is no longer available: the
\* collection is not recorded.
FailToExecute(p) ==
    /\ stage.current = p
    /\ promo[p].phase = "Running"
    /\ MayFail \/ promo[p].freight \notin available[promo[p].origin]
    /\ promo' = [promo EXCEPT ![p].phase = "Failed"]
    /\ UNCHANGED <<available, pCache, stage, pass>>

Abort(p) ==
    /\ p \in Waiting
    /\ MayFail
    /\ AbortQueued \/ stage.current = p
    /\ promo' = [promo EXCEPT ![p].phase = "Aborted"]
    /\ UNCHANGED <<available, pCache, stage, pass>>

(***************************************************************************)
(* Users, Warehouses and upstream Stages, the garbage collector, informers *)
(***************************************************************************)

\* The admission webhook infers what a user's choice of Freight means.
SyncHoldAnnotations(o, f) == IF f = Candidate(o) THEN "resume" ELSE "hold"

Promote(o, f) ==
    /\ NextName <= N
    /\ promo' = [promo EXCEPT ![NextName] = [NoPromotion EXCEPT
           !.phase = "Pending", !.origin = o, !.freight = f,
           !.intent = SyncHoldAnnotations(o, f)]]
    /\ UNCHANGED <<available, pCache, stage, pass>>

\* New Freight becomes available.
Discover(o) ==
    /\ MaxOf(available[o]) < Supply[o]
    /\ available' = [available EXCEPT ![o] = @ \cup {MaxOf(@) + 1}]
    /\ UNCHANGED <<promo, pCache, stage, pass>>

\* An upstream Stage moves on: what it ran before is no longer available.
Withdraw(o) ==
    /\ o \in Matching
    /\ \E f \in available[o] :
           /\ f # MaxOf(available[o])
           /\ available' = [available EXCEPT ![o] = @ \ {f}]
    /\ UNCHANGED <<promo, pCache, stage, pass>>

\* cleanStagePromotions: of the Promotions older than every unfinished one, the
\* newest MaxRetained are kept.
Garbage ==
    LET unfinished == {q \in Listed : \E w \in Waiting : w <= q}
    IN  {p \in Listed \ unfinished :
            Cardinality({q \in Listed : q > p}) >= Cardinality(unfinished) + MaxRetained}

\* What a deleted Promotion was for, and how it ended, is kept for the properties.
Deleted(p) == [promo[p] EXCEPT !.deleted = TRUE, !.started = FALSE, !.collection = NoCollection]

\* Only the Stage reconciler looks at a finished Promotion, so that a deletion its
\* informer is late to report is one that is done later.
CollectGarbage(p) ==
    /\ p \in Garbage
    /\ promo' = [promo EXCEPT ![p] = Deleted(p)]
    /\ pCache' = IF pCache[p] = promo[p] THEN [pCache EXCEPT ![p] = Deleted(p)] ELSE pCache
    /\ UNCHANGED <<available, stage, pass>>

\* The Promotion informer catches up.
SyncPromotionCache ==
    /\ pCache # promo
    /\ pCache' = promo
    /\ UNCHANGED <<available, promo, stage, pass>>

ReconcileStage ==
    \/ \E open \in BOOLEAN : SyncPromotions(open)
    \/ ComputeHolds
    \/ SelectCandidates
    \/ \E admitted \in BOOLEAN : AutoPromoteFreight(admitted)

Next ==
    \/ ReconcileStage
    \/ \E p \in Names :
           Start(p) \/ ExecuteSteps(p) \/ FailToExecute(p) \/ Abort(p) \/ CollectGarbage(p)
    \/ \E o \in Origins : Discover(o) \/ Withdraw(o)
    \/ \E o \in Manual : \E f \in available[o] : Promote(o, f)
    \/ SyncPromotionCache

(***************************************************************************)
(* The Stage is reconciled again and again, and each pass runs to its end. *)
(* A Promotion that is admitted makes progress, and its steps come to an   *)
(* end (StepEngine).  Every verification ends, so that the gate opens      *)
(* again and again (Verification).  Admission does not deny forever, an    *)
(* upstream Stage finishes moving on, and the informer catches up.         *)
(***************************************************************************)
Fairness ==
    /\ WF_vars(ReconcileStage)
    /\ SF_vars(SyncPromotions(TRUE))
    /\ SF_vars(AutoPromoteFreight(TRUE) /\ promo' # promo)
    /\ WF_vars(\E p \in Names : \/ Start(p)
                               \/ (ExecuteSteps(p) /\ promo'[p].phase \in Terminal)
                               \/ FailToExecute(p))
    /\ WF_vars(\E o \in Origins : Withdraw(o))
    /\ WF_vars(SyncPromotionCache)

Spec == Init /\ [][Next]_vars /\ Fairness

(***************************************************************************)
(* Properties                                                              *)
(***************************************************************************)
\* The holds the reconciler would compute now are exactly the newest intents that
\* nobody withdrew, among all the Promotions its informer has ever had: whichever of
\* them have been replayed, have failed or have been garbage-collected since
\* (computeEffectiveAutoPromotionHolds).
HoldsKnown == \A o \in Origins : o \in EffectiveHolds <=> IsHeld(o)

\* A release of origin o comes between Promotions h and p.
Released(o, h, p) ==
    \E r \in (h + 1) .. (p - 1) : promo[r].origin = o /\ promo[r].intent = "resume"

\* The auto-promotions that overtook the hold h on origin o.
Overtaking(o, h) ==
    {p \in Created : promo[p].auto /\ promo[p].origin = o /\ promo[p].overtakes = h
                     /\ ~Released(o, h, p)}

\* A hold that reaches the informer just after auto-promotion decided to act is
\* overtaken once more and no more (syncHoldAnnotations: "supersedes the user's
\* Freight once").  What was promoted after a release does not count: aborting the
\* release brings the hold back, but not the time before it.
SupersededOnce ==
    \A o \in Origins : IsHeld(o) => Cardinality(Overtaking(o, Standing(o))) <= 1

\* Auto-promotion promotes Freight again that the informer shows to have been
\* auto-promoted only if other Freight of the origin was promoted in between: not
\* because the first Promotion finished while the pass was under way, nor because it
\* failed (autoPromoteFreight: "Do not create duplicate work").
AutoPromotedOnce ==
    [][\A p \in Seen, q \in Created' \ Created :
          /\ promo[p].auto /\ promo'[q].auto
          /\ promo'[q].origin = promo[p].origin /\ promo'[q].freight = promo[p].freight
          => \E r \in (p + 1) .. (q - 1) :
                 promo[r].origin = promo[p].origin /\ promo[r].freight # promo[p].freight]_vars

\* A Stage never forgets an origin: Promotions that were aborted early, or failed
\* before they had a collection, do not make later ones drop what the Stage runs.
OriginsKept ==
    [][\A o \in Origins : stage.running[o] # 0 => stage'.running[o] # 0]_stage

\* In the end every origin runs its candidate, unless it is held, the candidate
\* failed, or there is none.
Converges ==
    <>[](\A o \in Origins :
            \/ Candidate(o) \in {0, stage.running[o]}
            \/ IsHeld(o)
            \/ FailedBefore(o, Candidate(o))
            \/ NextName > N)
=============================================================================
