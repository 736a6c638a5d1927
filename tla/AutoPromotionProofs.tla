------------------------ MODULE AutoPromotionProofs ------------------------
(***************************************************************************)
(* Proofs about AutoPromotion, for any number of origins, Freight,         *)
(* Promotions and failures.  Except for the types they are about           *)
(* Promotions that are aborted only when it is their turn: a Promotion     *)
(* that leaves the queue early lets lastPromotion overtake older ones      *)
(* (StagePromotions, Overtaken).                                           *)
(***************************************************************************)
EXTENDS AutoPromotion, FiniteSetTheorems, WellFoundedInduction, TLAPS

(***************************************************************************)
(* The invariants                                                          *)
(***************************************************************************)

\* Names are given out in order, and every Promotion is for Freight.
NameInv ==
    /\ \E c \in NilOrName : Created = 1 .. c
    /\ \A p \in Created : promo[p].freight # 0
    /\ \A o \in Origins : available[o] # {} /\ available[o] \subseteq 1 .. Supply[o]

\* Promotions take their turns: those up to lastPromotion are over, the next one is
\* the current one if there is one, and those behind it have not begun.  None of
\* them is collected before it has been replayed.
QueueInv ==
    /\ \A p \in Names : p <= stage.last => promo[p].phase \in Terminal
    /\ \A p \in Names : p > stage.last /\ p # stage.current =>
          promo[p].phase \in {"absent", "Pending"} /\ promo[p].collection = NoCollection
    /\ \A p \in Names : p > stage.last => ~promo[p].deleted
    /\ stage.current # 0 =>
          stage.current = stage.last + 1 /\ promo[stage.current].phase # "absent"

\* What a Promotion is for does not change.
SameFor(x, y) ==
    /\ x.auto = y.auto /\ x.overtakes = y.overtakes /\ x.origin = y.origin
    /\ x.freight = y.freight /\ x.intent = y.intent

\* The informer lists an older part of the queue: it has a first segment of the
\* Promotions, knows what each is for, and how it ended once it shows that it did.
\* It has caught up with what the Stage has replayed or elected, since the Stage
\* reconciler knows of no other Promotions.
CacheInv ==
    /\ \E k \in NilOrName : Cached = 1 .. k
    /\ \A p \in Cached : p \in Created /\ SameFor(pCache[p], promo[p])
    /\ \A p \in Names : pCache[p].phase \in Terminal => pCache[p] = promo[p]
    /\ \A p \in Names : p <= stage.last => pCache[p].phase \in Terminal
    /\ \A p \in Names : p > stage.last /\ p # stage.current =>
          pCache[p].phase \in {"absent", "Pending"}
    /\ \A p \in Names : p > stage.last => ~pCache[p].deleted
    /\ stage.current # 0 => stage.current \in Cached

Replayed == {p \in Names : p <= stage.last}

\* What the intents of S say about origin o.
SaysHold(S, o) == Decider(S, o) # 0 /\ pCache[Decider(S, o)].intent = "hold"

\* The durable holds are the newest intents replayed.
HoldInv == \A o \in Origins : o \in stage.holds <=> SaysHold(Replayed, o)

Covers(c, d) == \A o \in Origins : d[o] # 0 => c[o] # 0

\* The current Promotion's collection is the one it would be given now, and what
\* the last one recorded covers every origin the Stage runs.
CarryInv ==
    /\ \A c \in Names : c = stage.current =>
          /\ promo[c].collection # NoCollection => promo[c].collection = NewFreightCollection(c)
          /\ promo[c].phase = "Succeeded" => promo[c].collection # NoCollection
    /\ stage.lastCollection # NoCollection => Covers(stage.lastCollection, stage.running)

\* Collection c has the Freight of every success in R, or else there is a later
\* Promotion in R of other Freight of the same origin.
Reflects(c, R) ==
    \A p \in R : promo[p].phase = "Succeeded" =>
        \/ c[promo[p].origin] = promo[p].freight
        \/ \E r \in R : /\ r > p
                        /\ promo[r].origin = promo[p].origin
                        /\ promo[r].freight # promo[p].freight

\* The Stage knows what it runs.
RunInv ==
    /\ Reflects(stage.running, Replayed)
    /\ stage.lastCollection # NoCollection => Reflects(stage.lastCollection, Replayed)

\* A pass picks nothing the Stage runs.
PickInv ==
    pass.at = "deciding" =>
        \A o \in Origins : pass.pick[o] # 0 => stage.running[o] # pass.pick[o]

\* The informer shows the hold h on origin o, and nobody has withdrawn it.
Hold(o, h) ==
    /\ h \in Cached
    /\ pCache[h].phase # "Aborted" /\ pCache[h].origin = o /\ pCache[h].intent = "hold"

\* The hold h on origin o has been released since, perhaps by a Promotion that was
\* aborted later.
ReleasedSince(o, h) ==
    \E r \in Cached : r > h /\ pCache[r].origin = o /\ pCache[r].intent = "resume"

\* The pass may still promote Freight of origin o.
Pending(o) ==
    \/ pass.at = "holding" /\ o \notin pass.held
    \/ pass.at = "deciding" /\ pass.pick[o] # 0

\* At most one auto-promotion overtakes a hold, and if one is still to come, none
\* has.  A hold is overtaken only once the informer has it.
OvertakeInv ==
    /\ \A p \in Created : promo[p].overtakes # 0 => promo[p].overtakes \in Cached
    /\ \A o \in Origins, h \in Names : Hold(o, h) =>
          /\ \A p, q \in Overtaking(o, h) : p = q
          /\ Pending(o) /\ ~ReleasedSince(o, h) => Overtaking(o, h) = {}

(***************************************************************************)
(* The operators                                                           *)
(***************************************************************************)

\* MaxOf picks the largest member of a set of numbers with an upper bound.
LEMMA MaxOfLemma ==
    ASSUME NEW n \in Nat, NEW S, S \subseteq 0 .. n, S # {}
    PROVE  /\ MaxOf(S) \in S
           /\ \A q \in S : q <= MaxOf(S)
<1> DEFINE T == {n - p : p \in S}
<1>1. T \subseteq Nat /\ T # {}
  <2>1. \A p \in S : n - p \in Nat
    OBVIOUS
  <2> QED
    BY <2>1, Zenon
<1>2. PICK x \in T : \A y \in T : ~(<<y, x>> \in OpToRel(<, Nat))
  BY <1>1, NatLessThanWellFounded, WFMin, Zenon
<1>3. PICK m \in S : x = n - m
  BY <1>2
<1>4. \A q \in S : q <= m
  <2> SUFFICES ASSUME NEW q \in S PROVE q <= m
    OBVIOUS
  <2>1. n - q \in T /\ n - q \in Nat /\ x \in Nat
    BY <1>1, <1>2
  <2>2. ~(n - q < x)
    BY <1>2, <2>1 DEF OpToRel
  <2> QED
    BY <2>1, <2>2, <1>3
<1> QED
  BY <1>3, <1>4 DEF MaxOf

\* The same for sets of Promotions.
LEMMA MaxOfNames ==
    ASSUME NEW S, S \subseteq Names, S # {}
    PROVE  /\ MaxOf(S) \in S
           /\ \A q \in S : q <= MaxOf(S)
<1>1. N \in Nat /\ S \subseteq 0 .. N
  BY AutoPromotionAssumption DEF Names
<1> QED
  BY <1>1, MaxOfLemma

\* There is a first Promotion in every set of them.
LEMMA MinOfNames ==
    ASSUME NEW S, S \subseteq Names, S # {}
    PROVE  \E m \in S : \A q \in S : m <= q
<1>1. S \subseteq Nat
  BY AutoPromotionAssumption DEF Names
<1>2. PICK x \in S : \A y \in S : ~(<<y, x>> \in OpToRel(<, Nat))
  BY <1>1, NatLessThanWellFounded, WFMin, Zenon
<1>3. ASSUME NEW q \in S PROVE x <= q
  <2>1. ~(q < x)
    BY <1>1, <1>2 DEF OpToRel
  <2> QED
    BY <1>1, <2>1
<1> QED
  BY <1>3

\* p decides about origin o.
Decides(p, o) ==
    pCache[p].phase # "Aborted" /\ pCache[p].origin = o /\ pCache[p].intent # "none"

\* d is the newest Promotion of S that decides about origin o; 0: there is none.
IsDecider(d, S, o) ==
    \/ d = 0 /\ \A p \in S : ~Decides(p, o)
    \/ d \in S /\ Decides(d, o) /\ \A p \in S : Decides(p, o) => p <= d

\* Decider finds the newest deciding Promotion, and there is only one.
LEMMA DeciderLemma ==
    ASSUME NEW S, S \subseteq Names, NEW o
    PROVE  /\ IsDecider(Decider(S, o), S, o)
           /\ \A d : IsDecider(d, S, o) => d = Decider(S, o)
<1> DEFINE T == {p \in S : /\ pCache[p].phase # "Aborted"
                           /\ pCache[p].origin = o
                           /\ pCache[p].intent # "none"}
<1>0. Names \subseteq Nat /\ 0 \notin Names
  BY AutoPromotionAssumption DEF Names
<1>1. \A p : p \in T <=> p \in S /\ Decides(p, o)
  BY DEF Decides
<1>2. Decider(S, o) = IF T = {} THEN 0 ELSE MaxOf(T)
  BY DEF Decider, MaxOrZero
<1> HIDE DEF T
<1>3. T # {} => MaxOf(T) \in T /\ \A q \in T : q <= MaxOf(T)
  BY <1>1, MaxOfNames
<1>4. IsDecider(Decider(S, o), S, o)
  BY <1>1, <1>2, <1>3 DEF IsDecider
<1>5. ASSUME NEW d, IsDecider(d, S, o) PROVE d = Decider(S, o)
  <2>1. CASE d = 0 /\ \A p \in S : ~Decides(p, o)
    BY <1>1, <1>2, <2>1
  <2>2. CASE d \in S /\ Decides(d, o) /\ \A p \in S : Decides(p, o) => p <= d
    <3>1. d \in T /\ MaxOf(T) \in T /\ d <= MaxOf(T) /\ MaxOf(T) <= d
      BY <1>1, <1>3, <2>2
    <3>2. d \in Nat /\ MaxOf(T) \in Nat
      BY <1>0, <1>1, <3>1
    <3> QED
      BY <1>2, <3>1, <3>2
  <2> QED
    BY <1>5, <2>1, <2>2 DEF IsDecider
<1> QED
  BY <1>4, <1>5

\* The newest Freight of an origin is available and has a number.
LEMMA NewestLemma ==
    ASSUME NameInv, NEW o \in Origins
    PROVE  /\ MaxOf(available[o]) \in available[o]
           /\ MaxOf(available[o]) \in Nat \ {0}
           /\ available[o] \subseteq Nat \ {0}
           /\ Candidate(o) \in Nat
<1>1. Supply[o] \in Nat
  BY AutoPromotionAssumption
<1>2. available[o] # {} /\ available[o] \subseteq 1 .. Supply[o]
  BY DEF NameInv
<1>3. available[o] \subseteq 0 .. Supply[o] /\ available[o] \subseteq Nat \ {0}
  BY <1>1, <1>2
<1>4. MaxOf(available[o]) \in available[o]
  BY <1>1, <1>2, <1>3, MaxOfLemma
<1> QED
  BY <1>3, <1>4 DEF Candidate

\* The next name is the one after all those given out.
LEMMA NextNameLemma ==
    ASSUME NameInv
    PROVE  \E c \in NilOrName : Created = 1 .. c /\ NextName = c + 1
<1>1. PICK c \in NilOrName : Created = 1 .. c
  BY DEF NameInv
<1>2. c \in Nat
  BY <1>1, AutoPromotionAssumption DEF NilOrName
<1>3. Cardinality(1 .. c) = c
  BY <1>2, FS_Interval
<1> QED
  BY <1>1, <1>3 DEF NextName

\* The next name, if there is one left, has not been given out.
LEMMA NextNameFree ==
    ASSUME NameInv, NextName <= N
    PROVE  /\ NextName \in Names /\ promo[NextName].phase = "absent"
           /\ \A p \in Created : p < NextName
           /\ \A p \in 1 .. (NextName - 1) : p \in Created
<1>1. PICK c \in NilOrName : Created = 1 .. c /\ NextName = c + 1
  BY NextNameLemma
<1>2. c \in Nat /\ N \in Nat
  BY <1>1, AutoPromotionAssumption DEF NilOrName
<1>3. NextName \in Names /\ NextName \notin Created
  BY <1>1, <1>2 DEF Names
<1> QED
  BY <1>1, <1>2, <1>3 DEF Created

\* The head of the queue exists: a Running Promotion if there is one, else the
\* oldest Pending one.
LEMMA IsNextExists ==
    ASSUME TypeOK, SeenWaiting # {}
    PROVE  \E p \in SeenWaiting : IsNext(p)
<1>0. N \in Nat /\ Names \subseteq Nat
  BY AutoPromotionAssumption DEF Names
<1>1. SeenWaiting \subseteq Names /\ \A p \in SeenWaiting : pCache[p].phase \in {"Pending", "Running"}
  BY DEF SeenWaiting, Seen, Cached, NonTerminal
<1> DEFINE first == {p \in SeenWaiting : pCache[p].phase = "Running"}
<1>2. CASE first # {}
  <2>1. PICK m \in first : \A q \in first : m <= q
    BY <1>1, <1>2, MinOfNames
  <2>2. ASSUME NEW q \in SeenWaiting \ {m} PROVE Before(m, q)
    BY <1>0, <1>1, <2>1, <2>2 DEF Before
  <2> QED
    BY <2>1, <2>2 DEF IsNext
<1>3. CASE first = {}
  <2>1. PICK m \in SeenWaiting : \A q \in SeenWaiting : m <= q
    BY <1>1, MinOfNames
  <2>2. ASSUME NEW q \in SeenWaiting \ {m} PROVE Before(m, q)
    BY <1>0, <1>1, <1>3, <2>1, <2>2 DEF Before
  <2> QED
    BY <2>1, <2>2 DEF IsNext
<1> QED
  BY <1>2, <1>3

(***************************************************************************)
(* Types and names                                                         *)
(***************************************************************************)

\* The Stage stays well formed when finished Promotions are replayed.
LEMMA ReplayType ==
    ASSUME TypeOK
    PROVE  Replay \in StageStatus
<1> DEFINE bearers == {p \in NewPromos : pCache[p].started \/ pCache[p].collection # NoCollection}
           succeeded == {p \in NewPromos : pCache[p].phase = "Succeeded"}
<1>1. NewPromos \subseteq Names /\ bearers \subseteq Names /\ succeeded \subseteq Names
  BY DEF NewPromos, Seen, Cached
<1>2. /\ NewPromos # {} => MaxOf(NewPromos) \in Names
      /\ bearers # {} => MaxOf(bearers) \in Names
      /\ succeeded # {} => MaxOf(succeeded) \in Names
  BY <1>1, MaxOfNames
<1>3. \A p \in Names : pCache[p].collection \in Collection
  BY DEF TypeOK, Promotion
<1>4. /\ stage.last \in NilOrName /\ stage.lastCollection \in Collection
      /\ stage.running \in Collection
  BY DEF TypeOK, StageStatus
<1>5. 0 \in NilOrName /\ Names \subseteq NilOrName
  BY AutoPromotionAssumption DEF Names, NilOrName
<1>6. Applied(stage.holds, NewPromos) \in SUBSET Origins
  BY DEF Applied
<1> HIDE DEF bearers, succeeded
<1>7. (IF NewPromos = {} THEN stage.last ELSE MaxOf(NewPromos)) \in NilOrName
  BY <1>2, <1>4, <1>5
<1>8. (IF bearers = {} THEN stage.lastCollection ELSE pCache[MaxOf(bearers)].collection)
        \in Collection
  BY <1>2, <1>3, <1>4
<1>9. (IF succeeded = {} THEN stage.running ELSE pCache[MaxOf(succeeded)].collection)
        \in Collection
  BY <1>2, <1>3, <1>4
<1> QED
  BY <1>5, <1>6, <1>7, <1>8, <1>9 DEF Replay, StageStatus, bearers, succeeded

\* So it does when a Promotion is elected.
LEMMA ElectType ==
    ASSUME TypeOK, NEW p \in NilOrName
    PROVE  Elect(p) \in StageStatus
<1>1. stage \in StageStatus
  BY DEF TypeOK
<1>2. (pCache[p].collection # NoCollection) \in BOOLEAN
  OBVIOUS
<1> QED
  BY <1>1, <1>2 DEF Elect, StageStatus

\* What a new collection holds is Freight.
LEMMA NewFreightCollectionType ==
    ASSUME TypeOK, NEW p \in Names
    PROVE  NewFreightCollection(p) \in Collection
<1>1. InheritableFreight \in Collection
  BY DEF InheritableFreight, TypeOK, StageStatus
<1>2. promo[p].freight \in Nat
  BY DEF TypeOK, Promotion
<1> QED
  BY <1>1, <1>2 DEF NewFreightCollection, Collection

\* Nothing but Freight is ever picked.
LEMMA ChosenType ==
    ASSUME TypeOK, NameInv, NEW o \in Origins
    PROVE  Chosen(o) \in Nat
BY NewestLemma DEF Chosen

\* A Promotion is created under the next name.
Born(q) ==
    /\ q = NextName /\ q \in Names /\ promo[q].phase = "absent"
    /\ promo'[q] \in Promotion
    /\ promo'[q].phase = "Pending" /\ ~promo'[q].deleted
    /\ promo'[q].collection = NoCollection /\ promo'[q].freight # 0
    /\ \A p \in Names \ {q} : promo'[p] = promo[p]
    /\ promo' \in [Names -> Promotion]

\* Promotion p remains what it was created for.
Same(p) == SameFor(promo'[p], promo[p])

\* A Promotion that exists makes progress or is deleted.
Moves(q) ==
    /\ q \in Created /\ promo'[q].phase # "absent"
    /\ promo' \in [Names -> Promotion]
    /\ Same(q)
    /\ promo[q].deleted => promo'[q].deleted
    /\ \A p \in Names \ {q} : promo'[p] = promo[p]

\* A new record is a Promotion.
LEMMA BornFrom ==
    ASSUME TypeOK, NameInv, NextName <= N,
           NEW r \in Promotion, r.phase = "Pending", ~r.deleted,
           r.collection = NoCollection, r.freight # 0,
           promo' = [promo EXCEPT ![NextName] = r]
    PROVE  Born(NextName)
<1>1. NextName \in Names /\ promo[NextName].phase = "absent"
  BY NextNameFree
<1>2. promo \in [Names -> Promotion]
  BY DEF TypeOK
<1>3. promo' \in [Names -> Promotion] /\ promo'[NextName] = r
  BY <1>1, <1>2
<1>4. \A p \in Names \ {NextName} : promo'[p] = promo[p]
  BY <1>1, <1>2
<1> QED
  BY <1>1, <1>3, <1>4 DEF Born

\* The hold an auto-promotion overtakes is a Promotion that the informer has.
LEMMA StandingType ==
    ASSUME NEW o
    PROVE  Standing(o) # 0 => Standing(o) \in Cached /\ Standing(o) \in Names
<1>1. Cached \subseteq Names
  BY DEF Cached
<1>2. IsDecider(Standing(o), Cached, o)
  BY <1>1, DeciderLemma DEF Standing
<1> QED
  BY <1>1, <1>2 DEF IsDecider

\* What an iteration of autoPromoteFreight's loop creates for origin o.
Creates(o) ==
    /\ Born(NextName) /\ Eligible(o, pass.pick[o])
    /\ promo'[NextName].auto /\ promo'[NextName].origin = o
    /\ promo'[NextName].freight = pass.pick[o] /\ promo'[NextName].intent = "none"
    /\ promo'[NextName].overtakes = IF IsHeld(o) THEN Standing(o) ELSE 0

\* autoPromoteFreight either creates the Promotion it decided on or none.
LEMMA AutoPromoteBorn ==
    ASSUME TypeOK, NameInv, NEW admitted \in BOOLEAN, AutoPromoteFreight(admitted)
    PROVE  /\ pass.at = "deciding" /\ UNCHANGED <<available, pCache, stage>>
           /\ \E o \in Origins : /\ pass.pick[o] # 0
                                 /\ pass' = Visit([pass.pick EXCEPT ![o] = 0])
                                 /\ promo' = promo \/ Creates(o)
<1>1. PICK o \in Origins :
        /\ NextVisited(o)
        /\ promo' = IF admitted /\ Eligible(o, pass.pick[o]) /\ NextName <= N
                    THEN Autopromoted(o, pass.pick[o]) ELSE promo
        /\ pass' = Visit([pass.pick EXCEPT ![o] = 0])
        /\ UNCHANGED <<available, pCache, stage>>
  BY Zenon DEF AutoPromoteFreight
<1> DEFINE f == pass.pick[o]
           h == IF IsHeld(o) THEN Standing(o) ELSE 0
           r == [NoPromotion EXCEPT !.phase = "Pending", !.auto = TRUE, !.overtakes = h,
                                    !.origin = o, !.freight = f]
<1>2. f \in Nat /\ f # 0
  BY <1>1 DEF TypeOK, Pass, Collection, NextVisited
<1>3. pass.at = "deciding"
  BY <1>2 DEF TypeOK, NoCollection
<1>4. ASSUME Eligible(o, f), NextName <= N, promo' = [promo EXCEPT ![NextName] = r]
      PROVE  Creates(o)
  <2>1. NoCollection \in Collection
    BY DEF NoCollection, Collection
  <2>2. h \in NilOrName
    <3>1. 0 \in NilOrName /\ Names \subseteq NilOrName
      BY AutoPromotionAssumption DEF Names, NilOrName
    <3> QED
      BY <3>1, StandingType DEF IsHeld
  <2> HIDE DEF f, h
  <2>3. /\ r \in Promotion /\ r.phase = "Pending" /\ ~r.deleted /\ r.collection = NoCollection
        /\ r.freight = f /\ r.auto /\ r.origin = o /\ r.intent = "none" /\ r.overtakes = h
    BY <1>2, <2>1, <2>2 DEF NoPromotion, Promotion, NonTerminal
  <2> HIDE DEF r
  <2>4. Born(NextName)
    BY <1>2, <1>4, <2>3, BornFrom
  <2>5. promo'[NextName] = r
    BY <1>4, <2>4 DEF Born, TypeOK
  <2> QED
    BY <1>4, <2>3, <2>4, <2>5 DEF Creates, f, h
<1>5. promo' = promo \/ (Eligible(o, f) /\ NextName <= N /\ promo' = [promo EXCEPT ![NextName] = r])
  BY <1>1 DEF Autopromoted
<1> QED
  BY <1>1, <1>2, <1>3, <1>4, <1>5

\* A user's Promotion is created with an intent.
LEMMA PromoteBorn ==
    ASSUME TypeOK, NameInv, NEW o \in Origins, NEW f \in available[o], Promote(o, f)
    PROVE  /\ Born(NextName)
           /\ ~promo'[NextName].auto /\ promo'[NextName].origin = o
           /\ promo'[NextName].intent \in {"hold", "resume"} /\ promo'[NextName].overtakes = 0
<1> DEFINE r == [NoPromotion EXCEPT !.phase = "Pending", !.origin = o, !.freight = f,
                                    !.intent = SyncHoldAnnotations(o, f)]
<1>1. f \in Nat /\ f # 0
  BY NewestLemma
<1>2. NoCollection \in Collection
  BY DEF NoCollection, Collection
<1>3. SyncHoldAnnotations(o, f) \in {"hold", "resume"}
  BY DEF SyncHoldAnnotations
<1>4. /\ r \in Promotion /\ r.phase = "Pending" /\ ~r.deleted /\ r.collection = NoCollection
      /\ r.freight = f /\ ~r.auto /\ r.origin = o /\ r.intent \in {"hold", "resume"}
      /\ r.overtakes = 0
  <2>1. 0 \in NilOrName
    BY AutoPromotionAssumption DEF NilOrName
  <2> QED
    BY <1>1, <1>2, <1>3, <2>1 DEF NoPromotion, Promotion, NonTerminal
<1>5. NextName <= N /\ promo' = [promo EXCEPT ![NextName] = r]
  BY DEF Promote
<1> HIDE DEF r
<1>6. Born(NextName)
  BY <1>1, <1>4, <1>5, BornFrom
<1>7. promo'[NextName] = r
  BY <1>5, <1>6 DEF Born, TypeOK
<1> QED
  BY <1>4, <1>6, <1>7

\* A step of the Promotion reconciler, an abort or a deletion.
Progress(p) ==
    Start(p) \/ ExecuteSteps(p) \/ FailToExecute(p) \/ Abort(p) \/ CollectGarbage(p)

\* The informer sees what becomes of Promotion p, and nothing else.
Noticed(p) ==
    /\ pCache' \in [Names -> Promotion] /\ pCache'[p] = promo'[p]
    /\ \A q \in Names \ {p} : pCache'[q] = pCache[q]

\* Each of them moves one Promotion.
LEMMA ProgressMoves ==
    ASSUME TypeOK, NEW p \in Names, Progress(p)
    PROVE  Moves(p) /\ (pCache' = pCache \/ Noticed(p)) /\ UNCHANGED <<available, stage, pass>>
<1> USE DEF Terminal, NonTerminal, SameFor
<1>0. promo \in [Names -> Promotion] /\ promo[p] \in Promotion
  BY DEF TypeOK
<1>1. CASE Start(p)
  BY <1>0, <1>1 DEF Start, Moves, Same, Created, Promotion
<1>2. CASE ExecuteSteps(p)
  <2>1. NewFreightCollection(p) \in Collection
    BY NewFreightCollectionType
  <2>2. PICK outcome \in {"Running", "Succeeded", "Failed"} :
          promo' = [promo EXCEPT ![p].phase = outcome, ![p].collection = NewFreightCollection(p)]
    BY <1>2 DEF ExecuteSteps
  <2>3. promo[p].phase = "Running" /\ UNCHANGED <<available, pCache, stage, pass>>
    BY <1>2 DEF ExecuteSteps
  <2> QED
    BY <1>0, <2>1, <2>2, <2>3 DEF Moves, Same, Created, Promotion
<1>3. CASE FailToExecute(p)
  BY <1>0, <1>3 DEF FailToExecute, Moves, Same, Created, Promotion
<1>4. CASE Abort(p)
  BY <1>0, <1>4 DEF Abort, Moves, Same, Waiting, Listed, Created, Promotion
<1>5. CASE CollectGarbage(p)
  <2>1. NoCollection \in Collection
    BY DEF NoCollection, Collection
  <2>2. p \in Created /\ p \in Garbage
    BY <1>5 DEF CollectGarbage, Garbage, Listed
  <2> DEFINE d == Deleted(p)
  <2>3. /\ d \in Promotion /\ d.deleted /\ d.phase = promo[p].phase /\ SameFor(d, promo[p])
    BY <1>0, <2>1 DEF Deleted, Promotion
  <2>4. /\ promo' = [promo EXCEPT ![p] = d]
        /\ pCache' = IF pCache[p] = promo[p] THEN [pCache EXCEPT ![p] = d] ELSE pCache
        /\ UNCHANGED <<available, stage, pass>>
    BY <1>5 DEF CollectGarbage
  <2> HIDE DEF d
  <2>5. pCache \in [Names -> Promotion]
    BY DEF TypeOK
  <2>6. Moves(p)
    BY <1>0, <2>2, <2>3, <2>4 DEF Moves, Same, Created
  <2>7. pCache' = pCache \/ Noticed(p)
    BY <1>0, <2>2, <2>3, <2>4, <2>5 DEF Noticed
  <2> QED
    BY <2>4, <2>6, <2>7
<1> QED
  BY <1>1, <1>2, <1>3, <1>4, <1>5 DEF Progress

\* Giving out a name, or moving a Promotion, keeps the names in order.
LEMMA NamesKept ==
    ASSUME TypeOK, NameInv, NEW q \in Names, Born(q) \/ Moves(q) \/ promo' = promo,
           available' = available
    PROVE  NameInv'
<1>1. PICK c \in NilOrName : Created = 1 .. c /\ NextName = c + 1
  BY NextNameLemma
<1>2. N \in Nat /\ c \in Nat /\ c <= N
  BY <1>1, AutoPromotionAssumption DEF NilOrName
<1>3. CASE Born(q)
  <2>1. q = c + 1 /\ q <= N
    BY <1>1, <1>2, <1>3 DEF Born, Names
  <2>2. Created' = Created \cup {q}
    BY <1>3 DEF Born, Created
  <2>3. Created' = 1 .. (c + 1) /\ c + 1 \in NilOrName
    BY <1>1, <1>2, <2>1, <2>2 DEF NilOrName
  <2>4. \A p \in Created' : promo'[p].freight # 0
    BY <1>3, <2>2 DEF Born, NameInv, Created
  <2> QED
    BY <2>3, <2>4 DEF NameInv
<1>4. CASE Moves(q)
  <2>1. Created' = Created
    BY <1>4 DEF Moves, Created
  <2>2. \A p \in Created' : promo'[p].freight # 0
    BY <1>4, <2>1 DEF Moves, Same, SameFor, NameInv, Created
  <2> QED
    BY <2>1, <2>2 DEF NameInv
<1>5. CASE promo' = promo
  BY <1>5 DEF NameInv, Created
<1> QED
  BY <1>3, <1>4, <1>5

\* TypeOK and NameInv are inductive together.
LEMMA BaseStep == TypeOK /\ NameInv /\ [Next]_vars => TypeOK' /\ NameInv'
<1> SUFFICES ASSUME TypeOK, NameInv, [Next]_vars PROVE TypeOK' /\ NameInv'
  OBVIOUS
<1>0. /\ NOrigins \in Nat /\ 1 \in Origins /\ N \in Nat
      /\ 0 \in NilOrName /\ Names \subseteq NilOrName
  BY AutoPromotionAssumption DEF Origins, Names, NilOrName
<1>a. NoCollection \in Collection
  BY DEF NoCollection, Collection
<1>b. IdlePass \in Pass
  BY <1>a DEF IdlePass, Pass
<1>c. ASSUME NEW pick \in Collection
      PROVE  Visit(pick) \in Pass /\ (Visit(pick).at = "deciding" <=> Visit(pick).pick # NoCollection)
  BY <1>a, <1>b DEF Visit, IdlePass, Pass
<1>1. ASSUME NEW open \in BOOLEAN, SyncPromotions(open) PROVE TypeOK' /\ NameInv'
  <2>1. pass' \in Pass /\ pass'.at # "deciding" /\ pass'.pick = NoCollection
    BY <1>1 DEF SyncPromotions, TypeOK, Pass
  <2>2. Replay \in StageStatus
    BY ReplayType
  <2>3. [stage EXCEPT !.current = 0, !.awaited = FALSE] \in StageStatus
    BY <1>0 DEF TypeOK, StageStatus
  <2>4. SeenWaiting # {} => Elect(CHOOSE p \in SeenWaiting : IsNext(p)) \in StageStatus
    <3> HAVE SeenWaiting # {}
    <3>1. (CHOOSE p \in SeenWaiting : IsNext(p)) \in SeenWaiting
      BY IsNextExists
    <3>2. (CHOOSE p \in SeenWaiting : IsNext(p)) \in NilOrName
      BY <1>0, <3>1 DEF SeenWaiting, Seen, Cached
    <3> QED
      BY <3>2, ElectType
  <2>5. stage' \in StageStatus
    BY <1>1, <2>2, <2>3, <2>4 DEF SyncPromotions, TypeOK
  <2> QED
    BY <1>1, <2>1, <2>5 DEF SyncPromotions, TypeOK, NameInv, Created
<1>2. CASE ComputeHolds
  <2>1. EffectiveHolds \subseteq Origins
    BY DEF EffectiveHolds, Applied
  <2>2. pass' \in Pass /\ pass'.at # "deciding" /\ pass'.pick = NoCollection
    BY <1>2, <2>1 DEF ComputeHolds, TypeOK, Pass
  <2> QED
    BY <1>2, <2>2 DEF ComputeHolds, TypeOK, NameInv, Created
<1>2a. CASE SelectCandidates
  <2>1. [o \in Origins |-> Chosen(o)] \in Collection
    BY ChosenType DEF Collection
  <2>2. pass' \in Pass /\ (pass'.at = "deciding" <=> pass'.pick # NoCollection)
    BY <1>2a, <1>c, <2>1 DEF SelectCandidates
  <2> QED
    BY <1>2a, <2>2 DEF SelectCandidates, TypeOK, NameInv, Created
<1>3. ASSUME NEW admitted \in BOOLEAN, AutoPromoteFreight(admitted) PROVE TypeOK' /\ NameInv'
  <2>1. UNCHANGED <<available, pCache, stage>>
    BY <1>3, AutoPromoteBorn
  <2>2. PICK o \in Origins : /\ pass' = Visit([pass.pick EXCEPT ![o] = 0])
                             /\ promo' = promo \/ Creates(o)
    BY <1>3, AutoPromoteBorn
  <2>3. [pass.pick EXCEPT ![o] = 0] \in Collection
    BY DEF TypeOK, Pass, Collection
  <2>4. pass' \in Pass /\ (pass'.at = "deciding" <=> pass'.pick # NoCollection)
    BY <1>c, <2>2, <2>3
  <2>5. promo' = promo \/ Born(NextName)
    BY <2>2 DEF Creates
  <2>6. promo' \in [Names -> Promotion]
    BY <2>5 DEF Born, TypeOK
  <2>7. NameInv'
    <3>1. CASE promo' = promo
      BY <2>1, <3>1 DEF NameInv, Created
    <3>2. CASE Born(NextName)
      BY <2>1, <3>2, NamesKept DEF Born
    <3> QED
      BY <2>5, <3>1, <3>2
  <2> QED
    BY <2>1, <2>4, <2>6, <2>7 DEF TypeOK
<1>4. ASSUME NEW p \in Names, Progress(p) PROVE TypeOK' /\ NameInv'
  <2>1. Moves(p) /\ (pCache' = pCache \/ Noticed(p)) /\ UNCHANGED <<available, stage, pass>>
    BY <1>4, ProgressMoves
  <2>2. NameInv'
    BY <2>1, NamesKept
  <2> QED
    BY <2>1, <2>2 DEF Moves, Noticed, TypeOK
<1>5. ASSUME NEW o \in Origins, Discover(o) \/ Withdraw(o) PROVE TypeOK' /\ NameInv'
  <2>1. UNCHANGED <<promo, pCache, stage, pass>>
    BY <1>5 DEF Discover, Withdraw
  <2> DEFINE m == MaxOf(available[o])
  <2>2. /\ m \in available[o] /\ m \in Nat /\ Supply[o] \in Nat
        /\ available[o] \subseteq 1 .. Supply[o]
    BY NewestLemma, AutoPromotionAssumption DEF NameInv
  <2>3. available \in [Origins -> SUBSET Nat]
    BY DEF TypeOK
  <2>4. \E S \in SUBSET (1 .. Supply[o]) : S # {} /\ available' = [available EXCEPT ![o] = S]
    <3>1. CASE Discover(o)
      <4>1. m < Supply[o] /\ available' = [available EXCEPT ![o] = available[o] \cup {m + 1}]
        BY <3>1 DEF Discover
      <4>2. available[o] \cup {m + 1} \in SUBSET (1 .. Supply[o])
        BY <2>2, <4>1
      <4> QED
        BY <4>1, <4>2
    <3>2. CASE Withdraw(o)
      <4>1. PICK f \in available[o] : f # m /\ available' = [available EXCEPT ![o] = @ \ {f}]
        BY <3>2 DEF Withdraw
      <4>2. m \in available[o] \ {f} /\ available[o] \ {f} \in SUBSET (1 .. Supply[o])
        BY <2>2, <4>1
      <4> QED
        BY <4>1, <4>2
    <3> QED
      BY <1>5, <3>1, <3>2
  <2>5. PICK S \in SUBSET (1 .. Supply[o]) : S # {} /\ available' = [available EXCEPT ![o] = S]
    BY <2>4
  <2>6. S \in SUBSET Nat
    BY <2>2
  <2>7. available' \in [Origins -> SUBSET Nat]
    BY <2>3, <2>5, <2>6
  <2>8. \A x \in Origins : available'[x] # {} /\ available'[x] \subseteq 1 .. Supply[x]
    BY <2>3, <2>5 DEF NameInv
  <2> QED
    BY <2>1, <2>7, <2>8 DEF TypeOK, NameInv, Created
<1>6. ASSUME NEW o \in Manual, NEW f \in available[o], Promote(o, f) PROVE TypeOK' /\ NameInv'
  <2>1. o \in Origins
    BY AutoPromotionAssumption
  <2>2. Born(NextName)
    BY <1>6, <2>1, PromoteBorn
  <2>3. UNCHANGED <<available, pCache, stage, pass>>
    BY <1>6 DEF Promote
  <2>4. NameInv'
    BY <2>2, <2>3, NamesKept DEF Born
  <2> QED
    BY <2>2, <2>3, <2>4 DEF Born, TypeOK
<1>7. CASE SyncPromotionCache
  BY <1>7 DEF SyncPromotionCache, TypeOK, NameInv, Created
<1>8. CASE UNCHANGED vars
  BY <1>8 DEF vars, TypeOK, NameInv, Created
<1> QED
  BY <1>1, <1>2, <1>2a, <1>3, <1>4, <1>5, <1>6, <1>7, <1>8 DEF Next, ReconcileStage, Progress

\* The first state is well formed.
LEMMA InitBase ==
    ASSUME Init
    PROVE  TypeOK /\ NameInv
<1>0. /\ NOrigins \in Nat /\ 1 \in Origins /\ N \in Nat /\ 0 \in NilOrName
  BY AutoPromotionAssumption DEF Origins, NilOrName
<1>a. NoCollection \in Collection
  BY DEF NoCollection, Collection
<1>1. NoPromotion \in Promotion /\ IdlePass \in Pass
  BY <1>0, <1>a DEF NoPromotion, Promotion, IdlePass, Pass
<1>2. stage \in StageStatus
  <2>1. Initially \in Collection
    BY AutoPromotionAssumption DEF Collection
  <2> QED
    BY <1>0, <2>1 DEF Init, StageStatus
<1>3. /\ available \in [Origins -> SUBSET Nat]
      /\ promo \in [Names -> Promotion]
      /\ pCache \in [Names -> Promotion]
  BY <1>1 DEF Init
<1>4. Created = {} /\ 1 .. 0 = {}
  BY DEF Init, Created, NoPromotion
<1>5. \A o \in Origins : available[o] # {} /\ available[o] \subseteq 1 .. Supply[o]
  <2> SUFFICES ASSUME NEW o \in Origins
               PROVE  available[o] # {} /\ available[o] \subseteq 1 .. Supply[o]
    OBVIOUS
  <2>1. Supply[o] \in Nat \ {0}
    BY AutoPromotionAssumption
  <2>2. available[o] = {1}
    BY DEF Init
  <2> QED
    BY <2>1, <2>2
<1>6. pass = IdlePass /\ pass.at # "deciding" /\ pass.pick = NoCollection
  BY DEF Init, IdlePass
<1> QED
  BY <1>0, <1>1, <1>2, <1>3, <1>4, <1>5, <1>6 DEF TypeOK, NameInv

\* Names are always given out in order.
THEOREM AlwaysNameInv == Spec => [](TypeOK /\ NameInv)
BY InitBase, BaseStep, PTL DEF Spec

\* Every variable keeps its shape: in particular the loop over the origins ends at
\* the last one there is something to promote of, and currentPromotion and
\* lastPromotion only ever name Promotions (syncPromotions, autoPromoteFreight).
THEOREM TypeCorrect == Spec => []TypeOK
BY AlwaysNameInv, PTL

(***************************************************************************)
(* Taking turns                                                            *)
(***************************************************************************)

\* Promotions are aborted only when it is their turn.
TurnsTaken == AbortQueued = FALSE

\* Numbers that the proofs about the queue need.
LEMMA Numbers ==
    ASSUME TypeOK
    PROVE  /\ N \in Nat /\ Names \subseteq Nat /\ 0 \notin Names
           /\ stage.last \in Nat /\ stage.current \in Nat
           /\ stage.current # 0 => stage.current \in Names
           /\ stage.last # 0 => stage.last \in Names
BY AutoPromotionAssumption DEF TypeOK, StageStatus, NilOrName, Names

\* A Promotion behind lastPromotion waits, unless it is the current one.
LEMMA WaitingLemma ==
    ASSUME TypeOK, QueueInv
    PROVE  /\ \A q \in Waiting : q \in Names /\ q > stage.last
           /\ \A q \in Waiting : q # stage.current => promo[q].phase = "Pending"
           /\ \A q \in Listed : q > stage.last /\ q # stage.current => q \in Waiting
<1>1. ASSUME NEW q \in Waiting PROVE q \in Names /\ q > stage.last
  <2>1. q \in Names /\ promo[q].phase \in {"Pending", "Running"}
    BY DEF Waiting, Listed, Created, NonTerminal
  <2>2. ~(q <= stage.last)
    BY <2>1 DEF QueueInv, Terminal
  <2> QED
    BY <2>1, <2>2, Numbers
<1>2. ASSUME NEW q \in Waiting, q # stage.current PROVE promo[q].phase = "Pending"
  BY <1>1, <1>2 DEF QueueInv, Waiting, Listed, Created
<1>3. ASSUME NEW q \in Listed, q > stage.last, q # stage.current PROVE q \in Waiting
  BY <1>3 DEF QueueInv, Waiting, Listed, Created, NonTerminal
<1> QED
  BY <1>1, <1>2, <1>3

\* So it does for the informer.
LEMMA SeenLemma ==
    ASSUME TypeOK, CacheInv
    PROVE  /\ \A q \in SeenWaiting : q \in Names /\ q > stage.last
           /\ \A q \in SeenWaiting : q # stage.current => pCache[q].phase = "Pending"
           /\ \A q \in Seen : q > stage.last /\ q # stage.current => q \in SeenWaiting
<1>1. ASSUME NEW q \in SeenWaiting PROVE q \in Names /\ q > stage.last
  <2>1. q \in Names /\ pCache[q].phase \in {"Pending", "Running"}
    BY DEF SeenWaiting, Seen, Cached, NonTerminal
  <2>2. ~(q <= stage.last)
    BY <2>1 DEF CacheInv, Terminal
  <2> QED
    BY <2>1, <2>2, Numbers
<1>2. ASSUME NEW q \in SeenWaiting, q # stage.current PROVE pCache[q].phase = "Pending"
  BY <1>1, <1>2 DEF CacheInv, SeenWaiting, Seen, Cached
<1>3. ASSUME NEW q \in Seen, q > stage.last, q # stage.current PROVE q \in SeenWaiting
  BY <1>3 DEF CacheInv, SeenWaiting, Seen, Cached, NonTerminal
<1> QED
  BY <1>1, <1>2, <1>3

\* The oldest Promotion that has not been replayed is the head of the queue while
\* it waits.
LEMMA FirstIsNext ==
    ASSUME TypeOK, QueueInv, CacheInv, stage.last + 1 \in SeenWaiting
    PROVE  IsNext(stage.last + 1)
<1> DEFINE p == stage.last + 1
<1> SUFFICES ASSUME NEW q \in SeenWaiting \ {p} PROVE Before(p, q)
  BY DEF IsNext
<1>1. q \in Nat /\ p \in Nat /\ q > p
  BY SeenLemma, Numbers
<1>2. q # stage.current
  BY <1>1, SeenLemma, Numbers DEF QueueInv
<1>3. pCache[q].phase = "Pending" /\ pCache[p].phase \in {"Pending", "Running"}
  BY <1>2, SeenLemma DEF SeenWaiting, NonTerminal
<1> QED
  BY <1>1, <1>3 DEF Before

\* The queue has one head.
LEMMA NextUnique ==
    ASSUME TypeOK, NEW p, NEW q, IsNext(p), IsNext(q)
    PROVE  p = q
<1> SUFFICES ASSUME p # q PROVE FALSE
  OBVIOUS
<1>1. p \in SeenWaiting /\ q \in SeenWaiting /\ Before(p, q) /\ Before(q, p)
  BY DEF IsNext
<1>2. p \in Nat /\ q \in Nat
  BY <1>1, Numbers DEF SeenWaiting, Seen, Cached
<1>3. pCache[p].phase \in {"Pending", "Running"} /\ pCache[q].phase \in {"Pending", "Running"}
  BY <1>1 DEF SeenWaiting, NonTerminal
<1> QED
  BY <1>1, <1>2, <1>3 DEF Before

\* The only Promotion that is ever replayed is the current one, once it is over.
LEMMA OneReplayed ==
    ASSUME TypeOK, QueueInv, CacheInv, stage.current # 0, pCache[stage.current].phase \in Terminal
    PROVE  NewPromos = {stage.current}
<1> DEFINE c == stage.current
<1>1. c \in Names /\ c = stage.last + 1 /\ c \in Nat /\ stage.last \in Nat /\ Names \subseteq Nat
  BY Numbers DEF QueueInv
<1>2. c \in Seen /\ c > stage.last
  BY <1>1 DEF Seen, Cached, CacheInv, Terminal
<1>3. ASSUME NEW p \in NewPromos PROVE p = c
  <2>1. p \in Names /\ pCache[p].phase \in Terminal /\ p > stage.last
    BY DEF NewPromos, Seen, Cached
  <2> QED
    BY <2>1 DEF CacheInv, Terminal
<1>4. ASSUME NEW q \in Seen, Before(q, c) PROVE q > stage.last
  <2>1. q \in Names
    BY DEF Seen, Cached
  <2>2. CASE q <= stage.last
    <3>1. pCache[q].phase \in Terminal
      BY <2>1, <2>2 DEF CacheInv
    <3>2. c < q
      BY <1>4, <3>1 DEF Before, Terminal
    <3> QED
      BY <1>1, <2>1, <2>2, <3>2
  <2> QED
    BY <1>1, <2>1, <2>2
<1>5. c \in NewPromos
  BY <1>2, <1>4 DEF NewPromos
<1> QED
  BY <1>3, <1>5

\* What replaying one Promotion leaves in the Stage.
ReplaysOne(c) ==
    /\ c = stage.current /\ c # 0 /\ c = stage.last + 1
    /\ promo[c].phase \in Terminal /\ pCache[c] = promo[c]
    /\ stage'.current = 0 /\ stage'.last = c
    /\ stage'.lastCollection = IF promo[c].started \/ promo[c].collection # NoCollection
                               THEN promo[c].collection ELSE stage.lastCollection
    /\ stage'.running = IF promo[c].phase = "Succeeded" THEN promo[c].collection
                        ELSE stage.running
    /\ stage'.holds = Applied(stage.holds, {c})

\* What electing a Promotion, or not, leaves in it.
TakesTurn ==
    /\ stage'.last = stage.last /\ stage'.lastCollection = stage.lastCollection
    /\ stage'.running = stage.running /\ stage'.holds = stage.holds
    /\ stage.current # 0 => stage'.current = stage.current
    /\ stage'.current # 0 => /\ stage'.current = stage.last + 1
                             /\ promo[stage'.current].phase # "absent"
                             /\ stage'.current \in Cached
                             /\ stage'.current = stage.current \/ stage.current = 0

\* Of one finished Promotion, all that is recorded is its own.
LEMMA ReplayIs ==
    ASSUME TypeOK, QueueInv, CacheInv, stage.current # 0, pCache[stage.current].phase \in Terminal,
           stage' = Replay
    PROVE  ReplaysOne(stage.current)
<1> DEFINE c == stage.current
           bearers == {p \in NewPromos : pCache[p].started \/ pCache[p].collection # NoCollection}
           succeeded == {p \in NewPromos : pCache[p].phase = "Succeeded"}
<1>0. c \in Names /\ c = stage.last + 1
  BY Numbers DEF QueueInv
<1>p. pCache[c] = promo[c]
  BY <1>0 DEF CacheInv
<1>1. NewPromos = {c}
  BY OneReplayed
<1>2. MaxOf({c}) = c
  BY <1>0, MaxOfNames
<1>3. bearers = IF pCache[c].started \/ pCache[c].collection # NoCollection THEN {c} ELSE {}
  BY <1>1
<1>4. succeeded = IF pCache[c].phase = "Succeeded" THEN {c} ELSE {}
  BY <1>1
<1>5. /\ Replay.current = 0
      /\ Replay.last = IF NewPromos = {} THEN stage.last ELSE MaxOf(NewPromos)
      /\ Replay.lastCollection = IF bearers = {} THEN stage.lastCollection
                                 ELSE pCache[MaxOf(bearers)].collection
      /\ Replay.running = IF succeeded = {} THEN stage.running
                          ELSE pCache[MaxOf(succeeded)].collection
      /\ Replay.holds = Applied(stage.holds, NewPromos)
  BY DEF Replay
<1> HIDE DEF c, bearers, succeeded
<1> QED
  BY <1>0, <1>p, <1>1, <1>2, <1>3, <1>4, <1>5 DEF ReplaysOne, c

\* syncPromotions replays the current Promotion once it is over, or else keeps it,
\* or elects the next one.
LEMMA SyncLemma ==
    ASSUME TypeOK, NameInv, QueueInv, CacheInv, NEW open \in BOOLEAN, SyncPromotions(open)
    PROVE  /\ ReplaysOne(stage.current) \/ TakesTurn
           /\ UNCHANGED <<available, promo, pCache>>
           /\ pass.at = "idle" /\ pass' = [pass EXCEPT !.at = "synced"]
<1>0. /\ UNCHANGED <<available, promo, pCache>>
      /\ pass.at = "idle" /\ pass' = [pass EXCEPT !.at = "synced"]
  BY DEF SyncPromotions
<1>n. /\ stage \in StageStatus /\ stage.last \in Nat /\ stage.current \in Nat
      /\ Names \subseteq Nat /\ 0 \notin Names /\ (stage.current # 0 => stage.current \in Names)
  BY Numbers DEF TypeOK
<1>1. CASE Seen = {}
  <2>1. stage' = [stage EXCEPT !.current = 0, !.awaited = FALSE]
    BY <1>1 DEF SyncPromotions
  <2>2. stage.current = 0
    <3>1. CASE stage.current # 0
      <4>1. stage.current \in Seen
        BY <1>n, <3>1 DEF QueueInv, CacheInv, Seen, Cached
      <4> QED
        BY <1>1, <4>1
    <3> QED
      BY <3>1
  <2> QED
    BY <1>0, <1>n, <2>1, <2>2 DEF TakesTurn, StageStatus
<1>2. CASE Seen # {} /\ stage.current # 0 /\ ~IsNext(stage.current)
  <2>1. stage' = Replay
    BY <1>2 DEF SyncPromotions
  <2>2. pCache[stage.current].phase \in Terminal
    <3>1. CASE pCache[stage.current].phase \notin Terminal
      <4>1. pCache[stage.current].phase \in NonTerminal /\ stage.current = stage.last + 1
        BY <1>2, <1>n, <3>1 DEF QueueInv, CacheInv, Cached, TypeOK, Promotion
      <4>2. stage.last + 1 \in SeenWaiting
        BY <1>2, <1>n, <4>1 DEF QueueInv, CacheInv, SeenWaiting, Seen, Cached
      <4> QED
        BY <1>2, <4>1, <4>2, FirstIsNext
    <3> QED
      BY <3>1
  <2> QED
    BY <1>0, <1>2, <2>1, <2>2, ReplayIs
<1>3. CASE Seen # {} /\ ~(stage.current # 0 /\ ~IsNext(stage.current)) /\ open /\ SeenWaiting # {}
  <2> DEFINE e == CHOOSE p \in SeenWaiting : IsNext(p)
  <2>1. stage' = Elect(e)
    BY <1>3 DEF SyncPromotions
  <2>2. e \in SeenWaiting /\ IsNext(e)
    BY <1>3, IsNextExists
  <2> HIDE DEF e
  <2>3. e = stage.last + 1
    <3>1. CASE stage.current # 0
      <4>1. IsNext(stage.current) /\ stage.current = stage.last + 1
        BY <1>3, <3>1 DEF QueueInv
      <4> QED
        BY <2>2, <4>1, NextUnique
    <3>2. CASE stage.current = 0
      <4>1. e \in Cached /\ e > stage.last /\ e \in Nat
        BY <1>n, <2>2, SeenLemma DEF SeenWaiting, Seen, Cached
      <4>2. PICK c \in NilOrName : Cached = 1 .. c
        BY DEF CacheInv
      <4>3. c \in Nat
        BY <4>2, AutoPromotionAssumption DEF NilOrName
      <4>4. stage.last + 1 \in Cached
        BY <1>n, <4>1, <4>2, <4>3
      <4>5. stage.last + 1 > stage.last /\ stage.last + 1 # stage.current
        BY <1>n, <3>2
      <4>6. stage.last + 1 \in Seen
        BY <4>4, <4>5 DEF CacheInv, Seen, Cached
      <4>7. stage.last + 1 \in SeenWaiting
        BY <4>5, <4>6, SeenLemma
      <4> QED
        BY <2>2, <4>7, FirstIsNext, NextUnique
    <3> QED
      BY <3>1, <3>2
  <2>4. e \in Cached /\ promo[e].phase # "absent"
    BY <2>2 DEF SeenWaiting, Seen, CacheInv, Created
  <2>5. /\ stage'.current = e /\ stage'.last = stage.last
        /\ stage'.lastCollection = stage.lastCollection
        /\ stage'.running = stage.running /\ stage'.holds = stage.holds
    BY <1>n, <2>1 DEF Elect, StageStatus
  <2> QED
    BY <1>0, <1>n, <2>3, <2>4, <2>5 DEF TakesTurn, QueueInv
<1>4. CASE /\ Seen # {} /\ ~(stage.current # 0 /\ ~IsNext(stage.current))
           /\ ~(open /\ SeenWaiting # {})
  <2>1. stage' = stage
    BY <1>4 DEF SyncPromotions
  <2> QED
    BY <1>0, <2>1 DEF TakesTurn, QueueInv, CacheInv
<1> QED
  BY <1>1, <1>2, <1>3, <1>4

\* What the garbage collector deletes has been replayed: it keeps at least one
\* Promotion that is over and newer.
LEMMA GarbageReplayed ==
    ASSUME TypeOK, QueueInv, NEW p \in Garbage
    PROVE  p \in Names /\ p <= stage.last
<1> DEFINE unfinished == {q \in Listed : \E w \in Waiting : w <= q}
           newer == {q \in Listed : q > p}
<1>1. p \in Listed /\ p \in Names /\ p \notin unfinished
  BY DEF Garbage, Listed, Created
<1>2. Cardinality(newer) >= Cardinality(unfinished) + MaxRetained
  BY DEF Garbage
<1>n. stage.last \in Nat /\ stage.current \in Nat /\ Names \subseteq Nat /\ N \in Nat
  BY Numbers
<1>3. IsFiniteSet(Names)
  BY <1>n, FS_Interval DEF Names
<1>4. IsFiniteSet(unfinished) /\ IsFiniteSet(newer)
  <2>1. unfinished \subseteq Names /\ newer \subseteq Names
    BY DEF Listed, Created
  <2> QED
    BY <1>3, <2>1, FS_Subset
<1>5. CASE p > stage.last
  <2>1. p \notin Waiting
    BY <1>1, <1>n
  <2>2. p = stage.current
    BY <1>1, <1>5, <2>1, WaitingLemma
  <2>3. newer \subseteq unfinished
    <3> SUFFICES ASSUME NEW q \in newer PROVE q \in unfinished
      OBVIOUS
    <3>1. q \in Listed /\ q \in Nat /\ q > p /\ q > stage.last /\ q # stage.current
      BY <1>n, <1>1, <1>5, <2>2 DEF Listed, Created
    <3>2. q \in Waiting /\ q <= q
      BY <3>1, WaitingLemma
    <3> QED
      BY <3>1, <3>2
  <2> HIDE DEF newer, unfinished
  <2>4. Cardinality(newer) <= Cardinality(unfinished)
    BY <1>4, <2>3, FS_Subset
  <2>5. Cardinality(newer) \in Nat /\ Cardinality(unfinished) \in Nat
    BY <1>4, FS_CardinalityType
  <2>6. MaxRetained \in Nat \ {0}
    BY AutoPromotionAssumption
  <2> QED
    BY <1>2, <2>4, <2>5, <2>6
<1> QED
  BY <1>1, <1>n, <1>5

\* A Promotion that has been replayed is deleted.
Forgotten(p) ==
    /\ p <= stage.last /\ promo'[p].phase = promo[p].phase
    /\ pCache[p] = promo[p] => Noticed(p)

\* The current Promotion makes progress.
Advances(p) ==
    /\ p = stage.current /\ promo[p].phase \in NonTerminal /\ pCache' = pCache
    /\ promo'[p].deleted = promo[p].deleted
    /\ promo'[p].collection \in {promo[p].collection, NewFreightCollection(p)}
    /\ promo'[p].phase = "Succeeded" => promo'[p].collection = NewFreightCollection(p)

\* Only the current Promotion makes progress.
LEMMA ProgressKinds ==
    ASSUME TypeOK, QueueInv, TurnsTaken, NEW p \in Names, Progress(p)
    PROVE  Forgotten(p) \/ Advances(p)
<1> USE DEF NonTerminal
<1>0. promo \in [Names -> Promotion] /\ promo[p] \in Promotion
  BY DEF TypeOK
<1>1. CASE Start(p)
  BY <1>0, <1>1 DEF Start, Advances, Promotion
<1>2. CASE ExecuteSteps(p)
  <2>1. PICK outcome \in {"Running", "Succeeded", "Failed"} :
          promo' = [promo EXCEPT ![p].phase = outcome, ![p].collection = NewFreightCollection(p)]
    BY <1>2 DEF ExecuteSteps
  <2>2. promo[p].phase = "Running" /\ stage.current = p /\ pCache' = pCache
    BY <1>2 DEF ExecuteSteps
  <2> QED
    BY <1>0, <2>1, <2>2 DEF Advances, Promotion
<1>3. CASE FailToExecute(p)
  BY <1>0, <1>3 DEF FailToExecute, Advances, Promotion
<1>4. CASE Abort(p)
  BY <1>0, <1>4 DEF Abort, Advances, Waiting, Promotion, TurnsTaken
<1>5. CASE CollectGarbage(p)
  <2>1. p <= stage.last
    BY <1>5, GarbageReplayed DEF CollectGarbage
  <2>2. pCache[p] = promo[p] => Noticed(p)
    <3> HAVE pCache[p] = promo[p]
    <3>1. /\ promo' = [promo EXCEPT ![p] = Deleted(p)] /\ pCache' = [pCache EXCEPT ![p] = Deleted(p)]
          /\ pCache \in [Names -> Promotion]
      BY <1>5 DEF CollectGarbage, TypeOK
    <3>2. Deleted(p) \in Promotion
      BY <1>0 DEF Deleted, Promotion, Collection, NoCollection
    <3> QED
      BY <1>0, <3>1, <3>2 DEF Noticed
  <2> QED
    BY <1>0, <1>5, <2>1, <2>2 DEF CollectGarbage, Deleted, Forgotten, Promotion
<1> QED
  BY <1>1, <1>2, <1>3, <1>4, <1>5 DEF Progress

\* What a step does to the Promotions and the Stage, in short.
Step ==
    \/ UNCHANGED <<promo, pCache>> /\ ReplaysOne(stage.current)
    \/ UNCHANGED <<promo, pCache>> /\ TakesTurn
    \/ (\E q \in Names : Born(q)) /\ UNCHANGED <<pCache, stage>>
    \/ (\E p \in Names : Moves(p) /\ (Forgotten(p) \/ Advances(p))) /\ UNCHANGED stage
    \/ pCache' = promo /\ UNCHANGED <<promo, stage>>
    \/ UNCHANGED <<promo, pCache, stage>>

\* Every step of the specification is one of these.
LEMMA StepKinds ==
    ASSUME TypeOK, NameInv, QueueInv, CacheInv, TurnsTaken, [Next]_vars
    PROVE  Step
<1>1. ASSUME NEW open \in BOOLEAN, SyncPromotions(open) PROVE Step
  BY <1>1, SyncLemma DEF Step
<1>2. CASE ComputeHolds \/ SelectCandidates
  BY <1>2 DEF Step, ComputeHolds, SelectCandidates
<1>3. ASSUME NEW admitted \in BOOLEAN, AutoPromoteFreight(admitted) PROVE Step
  <2>1. UNCHANGED <<pCache, stage>> /\ (promo' = promo \/ Born(NextName))
    BY <1>3, AutoPromoteBorn DEF Creates
  <2> QED
    BY <2>1 DEF Step, Born
<1>4. ASSUME NEW p \in Names, Progress(p) PROVE Step
  BY <1>4, ProgressMoves, ProgressKinds DEF Step
<1>5. ASSUME NEW o \in Origins, Discover(o) \/ Withdraw(o) PROVE Step
  BY <1>5 DEF Discover, Withdraw, Step
<1>6. ASSUME NEW o \in Manual, NEW f \in available[o], Promote(o, f) PROVE Step
  <2>1. o \in Origins
    BY AutoPromotionAssumption
  <2>2. Born(NextName) /\ UNCHANGED <<pCache, stage>>
    BY <1>6, <2>1, PromoteBorn DEF Promote
  <2> QED
    BY <2>2 DEF Step, Born
<1>7. CASE SyncPromotionCache
  BY <1>7 DEF SyncPromotionCache, Step
<1>8. CASE UNCHANGED vars
  BY <1>8 DEF vars, Step
<1> QED
  BY <1>1, <1>2, <1>3, <1>4, <1>5, <1>6, <1>7, <1>8 DEF Next, ReconcileStage, Progress

\* QueueInv is inductive.
LEMMA QueueInvStep ==
    ASSUME TypeOK, NameInv, QueueInv, Step
    PROVE  QueueInv'
<1>n. /\ stage.last \in Nat /\ stage.current \in Nat /\ Names \subseteq Nat /\ 0 \notin Names
      /\ stage.current # 0 => stage.current \in Names
  BY Numbers
<1>1. CASE UNCHANGED promo /\ ReplaysOne(stage.current)
  <2> DEFINE c == stage.current
  <2>1. /\ c \in Names /\ c = stage.last + 1 /\ promo[c].phase \in Terminal
        /\ stage'.current = 0 /\ stage'.last = c /\ promo' = promo
    BY <1>n, <1>1 DEF ReplaysOne
  <2> HIDE DEF c
  <2>2. \A p \in Names : (p <= c <=> p <= stage.last \/ p = c) /\ (p > c <=> p > stage.last /\ p # c)
    BY <1>n, <2>1
  <2>3. \A p \in Names : p <= stage'.last => promo'[p].phase \in Terminal
    BY <2>1, <2>2 DEF QueueInv
  <2>4. \A p \in Names : p > stage'.last =>
          /\ promo'[p].phase \in {"absent", "Pending"} /\ promo'[p].collection = NoCollection
          /\ ~promo'[p].deleted
    BY <2>1, <2>2 DEF QueueInv, c
  <2> QED
    BY <2>1, <2>3, <2>4 DEF QueueInv
<1>2. CASE UNCHANGED promo /\ TakesTurn
  BY <1>n, <1>2 DEF TakesTurn, QueueInv
<1>3. ASSUME NEW q \in Names, Born(q), UNCHANGED stage PROVE QueueInv'
  <2>1. q > stage.last /\ q # stage.current
    BY <1>3, <1>n DEF Born, QueueInv, Terminal
  <2>2. ~(q <= stage.last)
    BY <1>n, <2>1
  <2>3. /\ promo'[q].phase = "Pending" /\ promo'[q].collection = NoCollection
        /\ ~promo'[q].deleted /\ \A p \in Names \ {q} : promo'[p] = promo[p]
    BY <1>3 DEF Born
  <2> QED
    BY <1>n, <1>3, <2>1, <2>2, <2>3 DEF QueueInv
<1>4. ASSUME NEW p \in Names, Moves(p), Forgotten(p), UNCHANGED stage PROVE QueueInv'
  <2>1. ~(p > stage.last)
    BY <1>n, <1>4 DEF Forgotten
  <2>2. \A x \in Names : promo'[x].phase = promo[x].phase
    BY <1>4 DEF Moves, Forgotten
  <2> QED
    BY <1>n, <1>4, <2>1, <2>2 DEF Moves, QueueInv
<1>5. ASSUME NEW p \in Names, Moves(p), Advances(p), UNCHANGED stage PROVE QueueInv'
  <2>1. p = stage.current /\ p = stage.last + 1 /\ p # 0
    BY <1>n, <1>5 DEF Advances, QueueInv
  <2>2. ~(p <= stage.last) /\ ~promo'[p].deleted /\ promo'[p].phase # "absent"
    BY <1>n, <1>5, <2>1 DEF Advances, QueueInv, Moves
  <2> QED
    BY <1>5, <2>1, <2>2 DEF Moves, QueueInv
<1>6. CASE UNCHANGED <<promo, stage>>
  BY <1>6 DEF QueueInv
<1> QED
  BY <1>1, <1>2, <1>3, <1>4, <1>5, <1>6 DEF Step

\* CacheInv is inductive.
LEMMA CacheInvStep ==
    ASSUME TypeOK, NameInv, QueueInv, CacheInv, Step, TypeOK', NameInv', QueueInv'
    PROVE  CacheInv'
<1>n. /\ stage.last \in Nat /\ stage.current \in Nat /\ Names \subseteq Nat /\ 0 \notin Names
      /\ stage.current # 0 => stage.current \in Names
  BY Numbers
<1>1. CASE UNCHANGED <<promo, pCache>> /\ ReplaysOne(stage.current)
  <2> DEFINE c == stage.current
  <2>1. /\ c \in Names /\ c = stage.last + 1 /\ pCache[c].phase \in Terminal
        /\ stage'.current = 0 /\ stage'.last = c /\ promo' = promo /\ pCache' = pCache
    BY <1>n, <1>1 DEF ReplaysOne
  <2> HIDE DEF c
  <2>2. \A p \in Names : (p <= c <=> p <= stage.last \/ p = c) /\ (p > c <=> p > stage.last /\ p # c)
    BY <1>n, <2>1
  <2>3. \A p \in Names : p <= stage'.last => pCache'[p].phase \in Terminal
    BY <2>1, <2>2 DEF CacheInv
  <2>4. \A p \in Names : p > stage'.last =>
          pCache'[p].phase \in {"absent", "Pending"} /\ ~pCache'[p].deleted
    BY <2>1, <2>2 DEF CacheInv, c
  <2>5. Cached' = Cached /\ Created' = Created
    BY <2>1 DEF Cached, Created
  <2> QED
    BY <2>1, <2>3, <2>4, <2>5 DEF CacheInv
<1>2. CASE UNCHANGED <<promo, pCache>> /\ TakesTurn
  <2>1. Cached' = Cached /\ Created' = Created
    BY <1>2 DEF Cached, Created
  <2> QED
    BY <1>n, <1>2, <2>1 DEF TakesTurn, CacheInv
<1>3. ASSUME NEW q \in Names, Born(q), UNCHANGED <<pCache, stage>> PROVE CacheInv'
  <2>1. q \notin Created /\ q \notin Cached
    BY <1>3 DEF Born, Created, CacheInv
  <2>2. pCache[q].phase = "absent"
    BY <2>1 DEF Cached
  <2>3. Cached' = Cached /\ \A p \in Names \ {q} : promo'[p] = promo[p]
    BY <1>3 DEF Cached, Born
  <2>4. \A p \in Created : p \in Created'
    BY <2>1, <2>3 DEF Created
  <2>5. \A p \in Cached : p \in Created' /\ SameFor(pCache[p], promo'[p])
    BY <2>1, <2>3, <2>4 DEF CacheInv, Cached
  <2>6. \A p \in Names : pCache[p].phase \in Terminal => pCache[p] = promo'[p]
    BY <2>2, <2>3 DEF CacheInv, Terminal
  <2> QED
    BY <1>3, <2>3, <2>5, <2>6 DEF CacheInv
<1>4. ASSUME NEW p \in Names, Moves(p), Advances(p), UNCHANGED stage PROVE CacheInv'
  <2>1. /\ pCache' = pCache /\ Cached' = Cached /\ pCache[p].phase \notin Terminal
        /\ \A q \in Names \ {p} : promo'[q] = promo[q]
    BY <1>4 DEF Advances, Moves, Cached, CacheInv, NonTerminal, Terminal
  <2>2. SameFor(promo'[p], promo[p]) /\ \A q \in Created : q \in Created'
    BY <1>4 DEF Moves, Same, Created
  <2>3. \A q \in Cached : q \in Created' /\ SameFor(pCache[q], promo'[q])
    BY <2>1, <2>2 DEF CacheInv, Cached, SameFor
  <2>4. \A q \in Names : pCache[q].phase \in Terminal => pCache[q] = promo'[q]
    BY <2>1 DEF CacheInv
  <2> QED
    BY <1>4, <2>1, <2>3, <2>4 DEF CacheInv
<1>5. ASSUME NEW p \in Names, Moves(p), Forgotten(p), UNCHANGED stage PROVE CacheInv'
  <2>1. /\ pCache[p].phase \in Terminal /\ pCache[p] = promo[p]
        /\ \A q \in Names \ {p} : promo'[q] = promo[q]
    BY <1>5 DEF Forgotten, Moves, CacheInv
  <2>2. SameFor(promo'[p], promo[p]) /\ \A q \in Created : q \in Created'
    BY <1>5 DEF Moves, Same, Created
  <2>3. pCache'[p] = promo'[p] /\ \A q \in Names \ {p} : pCache'[q] = pCache[q]
    BY <1>5, <2>1 DEF Forgotten, Noticed
  <2>4. pCache'[p].phase = pCache[p].phase /\ p <= stage.last /\ p \in Cached /\ ~(p > stage.last)
    BY <1>n, <1>5, <2>1, <2>3 DEF Forgotten, Cached, Terminal
  <2>5. Cached' = Cached
    BY <2>3, <2>4 DEF Cached
  <2>6. \A q \in Cached : q \in Created' /\ SameFor(pCache'[q], promo'[q])
    BY <2>1, <2>2, <2>3 DEF CacheInv, Cached, SameFor
  <2>7. \A q \in Names : pCache'[q].phase \in Terminal => pCache'[q] = promo'[q]
    BY <2>1, <2>3 DEF CacheInv
  <2>8. /\ \A q \in Names : q <= stage.last => pCache'[q].phase \in Terminal
        /\ \A q \in Names : q > stage.last /\ q # stage.current => pCache'[q].phase \in {"absent", "Pending"}
        /\ \A q \in Names : q > stage.last => ~pCache'[q].deleted
    BY <2>1, <2>3, <2>4 DEF CacheInv
  <2> QED
    BY <1>5, <2>5, <2>6, <2>7, <2>8 DEF CacheInv
<1>6. CASE pCache' = promo /\ UNCHANGED <<promo, stage>>
  <2>1. Cached' = Created /\ Created' = Created
    BY <1>6 DEF Cached, Created
  <2>2. \A p \in Names : SameFor(promo[p], promo[p])
    BY DEF SameFor
  <2>3. stage.current # 0 => stage.current \in Created
    BY <1>n DEF QueueInv, Created
  <2> QED
    BY <1>6, <2>1, <2>2, <2>3 DEF CacheInv, QueueInv, NameInv, Created
<1>7. CASE UNCHANGED <<promo, pCache, stage>>
  BY <1>7 DEF CacheInv, Cached, Created
<1> QED
  BY <1>1, <1>2, <1>3, <1>4, <1>5, <1>6, <1>7 DEF Step

(***************************************************************************)
(* Holds                                                                   *)
(***************************************************************************)

\* In S and then T, with every Promotion of T newer than those of S, it is T that
\* decides if it can.
LEMMA DeciderUnion ==
    ASSUME NEW S, S \subseteq Names, NEW T, T \subseteq Names,
           \A p \in S, q \in T : p < q, NEW o
    PROVE  Decider(S \cup T, o) = IF Decider(T, o) = 0 THEN Decider(S, o) ELSE Decider(T, o)
<1>0. Names \subseteq Nat /\ 0 \notin Names
  BY AutoPromotionAssumption DEF Names
<1>1. IsDecider(Decider(S, o), S, o) /\ IsDecider(Decider(T, o), T, o)
  BY DeciderLemma
<1>2. \A d : IsDecider(d, S \cup T, o) => d = Decider(S \cup T, o)
  BY DeciderLemma
<1>3. \A p \in S, q \in T : p <= q
  BY <1>0
<1> DEFINE s == Decider(S, o)
           t == Decider(T, o)
<1> HIDE DEF s, t
<1>4. CASE t = 0
  <2>1. \A p \in T : ~Decides(p, o)
    BY <1>0, <1>1, <1>4 DEF IsDecider, t
  <2>2. IsDecider(s, S \cup T, o)
    BY <1>1, <2>1 DEF IsDecider, s
  <2> QED
    BY <1>2, <1>4, <2>2 DEF s, t
<1>5. CASE t # 0
  <2>1. t \in T /\ Decides(t, o) /\ \A p \in T : Decides(p, o) => p <= t
    BY <1>1, <1>5 DEF IsDecider, t
  <2>2. IsDecider(t, S \cup T, o)
    BY <1>3, <2>1 DEF IsDecider
  <2> QED
    BY <1>2, <1>5, <2>2 DEF t
<1> QED
  BY <1>4, <1>5

\* Applying the intents of T to the holds that S leaves has the same effect as
\* applying those of S and T.
LEMMA AppliedLemma ==
    ASSUME NEW holds, NEW S, S \subseteq Names, NEW T, T \subseteq Names,
           \A p \in S, q \in T : p < q, NEW o \in Origins,
           o \in holds <=> SaysHold(S, o)
    PROVE  o \in Applied(holds, T) <=> SaysHold(S \cup T, o)
<1>1. o \in Applied(holds, T) <=>
        IF Decider(T, o) = 0 THEN o \in holds ELSE pCache[Decider(T, o)].intent = "hold"
  BY DEF Applied
<1> QED
  BY <1>1, DeciderUnion DEF SaysHold

\* Replayed Promotions stay as they are, as far as intents and successes go.
ReplayedSame ==
    \A p \in Replayed :
        /\ promo'[p].phase = promo[p].phase /\ promo'[p].origin = promo[p].origin
        /\ promo'[p].intent = promo[p].intent /\ promo'[p].freight = promo[p].freight

\* Only replaying changes what has been replayed.
LEMMA ReplayedKept ==
    ASSUME TypeOK, QueueInv, Step
    PROVE  ReplayedSame
<1>n. /\ stage.last \in Nat /\ stage.current \in Nat /\ Names \subseteq Nat /\ 0 \notin Names
  BY Numbers
<1>1. CASE promo' = promo
  BY <1>1 DEF ReplayedSame, Replayed
<1>2. ASSUME NEW q \in Names, Born(q) PROVE ReplayedSame
  <2>1. q \notin Replayed
    BY <1>2 DEF Born, QueueInv, Terminal, Replayed
  <2> QED
    BY <1>2, <2>1 DEF Born, ReplayedSame, Replayed
<1>3. ASSUME NEW p \in Names, Moves(p), Forgotten(p) PROVE ReplayedSame
  BY <1>3 DEF Moves, Same, SameFor, Forgotten, ReplayedSame, Replayed
<1>4. ASSUME NEW p \in Names, Moves(p), Advances(p) PROVE ReplayedSame
  <2>1. p \notin Replayed
    BY <1>n, <1>4 DEF Advances, QueueInv, Replayed
  <2> QED
    BY <1>4, <2>1 DEF Moves, ReplayedSame, Replayed
<1> QED
  BY <1>1, <1>2, <1>3, <1>4 DEF Step

\* So what they say about an origin does not change either.
LEMMA SaysHoldStable ==
    ASSUME ReplayedSame, Replayed' = Replayed, CacheInv, CacheInv', NEW o
    PROVE  SaysHold(Replayed, o)' <=> SaysHold(Replayed, o)
<1>0. \A p \in Replayed : pCache[p] = promo[p]
  BY DEF CacheInv, Replayed
<1>a. \A p \in Replayed' : pCache'[p] = promo'[p]
  BY DEF CacheInv, Replayed
<1>b. \A p \in Replayed : /\ pCache'[p].phase = pCache[p].phase /\ pCache'[p].origin = pCache[p].origin
                           /\ pCache'[p].intent = pCache[p].intent
  BY <1>0, <1>a DEF ReplayedSame
<1>1. {p \in Replayed' : /\ pCache'[p].phase # "Aborted" /\ pCache'[p].origin = o
                         /\ pCache'[p].intent # "none"}
      = {p \in Replayed : /\ pCache[p].phase # "Aborted" /\ pCache[p].origin = o
                          /\ pCache[p].intent # "none"}
  BY <1>b
<1>2. Decider(Replayed, o)' = Decider(Replayed, o)
  BY <1>1 DEF Decider
<1>3. Replayed \subseteq Names
  BY DEF Replayed
<1>4. Decider(Replayed, o) # 0 => Decider(Replayed, o) \in Replayed
  BY <1>3, DeciderLemma DEF IsDecider
<1> QED
  BY <1>b, <1>2, <1>4 DEF SaysHold

\* Replaying adds one Promotion to those replayed, and nothing else adds any.
LEMMA ReplayedGrows ==
    ASSUME TypeOK, Step
    PROVE  \/ /\ ReplaysOne(stage.current) /\ promo' = promo /\ pCache' = pCache
              /\ stage.current \in Names
              /\ Replayed' = Replayed \cup {stage.current}
              /\ \A p \in Replayed : p < stage.current
           \/ /\ Replayed' = Replayed
              /\ stage'.last = stage.last /\ stage'.lastCollection = stage.lastCollection
              /\ stage'.running = stage.running /\ stage'.holds = stage.holds
<1>n. /\ stage.last \in Nat /\ stage.current \in Nat /\ Names \subseteq Nat /\ 0 \notin Names
      /\ stage.current # 0 => stage.current \in Names
  BY Numbers
<1>1. CASE ReplaysOne(stage.current) /\ promo' = promo /\ pCache' = pCache
  <2>1. stage.current \in Names /\ stage.current = stage.last + 1 /\ stage'.last = stage.current
    BY <1>n, <1>1 DEF ReplaysOne
  <2>2. Replayed' = Replayed \cup {stage.current}
    <3>1. ASSUME NEW p \in Names PROVE p <= stage'.last <=> p <= stage.last \/ p = stage.current
      BY <1>n, <2>1
    <3> QED
      BY <2>1, <3>1, Zenon DEF Replayed
  <2>3. \A p \in Replayed : p < stage.current
    BY <1>n, <2>1 DEF Replayed
  <2> QED
    BY <1>1, <2>1, <2>2, <2>3
<1>2. CASE TakesTurn
  BY <1>2 DEF TakesTurn, Replayed
<1>3. CASE UNCHANGED stage
  BY <1>3 DEF Replayed
<1> QED
  BY <1>1, <1>2, <1>3 DEF Step

\* HoldInv is inductive.
LEMMA HoldInvStep ==
    ASSUME TypeOK, QueueInv, CacheInv, HoldInv, Step, CacheInv'
    PROVE  HoldInv'
<1>1. CASE /\ Replayed' = Replayed
           /\ stage'.holds = stage.holds
  <2> SUFFICES ASSUME NEW o \in Origins
               PROVE  o \in stage'.holds <=> SaysHold(Replayed, o)'
    BY DEF HoldInv
  <2>1. SaysHold(Replayed, o)' <=> SaysHold(Replayed, o)
    BY <1>1, ReplayedKept, SaysHoldStable
  <2> QED
    BY <1>1, <2>1 DEF HoldInv
<1>2. CASE /\ ReplaysOne(stage.current) /\ promo' = promo /\ pCache' = pCache
           /\ stage.current \in Names
           /\ Replayed' = Replayed \cup {stage.current}
           /\ \A p \in Replayed : p < stage.current
  <2> DEFINE c == stage.current
  <2> SUFFICES ASSUME NEW o \in Origins
               PROVE  o \in stage'.holds <=> SaysHold(Replayed, o)'
    BY DEF HoldInv
  <2>1. stage'.holds = Applied(stage.holds, {c})
    BY <1>2 DEF ReplaysOne
  <2>2. o \in stage.holds <=> SaysHold(Replayed, o)
    BY DEF HoldInv
  <2>3. Replayed \subseteq Names /\ {c} \subseteq Names /\ \A p \in Replayed, q \in {c} : p < q
    BY <1>2 DEF Replayed
  <2>4. o \in Applied(stage.holds, {c}) <=> SaysHold(Replayed \cup {c}, o)
    BY <2>2, <2>3, AppliedLemma
  <2>5. SaysHold(Replayed, o)' <=> SaysHold(Replayed \cup {c}, o)
    BY <1>2 DEF SaysHold, Decider
  <2> QED
    BY <2>1, <2>4, <2>5
<1> QED
  BY <1>1, <1>2, ReplayedGrows

\* The holds a pass computes are those that stand.
LEMMA HoldsKnownLemma ==
    ASSUME TypeOK, CacheInv, HoldInv
    PROVE  HoldsKnown
<1>n. stage.last \in Nat /\ Names \subseteq Nat
  BY Numbers
<1> DEFINE T == {p \in Seen : p > stage.last}
<1> SUFFICES ASSUME NEW o \in Origins PROVE o \in EffectiveHolds <=> IsHeld(o)
  BY DEF HoldsKnown
<1>1. Cached = Replayed \cup T
  <2>1. ASSUME NEW p \in Names
        PROVE  p \in Cached <=> p \in Replayed \/ p \in T
    <3>1. CASE p <= stage.last
      <4>1. pCache[p].phase # "absent"
        BY <3>1 DEF CacheInv, Terminal
      <4> QED
        BY <3>1, <4>1 DEF Cached, Replayed
    <3>2. CASE ~(p <= stage.last)
      <4>1. p > stage.last /\ ~pCache[p].deleted
        BY <1>n, <3>2 DEF CacheInv
      <4> QED
        BY <3>2, <4>1 DEF Cached, Seen, Replayed
    <3> QED
      BY <3>1, <3>2
  <2>2. Cached \subseteq Names /\ Replayed \subseteq Names /\ T \subseteq Names
    BY DEF Cached, Replayed, Seen
  <2> HIDE DEF T
  <2> QED
    BY <2>1, <2>2
<1>2. Replayed \subseteq Names /\ T \subseteq Names /\ \A p \in Replayed, q \in T : p < q
  BY <1>n DEF Cached, Replayed, Seen
<1>3. o \in stage.holds <=> SaysHold(Replayed, o)
  BY DEF HoldInv
<1> HIDE DEF T
<1>4. o \in Applied(stage.holds, T) <=> SaysHold(Replayed \cup T, o)
  BY <1>2, <1>3, AppliedLemma
<1> QED
  BY <1>1, <1>4 DEF EffectiveHolds, T, IsHeld, Standing, SaysHold

(***************************************************************************)
(* What the Stage runs                                                     *)
(***************************************************************************)

\* A new collection has the Promotion's own Freight, and carries the rest over.
LEMMA NewCollection ==
    ASSUME TypeOK, NEW p \in Names
    PROVE  /\ NewFreightCollection(p)[promo[p].origin] = promo[p].freight
           /\ \A o \in Origins : o # promo[p].origin =>
                 NewFreightCollection(p)[o] = InheritableFreight[o]
           /\ promo[p].freight # 0 => NewFreightCollection(p) # NoCollection
<1>1. promo[p].origin \in Origins
  BY DEF TypeOK, Promotion
<1>2. NewFreightCollection(p)[promo[p].origin] = promo[p].freight
  BY <1>1 DEF NewFreightCollection
<1>3. ASSUME NEW o \in Origins, o # promo[p].origin
      PROVE  NewFreightCollection(p)[o] = InheritableFreight[o]
  <2>1. NOrigins > 1
    BY <1>1, <1>3, AutoPromotionAssumption DEF Origins
  <2> QED
    BY <1>3, <2>1 DEF NewFreightCollection
<1>4. NoCollection[promo[p].origin] = 0
  BY <1>1 DEF NoCollection
<1> QED
  BY <1>2, <1>3, <1>4

\* It is the same as long as the Stage is not written.
LEMMA NewCollectionStable ==
    ASSUME NEW p, Same(p), stage'.lastCollection = stage.lastCollection,
           stage'.running = stage.running
    PROVE  NewFreightCollection(p)' = NewFreightCollection(p)
BY DEF Same, SameFor, NewFreightCollection, InheritableFreight

\* CarryInv is inductive.
LEMMA CarryInvStep ==
    ASSUME TypeOK, NameInv, QueueInv, CarryInv, Step
    PROVE  CarryInv'
<1>n. /\ stage.last \in Nat /\ stage.current \in Nat /\ Names \subseteq Nat /\ 0 \notin Names
      /\ stage.current # 0 => stage.current \in Names
  BY Numbers
<1>1. CASE ReplaysOne(stage.current) /\ promo' = promo
  <2> DEFINE c == stage.current
             col == promo[c].collection
  <2>1. /\ c \in Names /\ promo[c].phase # "absent" /\ stage'.current = 0
        /\ stage'.lastCollection = IF promo[c].started \/ col # NoCollection
                                   THEN col ELSE stage.lastCollection
        /\ stage'.running = IF promo[c].phase = "Succeeded" THEN col ELSE stage.running
    BY <1>n, <1>1 DEF ReplaysOne, Terminal
  <2>2. promo[c].freight # 0
    BY <2>1 DEF NameInv, Created
  <2>3. promo[c].phase = "Succeeded" => col # NoCollection
    BY <2>1 DEF CarryInv
  <2>4. col # NoCollection => Covers(col, stage.running)
    <3> SUFFICES ASSUME col # NoCollection, NEW o \in Origins, stage.running[o] # 0
                 PROVE  col[o] # 0
      BY DEF Covers
    <3>1. col = NewFreightCollection(c)
      BY <2>1 DEF CarryInv
    <3>2. CASE o = promo[c].origin
      BY <2>1, <2>2, <3>1, <3>2, NewCollection
    <3>3. CASE o # promo[c].origin
      <4>1. col[o] = InheritableFreight[o]
        BY <2>1, <3>1, <3>3, NewCollection
      <4> QED
        BY <4>1 DEF InheritableFreight, CarryInv, Covers
    <3> QED
      BY <3>2, <3>3
  <2>5. stage'.lastCollection # NoCollection => Covers(stage'.lastCollection, stage'.running)
    <3>1. CASE promo[c].phase = "Succeeded"
      BY <2>1, <2>3, <3>1 DEF Covers
    <3>2. CASE promo[c].phase # "Succeeded"
      BY <2>1, <2>4, <3>2 DEF CarryInv
    <3> QED
      BY <3>1, <3>2
  <2> QED
    BY <1>n, <2>1, <2>5 DEF CarryInv
<1>2. ASSUME stage'.lastCollection = stage.lastCollection, stage'.running = stage.running,
             \A c \in Names : c = stage'.current =>
                /\ promo'[c].collection # NoCollection =>
                      promo'[c].collection = NewFreightCollection(c)'
                /\ promo'[c].phase = "Succeeded" => promo'[c].collection # NoCollection
      PROVE  CarryInv'
  BY <1>2 DEF CarryInv
<1>3. ASSUME NEW c \in Names, c = stage.current, promo'[c] = promo[c],
             stage'.lastCollection = stage.lastCollection, stage'.running = stage.running
      PROVE  /\ promo'[c].collection # NoCollection =>
                   promo'[c].collection = NewFreightCollection(c)'
             /\ promo'[c].phase = "Succeeded" => promo'[c].collection # NoCollection
  <2>1. NewFreightCollection(c)' = NewFreightCollection(c)
    BY <1>3, NewCollectionStable DEF Same, SameFor
  <2> QED
    BY <1>n, <1>3, <2>1 DEF CarryInv
<1>4. CASE TakesTurn /\ promo' = promo
  <2>1. ASSUME NEW c \in Names, c = stage'.current, c # stage.current
        PROVE  promo'[c].phase # "Succeeded" /\ promo'[c].collection = NoCollection
    <3>1. c = stage.last + 1
      BY <1>n, <1>4, <2>1 DEF TakesTurn
    <3> QED
      BY <1>n, <1>4, <2>1, <3>1 DEF QueueInv
  <2> QED
    BY <1>2, <1>3, <1>4, <2>1 DEF TakesTurn
<1>5. ASSUME NEW q \in Names, Born(q), UNCHANGED stage PROVE CarryInv'
  <2>1. q # stage.current
    BY <1>n, <1>5 DEF Born, QueueInv
  <2> QED
    BY <1>2, <1>3, <1>5, <2>1 DEF Born
<1>6. ASSUME NEW p \in Names, Moves(p), Forgotten(p), UNCHANGED stage PROVE CarryInv'
  <2>1. p # stage.current
    BY <1>n, <1>6 DEF Forgotten, QueueInv
  <2> QED
    BY <1>2, <1>3, <1>6, <2>1 DEF Moves
<1>7. ASSUME NEW p \in Names, Moves(p), Advances(p), UNCHANGED stage PROVE CarryInv'
  <2>1. p = stage.current /\ p \in Created /\ Same(p)
    BY <1>7 DEF Advances, Moves
  <2>2. promo[p].freight # 0
    BY <2>1 DEF NameInv
  <2>3. NewFreightCollection(p) # NoCollection
    BY <2>2, NewCollection
  <2>4. NewFreightCollection(p)' = NewFreightCollection(p)
    BY <1>7, <2>1, NewCollectionStable
  <2>5. promo[p].collection # NoCollection => promo[p].collection = NewFreightCollection(p)
    BY <1>n, <2>1 DEF CarryInv
  <2> QED
    BY <1>2, <1>7, <2>1, <2>3, <2>4, <2>5 DEF Advances
<1>8. CASE UNCHANGED <<promo, stage>>
  BY <1>2, <1>3, <1>8
<1> QED
  BY <1>1, <1>4, <1>5, <1>6, <1>7, <1>8 DEF Step

\* A Stage never forgets an origin.
LEMMA OriginsKeptStep ==
    ASSUME TypeOK, NameInv, QueueInv, CarryInv, Step
    PROVE  \A o \in Origins : stage.running[o] # 0 => stage'.running[o] # 0
<1>n. /\ stage.current \in Nat /\ Names \subseteq Nat /\ 0 \notin Names
      /\ stage.current # 0 => stage.current \in Names
  BY Numbers
<1>1. CASE stage'.running = stage.running
  BY <1>1
<1>2. CASE ReplaysOne(stage.current) /\ stage'.running # stage.running
  <2> DEFINE c == stage.current
  <2>1. c \in Names /\ promo[c].phase = "Succeeded" /\ stage'.running = promo[c].collection
    BY <1>n, <1>2 DEF ReplaysOne
  <2>2. promo[c].collection = NewFreightCollection(c)
    BY <2>1 DEF CarryInv
  <2>3. promo[c].freight # 0
    BY <2>1 DEF NameInv, Created
  <2> SUFFICES ASSUME NEW o \in Origins, stage.running[o] # 0 PROVE stage'.running[o] # 0
    OBVIOUS
  <2>4. CASE o = promo[c].origin
    BY <2>1, <2>2, <2>3, <2>4, NewCollection
  <2>5. CASE o # promo[c].origin
    <3>1. stage'.running[o] = InheritableFreight[o]
      BY <2>1, <2>2, <2>5, NewCollection
    <3> QED
      BY <3>1 DEF InheritableFreight, CarryInv, Covers
  <2> QED
    BY <2>4, <2>5
<1> QED
  BY <1>1, <1>2, ReplayedGrows

\* A collection that reflects R reflects it still after one more Promotion that did
\* not succeed.
LEMMA ReflectsMore ==
    ASSUME NEW col, NEW R, NEW c, Reflects(col, R), promo[c].phase # "Succeeded"
    PROVE  Reflects(col, R \cup {c})
BY DEF Reflects

\* The collection of one more Promotion reflects it.
LEMMA ReflectsNew ==
    ASSUME TypeOK, NEW c \in Names, NEW R, R \subseteq Names, \A p \in R : p < c,
           Reflects(InheritableFreight, R)
    PROVE  Reflects(NewFreightCollection(c), R \cup {c})
<1> DEFINE col == NewFreightCollection(c)
<1> SUFFICES ASSUME NEW p \in R \cup {c}, promo[p].phase = "Succeeded"
             PROVE  \/ col[promo[p].origin] = promo[p].freight
                    \/ \E r \in R \cup {c} : /\ r > p
                                             /\ promo[r].origin = promo[p].origin
                                             /\ promo[r].freight # promo[p].freight
  BY DEF Reflects
<1>0. p \in Names /\ promo[p].origin \in Origins
  BY DEF TypeOK, Promotion
<1>1. CASE promo[p].origin = promo[c].origin
  <2>1. col[promo[p].origin] = promo[c].freight
    BY <1>1, NewCollection
  <2>2. CASE p = c
    BY <2>1, <2>2
  <2>3. CASE p # c /\ promo[c].freight # promo[p].freight
    <3>1. p \in Nat /\ c \in Nat /\ p < c
      BY <1>0, <2>3, Numbers
    <3>2. c > p
      BY <3>1
    <3> QED
      BY <1>1, <2>3, <3>2
  <2> QED
    BY <2>1, <2>2, <2>3
<1>2. CASE promo[p].origin # promo[c].origin
  <2>1. col[promo[p].origin] = InheritableFreight[promo[p].origin] /\ p \in R
    BY <1>0, <1>2, NewCollection
  <2> QED
    BY <2>1 DEF Reflects
<1> QED
  BY <1>1, <1>2

\* RunInv is inductive.
LEMMA RunInvStep ==
    ASSUME TypeOK, NameInv, QueueInv, CarryInv, RunInv, Step
    PROVE  RunInv'
<1>1. CASE /\ Replayed' = Replayed
           /\ stage'.lastCollection = stage.lastCollection
           /\ stage'.running = stage.running
  <2>1. ReplayedSame
    BY ReplayedKept
  <2> QED
    BY <1>1, <2>1 DEF RunInv, Reflects, ReplayedSame
<1>2. CASE /\ ReplaysOne(stage.current) /\ promo' = promo /\ pCache' = pCache
           /\ stage.current \in Names
           /\ Replayed' = Replayed \cup {stage.current}
           /\ \A p \in Replayed : p < stage.current
  <2> DEFINE c == stage.current
             col == promo[c].collection
             R == Replayed \cup {c}
  <2>1. /\ stage'.lastCollection = IF promo[c].started \/ col # NoCollection
                                   THEN col ELSE stage.lastCollection
        /\ stage'.running = IF promo[c].phase = "Succeeded" THEN col ELSE stage.running
    BY <1>2 DEF ReplaysOne
  <2>2. Reflects(InheritableFreight, Replayed)
    BY DEF InheritableFreight, RunInv
  <2>3. Replayed \subseteq Names
    BY DEF Replayed
  <2>4. Reflects(NewFreightCollection(c), R)
    BY <1>2, <2>2, <2>3, ReflectsNew
  <2>5. col # NoCollection => Reflects(col, R)
    <3> HAVE col # NoCollection
    <3>1. col = NewFreightCollection(c)
      BY <1>2 DEF CarryInv
    <3> QED
      BY <2>4, <3>1
  <2>6. promo[c].phase = "Succeeded" => col # NoCollection
    BY <1>2 DEF CarryInv
  <2>7. promo[c].phase # "Succeeded" =>
          /\ Reflects(stage.running, R)
          /\ stage.lastCollection # NoCollection => Reflects(stage.lastCollection, R)
    BY ReflectsMore DEF RunInv
  <2>8. Reflects(stage'.running, R)
    BY <2>1, <2>5, <2>6, <2>7
  <2>9. stage'.lastCollection # NoCollection => Reflects(stage'.lastCollection, R)
    BY <2>1, <2>5, <2>6, <2>7
  <2> QED
    BY <1>2, <2>8, <2>9 DEF RunInv, Reflects
<1> QED
  BY <1>1, <1>2, ReplayedGrows

\* Picks are made once, and each is used up when its origin's turn comes.
LEMMA PassKinds ==
    ASSUME TypeOK, NameInv, [Next]_vars
    PROVE  \/ pass'.at \in {"idle", "synced"}
           \/ ComputeHolds
           \/ SelectCandidates
           \/ /\ stage' = stage /\ pass.at = "deciding" /\ pass'.at = "deciding"
              /\ \A o \in Origins : pass'.pick[o] # 0 => pass'.pick[o] = pass.pick[o]
           \/ UNCHANGED <<stage, pass>>
<1>1. ASSUME NEW open \in BOOLEAN, SyncPromotions(open) PROVE pass'.at = "synced"
  BY <1>1 DEF SyncPromotions, TypeOK, Pass
<1>2. ASSUME NEW admitted \in BOOLEAN, AutoPromoteFreight(admitted)
      PROVE  \/ pass'.at = "idle"
             \/ /\ stage' = stage /\ pass.at = "deciding" /\ pass'.at = "deciding"
                /\ \A o \in Origins : pass'.pick[o] # 0 => pass'.pick[o] = pass.pick[o]
  <2>1. pass.at = "deciding" /\ stage' = stage
    BY <1>2, AutoPromoteBorn
  <2>2. PICK x \in Origins : pass' = Visit([pass.pick EXCEPT ![x] = 0])
    BY <1>2, AutoPromoteBorn
  <2> DEFINE rest == [pass.pick EXCEPT ![x] = 0]
  <2>3. \A o \in Origins : rest[o] # 0 => rest[o] = pass.pick[o]
    BY DEF TypeOK, Pass, Collection
  <2> HIDE DEF rest
  <2>4. \/ pass'.at = "idle"
        \/ pass'.at = "deciding" /\ pass'.pick = rest
    BY <2>2 DEF Visit, IdlePass, rest
  <2> QED
    BY <2>1, <2>3, <2>4
<1>3. CASE UNCHANGED <<stage, pass>>
  BY <1>3
<1> QED
  BY <1>1, <1>2, <1>3
     DEF Next, ReconcileStage, Start, ExecuteSteps, FailToExecute, Abort, CollectGarbage,
         Discover, Withdraw, Promote, SyncPromotionCache, vars

\* What a pass picks at first.
LEMMA Picked ==
    ASSUME SelectCandidates, NEW o \in Origins, pass'.at = "deciding"
    PROVE  pass'.pick[o] = Chosen(o) /\ stage' = stage
<1>1. pass' = Visit([x \in Origins |-> Chosen(x)]) /\ stage' = stage
  BY DEF SelectCandidates
<1>2. pass'.pick = [x \in Origins |-> Chosen(x)]
  BY <1>1 DEF Visit, IdlePass
<1> QED
  BY <1>1, <1>2

\* PickInv is inductive.
LEMMA PickInvStep ==
    ASSUME TypeOK, NameInv, PickInv, [Next]_vars
    PROVE  PickInv'
<1> SUFFICES ASSUME pass'.at = "deciding", NEW o \in Origins, pass'.pick[o] # 0
             PROVE  stage'.running[o] # pass'.pick[o]
  BY DEF PickInv
<1>1. CASE SelectCandidates
  <2>1. pass'.pick[o] = Chosen(o) /\ stage' = stage
    BY <1>1, Picked
  <2> QED
    BY <2>1 DEF Chosen
<1>2. CASE /\ pass.at = "deciding" /\ stage' = stage
           /\ pass'.pick[o] = pass.pick[o]
  BY <1>2 DEF PickInv
<1>3. CASE ComputeHolds
  BY <1>3 DEF ComputeHolds, TypeOK, Pass
<1> QED
  BY <1>1, <1>2, <1>3, PassKinds

\* Freight that is auto-promoted again, although the informer shows that it was,
\* has had a successor.
LEMMA AutoPromotedAgain ==
    ASSUME TypeOK, NameInv, QueueInv, CacheInv, RunInv, PickInv, pass.at = "deciding",
           NEW o \in Origins, NEW f, f = pass.pick[o], f # 0, Eligible(o, f),
           NEW p \in Seen, promo[p].origin = o, promo[p].freight = f
    PROVE  \E r \in Created : r > p /\ promo[r].origin = o /\ promo[r].freight # f
<1>n. stage.last \in Nat /\ Names \subseteq Nat
  BY Numbers
<1> DEFINE finished == {x \in For(o, f) : pCache[x].phase \in Terminal}
<1>1. p \in For(o, f)
  BY DEF For, Seen, CacheInv, SameFor
<1>2. ASSUME NEW x \in For(o, f)
      PROVE  /\ x \in Names
             /\ pCache[x].phase \in Terminal /\ pCache[x] = promo[x]
             /\ pCache[x].phase = "Succeeded" => ~(x > stage.last)
             /\ promo[x].origin = o /\ promo[x].freight = f
  <2>1. /\ x \in Names /\ pCache[x].phase # "absent"
        /\ pCache[x].origin = o /\ pCache[x].freight = f
    BY DEF For, Seen, Cached
  <2>2. pCache[x].phase \in {"absent"} \cup NonTerminal \cup Terminal
    BY <2>1 DEF TypeOK, Promotion
  <2>3. /\ pCache[x].phase \notin NonTerminal
        /\ pCache[x].phase = "Succeeded" => ~(x > stage.last)
    BY DEF Eligible, UnprocessedExists
  <2>4. pCache[x].phase \in Terminal /\ pCache[x] = promo[x]
    BY <2>1, <2>2, <2>3 DEF CacheInv
  <2> QED
    BY <2>1, <2>3, <2>4
<1>3. finished # {} /\ finished \subseteq Names /\ p \in finished
  BY <1>1, <1>2
<1> DEFINE m == MaxOf(finished)
<1>4. m \in finished /\ p <= m
  BY <1>3, MaxOfNames
<1>5. pCache[m].phase = "Succeeded"
  BY <1>3 DEF Eligible, FailedBefore
<1> HIDE DEF m
<1>6. m \in For(o, f)
  BY <1>4
<1>7. /\ m \in Names /\ ~(m > stage.last) /\ promo[m].phase = "Succeeded"
      /\ promo[m].origin = o /\ promo[m].freight = f
  BY <1>2, <1>5, <1>6
<1>8. m \in Replayed
  BY <1>n, <1>7 DEF Replayed
<1>9. stage.running[o] # f
  BY DEF PickInv
<1>10. PICK r \in Replayed : r > m /\ promo[r].origin = o /\ promo[r].freight # f
  BY <1>7, <1>8, <1>9 DEF RunInv, Reflects
<1>11. r \in Created /\ r \in Nat /\ p \in Nat /\ m \in Nat
  BY <1>n, <1>3, <1>7, <1>10 DEF Replayed, Created, QueueInv, Terminal
<1>12. r > p
  BY <1>4, <1>10, <1>11
<1> QED
  BY <1>10, <1>11, <1>12

(***************************************************************************)
(* What has been promoted                                                  *)
(***************************************************************************)

\* What Promotions were for is not undone.
Remembers == \A p \in Created : p \in Created' /\ Same(p)

\* Promotion q is the newest one now.
Made(q) ==
    /\ q \in Names /\ q \notin Created /\ Created' = Created \cup {q}
    /\ \A p \in Created : p < q
    /\ \A p \in 1 .. (q - 1) : p \in Created
    /\ pCache' = pCache

\* The pass has created it, for origin o.
AutoMade(q, o) ==
    /\ pass.at = "deciding" /\ pass.pick[o] # 0 /\ Eligible(o, pass.pick[o])
    /\ promo'[q].auto /\ promo'[q].origin = o /\ promo'[q].freight = pass.pick[o]
    /\ promo'[q].overtakes = IF IsHeld(o) THEN Standing(o) ELSE 0
    /\ pass'.at # "holding" /\ pass'.pick[o] = 0

\* Somebody else has.
HandMade(q) == ~promo'[q].auto /\ promo'[q].overtakes = 0

\* Creating a Promotion gives out the next name and leaves the others alone.
LEMMA BornMade ==
    ASSUME TypeOK, NameInv, Born(NextName), pCache' = pCache
    PROVE  Made(NextName) /\ Remembers
<1>1. NextName \in Names /\ NextName <= N
  BY AutoPromotionAssumption DEF Born, Names
<1>2. /\ \A p \in Created : p < NextName
      /\ \A p \in 1 .. (NextName - 1) : p \in Created
  BY <1>1, NextNameFree
<1>3. NextName \notin Created /\ Created' = Created \cup {NextName}
  BY <1>1 DEF Born, Created
<1>4. Remembers
  <2> SUFFICES ASSUME NEW p \in Created PROVE promo'[p] = promo[p] /\ p \in Created'
    BY DEF Remembers, Same, SameFor
  <2> QED
    BY <1>3 DEF Born, Created
<1> QED
  BY <1>1, <1>2, <1>3, <1>4 DEF Made

\* Only the pass makes auto-promotions.
LEMMA CreatedKinds ==
    ASSUME TypeOK, NameInv, [Next]_vars
    PROVE  /\ Remembers
           /\ \/ Created' = Created
              \/ \E q \in Names : Made(q) /\ (HandMade(q) \/ \E o \in Origins : AutoMade(q, o))
<1>1. CASE promo' = promo
  BY <1>1 DEF Remembers, Same, SameFor, Created
<1>2. ASSUME NEW admitted \in BOOLEAN, AutoPromoteFreight(admitted), promo' # promo
      PROVE  Remembers /\ \E q \in Names : Made(q) /\ \E o \in Origins : AutoMade(q, o)
  <2>1. pass.at = "deciding" /\ pCache' = pCache
    BY <1>2, AutoPromoteBorn
  <2>2. PICK o \in Origins : /\ pass.pick[o] # 0 /\ pass' = Visit([pass.pick EXCEPT ![o] = 0])
                             /\ Creates(o)
    BY <1>2, AutoPromoteBorn
  <2> DEFINE rest == [pass.pick EXCEPT ![o] = 0]
  <2>3. rest[o] = 0 /\ NoCollection[o] = 0
    BY DEF TypeOK, Pass, Collection, NoCollection
  <2> HIDE DEF rest
  <2>4. pass'.at # "holding" /\ (pass'.pick = rest \/ pass'.pick = NoCollection)
    BY <2>2 DEF Visit, IdlePass, rest
  <2>5. AutoMade(NextName, o)
    BY <2>1, <2>2, <2>3, <2>4 DEF AutoMade, Creates
  <2>6. Made(NextName) /\ Remembers
    BY <2>1, <2>2, BornMade DEF Creates
  <2> QED
    BY <2>5, <2>6 DEF Made
<1>3. ASSUME NEW o \in Manual, NEW f \in available[o], Promote(o, f)
      PROVE  Remembers /\ \E q \in Names : Made(q) /\ HandMade(q)
  <2>1. o \in Origins
    BY AutoPromotionAssumption
  <2>2. Born(NextName) /\ HandMade(NextName) /\ pCache' = pCache
    BY <1>3, <2>1, PromoteBorn DEF HandMade, Promote
  <2>3. Made(NextName) /\ Remembers
    BY <2>2, BornMade
  <2> QED
    BY <2>2, <2>3 DEF Made
<1>4. ASSUME NEW q \in Names, Progress(q) PROVE Remembers /\ Created' = Created
  <2>1. Moves(q)
    BY <1>4, ProgressMoves
  <2>2. Created' = Created
    BY <2>1 DEF Moves, Created
  <2>3. ASSUME NEW p \in Created PROVE Same(p)
    <3>1. CASE p = q
      BY <2>1, <3>1 DEF Moves
    <3>2. CASE p # q
      <4>1. promo'[p] = promo[p]
        BY <2>1, <3>2 DEF Moves, Created
      <4> QED
        BY <4>1 DEF Same, SameFor
    <3> QED
      BY <3>1, <3>2
  <2> QED
    BY <2>2, <2>3 DEF Remembers
<1> QED
  BY <1>1, <1>2, <1>3, <1>4
     DEF Next, ReconcileStage, SyncPromotions, ComputeHolds, SelectCandidates, Discover,
         Withdraw, SyncPromotionCache, Progress, vars

\* Nothing is auto-promoted twice without reason.
LEMMA AutoPromotedOnceStep ==
    ASSUME TypeOK, NameInv, QueueInv, CacheInv, RunInv, PickInv, [Next]_vars,
           NEW p \in Seen, NEW q \in Created' \ Created, promo'[q].auto,
           promo'[q].origin = promo[p].origin, promo'[q].freight = promo[p].freight
    PROVE  \E r \in (p + 1) .. (q - 1) :
              promo[r].origin = promo[p].origin /\ promo[r].freight # promo[p].freight
<1>n. Names \subseteq Nat /\ Created \subseteq Names /\ p \in Created
  BY Numbers DEF Created, Seen, CacheInv
<1>1. Made(q) /\ q \in Names /\ ~HandMade(q)
  <2>1. PICK x \in Names : Made(x)
    BY CreatedKinds
  <2> QED
    BY <2>1 DEF Made, HandMade
<1>2. PICK o \in Origins : AutoMade(q, o)
  <2>1. PICK x \in Names : Made(x) /\ (HandMade(x) \/ \E y \in Origins : AutoMade(x, y))
    BY CreatedKinds
  <2>2. x = q
    BY <2>1 DEF Made
  <2> QED
    BY <1>1, <2>1, <2>2
<1> DEFINE f == pass.pick[o]
<1>3. /\ pass.at = "deciding" /\ f # 0 /\ Eligible(o, f)
      /\ promo[p].origin = o /\ promo[p].freight = f
  BY <1>2 DEF AutoMade
<1> HIDE DEF f
<1>4. PICK r \in Created : r > p /\ promo[r].origin = o /\ promo[r].freight # f
  BY <1>3, AutoPromotedAgain DEF f
<1>5. r < q
  BY <1>1, <1>4 DEF Made
<1>6. r \in Nat /\ p \in Nat /\ q \in Nat
  BY <1>n, <1>1, <1>4
<1>7. r \in (p + 1) .. (q - 1)
  BY <1>4, <1>5, <1>6
<1> QED
  BY <1>3, <1>4, <1>7

\* Whatever lies between two Promotions exists.
LEMMA Between ==
    ASSUME TypeOK, NameInv, NEW p \in Created, NEW q \in Created, NEW r \in (p + 1) .. (q - 1)
    PROVE  r \in Created
<1>1. PICK c \in NilOrName : Created = 1 .. c
  BY DEF NameInv
<1>2. c \in Nat
  BY <1>1, AutoPromotionAssumption DEF NilOrName
<1> QED
  BY <1>1, <1>2

\* Whether a release came between a hold and an auto-promotion does not change.
LEMMA OvertakingStable ==
    ASSUME TypeOK, NameInv, Remembers, NEW o, NEW h \in Created, NEW p \in Created
    PROVE  p \in Overtaking(o, h)' <=> p \in Overtaking(o, h)
<1>1. \A r \in (h + 1) .. (p - 1) : Same(r)
  BY Between DEF Remembers
<1>2. Released(o, h, p)' <=> Released(o, h, p)
  BY <1>1 DEF Released, Same, SameFor
<1>3. p \in Created' /\ Same(p)
  BY DEF Remembers
<1> QED
  BY <1>2, <1>3 DEF Overtaking, Same, SameFor

\* A pass finds every origin held whose hold has not been released.
LEMMA HoldNoticed ==
    ASSUME TypeOK, CacheInv, HoldInv,
           NEW o \in Origins, NEW h \in Names, Hold(o, h), ~ReleasedSince(o, h)
    PROVE  o \in EffectiveHolds
<1>n. Names \subseteq Nat /\ Cached \subseteq Names
  BY Numbers DEF Cached
<1> SUFFICES ASSUME ~IsHeld(o) PROVE FALSE
  BY HoldsKnownLemma DEF HoldsKnown
<1> DEFINE d == Standing(o)
<1>1. IsDecider(d, Cached, o)
  BY <1>n, DeciderLemma DEF Standing
<1> HIDE DEF d
<1>2. Decides(h, o) /\ h \in Cached
  BY DEF Hold, Decides
<1>3. d \in Cached /\ Decides(d, o) /\ h <= d
  BY <1>1, <1>2 DEF IsDecider
<1>4. d # 0
  BY <1>n, <1>3, Numbers
<1>5. pCache[d].intent # "hold"
  BY <1>4 DEF IsHeld, d
<1>6. pCache[d].origin = o /\ pCache[d].intent = "resume"
  BY <1>n, <1>3, <1>5 DEF Decides, TypeOK, Promotion
<1>7. d # h
  BY <1>5 DEF Hold
<1>8. d > h
  BY <1>n, <1>2, <1>3, <1>7
<1> QED
  BY <1>3, <1>6, <1>8 DEF ReleasedSince

\* A pass that may promote Freight of an origin whose hold the informer shows has
\* been under way since before.
LEMMA PendingKept ==
    ASSUME TypeOK, NameInv, CacheInv, HoldInv, [Next]_vars,
           NEW o \in Origins, NEW h \in Names, Hold(o, h), ~ReleasedSince(o, h), Pending(o)'
    PROVE  Pending(o)
<1>1. CASE ComputeHolds
  <2>1. pass'.at = "holding" /\ pass'.held = EffectiveHolds
    BY <1>1 DEF ComputeHolds, TypeOK, Pass
  <2> QED
    BY <2>1, HoldNoticed DEF Pending
<1>2. CASE SelectCandidates
  <2>1. pass'.at # "holding" /\ pass.at = "holding"
    BY <1>2 DEF SelectCandidates, Visit, IdlePass
  <2>2. Chosen(o) # 0
    BY <1>2, <2>1, Picked DEF Pending
  <2> QED
    BY <2>1, <2>2 DEF Pending, Chosen
<1>3. CASE /\ pass.at = "deciding" /\ pass'.at = "deciding"
           /\ \A x \in Origins : pass'.pick[x] # 0 => pass'.pick[x] = pass.pick[x]
  BY <1>3 DEF Pending
<1>4. CASE pass' = pass
  BY <1>4 DEF Pending
<1> QED
  BY <1>1, <1>2, <1>3, <1>4, PassKinds DEF Pending

\* What the informer has had, it keeps, and what has been aborted stays aborted.
CacheGrows ==
    \A p \in Cached :
        /\ p \in Cached' /\ SameFor(pCache'[p], pCache[p])
        /\ pCache[p].phase = "Aborted" => pCache'[p].phase = "Aborted"

\* Every step keeps to that.
LEMMA CacheGrowsStep ==
    ASSUME TypeOK, CacheInv, Step
    PROVE  CacheGrows
<1>1. CASE pCache' = pCache
  BY <1>1 DEF CacheGrows, SameFor, Cached
<1>2. ASSUME NEW p \in Names, Moves(p), Forgotten(p) PROVE CacheGrows
  <2>1. pCache[p] = promo[p] /\ pCache[p].phase \in Terminal
    BY <1>2 DEF Forgotten, CacheInv
  <2>2. pCache'[p] = promo'[p] /\ \A q \in Names \ {p} : pCache'[q] = pCache[q]
    BY <1>2, <2>1 DEF Forgotten, Noticed
  <2>3. SameFor(pCache'[p], pCache[p]) /\ pCache'[p].phase = pCache[p].phase
    BY <1>2, <2>1, <2>2 DEF Forgotten, Moves, Same
  <2> QED
    BY <2>1, <2>2, <2>3 DEF CacheGrows, Cached, SameFor
<1>3. CASE pCache' = promo
  <2> SUFFICES ASSUME NEW p \in Cached
               PROVE  /\ p \in Cached' /\ SameFor(promo[p], pCache[p])
                      /\ pCache[p].phase = "Aborted" => promo[p].phase = "Aborted"
    BY <1>3 DEF CacheGrows
  <2>1. p \in Names /\ p \in Created /\ SameFor(pCache[p], promo[p])
    BY DEF CacheInv, Cached
  <2> QED
    BY <1>3, <2>1 DEF CacheInv, Cached, Created, SameFor, Terminal
<1> QED
  BY <1>1, <1>2, <1>3 DEF Step, Advances

\* OvertakeInv is inductive.
LEMMA OvertakeInvStep ==
    ASSUME TypeOK, NameInv, CacheInv, HoldInv, OvertakeInv, Step, [Next]_vars
    PROVE  OvertakeInv'
<1>n. Names \subseteq Nat /\ 0 \notin Names /\ Created \subseteq Names /\ Cached \subseteq Names
  BY Numbers DEF Created, Cached
<1>r. Remembers
  BY CreatedKinds
<1>g. CacheGrows
  BY CacheGrowsStep
<1>a. ASSUME NEW p \in Created', promo'[p].overtakes # 0 PROVE promo'[p].overtakes \in Cached
  <2>1. CASE p \in Created
    BY <1>a, <1>r, <2>1 DEF Remembers, Same, SameFor, OvertakeInv
  <2>2. CASE p \notin Created
    <3>1. PICK q \in Names : Made(q) /\ (HandMade(q) \/ \E o \in Origins : AutoMade(q, o))
      BY <2>2, CreatedKinds
    <3>2. p = q /\ ~HandMade(q)
      BY <1>a, <2>2, <3>1 DEF Made, HandMade
    <3>3. PICK o \in Origins : AutoMade(p, o)
      BY <3>1, <3>2
    <3>4. promo'[p].overtakes = Standing(o)
      BY <1>a, <3>3 DEF AutoMade
    <3> QED
      BY <1>a, <3>4, StandingType
  <2> QED
    BY <2>1, <2>2
<1> SUFFICES ASSUME NEW o \in Origins, NEW h \in Names, Hold(o, h)'
             PROVE  /\ \A p, q \in Overtaking(o, h)' : p = q
                    /\ Pending(o)' /\ ~ReleasedSince(o, h)' => Overtaking(o, h)' = {}
  BY <1>a, <1>g DEF OvertakeInv, CacheGrows
<1>s. \A p : p \in Overtaking(o, h) => p \in Created
  BY DEF Overtaking
<1>s1. \A p : p \in Overtaking(o, h)' => p \in Created'
  BY DEF Overtaking
<1>1. CASE h \in Cached
  <2>1. Hold(o, h) /\ h \in Created
    BY <1>g, <1>1 DEF CacheGrows, Hold, SameFor, CacheInv
  <2>2. \A p, q \in Overtaking(o, h) : p = q
    BY <2>1 DEF OvertakeInv
  <2>3. \A p \in Created : p \in Overtaking(o, h)' <=> p \in Overtaking(o, h)
    BY <1>r, <2>1, OvertakingStable
  <2>4. ~ReleasedSince(o, h)' => ~ReleasedSince(o, h)
    BY <1>g DEF ReleasedSince, CacheGrows, SameFor
  <2>5. CASE Overtaking(o, h)' = Overtaking(o, h)
    <3>1. ASSUME Pending(o)', ~ReleasedSince(o, h) PROVE Overtaking(o, h) = {}
      <4>1. Pending(o)
        BY <2>1, <3>1, PendingKept
      <4> QED
        BY <2>1, <3>1, <4>1 DEF OvertakeInv
    <3> QED
      BY <2>2, <2>4, <2>5, <3>1
  <2>6. ASSUME NEW q \in Names, Made(q), NEW x \in Origins, AutoMade(q, x), q \in Overtaking(o, h)'
        PROVE  /\ \A y, z \in Overtaking(o, h)' : y = z
               /\ ~Pending(o)'
    <3>1. promo'[q].origin = o /\ ~Released(o, h, q)'
      BY <2>6 DEF Overtaking
    <3>2. x = o /\ Pending(o) /\ ~Pending(o)'
      BY <2>6, <3>1 DEF AutoMade, Pending
    <3>3. ~ReleasedSince(o, h)
      <4> SUFFICES ASSUME NEW r \in Cached, r > h, pCache[r].origin = o, pCache[r].intent = "resume"
                   PROVE  FALSE
        BY DEF ReleasedSince
      <4>1. r \in Created /\ promo[r].origin = o /\ promo[r].intent = "resume"
        BY DEF CacheInv, SameFor
      <4>2. r < q /\ Same(r)
        BY <1>r, <2>6, <4>1 DEF Made, Remembers
      <4>3. r \in (h + 1) .. (q - 1)
        BY <1>n, <4>2
      <4> QED
        BY <3>1, <4>1, <4>2, <4>3 DEF Released, Same, SameFor
    <3>4. Overtaking(o, h) = {}
      BY <2>1, <3>2, <3>3 DEF OvertakeInv
    <3>5. \A y \in Overtaking(o, h)' : y = q
      BY <1>s1, <2>3, <2>6, <3>4 DEF Made
    <3> QED
      BY <3>2, <3>5
  <2>7. ASSUME Created' = Created PROVE Overtaking(o, h)' = Overtaking(o, h)
    BY <1>s, <1>s1, <2>3, <2>7
  <2>8. ASSUME NEW q \in Names, Made(q), q \notin Overtaking(o, h)'
        PROVE  Overtaking(o, h)' = Overtaking(o, h)
    BY <1>s, <1>s1, <2>3, <2>8 DEF Made
  <2>9. ASSUME NEW q \in Names, HandMade(q) PROVE q \notin Overtaking(o, h)'
    BY <2>9 DEF Overtaking, HandMade
  <2> QED
    BY <2>5, <2>6, <2>7, <2>8, <2>9, CreatedKinds
<1>2. CASE h \notin Cached
  <2>1. ASSUME NEW p \in Created' PROVE promo'[p].overtakes # h
    BY <1>a, <1>n, <1>2
  <2>2. Overtaking(o, h)' = {}
    BY <2>1 DEF Overtaking
  <2> QED
    BY <2>2
<1> QED
  BY <1>1, <1>2

\* A hold that stands is one of those OvertakeInv is about.
LEMMA SupersededOnceLemma ==
    ASSUME TypeOK, NameInv, OvertakeInv
    PROVE  SupersededOnce
<1> SUFFICES ASSUME NEW o \in Origins, IsHeld(o)
             PROVE  Cardinality(Overtaking(o, Standing(o))) <= 1
  BY DEF SupersededOnce
<1> DEFINE h == Standing(o)
           S == Overtaking(o, h)
<1>1. IsDecider(h, Cached, o)
  BY DeciderLemma DEF Standing, Cached
<1>2. h # 0 /\ pCache[h].intent = "hold"
  BY DEF IsHeld
<1> HIDE DEF h
<1>3. h \in Names /\ Hold(o, h)
  BY <1>1, <1>2 DEF IsDecider, Decides, Hold, Cached
<1>4. \A p, q \in S : p = q
  BY <1>3 DEF OvertakeInv
<1> HIDE DEF S
<1>5. CASE S = {}
  <2>1. Cardinality(S) = 0
    BY <1>5, FS_EmptySet
  <2> QED
    BY <2>1 DEF S, h
<1>6. CASE S # {}
  <2>1. PICK x : x \in S
    BY <1>6
  <2>2. S = {x}
    BY <1>4, <2>1
  <2>3. Cardinality(S) = 1
    BY <2>2, FS_Singleton
  <2> QED
    BY <2>3 DEF S, h
<1> QED
  BY <1>5, <1>6

(***************************************************************************)
(* The theorems                                                            *)
(***************************************************************************)

\* Every invariant holds at first.
LEMMA InitInv ==
    ASSUME Init
    PROVE  /\ QueueInv /\ CacheInv /\ HoldInv /\ CarryInv /\ RunInv /\ PickInv /\ OvertakeInv
<1>0. /\ Names \subseteq Nat /\ 0 \notin Names /\ \A p \in Names : ~(p <= 0)
      /\ 0 \in NilOrName /\ 1 .. 0 = {}
  BY AutoPromotionAssumption DEF Names, NilOrName
<1>1. /\ \A p \in Names : promo[p] = NoPromotion /\ pCache[p] = NoPromotion
      /\ stage.current = 0 /\ stage.last = 0 /\ stage.holds = {}
      /\ stage.lastCollection = stage.running
      /\ pass.at = "idle"
  BY DEF Init, IdlePass
<1>2. Created = {} /\ Cached = {} /\ Replayed = {}
  <2>1. \A p \in Names : promo[p].phase = "absent" /\ pCache[p].phase = "absent"
    BY <1>1 DEF NoPromotion
  <2>2. \A p \in Names : ~(p <= stage.last)
    BY <1>0, <1>1
  <2> QED
    BY <2>1, <2>2 DEF Created, Cached, Replayed
<1>3. QueueInv
  BY <1>0, <1>1 DEF QueueInv, NoPromotion
<1>3a. CacheInv
  BY <1>0, <1>1, <1>2 DEF CacheInv, NoPromotion, Terminal
<1>4. HoldInv
  <2> SUFFICES ASSUME NEW o \in Origins PROVE ~SaysHold(Replayed, o)
    BY <1>1 DEF HoldInv
  <2>1. IsDecider(0, Replayed, o)
    BY <1>2 DEF IsDecider
  <2>2. Decider(Replayed, o) = 0
    BY <2>1, DeciderLemma DEF Replayed
  <2> QED
    BY <2>2 DEF SaysHold
<1>5. CarryInv
  BY <1>0, <1>1 DEF CarryInv, Covers
<1>6. RunInv
  BY <1>1, <1>2 DEF RunInv, Reflects
<1>7. PickInv
  BY <1>1 DEF PickInv
<1>8. OvertakeInv
  BY <1>2 DEF OvertakeInv, Hold
<1> QED
  BY <1>3, <1>3a, <1>4, <1>5, <1>6, <1>7, <1>8

Inv ==
    /\ TypeOK /\ NameInv /\ QueueInv /\ CacheInv /\ HoldInv /\ CarryInv /\ RunInv /\ PickInv
    /\ OvertakeInv

\* The invariants are inductive together.
LEMMA InvStep ==
    ASSUME TurnsTaken, Inv, [Next]_vars
    PROVE  Inv'
<1> USE DEF Inv
<1>1. TypeOK' /\ NameInv'
  BY BaseStep
<1>2. Step
  BY StepKinds
<1>3. QueueInv'
  BY <1>2, QueueInvStep
<1>4. CacheInv'
  BY <1>1, <1>2, <1>3, CacheInvStep
<1>5. HoldInv' /\ CarryInv' /\ RunInv'
  BY <1>2, <1>4, HoldInvStep, CarryInvStep, RunInvStep
<1>6. PickInv' /\ OvertakeInv'
  BY <1>2, PickInvStep, OvertakeInvStep
<1> QED
  BY <1>1, <1>3, <1>4, <1>5, <1>6

\* Promotions take their turns although the informer lags, the Stage knows what it
\* runs and which origins are held, and a pass that acts on what is out of date is
\* one that began before.
THEOREM AlwaysInv ==
    ASSUME TurnsTaken
    PROVE  Spec => []Inv
<1>1. Init => Inv
  <2> SUFFICES ASSUME Init PROVE Inv
    OBVIOUS
  <2>1. TypeOK /\ NameInv
    BY InitBase
  <2> QED
    BY <2>1, InitInv DEF Inv
<1>2. Inv /\ [Next]_vars => Inv'
  BY InvStep
<1> QED
  BY <1>1, <1>2, PTL DEF Spec

\* The holds that auto-promotion would compute now are exactly the newest intents
\* that nobody withdrew among the Promotions the informer has had, whatever has been
\* replayed or garbage-collected since (computeEffectiveAutoPromotionHolds).
THEOREM AlwaysHoldsKnown ==
    ASSUME TurnsTaken
    PROVE  Spec => []HoldsKnown
<1>1. Inv => HoldsKnown
  BY HoldsKnownLemma DEF Inv
<1> QED
  BY <1>1, AlwaysInv, PTL

\* A hold that the informer has is overtaken at most once, by an auto-promotion that
\* was decided on before (syncHoldAnnotations).
THEOREM AlwaysSupersededOnce ==
    ASSUME TurnsTaken
    PROVE  Spec => []SupersededOnce
<1>1. Inv => SupersededOnce
  BY SupersededOnceLemma DEF Inv
<1> QED
  BY <1>1, AlwaysInv, PTL

\* Freight whose auto-promotion the informer shows is auto-promoted again only after
\* other Freight of its origin (autoPromoteFreight).
THEOREM AlwaysAutoPromotedOnce ==
    ASSUME TurnsTaken
    PROVE  Spec => AutoPromotedOnce
<1> DEFINE A == \A p \in Seen, q \in Created' \ Created :
                   /\ promo[p].auto /\ promo'[q].auto
                   /\ promo'[q].origin = promo[p].origin /\ promo'[q].freight = promo[p].freight
                   => \E r \in (p + 1) .. (q - 1) :
                         promo[r].origin = promo[p].origin /\ promo[r].freight # promo[p].freight
<1>1. Inv /\ [Next]_vars => A
  <2> SUFFICES ASSUME Inv, [Next]_vars PROVE A
    OBVIOUS
  <2> QED
    BY AutoPromotedOnceStep DEF Inv
<1>2. Inv /\ [Next]_vars => [A]_vars
  BY <1>1
<1> QED
  BY <1>2, AlwaysInv, PTL DEF Spec, AutoPromotedOnce

\* What the Stage runs never loses an origin, whichever Promotions failed or were
\* aborted before they had a collection (NewFreightCollectionForStage).
THEOREM AlwaysOriginsKept ==
    ASSUME TurnsTaken
    PROVE  Spec => OriginsKept
<1>1. Inv /\ [Next]_vars => [\A o \in Origins : stage.running[o] # 0 => stage'.running[o] # 0]_stage
  <2> SUFFICES ASSUME Inv, [Next]_vars
               PROVE  \A o \in Origins : stage.running[o] # 0 => stage'.running[o] # 0
    OBVIOUS
  <2>1. Step
    BY StepKinds DEF Inv
  <2> QED
    BY <2>1, OriginsKeptStep DEF Inv
<1> QED
  BY <1>1, AlwaysInv, PTL DEF Spec, OriginsKept
=============================================================================
