------------------------- MODULE StageOutcomeProofs -------------------------
(***************************************************************************)
(* Proofs about what the Stage makes of finished Promotions                *)
(* (StagePromotions): no outcome is lost and no released hold comes back,  *)
(* for any number of Promotions, any history limit, any number of          *)
(* restarts and any interleaving.                                          *)
(*                                                                         *)
(* The difficulty is that a pass works on copies of the Stage and of the   *)
(* Promotions that are out of date, each by an amount of its own, and that *)
(* what it writes may undo what an earlier pass wrote.                     *)
(***************************************************************************)
EXTENDS StagePromotionsProofs, FiniteSetTheorems

(***************************************************************************)
(* The invariants                                                          *)
(***************************************************************************)
DoneIn(view, p) == view[p].phase \in Terminal \cup {"gone"}

Began(phase) == phase \in {"Running", "Succeeded", "Failed"}

\* p is running, or has run to an end, and still exists as far as the informer knows.
Ran(p) == Began(promo[p].phase) \/ Began(pCache[p].phase) \/ worker[p] # "idle"

\* Promotions run in the order of their names, as far as one can see in one look,
\* and the informer shows outcomes and intents that are final.
ViewInv ==
    /\ \A p, q \in Names : q < p /\ Began(promo[p].phase) => DoneIn(promo, q)
    /\ \A p, q \in Names : q < p /\ Began(pCache[p].phase) => DoneIn(pCache, q)
    /\ \A p \in Names : DoneIn(pCache, p) => promo[p].phase \in {pCache[p].phase, "gone"}
    /\ \A p \in Names : pCache[p].phase # "absent" => pCache[p].intent = promo[p].intent

\* A Promotion is elected when the informer shows every older one as over; only the
\* end of that round makes the Stage give it up.
TurnInv ==
    /\ \A s \in {stage, sCache} : s.current # 0 =>
          /\ pCache[s.current].phase # "absent"
          /\ \A q \in Names : q < s.current => DoneIn(pCache, q)
    /\ sCache.current # 0 =>
          \/ stage.current = sCache.current
          \/ stage.current = 0 /\ DoneIn(pCache, sCache.current)

\* A Promotion newer than p that left the queue early is behind lastPromotion.
OvertakenAt(last, p) ==
    \E q \in Names : /\ p < q /\ q <= last
                     /\ promo[q].phase \in {"Aborted", "gone"}

\* lastPromotion never falls behind the copy a pass works on; it moves past a
\* Promotion that is not over only by way of one that left the queue early, and it
\* moves past every Promotion that ran before the Stage gives it up.
LastInv ==
    /\ sCache.last.name <= stage.last.name
    /\ stage.last.name # sCache.last.name =>
          /\ sCache.current # 0 /\ DoneIn(pCache, sCache.current)
          /\ \A q \in Names : q <= sCache.last.name => DoneIn(pCache, q)
    /\ \A s \in {stage, sCache} : \A p \in Names :
          /\ p <= s.last.name /\ ~DoneIn(pCache, p) => OvertakenAt(s.last.name, p)
          /\ Ran(p) => p <= s.last.name \/ p = s.current

\* p is in the history R, or newer entries pushed it out.
Accounted(R, p) ==
    \/ p \in R
    \/ Cardinality(R) = HistoryLimit /\ \A q \in R : p < q

RecordInv ==
    /\ \A s \in {stage, sCache} : \A p \in Names :
          p <= s.last.name /\ promo[p].phase = "Succeeded" =>
             Accounted(s.history.recorded, p) \/ OvertakenAt(s.last.name, p)
    /\ \A p \in Names :
          Accounted(sCache.history.recorded, p) => Accounted(stage.history.recorded, p)

\* Promotion q released whatever was held when it was replayed.
Releases(q) == promo[q].intent = "resume" /\ promo[q].phase \in {"Succeeded", "Failed"}

\* The Stage's hold and that of the copy a pass works on differ by the Promotion
\* whose round it is at most.
HoldInv ==
    /\ \A s \in {stage, sCache} :
          /\ s.hold # 0 /\ s.hold > s.last.name => pCache[s.hold].phase = "gone"
          /\ \A q \in Names : s.hold # 0 /\ s.hold < q /\ q <= s.last.name /\ Releases(q) =>
                OvertakenAt(s.last.name, q)
    /\ \/ stage.hold \in {0, sCache.hold}
       \/ stage.hold = sCache.current /\ sCache.last.name < sCache.current

(***************************************************************************)
(* The history                                                             *)
(***************************************************************************)
Newer(S, p) == {q \in S : q > p}

\* A set of names is finite, and so are its parts.
LEMMA NamesFinite ==
    ASSUME NEW S, S \subseteq Names
    PROVE  /\ IsFiniteSet(S) /\ Cardinality(S) \in Nat
           /\ \A T : T \subseteq S => /\ IsFiniteSet(T) /\ Cardinality(T) \in Nat
                                      /\ Cardinality(T) <= Cardinality(S)
                                      /\ Cardinality(T) = Cardinality(S) => T = S
<1>1. IsFiniteSet(Names)
  BY FS_Interval, ConstantsAssumption DEF Names
<1>2. IsFiniteSet(S)
  BY <1>1, FS_Subset
<1> QED
  BY <1>2, FS_Subset, FS_CardinalityType

\* The more recent of two entries has fewer entries before it in the list.
LEMMA NewerLemma ==
    ASSUME NEW S, S \subseteq Names, NEW p \in Names, NEW q \in Names, p < q
    PROVE  /\ Cardinality(Newer(S, q)) <= Cardinality(Newer(S, p))
           /\ q \in S => Cardinality(Newer(S, q)) < Cardinality(Newer(S, p))
<1>n. Names \subseteq Nat
  BY ConstantsAssumption DEF Names
<1> DEFINE P == Newer(S, p)
           Q == Newer(S, q)
<1>1. Q \subseteq P /\ P \subseteq Names
  <2>1. \A r \in Names : r > q => r > p
    BY <1>n
  <2> QED
    BY <2>1 DEF Newer
<1>2. q \in S => q \in P /\ q \notin Q
  BY <1>n DEF Newer
<1> HIDE DEF P, Q
<1>3. /\ Cardinality(P) \in Nat /\ Cardinality(Q) \in Nat /\ Cardinality(Q) <= Cardinality(P)
      /\ Cardinality(Q) = Cardinality(P) => Q = P
  BY <1>1, NamesFinite
<1> QED
  BY <1>2, <1>3 DEF P, Q

\* A full list stays full: of HistoryLimit entries or more, Truncate keeps
\* HistoryLimit.
LEMMA TruncateFull ==
    ASSUME NEW S, S \subseteq Names, HistoryLimit <= Cardinality(S)
    PROVE  Cardinality(Truncate(S)) = HistoryLimit
<1>n. Names \subseteq Nat
  BY ConstantsAssumption DEF Names
<1>h. HistoryLimit \in Nat /\ HistoryLimit # 0
  BY ConstantsAssumption
<1> DEFINE n == Cardinality(S)
           Rank(p) == Cardinality(Newer(S, p))
           f == [p \in S |-> Rank(p)]
           K == HistoryLimit
           T == Truncate(S)
           g == [p \in T |-> Rank(p)]
<1>1. IsFiniteSet(S) /\ n \in Nat
  BY NamesFinite
<1>2. ASSUME NEW p \in S PROVE Rank(p) \in 0 .. (n - 1)
  <2>1. Newer(S, p) \subseteq S /\ p \notin Newer(S, p)
    BY <1>n DEF Newer
  <2>2. Rank(p) \in Nat /\ Rank(p) <= n /\ Rank(p) # n
    BY <2>1, NamesFinite
  <2> QED
    BY <1>1, <2>2
<1>3. \A p, q \in S : Rank(p) = Rank(q) => p = q
  <2> SUFFICES ASSUME NEW p \in S, NEW q \in S, Rank(p) = Rank(q), p < q PROVE FALSE
    BY <1>n
  <2>1. Rank(q) < Rank(p)
    BY NewerLemma
  <2>2. Rank(q) \in Nat
    BY <1>2
  <2> QED
    BY <2>1, <2>2
<1>4. T \subseteq S /\ \A p \in S : p \in T <=> Rank(p) < K
  BY DEF Truncate, Newer
<1> HIDE DEF Rank, T, n
<1>5. f \in Injection(S, 0 .. (n - 1))
  BY <1>2, <1>3 DEF Injection, IsInjective
<1>6. /\ IsFiniteSet(0 .. (n - 1)) /\ Cardinality(0 .. (n - 1)) = n
      /\ IsFiniteSet(0 .. (K - 1)) /\ Cardinality(0 .. (K - 1)) = K
  <2>1. ASSUME NEW m \in Nat
        PROVE  IsFiniteSet(0 .. (m - 1)) /\ Cardinality(0 .. (m - 1)) = m
    <3>1. m - 1 \in Int /\ 0 \in Int
      OBVIOUS
    <3>2. /\ IsFiniteSet(0 .. (m - 1))
          /\ Cardinality(0 .. (m - 1)) = IF 0 > m - 1 THEN 0 ELSE m - 1 - 0 + 1
      BY <3>1, FS_Interval
    <3> QED
      BY <3>2
  <2> QED
    BY <1>1, <1>h, <2>1
<1>7. f \in Surjection(S, 0 .. (n - 1))
  BY <1>5, <1>6, FS_Injection DEF n
<1>8. \A i \in 0 .. (n - 1) : \E p \in S : Rank(p) = i
  BY <1>7 DEF Surjection
<1>9. \A i \in 0 .. (K - 1) : \E p \in T : Rank(p) = i
  <2> SUFFICES ASSUME NEW i \in 0 .. (K - 1) PROVE \E p \in T : Rank(p) = i
    OBVIOUS
  <2>1. i \in 0 .. (n - 1) /\ i < K
    BY <1>1, <1>h DEF n
  <2>2. PICK p \in S : Rank(p) = i
    BY <1>8, <2>1
  <2> QED
    BY <1>4, <2>1, <2>2
<1>10. \A p \in T : Rank(p) \in 0 .. (K - 1)
  BY <1>1, <1>2, <1>4, <1>h
<1>11. g \in Injection(T, 0 .. (K - 1))
  BY <1>3, <1>4, <1>10 DEF Injection, IsInjective
<1>12. g \in Surjection(T, 0 .. (K - 1))
  BY <1>9, <1>10 DEF Surjection
<1>13. Cardinality(T) = K
  BY <1>6, <1>11, <1>12, FS_Injection
<1> QED
  BY <1>13 DEF T

\* Recording more keeps account of what was recorded, and of what is recorded now.
LEMMA TruncateAccounts ==
    ASSUME NEW R, R \subseteq Names, NEW X, X \subseteq Names, NEW p \in Names,
           Accounted(R, p) \/ p \in X
    PROVE  Accounted(Truncate(R \cup X), p)
<1>n. Names \subseteq Nat
  BY ConstantsAssumption DEF Names
<1>h. HistoryLimit \in Nat
  BY ConstantsAssumption
<1> DEFINE S == R \cup X
<1>0. S \subseteq Names
  OBVIOUS
<1>1. ASSUME HistoryLimit <= Cardinality(Newer(S, p))
      PROVE  Accounted(Truncate(S), p)
  <2>1. Newer(S, p) \subseteq S
    BY DEF Newer
  <2>2. /\ Cardinality(Newer(S, p)) \in Nat /\ Cardinality(S) \in Nat
        /\ Cardinality(Newer(S, p)) <= Cardinality(S)
    BY <1>0, <2>1, NamesFinite
  <2>3. Cardinality(Truncate(S)) = HistoryLimit
    <3>1. HistoryLimit <= Cardinality(S)
      BY <1>h, <1>1, <2>2
    <3> QED
      BY <1>0, <3>1, TruncateFull
  <2>4. ASSUME NEW q \in Truncate(S), ~(p < q) PROVE FALSE
    <3>1. q \in Names /\ Cardinality(Newer(S, q)) < HistoryLimit
      BY <1>0 DEF Truncate, Newer
    <3>2. Cardinality(Newer(S, q)) \in Nat
      BY <1>0, NamesFinite DEF Newer
    <3>3. CASE q = p
      BY <1>h, <1>1, <2>2, <3>1, <3>3
    <3>4. CASE q < p
      <4>1. Cardinality(Newer(S, p)) <= Cardinality(Newer(S, q))
        BY <1>0, <3>1, <3>4, NewerLemma
      <4> QED
        BY <1>h, <1>1, <2>2, <3>1, <3>2, <4>1
    <3> QED
      BY <1>n, <2>4, <3>1, <3>3, <3>4
  <2> QED
    BY <2>3, <2>4 DEF Accounted
<1>2. CASE p \in S
  <2>1. CASE Cardinality(Newer(S, p)) < HistoryLimit
    <3>1. p \in Truncate(S)
      BY <1>2, <2>1 DEF Truncate, Newer
    <3> QED
      BY <3>1 DEF Accounted
  <2>2. CASE ~(Cardinality(Newer(S, p)) < HistoryLimit)
    <3>1. Cardinality(Newer(S, p)) \in Nat
      BY <1>0, NamesFinite DEF Newer
    <3> QED
      BY <1>h, <1>1, <2>2, <3>1
  <2> QED
    BY <2>1, <2>2
<1>3. CASE p \notin S
  <2>1. Cardinality(R) = HistoryLimit /\ \A q \in R : p < q
    BY <1>3 DEF Accounted
  <2>2. R \subseteq Newer(S, p) /\ Newer(S, p) \subseteq Names
    BY <1>n, <1>0, <2>1 DEF Newer
  <2>3. Cardinality(R) <= Cardinality(Newer(S, p))
    BY <2>2, NamesFinite
  <2> QED
    BY <1>1, <2>1, <2>3
<1> QED
  BY <1>2, <1>3

(***************************************************************************)
(* What a pass sees                                                        *)
(***************************************************************************)

\* The numbers in a Stage's status.
LEMMA StatusNumbers ==
    ASSUME NEW s \in StageStatus
    PROVE  /\ Names \subseteq Nat /\ 0 \notin Names
           /\ s.last.name \in Nat /\ s.current \in Nat /\ s.hold \in Nat
           /\ s.current # 0 => s.current \in Names
           /\ s.hold # 0 => s.hold \in Names
           /\ s.last.name # 0 => s.last.name \in Names
           /\ s.history.recorded \subseteq Names
<1>1. s.last \in PromotionRef /\ s.current \in NilOrName /\ s.hold \in NilOrName /\ s.history \in History
  BY DEF StageStatus
<1> QED
  BY <1>1, ConstantsAssumption DEF PromotionRef, History, NilOrName, Names

\* A Promotion the informer shows is over or still has to end.
LEMMA KnownKinds ==
    ASSUME TypeOK, NEW p \in Names, pCache[p].phase # "absent"
    PROVE  DoneIn(pCache, p) \/ pCache[p].phase \in NonTerminal
BY DEF TypeOK, Promotion, Phases, DoneIn

\* The Promotions a pass that ends a round replays.
Fresh == NewPromos(pCache, sCache.last.name)

\* They are all those that are finished and newer than lastPromotion, unless an
\* older one that is still queued hides them all.
LEMMA FreshLemma ==
    ASSUME TypeOK, SerialInv
    PROVE  /\ \A p \in Fresh : /\ p \in Names /\ pCache[p].phase \in Terminal
                               /\ sCache.last.name < p
           /\ Fresh # {} => \A q \in Names : q <= sCache.last.name => DoneIn(pCache, q)
           /\ (\A q \in Names : q <= sCache.last.name => DoneIn(pCache, q)) =>
                 \A p \in Names : pCache[p].phase \in Terminal /\ sCache.last.name < p => p \in Fresh
<1>n. Names \subseteq Nat /\ sCache.last.name \in Nat
  BY StatusNumbers DEF TypeOK
<1> DEFINE l == sCache.last.name
<1>r. \A p \in Names : /\ pCache[p].phase \in Terminal => PhaseRank(pCache[p].phase) = 2
                       /\ pCache[p].phase \in NonTerminal => PhaseRank(pCache[p].phase) \in {0, 1}
  BY DEF PhaseRank, NonTerminal, Terminal
<1>1. ASSUME NEW p \in Fresh
      PROVE  /\ p \in Names /\ pCache[p].phase \in Terminal /\ l < p
  <2>1. /\ p \in Listed(pCache) /\ p \in Names /\ pCache[p].phase \in Terminal
        /\ \A q \in Listed(pCache) : (q = p \/ Before(pCache, q, p)) => q > l
    BY DEF Fresh, NewPromos, Listed
  <2>2. p > l
    BY <2>1
  <2> QED
    BY <1>n, <2>1, <2>2
<1>2. ASSUME NEW m \in Fresh, NEW q \in Names, q <= l, ~DoneIn(pCache, q) PROVE FALSE
  <2>1. m \in Names /\ pCache[m].phase \in Terminal /\ l < m
    BY <1>1
  <2>2. q < m
    BY <1>n, <1>2, <2>1
  <2>3. pCache[q].phase # "absent"
    BY <2>1, <2>2 DEF SerialInv, KnownInOrder, Terminal
  <2>4. pCache[q].phase \in NonTerminal
    BY <1>2, <2>3, KnownKinds
  <2>5. q \in Listed(pCache)
    BY <2>4 DEF Listed
  <2>6. PhaseRank(pCache[q].phase) \in {0, 1} /\ PhaseRank(pCache[m].phase) = 2
    BY <1>r, <2>1, <2>4
  <2>7. Before(pCache, q, m)
    BY <2>6 DEF Before
  <2>8. q > l
    BY <2>5, <2>7 DEF Fresh, NewPromos
  <2> QED
    BY <1>n, <1>2, <2>8
<1>3. ASSUME \A q \in Names : q <= l => DoneIn(pCache, q),
             NEW p \in Names, pCache[p].phase \in Terminal, l < p
      PROVE  p \in Fresh
  <2>1. p \in Listed(pCache)
    BY <1>3 DEF Listed
  <2>2. ASSUME NEW q \in Listed(pCache), q = p \/ Before(pCache, q, p) PROVE q > l
    <3>0. q \in Names /\ pCache[q].phase \in NonTerminal \cup Terminal
      BY DEF Listed
    <3>1. CASE q = p
      BY <1>n, <1>3, <3>1
    <3>2. CASE pCache[q].phase \in NonTerminal
      <4>1. ~DoneIn(pCache, q)
        BY <3>2 DEF DoneIn, NonTerminal, Terminal
      <4>2. ~(q <= l)
        BY <1>3, <3>0, <4>1
      <4> QED
        BY <1>n, <3>0, <4>2
    <3>3. CASE pCache[q].phase \in Terminal /\ q # p
      <4>1. PhaseRank(pCache[q].phase) = 2 /\ PhaseRank(pCache[p].phase) = 2
        BY <1>r, <1>3, <3>0, <3>3
      <4>2. p < q
        BY <2>2, <3>3, <4>1 DEF Before
      <4> QED
        BY <1>n, <1>3, <3>0, <4>2
    <3> QED
      BY <3>0, <3>1, <3>2, <3>3
  <2> QED
    BY <1>3, <2>1, <2>2 DEF Fresh, NewPromos
<1> HIDE DEF l
<1>4. /\ \A p \in Fresh : p \in Names /\ pCache[p].phase \in Terminal /\ l < p
      /\ Fresh # {} => \A q \in Names : q <= l => DoneIn(pCache, q)
      /\ (\A q \in Names : q <= l => DoneIn(pCache, q)) =>
            \A p \in Names : pCache[p].phase \in Terminal /\ l < p => p \in Fresh
  BY <1>1, <1>2, <1>3
<1> QED
  BY <1>4 DEF l

\* The newest of them leaves an older one unfinished only if it never ran.
LEMMA FreshNewest ==
    ASSUME TypeOK, SerialInv, ViewInv, Fresh # {}
    PROVE  /\ MaxOf(Fresh) \in Fresh /\ MaxOf(Fresh) \in Names
           /\ sCache.last.name < MaxOf(Fresh)
           /\ \A p \in Fresh : p <= MaxOf(Fresh)
           /\ \A p \in Names : p <= MaxOf(Fresh) /\ ~DoneIn(pCache, p) =>
                 OvertakenAt(MaxOf(Fresh), p)
<1>n. Names \subseteq Nat
  BY ConstantsAssumption DEF Names
<1> DEFINE m == MaxOf(Fresh)
<1>1. Fresh \subseteq Names
  BY FreshLemma
<1>2. m \in Fresh /\ \A p \in Fresh : p <= m
  BY <1>1, MaxOfLemma
<1> HIDE DEF m
<1>3. m \in Names /\ pCache[m].phase \in Terminal /\ sCache.last.name < m
  BY <1>2, FreshLemma
<1>4. ASSUME NEW p \in Names, p <= m, ~DoneIn(pCache, p) PROVE OvertakenAt(m, p)
  <2>1. DoneIn(pCache, m)
    BY <1>3 DEF DoneIn
  <2>2. p < m
    BY <1>n, <1>3, <1>4, <2>1
  <2>3. ~Began(pCache[m].phase)
    BY <1>3, <1>4, <2>2 DEF ViewInv
  <2>4. pCache[m].phase = "Aborted"
    BY <1>3, <2>3 DEF Began, Terminal
  <2>5. promo[m].phase \in {"Aborted", "gone"}
    BY <1>3, <2>1, <2>4 DEF ViewInv
  <2>6. m <= m
    BY <1>n, <1>3
  <2> QED
    BY <1>3, <2>2, <2>5, <2>6 DEF OvertakenAt
<1> QED
  BY <1>2, <1>3, <1>4 DEF m

\* The head of the list is unfinished and everything older is over.
LEMMA NextOlders ==
    ASSUME TypeOK, SerialInv, ViewInv, NEW c \in Names, IsNext(pCache, c)
    PROVE  /\ pCache[c].phase # "absent" /\ ~DoneIn(pCache, c)
           /\ \A q \in Names : q < c => DoneIn(pCache, q)
<1>n. Names \subseteq Nat
  BY ConstantsAssumption DEF Names
<1>1. c \in Listed(pCache) /\ pCache[c].phase \in NonTerminal
  BY DEF IsNext, IsHighest
<1>2. pCache[c].phase # "absent" /\ ~DoneIn(pCache, c)
  BY <1>1 DEF NonTerminal, Terminal, DoneIn
<1>3. ASSUME NEW q \in Names, q < c, ~DoneIn(pCache, q) PROVE FALSE
  <2>1. pCache[q].phase # "absent"
    BY <1>2, <1>3 DEF SerialInv, KnownInOrder
  <2>2. pCache[q].phase \in NonTerminal
    BY <1>3, <2>1, KnownKinds
  <2>3. q # c /\ ~(c < q)
    BY <1>n, <1>3
  <2>4. q \in Listed(pCache) \ {c}
    BY <2>2, <2>3 DEF Listed
  <2>5. Before(pCache, c, q)
    BY <2>4 DEF IsNext, IsHighest
  <2>6. PhaseRank(pCache[q].phase) \in {0, 1} /\ PhaseRank(pCache[c].phase) \in {0, 1}
    BY <1>1, <2>2 DEF PhaseRank
  <2>7. PhaseRank(pCache[c].phase) < PhaseRank(pCache[q].phase)
    BY <2>3, <2>5, <2>6 DEF Before
  <2>8. pCache[c].phase = "Running"
    BY <1>1, <2>6, <2>7 DEF PhaseRank
  <2> QED
    BY <1>3, <2>8 DEF ViewInv, Began
<1> QED
  BY <1>2, <1>3

\* There is only one head.
LEMMA NextIsOne ==
    ASSUME NEW c \in Names, IsNext(pCache, c), NEW d \in Names, IsNext(pCache, d)
    PROVE  c = d
<1>n. Names \subseteq Nat
  BY ConstantsAssumption DEF Names
<1> SUFFICES ASSUME c # d PROVE FALSE
  OBVIOUS
<1>1. Before(pCache, c, d) /\ Before(pCache, d, c)
  BY DEF IsNext, IsHighest
<1>2. PhaseRank(pCache[c].phase) \in {0, 1, 2} /\ PhaseRank(pCache[d].phase) \in {0, 1, 2}
  BY DEF PhaseRank
<1>3. c \in Nat /\ d \in Nat
  BY <1>n
<1> QED
  BY <1>1, <1>2, <1>3 DEF Before

\* A current Promotion that is not the head of the list is over.
LEMMA CurrentOver ==
    ASSUME TypeOK, SerialInv, ViewInv, TurnInv, sCache.current # 0,
           ~IsNext(pCache, sCache.current)
    PROVE  DoneIn(pCache, sCache.current)
<1> DEFINE c == sCache.current
<1>n. Names \subseteq Nat /\ c \in Names
  BY StatusNumbers DEF TypeOK
<1> SUFFICES ASSUME ~DoneIn(pCache, c) PROVE FALSE
  OBVIOUS
<1>1. pCache[c].phase # "absent" /\ \A q \in Names : q < c => DoneIn(pCache, q)
  BY DEF TurnInv
<1> HIDE DEF c
<1>2. pCache[c].phase \in NonTerminal
  BY <1>n, <1>1, KnownKinds
<1>3. c \in Listed(pCache)
  BY <1>n, <1>2 DEF Listed
<1>4. PICK q \in Listed(pCache) \ {c} : ~Before(pCache, c, q)
  BY <1>2, <1>3 DEF IsNext, IsHighest, c
<1>5. q \in Names /\ q # c /\ pCache[q].phase \in NonTerminal \cup Terminal
  BY <1>4 DEF Listed
<1>6. CASE q < c
  <2>1. DoneIn(pCache, q)
    BY <1>1, <1>5, <1>6
  <2>2. PhaseRank(pCache[q].phase) = 2 /\ PhaseRank(pCache[c].phase) \in {0, 1}
    BY <1>2, <1>5, <2>1 DEF PhaseRank, DoneIn, NonTerminal, Terminal
  <2> QED
    BY <1>4, <2>2 DEF Before
<1>7. CASE c < q
  <2>1. ~Began(pCache[q].phase)
    BY <1>n, <1>5, <1>7 DEF ViewInv
  <2>2. PhaseRank(pCache[q].phase) \in {1, 2} /\ PhaseRank(pCache[c].phase) \in {0, 1}
    BY <1>2, <1>5, <2>1 DEF PhaseRank, Began, NonTerminal
  <2> QED
    BY <1>4, <1>7, <2>2 DEF Before
<1> QED
  BY <1>n, <1>5, <1>6, <1>7

(***************************************************************************)
(* What a pass decides and writes: currentPromotion c, lastPromotion l,    *)
(* the history R and the hold h.                                           *)
(***************************************************************************)

\* No round ends.
Quiet(c, l, R, h) ==
    /\ l = sCache.last.name /\ R = sCache.history.recorded /\ h \in {0, sCache.hold}
    /\ \/ c = 0 /\ Listed(pCache) = {}
       \/ c = sCache.current /\ (c # 0 => IsNext(pCache, c))
       \/ sCache.current = 0 /\ c \in Names /\ IsNext(pCache, c)

FreshSuccesses == {p \in Fresh : pCache[p].phase = "Succeeded"}

\* The round of the current Promotion ends.
Ends(c, l, R, h) ==
    /\ sCache.current # 0 /\ ~IsNext(pCache, sCache.current) /\ c = 0
    /\ l = IF Fresh = {} THEN sCache.last.name ELSE MaxOf(Fresh)
    /\ R = IF FreshSuccesses = {} THEN sCache.history.recorded
           ELSE Truncate(sCache.history.recorded \cup FreshSuccesses)
    /\ h = ReplayHold(sCache.hold, pCache, Fresh, auto)

\* The patches of a pass carry all of it, or what differs from the copy the pass
\* worked on.
Written(c, l, R, h) ==
    \/ /\ stage'.current = c /\ stage'.last.name = l
       /\ stage'.history.recorded = R /\ stage'.hold = h
    \/ /\ stage'.current = IF c = sCache.current THEN stage.current ELSE c
       /\ stage'.last.name = IF l = sCache.last.name THEN stage.last.name ELSE l
       /\ \/ stage'.history.recorded = R
          \/ R = sCache.history.recorded /\ stage'.history.recorded = stage.history.recorded
       /\ stage'.hold = IF h = sCache.hold THEN stage.hold ELSE h

\* Nothing that matters here is written.
Silent ==
    /\ stage'.current = stage.current /\ stage'.last.name = stage.last.name
    /\ stage'.history.recorded = stage.history.recorded /\ stage'.hold = stage.hold

\* syncPromotions decides.
LEMMA SyncDecides ==
    ASSUME TypeOK, NEW w, w = SyncPromotions(sCache, pCache, auto)
    PROVE  \/ Quiet(w.current, w.last.name, w.history.recorded, w.hold)
           \/ Ends(w.current, w.last.name, w.history.recorded, w.hold)
<1>t. sCache \in StageStatus /\ sCache.last \in PromotionRef /\ sCache.history \in History
  BY DEF TypeOK, StageStatus
<1>n. sCache.current # 0 => sCache.current \in Names
  BY <1>t, StatusNumbers
<1> DEFINE kept == [sCache EXCEPT !.hold = IF auto THEN sCache.hold ELSE 0]
           chosen == CHOOSE p \in Names : IsNext(pCache, p)
<1>1. /\ kept.current = sCache.current /\ kept.last = sCache.last /\ kept.history = sCache.history
      /\ kept.hold \in {0, sCache.hold}
  BY <1>t DEF StageStatus
<1>2. ASSUME NEW c
      PROVE  LET k == [kept EXCEPT !.current = c]
             IN  /\ k.current = c /\ k.last = sCache.last /\ k.history = sCache.history
                 /\ k.hold \in {0, sCache.hold}
  BY <1>t DEF StageStatus
<1>3. CASE Listed(pCache) = {}
  <2>1. w = [kept EXCEPT !.current = 0]
    BY <1>3 DEF SyncPromotions
  <2> HIDE DEF kept
  <2> QED
    BY <1>2, <1>3, <2>1 DEF Quiet
<1>4. CASE Listed(pCache) # {} /\ sCache.current # 0 /\ ~IsNext(pCache, sCache.current)
  <2>1. w = Replay(sCache, pCache, auto)
    BY <1>4 DEF SyncPromotions
  <2> DEFINE last == IF Fresh = {} THEN sCache.last
                     ELSE [name |-> MaxOf(Fresh), phase |-> pCache[MaxOf(Fresh)].phase]
             history == IF FreshSuccesses = {} THEN sCache.history
                        ELSE [recorded |-> Truncate(sCache.history.recorded \cup FreshSuccesses),
                              verification |-> "none"]
  <2>2. /\ w.current = 0 /\ w.last = last /\ w.history = history
        /\ w.hold = ReplayHold(sCache.hold, pCache, Fresh, auto)
    BY <2>1 DEF Replay, Fresh, FreshSuccesses
  <2>3. /\ last.name = IF Fresh = {} THEN sCache.last.name ELSE MaxOf(Fresh)
        /\ history.recorded = IF FreshSuccesses = {} THEN sCache.history.recorded
                              ELSE Truncate(sCache.history.recorded \cup FreshSuccesses)
    OBVIOUS
  <2> HIDE DEF last, history
  <2> QED
    BY <1>4, <2>2, <2>3 DEF Ends
<1>5. CASE /\ Listed(pCache) # {} /\ (sCache.current = 0 \/ IsNext(pCache, sCache.current))
           /\ GateOpen(sCache) /\ \E p \in Names : IsNext(pCache, p)
  <2>1. w = [kept EXCEPT !.current = chosen]
    BY <1>5 DEF SyncPromotions
  <2>2. chosen \in Names /\ IsNext(pCache, chosen)
    BY <1>5
  <2> HIDE DEF kept, chosen
  <2>3. sCache.current # 0 => chosen = sCache.current
    BY <1>n, <1>5, <2>2, NextIsOne
  <2> QED
    BY <1>2, <2>1, <2>2, <2>3 DEF Quiet
<1>6. CASE /\ Listed(pCache) # {} /\ (sCache.current = 0 \/ IsNext(pCache, sCache.current))
           /\ ~(GateOpen(sCache) /\ \E p \in Names : IsNext(pCache, p))
  <2>1. w = kept
    BY <1>6 DEF SyncPromotions
  <2> HIDE DEF kept
  <2> QED
    BY <1>1, <1>6, <2>1 DEF Quiet
<1> QED
  BY <1>3, <1>4, <1>5, <1>6

\* The rest of the pass has no say in it.
LEMMA PassKinds ==
    ASSUME TypeOK,
           NEW check \in Checks, NEW v \in Verdicts, NEW ran \in BOOLEAN,
           NEW saved \in 0 .. 3, NEW whole \in BOOLEAN, saved = 0 => ~whole,
           ReconcileStage(check, v, ran, saved, whole)
    PROVE  \/ Silent
           \/ \E c, l, R, h : (Quiet(c, l, R, h) \/ Ends(c, l, R, h)) /\ Written(c, l, R, h)
<1> DEFINE w1 == SyncPromotions(sCache, pCache, auto)
           w2 == AssessHealth(w1, check)
           w3 == VerifyStageFreight(w2, analysis, v)
           w == CASE saved = 0 -> sCache [] saved = 1 -> w1
                  [] saved = 2 -> w2 [] saved = 3 -> w3
<1>1. w1 \in StageStatus
  BY SyncPromotionsType DEF TypeOK
<1>2. \/ Quiet(w1.current, w1.last.name, w1.history.recorded, w1.hold)
      \/ Ends(w1.current, w1.last.name, w1.history.recorded, w1.hold)
  BY SyncDecides
<1>3. /\ w2 \in StageStatus /\ w2.current = w1.current /\ w2.last = w1.last
      /\ w2.history = w1.history /\ w2.hold = w1.hold
  <2> HIDE DEF w1
  <2> QED
    BY <1>1, AssessHealthType DEF AssessHealth, StageStatus
<1>4. /\ w3.current = w2.current /\ w3.last = w2.last
      /\ w3.history.recorded = w2.history.recorded /\ w3.hold = w2.hold
  <2>1. w2.history \in History
    BY <1>3 DEF StageStatus
  <2> HIDE DEF w2
  <2> QED
    BY <1>3, <2>1 DEF VerifyStageFreight, StageStatus, History
<1>5. stage' = IF whole THEN w ELSE PatchStatus(stage, sCache, w)
  BY DEF ReconcileStage
<1>6. CASE saved = 0
  <2>1. stage' = PatchStatus(stage, sCache, sCache)
    BY <1>5, <1>6
  <2> QED
    BY <2>1 DEF PatchStatus, Merged, Silent
<1>7. CASE saved # 0
  <2>1. /\ w.current = w1.current /\ w.last.name = w1.last.name
        /\ w.history.recorded = w1.history.recorded /\ w.hold = w1.hold
    <3>1. w \in {w1, w2, w3}
      <4> HIDE DEF w1, w2, w3
      <4> QED
        BY <1>7
    <3> HIDE DEF w1, w2, w3, w
    <3> QED
      BY <1>3, <1>4, <3>1
  <2> HIDE DEF w, w1
  <2>2. CASE whole
    <3>1. Written(w1.current, w1.last.name, w1.history.recorded, w1.hold)
      BY <1>5, <2>1, <2>2 DEF Written
    <3> QED
      BY <1>2, <3>1
  <2>3. CASE ~whole
    <3>1. /\ stage'.current = IF w.current = sCache.current THEN stage.current ELSE w.current
          /\ stage'.last.name = IF w.last.name = sCache.last.name THEN stage.last.name ELSE w.last.name
          /\ stage'.history = IF w.history = sCache.history THEN stage.history ELSE w.history
          /\ stage'.hold = IF w.hold = sCache.hold THEN stage.hold ELSE w.hold
      BY <1>5, <2>3 DEF PatchStatus, Merged
    <3>2. Written(w1.current, w1.last.name, w1.history.recorded, w1.hold)
      BY <2>1, <3>1 DEF Written
    <3> QED
      BY <1>2, <3>2
  <2> QED
    BY <2>2, <2>3
<1> QED
  BY <1>6, <1>7

\* What a pass decides is sound, as far as the queue is concerned: the Promotion it
\* names is the oldest unfinished one, and lastPromotion moves forward, past every
\* Promotion that ran.
SoundTurn(c, l) ==
    /\ c # 0 => /\ pCache[c].phase # "absent"
                /\ \A q \in Names : q < c => DoneIn(pCache, q)
    /\ sCache.current # 0 => c = sCache.current \/ (c = 0 /\ DoneIn(pCache, sCache.current))
    /\ l \in Nat /\ sCache.last.name <= l
    /\ l # sCache.last.name =>
          /\ c = 0 /\ sCache.current # 0 /\ DoneIn(pCache, sCache.current)
          /\ \A q \in Names : q <= sCache.last.name => DoneIn(pCache, q)
    /\ \A p \in Names : p <= l /\ ~DoneIn(pCache, p) => OvertakenAt(l, p)
    /\ \A p \in Names : Ran(p) => p <= l \/ p = c
    /\ /\ sCache.current # 0 /\ DoneIn(pCache, sCache.current)
       /\ \A q \in Names : q <= sCache.last.name => DoneIn(pCache, q)
       => \A p \in Names : pCache[p].phase \in Terminal => p <= l

\* Being overtaken is for good.
LEMMA OvertakenMore ==
    ASSUME NEW k \in Nat, NEW l \in Nat, k <= l, NEW p, OvertakenAt(k, p)
    PROVE  OvertakenAt(l, p)
<1>n. Names \subseteq Nat
  BY ConstantsAssumption DEF Names
<1>1. PICK q \in Names : p < q /\ q <= k /\ promo[q].phase \in {"Aborted", "gone"}
  BY DEF OvertakenAt
<1>2. q <= l
  BY <1>n, <1>1
<1> QED
  BY <1>1, <1>2 DEF OvertakenAt

\* A Promotion that is over, and of which anything shows that it ran, is shown as
\* finished.
LEMMA RanDone ==
    ASSUME TypeOK, SerialInv, ViewInv, NEW p \in Names, Ran(p), DoneIn(pCache, p)
    PROVE  pCache[p].phase \in {"Succeeded", "Failed"}
<1>1. promo[p].phase \in {pCache[p].phase, "gone"}
  BY DEF ViewInv
<1>2. promo[p].phase \in Terminal \cup {"gone"}
  BY <1>1 DEF DoneIn
<1>3. worker[p] = "idle"
  BY <1>2 DEF SerialInv, WorkerOwns, Terminal
<1> QED
  BY <1>1, <1>2, <1>3 DEF Ran, Began, DoneIn, Terminal

\* A pass that ends a round decides soundly.
LEMMA EndsTurn ==
    ASSUME TypeOK, SerialInv, ViewInv, TurnInv, LastInv, NEW c, NEW l, NEW R, NEW h, Ends(c, l, R, h)
    PROVE  SoundTurn(c, l)
<1> DEFINE cur == sCache.current
           last == sCache.last.name
<1>0. /\ cur # 0 /\ ~IsNext(pCache, cur) /\ c = 0
      /\ l = IF Fresh = {} THEN last ELSE MaxOf(Fresh)
  BY DEF Ends
<1>n. /\ Names \subseteq Nat /\ 0 \notin Names /\ last \in Nat /\ cur \in Names
  BY <1>0, StatusNumbers DEF TypeOK
<1>1. DoneIn(pCache, cur)
  BY <1>0, CurrentOver
<1>2. CASE Fresh = {}
  <2>1. l = last
    BY <1>0, <1>2
  <2>2. \A p \in Names : p <= l /\ ~DoneIn(pCache, p) => OvertakenAt(l, p)
    BY <2>1 DEF LastInv
  <2>3. (\A q \in Names : q <= last => DoneIn(pCache, q)) =>
           \A p \in Names : pCache[p].phase \in Terminal => p <= l
    <3> SUFFICES ASSUME \A q \in Names : q <= last => DoneIn(pCache, q),
                        NEW p \in Names, pCache[p].phase \in Terminal
                 PROVE  p <= l
      OBVIOUS
    <3>1. ~(last < p)
      BY <1>2, FreshLemma
    <3> QED
      BY <1>n, <2>1, <3>1
  <2>4. ASSUME NEW p \in Names, Ran(p) PROVE p <= l
    <3>1. p <= last \/ p = cur
      BY <2>4 DEF LastInv
    <3>2. CASE p = cur /\ ~(p <= last)
      <4>1. \A q \in Names : q <= last => DoneIn(pCache, q)
        <5>1. \A q \in Names : q <= last => q < cur
          BY <1>n, <3>2
        <5> QED
          BY <1>0, <5>1 DEF TurnInv
      <4>2. pCache[p].phase \in Terminal
        BY <1>1, <2>4, <3>2, RanDone DEF Terminal
      <4> QED
        BY <2>3, <4>1, <4>2
    <3> QED
      BY <2>1, <3>1, <3>2
  <2>5. l \in Nat /\ last <= l
    BY <1>n, <2>1
  <2> QED
    BY <1>0, <1>1, <2>1, <2>2, <2>3, <2>4, <2>5 DEF SoundTurn
<1>3. CASE Fresh # {}
  <2>1. l = MaxOf(Fresh)
    BY <1>0, <1>3
  <2>2. /\ l \in Names /\ last < l /\ \A p \in Fresh : p <= l
        /\ \A p \in Names : p <= l /\ ~DoneIn(pCache, p) => OvertakenAt(l, p)
    BY <1>3, <2>1, FreshNewest
  <2>3. \A q \in Names : q <= last => DoneIn(pCache, q)
    BY <1>3, FreshLemma
  <2>4. ASSUME NEW p \in Names, pCache[p].phase \in Terminal PROVE p <= l
    <3>1. CASE last < p
      BY <2>2, <2>3, <2>4, <3>1, FreshLemma
    <3>2. CASE ~(last < p)
      BY <1>n, <2>2, <3>2
    <3> QED
      BY <3>1, <3>2
  <2>5. ASSUME NEW p \in Names, Ran(p) PROVE p <= l
    <3>1. p <= last \/ p = cur
      BY <2>5 DEF LastInv
    <3>2. CASE p = cur
      <4>1. pCache[p].phase \in Terminal
        BY <1>1, <2>5, <3>2, RanDone DEF Terminal
      <4> QED
        BY <2>4, <4>1
    <3>3. CASE p <= last
      BY <1>n, <2>2, <3>3
    <3> QED
      BY <3>1, <3>2, <3>3
  <2>6. l \in Nat /\ last <= l
    <3>1. l \in Nat /\ last < l
      BY <1>n, <2>2, Zenon
    <3> QED
      BY <1>n, <3>1
  <2> QED
    BY <1>0, <1>1, <2>2, <2>3, <2>4, <2>5, <2>6 DEF SoundTurn
<1> QED
  BY <1>2, <1>3

\* So does one that does not.
LEMMA QuietTurn ==
    ASSUME TypeOK, SerialInv, ViewInv, TurnInv, LastInv, NEW c, NEW l, NEW R, NEW h, Quiet(c, l, R, h)
    PROVE  SoundTurn(c, l)
<1> DEFINE cur == sCache.current
           last == sCache.last.name
<1>0. /\ l = last
      /\ \/ c = 0 /\ Listed(pCache) = {}
         \/ c = cur /\ (c # 0 => IsNext(pCache, c))
         \/ cur = 0 /\ c \in Names /\ IsNext(pCache, c)
  BY DEF Quiet
<1>n. /\ Names \subseteq Nat /\ 0 \notin Names /\ last \in Nat
      /\ cur # 0 => cur \in Names
  BY StatusNumbers DEF TypeOK
<1>1. c # 0 => c \in Names /\ IsNext(pCache, c)
  BY <1>0, <1>n
<1>2. c # 0 => /\ pCache[c].phase # "absent" /\ ~DoneIn(pCache, c)
               /\ \A q \in Names : q < c => DoneIn(pCache, q)
  BY <1>1, NextOlders
<1>3. ASSUME cur # 0, c # cur
      PROVE  c = 0 /\ Listed(pCache) = {} /\ pCache[cur].phase = "gone" /\ DoneIn(pCache, cur)
  <2>1. c = 0 /\ Listed(pCache) = {}
    BY <1>0, <1>3
  <2>2. pCache[cur].phase # "absent"
    BY <1>3 DEF TurnInv
  <2>3. pCache[cur].phase \notin NonTerminal \cup Terminal
    BY <1>n, <1>3, <2>1 DEF Listed
  <2>4. pCache[cur].phase = "gone"
    BY <1>n, <1>3, <2>2, <2>3 DEF TypeOK, Promotion, Phases
  <2> QED
    BY <2>1, <2>4 DEF DoneIn
<1>4. \A p \in Names : p <= l /\ ~DoneIn(pCache, p) => OvertakenAt(l, p)
  BY <1>0 DEF LastInv
<1>5. ASSUME NEW p \in Names, Ran(p) PROVE p <= l \/ p = c
  <2>1. p <= last \/ p = cur
    BY <1>5 DEF LastInv
  <2>2. CASE p = cur /\ c # cur
    <3>1. pCache[p].phase = "gone" /\ DoneIn(pCache, p)
      BY <1>n, <1>3, <2>2
    <3> QED
      BY <1>5, <3>1, RanDone
  <2> QED
    BY <1>0, <2>1, <2>2
<1>6. ASSUME cur # 0, DoneIn(pCache, cur), NEW p \in Names, pCache[p].phase \in Terminal
      PROVE  FALSE
  <2>1. c # cur
    BY <1>2, <1>6
  <2>2. Listed(pCache) = {}
    BY <1>3, <1>6, <2>1
  <2> QED
    BY <1>6, <2>2 DEF Listed
<1>7. l \in Nat /\ last <= l
  BY <1>0, <1>n
<1> QED
  BY <1>0, <1>2, <1>3, <1>4, <1>5, <1>6, <1>7 DEF SoundTurn

\* The same for the history: it has what it is to have of everything up to
\* lastPromotion, and what it had.
SoundRecord(l, R) ==
    /\ \A p \in Names : p <= l /\ promo[p].phase = "Succeeded" =>
          Accounted(R, p) \/ OvertakenAt(l, p)
    /\ \A p \in Names : Accounted(sCache.history.recorded, p) => Accounted(R, p)
    /\ l = sCache.last.name => R = sCache.history.recorded

\* And for the hold.
SoundHold(l, h) ==
    /\ h # 0 /\ h > l => pCache[h].phase = "gone"
    /\ \A q \in Names : h # 0 /\ h < q /\ q <= l /\ Releases(q) => OvertakenAt(l, q)
    /\ \/ h \in {0, sCache.hold}
       \/ h = sCache.current /\ sCache.last.name < sCache.current
    /\ l = sCache.last.name => h \in {0, sCache.hold}

\* A pass that ends a round records every success it moves past.
LEMMA EndsRecord ==
    ASSUME TypeOK, SerialInv, ViewInv, RecordInv, NEW c, NEW l, NEW R, NEW h, Ends(c, l, R, h),
           SoundTurn(c, l)
    PROVE  SoundRecord(l, R)
<1> DEFINE last == sCache.last.name
           old == sCache.history.recorded
<1>0. /\ l = IF Fresh = {} THEN last ELSE MaxOf(Fresh)
      /\ R = IF FreshSuccesses = {} THEN old ELSE Truncate(old \cup FreshSuccesses)
  BY DEF Ends
<1>n. /\ Names \subseteq Nat /\ last \in Nat /\ old \subseteq Names
  BY StatusNumbers DEF TypeOK
<1>l. l \in Nat /\ last <= l
  BY DEF SoundTurn
<1>f. FreshSuccesses \subseteq Names
  BY FreshLemma DEF FreshSuccesses
<1> HIDE DEF old
<1>1. ASSUME NEW p \in Names, Accounted(old, p) \/ p \in FreshSuccesses PROVE Accounted(R, p)
  BY <1>0, <1>n, <1>f, <1>1, TruncateAccounts
<1>2. l = last => R = old
  <2> HAVE l = last
  <2>1. Fresh = {}
    <3> SUFFICES ASSUME Fresh # {} PROVE FALSE
      OBVIOUS
    <3>1. l \in Names /\ last < l
      BY <1>0, FreshNewest
    <3> QED
      BY <1>n, <3>1
  <2> QED
    BY <1>0, <2>1 DEF FreshSuccesses
<1>3. ASSUME NEW p \in Names, p <= l, promo[p].phase = "Succeeded"
      PROVE  Accounted(R, p) \/ OvertakenAt(l, p)
  <2>1. CASE ~DoneIn(pCache, p)
    BY <1>3, <2>1 DEF SoundTurn
  <2>2. CASE p <= last
    <3>1. Accounted(old, p) \/ OvertakenAt(last, p)
      BY <1>3, <2>2 DEF RecordInv, old
    <3>2. OvertakenAt(last, p) => OvertakenAt(l, p)
      BY <1>n, <1>l, OvertakenMore
    <3> QED
      BY <1>1, <3>1, <3>2
  <2>3. CASE DoneIn(pCache, p) /\ ~(p <= last)
    <3>1. pCache[p].phase = "Succeeded" /\ last < p
      BY <1>n, <1>3, <2>3 DEF ViewInv
    <3>2. Fresh # {}
      BY <1>0, <1>3, <2>3
    <3>3. p \in Fresh
      BY <3>1, <3>2, FreshLemma DEF Terminal
    <3>4. p \in FreshSuccesses
      BY <3>1, <3>3 DEF FreshSuccesses
    <3> QED
      BY <1>1, <3>4
  <2> QED
    BY <2>1, <2>2, <2>3
<1> QED
  BY <1>1, <1>2, <1>3 DEF SoundRecord, old

\* One that does not keeps what it found.
LEMMA QuietRecord ==
    ASSUME RecordInv, NEW c, NEW l, NEW R, NEW h, Quiet(c, l, R, h)
    PROVE  SoundRecord(l, R)
<1>1. l = sCache.last.name /\ R = sCache.history.recorded
  BY DEF Quiet
<1> QED
  BY <1>1 DEF SoundRecord, RecordInv

\* A pass that does not end a round keeps the hold or drops it.
LEMMA QuietHold ==
    ASSUME HoldInv, NEW c, NEW l, NEW R, NEW h, Quiet(c, l, R, h)
    PROVE  SoundHold(l, h)
<1>1. l = sCache.last.name /\ h \in {0, sCache.hold}
  BY DEF Quiet
<1> QED
  BY <1>1 DEF SoundHold, HoldInv

\* One that does lets the newest intent decide.
LEMMA EndsHold ==
    ASSUME TypeOK, SerialInv, ViewInv, LastInv, HoldInv, NEW c, NEW l, NEW R, NEW h,
           Ends(c, l, R, h), SoundTurn(c, l)
    PROVE  SoundHold(l, h)
<1> DEFINE last == sCache.last.name
           deciders == {p \in Fresh : pCache[p].phase # "Aborted" /\ pCache[p].intent # "none"}
           d == MaxOf(deciders)
<1>0. /\ l = IF Fresh = {} THEN last ELSE MaxOf(Fresh)
      /\ h = ReplayHold(sCache.hold, pCache, Fresh, auto)
  BY DEF Ends
<1>n. /\ Names \subseteq Nat /\ 0 \notin Names /\ last \in Nat
      /\ sCache.hold \in Nat /\ sCache.current \in Nat
  BY StatusNumbers DEF TypeOK
<1>l. l \in Nat /\ last <= l
  BY DEF SoundTurn
<1>1. h = IF ~auto THEN 0
          ELSE IF deciders = {} THEN sCache.hold
          ELSE IF pCache[d].intent = "hold" THEN d ELSE 0
  BY <1>0 DEF ReplayHold
<1>2. ASSUME deciders # {}
      PROVE  d \in deciders /\ \A p \in deciders : p <= d
  <2>1. deciders \subseteq Names
    BY FreshLemma
  <2> QED
    BY <1>2, <2>1, MaxOfLemma
<1>f. ASSUME Fresh # {} PROVE \A p \in Fresh : p <= l
  BY <1>0, <1>f, FreshNewest
<1>e. ASSUME Fresh = {} PROVE deciders = {}
  BY <1>e
<1>3. ASSUME NEW p \in deciders
      PROVE  p \in Names /\ p \in Fresh /\ last < p /\ p <= l /\ p = sCache.current
  <2>1. p \in Fresh /\ pCache[p].phase # "Aborted"
    OBVIOUS
  <2>2. p \in Names /\ pCache[p].phase \in Terminal /\ last < p
    BY <2>1, FreshLemma
  <2>3. Ran(p)
    BY <2>1, <2>2 DEF Ran, Began, Terminal
  <2>4. ~(p <= last)
    BY <1>n, <2>2
  <2>5. p = sCache.current
    BY <2>2, <2>3, <2>4 DEF LastInv
  <2>6. p <= l
    BY <1>f, <2>1
  <2> QED
    BY <2>1, <2>2, <2>5, <2>6
<1>m. ASSUME NEW q \in Names, pCache[q].phase \in {"Succeeded", "Failed"},
             pCache[q].intent = "resume", q \in Fresh
      PROVE  q \in deciders
  BY <1>m
<1> HIDE DEF deciders, d
<1>4. CASE h \in {0, sCache.hold} /\ (h # 0 => deciders = {})
  <2>1. h # 0 /\ h > l => pCache[h].phase = "gone"
    <3> SUFFICES ASSUME h # 0, h > l PROVE pCache[h].phase = "gone"
      OBVIOUS
    <3>1. h = sCache.hold
      BY <1>4
    <3>2. h > last
      BY <1>n, <1>l, <3>1
    <3> QED
      BY <3>1, <3>2 DEF HoldInv
  <2>2. ASSUME NEW q \in Names, h # 0, h < q, q <= l, Releases(q) PROVE OvertakenAt(l, q)
    <3>0. h = sCache.hold /\ deciders = {}
      BY <1>4, <2>2
    <3>1. CASE ~DoneIn(pCache, q)
      BY <2>2, <3>1 DEF SoundTurn
    <3>2. CASE q <= last
      <4>1. OvertakenAt(last, q)
        BY <2>2, <3>0, <3>2 DEF HoldInv
      <4> QED
        BY <1>n, <1>l, <4>1, OvertakenMore
    <3>3. CASE DoneIn(pCache, q) /\ ~(q <= last)
      <4>1. /\ pCache[q].phase \in {"Succeeded", "Failed"} /\ last < q
            /\ pCache[q].intent = "resume"
        BY <1>n, <2>2, <3>3 DEF ViewInv, Releases, DoneIn, Terminal
      <4>2. Fresh # {}
        BY <1>0, <2>2, <3>3
      <4>3. q \in Fresh
        BY <4>1, <4>2, FreshLemma DEF Terminal
      <4>4. q \in deciders
        BY <1>m, <4>1, <4>3
      <4> QED
        BY <3>0, <4>4
    <3> QED
      BY <3>1, <3>2, <3>3
  <2> QED
    BY <1>4, <2>1, <2>2 DEF SoundHold
<1>5. CASE deciders # {} /\ h = d
  <2>1. /\ d \in Names /\ last < d /\ d <= l /\ d = sCache.current
        /\ \A p \in deciders : p <= d
    BY <1>2, <1>3, <1>5
  <2>2. l # last
    BY <1>n, <1>l, <2>1
  <2>3. ~(h > l)
    BY <1>n, <1>l, <1>5, <2>1
  <2>4. ASSUME NEW q \in Names, h < q, q <= l, Releases(q) PROVE OvertakenAt(l, q)
    <3>1. CASE ~DoneIn(pCache, q)
      BY <2>4, <3>1 DEF SoundTurn
    <3>2. CASE DoneIn(pCache, q)
      <4>1. last < q /\ ~(q <= d)
        BY <1>n, <1>5, <2>1, <2>4
      <4>2. /\ pCache[q].phase \in {"Succeeded", "Failed"}
            /\ pCache[q].intent = "resume"
        BY <2>4, <3>2 DEF ViewInv, Releases, DoneIn, Terminal
      <4>3. Fresh # {}
        BY <1>e, <1>5
      <4>4. q \in Fresh
        BY <4>1, <4>2, <4>3, FreshLemma DEF Terminal
      <4>5. q \in deciders
        BY <1>m, <4>2, <4>4
      <4> QED
        BY <2>1, <4>1, <4>5
    <3> QED
      BY <3>1, <3>2
  <2> QED
    BY <1>5, <2>1, <2>2, <2>3, <2>4 DEF SoundHold
<1> QED
  BY <1>1, <1>4, <1>5

\* Writing a sound decision, whole or merged, keeps the queue in order.
LEMMA WrittenTurn ==
    ASSUME TypeOK, TypeOK', TurnInv, LastInv, NEW c, NEW l, NEW R, NEW h,
           SoundTurn(c, l), Written(c, l, R, h), UNCHANGED <<promo, pCache, sCache, worker>>
    PROVE  TurnInv' /\ LastInv'
<1>n. /\ Names \subseteq Nat /\ 0 \notin Names /\ sCache.last.name \in Nat
      /\ stage.last.name \in Nat /\ stage'.last.name \in Nat
  BY StatusNumbers DEF TypeOK
<1> DEFINE c1 == stage'.current
           l1 == stage'.last.name
           cur == sCache.current
           last == sCache.last.name
<1>1. /\ c1 = c \/ (c = cur /\ c1 = stage.current)
      /\ l1 = l \/ (l = last /\ l1 = stage.last.name)
      /\ c # cur => c1 = c
      /\ l # last => l1 = l
      /\ \/ c1 = c /\ l1 = l
         \/ /\ c1 = IF c = cur THEN stage.current ELSE c
            /\ l1 = IF l = last THEN stage.last.name ELSE l
  BY DEF Written
<1> HIDE DEF c1, l1
<1>2. c1 # 0 => /\ pCache[c1].phase # "absent"
                /\ \A q \in Names : q < c1 => DoneIn(pCache, q)
  BY <1>1 DEF SoundTurn, TurnInv
<1>3. cur # 0 => c1 = cur \/ (c1 = 0 /\ DoneIn(pCache, cur))
  BY <1>1 DEF SoundTurn, TurnInv
<1>4. TurnInv'
  BY <1>2, <1>3 DEF TurnInv, c1
<1>5. last <= l1
  BY <1>1 DEF SoundTurn, LastInv
<1>6. l1 # last => /\ cur # 0 /\ DoneIn(pCache, cur)
                   /\ \A q \in Names : q <= last => DoneIn(pCache, q)
  BY <1>1 DEF SoundTurn, LastInv
<1>7. ASSUME NEW p \in Names, p <= l1, ~DoneIn(pCache, p) PROVE OvertakenAt(l1, p)
  BY <1>1, <1>7 DEF SoundTurn, LastInv
<1>8. ASSUME NEW p \in Names, Ran(p) PROVE p <= l1 \/ p = c1
  <2>1. p <= l \/ p = c
    BY <1>8 DEF SoundTurn
  <2>2. p <= stage.last.name \/ p = stage.current
    BY <1>8 DEF LastInv
  <2>3. CASE c1 = c /\ l1 = l
    BY <2>1, <2>3
  <2>4. CASE /\ c1 = IF c = cur THEN stage.current ELSE c
             /\ l1 = IF l = last THEN stage.last.name ELSE l
    <3>1. CASE l = last /\ c = cur
      BY <2>2, <2>4, <3>1
    <3>2. CASE l = last /\ c # cur
      <4>1. c1 = c /\ l1 = stage.last.name /\ last <= l1
        BY <1>5, <2>4, <3>2
      <4> QED
        BY <1>n, <2>1, <3>2, <4>1
    <3>3. CASE l # last
      <4>1. c = 0 /\ l1 = l
        BY <2>4, <3>3 DEF SoundTurn
      <4> QED
        BY <1>n, <2>1, <4>1
    <3> QED
      BY <3>1, <3>2, <3>3
  <2> QED
    BY <1>1, <2>3, <2>4
<1>9. /\ \A p \in Names : p <= last /\ ~DoneIn(pCache, p) => OvertakenAt(last, p)
      /\ \A p \in Names : Ran(p) => p <= last \/ p = cur
  BY DEF LastInv
<1>10. LastInv'
  <2>1. \A p \in Names : Ran(p)' <=> Ran(p)
    BY DEF Ran
  <2>2. \A p \in Names : OvertakenAt(stage.last.name, p)' <=> OvertakenAt(l1, p)
    BY DEF OvertakenAt, l1
  <2>3. \A p \in Names : OvertakenAt(sCache.last.name, p)' <=> OvertakenAt(last, p)
    BY DEF OvertakenAt
  <2>4. ASSUME NEW s \in {stage', sCache'}, NEW p \in Names
        PROVE  /\ p <= s.last.name /\ ~DoneIn(pCache', p) => OvertakenAt(s.last.name, p)
               /\ Ran(p)' => p <= s.last.name \/ p = s.current
    <3>1. CASE s = stage'
      BY <1>7, <1>8, <2>1, <3>1 DEF c1, l1
    <3>2. CASE s = sCache'
      BY <1>9, <2>1, <3>2
    <3> QED
      BY <3>1, <3>2
  <2>5. \A k, p : (\E q \in Names : p < q /\ q <= k /\ promo'[q].phase \in {"Aborted", "gone"})
                    <=> OvertakenAt(k, p)
    BY DEF OvertakenAt
  <2>6. \A s \in {stage', sCache'} : \A p \in Names :
           /\ p <= s.last.name /\ ~DoneIn(pCache', p) =>
                 \E q \in Names : p < q /\ q <= s.last.name /\ promo'[q].phase \in {"Aborted", "gone"}
           /\ Ran(p)' => p <= s.last.name \/ p = s.current
    BY <2>4, <2>5
  <2> QED
    BY <1>5, <1>6, <2>6 DEF LastInv, OvertakenAt, l1
<1> QED
  BY <1>4, <1>10

\* It keeps the history complete: what a merge may take away from it is not behind
\* lastPromotion any more.
LEMMA WrittenRecord ==
    ASSUME TypeOK, SerialInv, ViewInv, LastInv, RecordInv, NEW c, NEW l, NEW R, NEW h,
           SoundTurn(c, l), SoundRecord(l, R), Written(c, l, R, h),
           UNCHANGED <<promo, pCache, sCache, worker>>
    PROVE  RecordInv'
<1>n. /\ Names \subseteq Nat /\ sCache.last.name \in Nat /\ stage.last.name \in Nat
  BY StatusNumbers DEF TypeOK
<1> DEFINE l1 == stage'.last.name
           R1 == stage'.history.recorded
           last == sCache.last.name
           old == sCache.history.recorded
<1>1. \/ l1 = l /\ R1 = R
      \/ /\ l1 = IF l = last THEN stage.last.name ELSE l
         /\ R1 = R \/ (R = old /\ R1 = stage.history.recorded)
  BY DEF Written
<1> HIDE DEF l1, R1
<1>a. ASSUME NEW p \in Names, Accounted(old, p)
      PROVE  Accounted(R, p) /\ Accounted(stage.history.recorded, p)
  BY <1>a DEF SoundRecord, RecordInv
<1>2. ASSUME NEW p \in Names, Accounted(old, p) PROVE Accounted(R1, p)
  BY <1>1, <1>2, <1>a
<1>3. ASSUME NEW p \in Names, p <= l1, promo[p].phase = "Succeeded"
      PROVE  Accounted(R1, p) \/ OvertakenAt(l1, p)
  <2>1. CASE l1 = l /\ R1 = R
    BY <1>3, <2>1 DEF SoundRecord
  <2>2. CASE l # last /\ l1 = l /\ R = old /\ R1 = stage.history.recorded
    BY <1>3, <1>a, <2>2 DEF SoundRecord
  <2>3. CASE l1 = stage.last.name /\ R1 = stage.history.recorded
    BY <1>3, <2>3 DEF RecordInv
  <2>4. CASE l = last /\ l1 = stage.last.name /\ R1 = R
    <3>0. R1 = old
      BY <2>4 DEF SoundRecord
    <3>1. CASE p <= last
      <4>1. Accounted(old, p) \/ OvertakenAt(last, p)
        BY <1>3, <3>1 DEF RecordInv
      <4>2. OvertakenAt(last, p) => OvertakenAt(l1, p)
        BY <1>n, <2>4, OvertakenMore DEF LastInv
      <4> QED
        BY <3>0, <4>1, <4>2
    <3>2. CASE ~DoneIn(pCache, p)
      BY <1>3, <2>4, <3>2 DEF LastInv
    <3>3. CASE DoneIn(pCache, p) /\ ~(p <= last)
      <4>1. pCache[p].phase \in Terminal
        BY <1>3, <3>3 DEF ViewInv, Terminal
      <4>2. stage.last.name # last
        BY <1>3, <2>4, <3>3
      <4>3. /\ sCache.current # 0 /\ DoneIn(pCache, sCache.current)
            /\ \A q \in Names : q <= last => DoneIn(pCache, q)
        BY <4>2 DEF LastInv
      <4>4. p <= l
        BY <4>1, <4>3 DEF SoundTurn
      <4> QED
        BY <2>4, <3>3, <4>4
    <3> QED
      BY <3>1, <3>2, <3>3
  <2> QED
    BY <1>1, <2>1, <2>2, <2>3, <2>4
<1>4. \A k, p : (\E q \in Names : p < q /\ q <= k /\ promo'[q].phase \in {"Aborted", "gone"})
                  <=> OvertakenAt(k, p)
  BY DEF OvertakenAt
<1>5. ASSUME NEW s \in {stage', sCache'}, NEW p \in Names, p <= s.last.name,
             promo'[p].phase = "Succeeded"
      PROVE  Accounted(s.history.recorded, p) \/ OvertakenAt(s.last.name, p)
  <2>1. CASE s = stage'
    BY <1>3, <1>5, <2>1 DEF l1, R1
  <2>2. CASE s = sCache'
    BY <1>5, <2>2 DEF RecordInv
  <2> QED
    BY <2>1, <2>2
<1>6. \A s \in {stage', sCache'} : \A p \in Names :
         p <= s.last.name /\ promo'[p].phase = "Succeeded" =>
            \/ Accounted(s.history.recorded, p)
            \/ \E q \in Names : p < q /\ q <= s.last.name /\ promo'[q].phase \in {"Aborted", "gone"}
  BY <1>4, <1>5
<1> QED
  BY <1>2, <1>6 DEF RecordInv, OvertakenAt, R1

\* And it brings back no hold that was released.
LEMMA WrittenHold ==
    ASSUME TypeOK, TypeOK', SerialInv, ViewInv, LastInv, HoldInv, NEW c, NEW l, NEW R, NEW h,
           SoundTurn(c, l), SoundHold(l, h), Written(c, l, R, h),
           UNCHANGED <<promo, pCache, sCache, worker>>
    PROVE  HoldInv'
<1>n. /\ Names \subseteq Nat /\ sCache.last.name \in Nat /\ stage.last.name \in Nat
      /\ stage.hold \in Nat /\ (stage.hold # 0 => stage.hold \in Names)
  BY StatusNumbers DEF TypeOK
<1> DEFINE l1 == stage'.last.name
           h1 == stage'.hold
           cur == sCache.current
           last == sCache.last.name
<1>1. \/ l1 = l /\ h1 = h
      \/ /\ l1 = IF l = last THEN stage.last.name ELSE l
         /\ h1 = IF h = sCache.hold THEN stage.hold ELSE h
  BY DEF Written
<1> HIDE DEF l1, h1
<1>2. h1 \in {0, sCache.hold} \/ (h1 = cur /\ last < cur)
  BY <1>1 DEF SoundHold, HoldInv
<1>3. /\ h1 # 0 /\ h1 > l1 => pCache[h1].phase = "gone"
      /\ \A q \in Names : h1 # 0 /\ h1 < q /\ q <= l1 /\ Releases(q) => OvertakenAt(l1, q)
  <2>1. CASE l1 = l /\ h1 = h
    BY <2>1 DEF SoundHold
  <2>2. CASE l1 = stage.last.name /\ h1 = stage.hold
    BY <2>2 DEF HoldInv
  <2>3. CASE l = last /\ h # sCache.hold /\ h1 = h
    BY <2>3 DEF SoundHold
  <2>4. CASE l # last /\ l1 = l /\ h = sCache.hold /\ h1 = stage.hold
    <3>1. CASE h1 = 0
      BY <3>1
    <3>2. CASE h1 = sCache.hold
      BY <2>4, <3>2 DEF SoundHold
    <3>3. CASE h1 = cur /\ last < cur /\ h1 # 0
      <4>0. h1 \in Names
        BY <1>n, <2>4, <3>3
      <4>1. /\ DoneIn(pCache, cur) /\ cur # 0 /\ \A q \in Names : q <= last => DoneIn(pCache, q)
            /\ l1 \in Nat
        BY <2>4 DEF SoundTurn
      <4>2. h1 > l1 => pCache[h1].phase = "gone"
        <5> SUFFICES ASSUME pCache[h1].phase # "gone" PROVE ~(h1 > l1)
          OBVIOUS
        <5>1. pCache[h1].phase \in Terminal
          BY <3>3, <4>1 DEF DoneIn
        <5>2. h1 <= l1
          BY <2>4, <4>0, <4>1, <5>1 DEF SoundTurn
        <5> QED
          BY <1>n, <4>0, <4>1, <5>2
      <4>3. ASSUME NEW q \in Names, h1 < q, Releases(q) PROVE FALSE
        <5>1. Ran(q)
          BY <4>3 DEF Releases, Ran, Began
        <5>2. q <= last \/ q = cur
          BY <5>1 DEF LastInv
        <5> QED
          BY <1>n, <3>3, <4>0, <4>3, <5>2
      <4> QED
        BY <4>2, <4>3
    <3>4. h1 \in {0, sCache.hold} \/ (h1 = cur /\ last < cur)
      BY <1>2
    <3> QED
      BY <3>1, <3>2, <3>3, <3>4
  <2> QED
    BY <1>1, <2>1, <2>2, <2>3, <2>4
<1>4. \A k, p : (\E q \in Names : p < q /\ q <= k /\ promo'[q].phase \in {"Aborted", "gone"})
                  <=> OvertakenAt(k, p)
  BY DEF OvertakenAt
<1>5. \A q \in Names : Releases(q)' <=> Releases(q)
  BY DEF Releases
<1>6. ASSUME NEW s \in {stage', sCache'}
      PROVE  /\ s.hold # 0 /\ s.hold > s.last.name => pCache'[s.hold].phase = "gone"
             /\ \A q \in Names : s.hold # 0 /\ s.hold < q /\ q <= s.last.name /\ Releases(q)' =>
                   OvertakenAt(s.last.name, q)
  <2>1. CASE s = stage'
    BY <1>3, <1>5, <2>1 DEF l1, h1
  <2>2. CASE s = sCache'
    BY <1>5, <2>2 DEF HoldInv
  <2> QED
    BY <2>1, <2>2
<1>7. \A s \in {stage', sCache'} :
         /\ s.hold # 0 /\ s.hold > s.last.name => pCache'[s.hold].phase = "gone"
         /\ \A q \in Names : s.hold # 0 /\ s.hold < q /\ q <= s.last.name /\ Releases(q)' =>
               \E x \in Names : q < x /\ x <= s.last.name /\ promo'[x].phase \in {"Aborted", "gone"}
  BY <1>4, <1>6
<1> QED
  BY <1>2, <1>7 DEF HoldInv, OvertakenAt, h1

(***************************************************************************)
(* The kinds of step there are                                             *)
(***************************************************************************)
OutcomeInv == ViewInv /\ TurnInv /\ LastInv /\ RecordInv /\ HoldInv

\* A pass of the Stage reconciler.
Passes ==
    /\ UNCHANGED <<promo, pCache, sCache, worker>>
    /\ \/ Silent
       \/ \E c, l, R, h : (Quiet(c, l, R, h) \/ Ends(c, l, R, h)) /\ Written(c, l, R, h)

\* Promotions move: what is over stays over, only the one that is being worked on
\* runs, and only the one the Stage names is taken up.
Moves ==
    /\ UNCHANGED <<pCache, stage, sCache>>
    /\ \A p \in Names :
          /\ DoneIn(promo, p) => promo'[p].phase \in {promo[p].phase, "gone"}
          /\ promo[p].phase # "absent" => promo'[p].intent = promo[p].intent
          /\ Began(promo'[p].phase) => Began(promo[p].phase) \/ worker[p] # "idle"
          /\ \/ worker'[p] # "idle" => worker[p] # "idle"
             \/ sCache.current = p /\ promo[p].phase \in NonTerminal

\* Informers catch up, or nothing happens that matters here.
Catches ==
    /\ UNCHANGED <<promo, stage>>
    /\ pCache' \in {pCache, promo}
    /\ sCache' \in {sCache, stage}
    /\ \A p \in Names : worker'[p] # "idle" => worker[p] # "idle"

\* A step of the Promotion reconciler or of a user moves one Promotion.
LEMMA OneMoves ==
    ASSUME TypeOK, SerialInv, Orderly, NEW p \in Names, PromotionStep(p) \/ UserStep(p)
    PROVE  Moves
<1> USE DEF SetPhase, SetWorker, Dequeue
<1>1. UNCHANGED <<pCache, stage, sCache>>
  BY DEF PromotionStep, ReconcileIgnore, ReconcileAbort, ReconcileWait, ReconcileAdmit,
         MarkRunning, FinishPromote, LosePatch, UserStep, Create, AbortPromotion, Delete
<1>2. \A q \in Names \ {p} : promo'[q] = promo[q] /\ worker'[q] = worker[q]
  BY DEF PromotionStep, ReconcileIgnore, ReconcileAbort, ReconcileWait, ReconcileAdmit,
         MarkRunning, FinishPromote, LosePatch, UserStep, Create, AbortPromotion, Delete, TypeOK
<1>3. /\ DoneIn(promo, p) => promo'[p].phase \in {promo[p].phase, "gone"}
      /\ promo[p].phase # "absent" => promo'[p].intent = promo[p].intent
      /\ Began(promo'[p].phase) => Began(promo[p].phase) \/ worker[p] # "idle"
      /\ \/ worker'[p] # "idle" => worker[p] # "idle"
         \/ sCache.current = p /\ promo[p].phase \in NonTerminal
  <2> USE DEF TypeOK, Promotion, NonTerminal, DoneIn, Terminal, Began
  <2>1. CASE ReconcileIgnore(p) \/ LosePatch(p)
    BY <2>1 DEF ReconcileIgnore, LosePatch
  <2>2. CASE ReconcileAbort(p)
    BY <2>2 DEF ReconcileAbort, Reconcilable
  <2>3. CASE ReconcileWait(p)
    BY <2>3 DEF ReconcileWait, Reconcilable
  <2>4. CASE ReconcileAdmit(p)
    BY <2>4 DEF ReconcileAdmit, Reconcilable, StageAwaitsPromotion
  <2>5. CASE MarkRunning(p)
    BY <2>5 DEF MarkRunning
  <2>6. ASSUME NEW outcome \in {"Running", "Succeeded", "Failed"}, FinishPromote(p, outcome)
        PROVE  <1>3!:
    BY <2>6 DEF FinishPromote
  <2>7. ASSUME NEW intent \in Intents, Create(p, intent) PROVE <1>3!:
    BY <2>7 DEF Create
  <2>8. CASE AbortPromotion(p)
    BY <2>8 DEF AbortPromotion
  <2>9. CASE Delete(p)
    BY <2>9 DEF Delete, Orderly
  <2> QED
    BY <2>1, <2>2, <2>3, <2>4, <2>5, <2>6, <2>7, <2>8, <2>9 DEF PromotionStep, UserStep
<1> QED
  BY <1>1, <1>2, <1>3 DEF Moves

\* Every step is of one of these kinds.
LEMMA StepKinds ==
    ASSUME TypeOK, SerialInv, Orderly, [Next]_vars
    PROVE  Passes \/ Moves \/ Catches
<1>0. ASSUME NEW check \in Checks, NEW v \in Verdicts, NEW ran \in BOOLEAN,
             NEW saved \in 0 .. 3, NEW whole \in BOOLEAN, saved = 0 => ~whole,
             ReconcileStage(check, v, ran, saved, whole)
      PROVE  Passes
  <2>1. UNCHANGED <<promo, pCache, sCache, worker>>
    BY <1>0 DEF ReconcileStage
  <2>2. \/ Silent
        \/ \E c, l, R, h : (Quiet(c, l, R, h) \/ Ends(c, l, R, h)) /\ Written(c, l, R, h)
    BY <1>0, PassKinds
  <2> QED
    BY <2>1, <2>2 DEF Passes
<1>1. CASE BrokenPass
  <2>1. PICK check \in Checks, saved \in {1, 2}, whole \in BOOLEAN :
            ReconcileStage(check, "done", FALSE, saved, whole)
    BY <1>1 DEF BrokenPass, Checks
  <2>2. saved \in 0 .. 3 /\ "done" \in Verdicts /\ FALSE \in BOOLEAN /\ saved # 0
    BY DEF Verdicts
  <2> QED
    BY <1>0, <2>1, <2>2
<1>2. CASE OrphanRun
  <2>1. PICK saved \in 0 .. 2, whole \in BOOLEAN :
            (saved = 0 => ~whole) /\ ReconcileStage("Healthy", "running", TRUE, saved, whole)
    BY <1>2 DEF OrphanRun
  <2>2. saved \in 0 .. 3 /\ "running" \in Verdicts /\ "Healthy" \in Checks /\ TRUE \in BOOLEAN
    BY DEF Verdicts, Checks
  <2> QED
    BY <1>0, <2>1, <2>2
<1>3. ASSUME NEW whole \in BOOLEAN, FullPass(whole) PROVE Passes
  <2>1. PICK check \in Checks, v \in Verdicts : ReconcileStage(check, v, TRUE, 3, whole)
    BY <1>3 DEF FullPass
  <2>2. 3 \in 0 .. 3 /\ TRUE \in BOOLEAN /\ 3 # 0
    OBVIOUS
  <2> QED
    BY <1>0, <2>1, <2>2
<1>4. ASSUME NEW p \in Names, PromotionStep(p) \/ UserStep(p) PROVE Moves
  BY <1>4, OneMoves
<1>5. CASE SyncPromotionCache \/ SyncStageCache
  BY <1>5 DEF SyncPromotionCache, SyncStageCache, Catches
<1>6. CASE Restart
  BY <1>6 DEF Restart, Catches
<1>7. CASE ToggleAutoPromotion \/ (\E p \in Names : CompleteAnalysis(p)) \/ UNCHANGED vars
  BY <1>7 DEF ToggleAutoPromotion, CompleteAnalysis, vars, Catches
<1> QED
  BY <1>1, <1>2, <1>3, <1>4, <1>5, <1>6, <1>7 DEF Next

\* A pass keeps everything in order.
LEMMA PassStep ==
    ASSUME TypeOK, TypeOK', SerialInv, OutcomeInv, Passes
    PROVE  OutcomeInv'
<1> USE DEF OutcomeInv
<1>0. UNCHANGED <<promo, pCache, sCache, worker>>
  BY DEF Passes
<1>1. ViewInv'
  BY <1>0 DEF ViewInv, DoneIn
<1>2. CASE Silent
  <2>1. TurnInv'
    BY <1>0, <1>2 DEF TurnInv, Silent, DoneIn
  <2>2. \A k, p : (\E q \in Names : p < q /\ q <= k /\ promo'[q].phase \in {"Aborted", "gone"})
                    <=> OvertakenAt(k, p)
    BY <1>0 DEF OvertakenAt
  <2>3. \A p \in Names : (Ran(p)' <=> Ran(p)) /\ (Releases(p)' <=> Releases(p))
    BY <1>0 DEF Ran, Releases
  <2>4. LastInv'
    <3>1. \A s \in {stage', sCache'} : \A p \in Names :
             /\ p <= s.last.name /\ ~DoneIn(pCache', p) =>
                   \E q \in Names : p < q /\ q <= s.last.name /\ promo'[q].phase \in {"Aborted", "gone"}
             /\ Ran(p)' => p <= s.last.name \/ p = s.current
      BY <1>0, <1>2, <2>2, <2>3 DEF LastInv, Silent
    <3> QED
      BY <1>0, <1>2, <3>1 DEF LastInv, Silent, OvertakenAt
  <2>5. RecordInv'
    <3>1. \A s \in {stage', sCache'} : \A p \in Names :
             p <= s.last.name /\ promo'[p].phase = "Succeeded" =>
                \/ Accounted(s.history.recorded, p)
                \/ \E q \in Names : p < q /\ q <= s.last.name /\ promo'[q].phase \in {"Aborted", "gone"}
      BY <1>0, <1>2, <2>2 DEF RecordInv, Silent
    <3> QED
      BY <1>0, <1>2, <3>1 DEF RecordInv, Silent, OvertakenAt
  <2>6. HoldInv'
    <3>1. \A s \in {stage', sCache'} :
             /\ s.hold # 0 /\ s.hold > s.last.name => pCache'[s.hold].phase = "gone"
             /\ \A q \in Names : s.hold # 0 /\ s.hold < q /\ q <= s.last.name /\ Releases(q)' =>
                   \E x \in Names : q < x /\ x <= s.last.name /\ promo'[x].phase \in {"Aborted", "gone"}
      BY <1>0, <1>2, <2>2, <2>3 DEF HoldInv, Silent
    <3> QED
      BY <1>0, <1>2, <3>1 DEF HoldInv, Silent, OvertakenAt
  <2> QED
    BY <1>1, <2>1, <2>4, <2>5, <2>6
<1>3. ASSUME NEW c, NEW l, NEW R, NEW h, Quiet(c, l, R, h) \/ Ends(c, l, R, h), Written(c, l, R, h)
      PROVE  OutcomeInv'
  <2>1. SoundTurn(c, l)
    BY <1>3, EndsTurn, QuietTurn
  <2>2. SoundRecord(l, R)
    BY <1>3, <2>1, EndsRecord, QuietRecord
  <2>3. SoundHold(l, h)
    BY <1>3, <2>1, EndsHold, QuietHold
  <2>4. TurnInv' /\ LastInv'
    BY <1>0, <1>3, <2>1, WrittenTurn
  <2>5. RecordInv'
    BY <1>0, <1>3, <2>1, <2>2, WrittenRecord
  <2>6. HoldInv'
    BY <1>0, <1>3, <2>1, <2>3, WrittenHold
  <2> QED
    BY <1>1, <2>4, <2>5, <2>6
<1> QED
  BY <1>2, <1>3 DEF Passes

\* So does a Promotion that moves: an outcome the Stage has moved past before it is
\* known is that of a Promotion that was overtaken.
LEMMA MoveStep ==
    ASSUME TypeOK, SerialInv, OutcomeInv, Moves
    PROVE  OutcomeInv'
<1> USE DEF OutcomeInv
<1>0. pCache' = pCache /\ stage' = stage /\ sCache' = sCache
  BY DEF Moves
<1>1. \A p \in Names : DoneIn(promo, p) => promo'[p].phase \in {promo[p].phase, "gone"}
  BY DEF Moves
<1>2. \A p \in Names : DoneIn(pCache, p) => DoneIn(promo, p)
  BY DEF ViewInv, DoneIn
<1>3. ViewInv'
  <2>1. ASSUME NEW p \in Names, NEW q \in Names, q < p, Began(promo'[p].phase)
        PROVE  DoneIn(promo', q)
    <3>1. Began(promo[p].phase) \/ worker[p] # "idle"
      BY <2>1 DEF Moves
    <3>2. CASE Began(promo[p].phase)
      BY <1>1, <2>1, <3>2 DEF ViewInv, DoneIn
    <3>3. CASE worker[p] # "idle"
      <4>1. DoneIn(promo, q)
        BY <2>1, <3>3 DEF SerialInv, ActiveIsOldest, Active, OldersDone, Done, DoneIn
      <4> QED
        BY <1>1, <4>1 DEF DoneIn
    <3> QED
      BY <3>1, <3>2, <3>3
  <2>2. ASSUME NEW p \in Names, DoneIn(pCache, p)
        PROVE  promo'[p].phase \in {pCache[p].phase, "gone"}
    BY <1>1, <1>2, <2>2 DEF ViewInv
  <2>3. ASSUME NEW p \in Names, pCache[p].phase # "absent"
        PROVE  pCache[p].intent = promo'[p].intent
    <3>1. promo[p].phase # "absent"
      BY <2>3 DEF SerialInv, CacheIsPast
    <3> QED
      BY <2>3, <3>1 DEF ViewInv, Moves
  <2>4. \A p, q \in Names : q < p /\ Began(pCache[p].phase) => DoneIn(pCache, q)
    BY DEF ViewInv
  <2>5. /\ \A p, q \in Names : q < p /\ Began(promo'[p].phase) => DoneIn(promo', q)
        /\ \A p, q \in Names : q < p /\ Began(pCache'[p].phase) => DoneIn(pCache', q)
        /\ \A p \in Names : DoneIn(pCache', p) => promo'[p].phase \in {pCache'[p].phase, "gone"}
        /\ \A p \in Names : pCache'[p].phase # "absent" => pCache'[p].intent = promo'[p].intent
    BY <1>0, <2>1, <2>2, <2>3, <2>4
  <2> QED
    BY <2>5 DEF ViewInv, DoneIn
<1>4. TurnInv'
  BY <1>0 DEF TurnInv, DoneIn
<1>5. ASSUME NEW k, NEW p, OvertakenAt(k, p)
      PROVE  \E q \in Names : p < q /\ q <= k /\ promo'[q].phase \in {"Aborted", "gone"}
  <2>1. PICK q \in Names : p < q /\ q <= k /\ promo[q].phase \in {"Aborted", "gone"}
    BY <1>5 DEF OvertakenAt
  <2>2. promo'[q].phase \in {"Aborted", "gone"}
    BY <1>1, <2>1 DEF DoneIn, Terminal
  <2> QED
    BY <2>1, <2>2
<1>6. LastInv'
  <2>1. ASSUME NEW s \in {stage, sCache}, NEW p \in Names, Ran(p)'
        PROVE  p <= s.last.name \/ p = s.current
    <3>1. Ran(p) \/ (sCache.current = p /\ promo[p].phase \in NonTerminal)
      BY <1>0, <2>1 DEF Moves, Ran
    <3>2. CASE Ran(p)
      BY <3>2 DEF LastInv
    <3>3. CASE sCache.current = p /\ promo[p].phase \in NonTerminal
      <4>1. ~DoneIn(promo, p)
        BY <3>3 DEF DoneIn, NonTerminal, Terminal
      <4>2. sCache.current # 0
        BY <3>3, ConstantsAssumption DEF Names
      <4>3. stage.current = p
        BY <1>2, <3>3, <4>1, <4>2 DEF TurnInv
      <4> QED
        BY <3>3, <4>3
    <3> QED
      BY <3>1, <3>2, <3>3
  <2>2. \A s \in {stage, sCache} : \A p \in Names :
           p <= s.last.name /\ ~DoneIn(pCache, p) => OvertakenAt(s.last.name, p)
    BY DEF LastInv
  <2>3. \A s \in {stage', sCache'} : \A p \in Names :
           /\ p <= s.last.name /\ ~DoneIn(pCache', p) =>
                 \E q \in Names : p < q /\ q <= s.last.name /\ promo'[q].phase \in {"Aborted", "gone"}
           /\ Ran(p)' => p <= s.last.name \/ p = s.current
    BY <1>0, <1>5, <2>1, <2>2
  <2> QED
    BY <1>0, <2>3 DEF LastInv, OvertakenAt, DoneIn
<1>7. ASSUME NEW s \in {stage, sCache}, NEW p \in Names, p <= s.last.name, ~DoneIn(promo, p)
      PROVE  OvertakenAt(s.last.name, p)
  BY <1>2, <1>7 DEF LastInv
<1>8. RecordInv'
  <2>1. ASSUME NEW s \in {stage, sCache}, NEW p \in Names, p <= s.last.name,
               promo'[p].phase = "Succeeded"
        PROVE  Accounted(s.history.recorded, p) \/ OvertakenAt(s.last.name, p)
    <3>1. CASE DoneIn(promo, p)
      <4>1. promo[p].phase = "Succeeded"
        BY <1>1, <2>1, <3>1
      <4> QED
        BY <2>1, <4>1 DEF RecordInv
    <3> QED
      BY <1>7, <2>1, <3>1
  <2>2. \A s \in {stage', sCache'} : \A p \in Names :
           p <= s.last.name /\ promo'[p].phase = "Succeeded" =>
              \/ Accounted(s.history.recorded, p)
              \/ \E q \in Names : p < q /\ q <= s.last.name /\ promo'[q].phase \in {"Aborted", "gone"}
    BY <1>0, <1>5, <2>1
  <2> QED
    BY <1>0, <2>2 DEF RecordInv, OvertakenAt
<1>9. HoldInv'
  <2>1. ASSUME NEW s \in {stage, sCache}, NEW q \in Names, s.hold # 0, s.hold < q,
               q <= s.last.name, Releases(q)'
        PROVE  OvertakenAt(s.last.name, q)
    <3>1. CASE DoneIn(promo, q)
      <4>1. promo'[q].phase = promo[q].phase /\ promo[q].phase # "absent"
        BY <1>1, <2>1, <3>1 DEF Releases, DoneIn, Terminal
      <4>2. promo'[q].intent = promo[q].intent
        BY <4>1 DEF Moves
      <4>3. Releases(q)
        BY <2>1, <4>1, <4>2 DEF Releases
      <4> QED
        BY <2>1, <4>3 DEF HoldInv
    <3> QED
      BY <1>7, <2>1, <3>1
  <2>2. \A s \in {stage, sCache} :
           s.hold # 0 /\ s.hold > s.last.name => pCache[s.hold].phase = "gone"
    BY DEF HoldInv
  <2>3. \A s \in {stage', sCache'} :
           /\ s.hold # 0 /\ s.hold > s.last.name => pCache'[s.hold].phase = "gone"
           /\ \A q \in Names : s.hold # 0 /\ s.hold < q /\ q <= s.last.name /\ Releases(q)' =>
                 \E x \in Names : q < x /\ x <= s.last.name /\ promo'[x].phase \in {"Aborted", "gone"}
    BY <1>0, <1>5, <2>1, <2>2
  <2> QED
    BY <1>0, <2>3 DEF HoldInv, OvertakenAt
<1> QED
  BY <1>3, <1>4, <1>6, <1>8, <1>9

\* And an informer that catches up, however far it is behind.
LEMMA CatchStep ==
    ASSUME TypeOK, SerialInv, OutcomeInv, Catches
    PROVE  OutcomeInv'
<1> USE DEF OutcomeInv
<1>0. /\ promo' = promo /\ stage' = stage
      /\ pCache' \in {pCache, promo} /\ sCache' \in {sCache, stage}
      /\ \A p \in Names : worker'[p] # "idle" => worker[p] # "idle"
  BY DEF Catches
<1>n. /\ sCache.last.name \in Nat /\ stage.last.name \in Nat
      /\ \A s \in {stage, sCache} : /\ s.current # 0 => s.current \in Names
                                    /\ s.hold # 0 => s.hold \in Names
  BY StatusNumbers DEF TypeOK
<1>1. \A p \in Names : /\ DoneIn(pCache, p) => DoneIn(pCache', p)
                       /\ pCache[p].phase # "absent" => pCache'[p].phase # "absent"
                       /\ pCache[p].phase = "gone" => pCache'[p].phase = "gone"
                       /\ Ran(p)' => Ran(p)
  BY <1>0 DEF ViewInv, SerialInv, CacheIsPast, DoneIn, Ran
<1>2. ViewInv'
  <2>1. CASE pCache' = pCache
    BY <1>0, <2>1 DEF ViewInv, DoneIn
  <2>2. CASE pCache' = promo
    BY <1>0, <2>2 DEF ViewInv, DoneIn
  <2> QED
    BY <1>0, <2>1, <2>2
<1>s. {stage', sCache'} \subseteq {stage, sCache}
  BY <1>0
<1>3. TurnInv'
  <2>1. \A s \in {stage', sCache'} : s.current # 0 =>
           /\ pCache'[s.current].phase # "absent"
           /\ \A q \in Names : q < s.current => DoneIn(pCache', q)
    BY <1>n, <1>1, <1>s DEF TurnInv
  <2>2. sCache'.current # 0 =>
           \/ stage'.current = sCache'.current
           \/ stage'.current = 0 /\ DoneIn(pCache', sCache'.current)
    <3>1. CASE sCache' = stage
      BY <1>0, <3>1
    <3>2. CASE sCache' = sCache
      BY <1>0, <1>n, <1>1, <3>2 DEF TurnInv
    <3> QED
      BY <1>0, <3>1, <3>2
  <2> QED
    BY <2>1, <2>2 DEF TurnInv, DoneIn
<1>4. \A k, p : (\E q \in Names : p < q /\ q <= k /\ promo'[q].phase \in {"Aborted", "gone"})
                  <=> OvertakenAt(k, p)
  BY <1>0 DEF OvertakenAt
<1>5. LastInv'
  <2>1. \A s \in {stage', sCache'} : \A p \in Names :
           /\ p <= s.last.name /\ ~DoneIn(pCache', p) =>
                 \E q \in Names : p < q /\ q <= s.last.name /\ promo'[q].phase \in {"Aborted", "gone"}
           /\ Ran(p)' => p <= s.last.name \/ p = s.current
    BY <1>1, <1>4, <1>s DEF LastInv
  <2>2. /\ sCache'.last.name <= stage'.last.name
        /\ stage'.last.name # sCache'.last.name =>
              /\ sCache'.current # 0 /\ DoneIn(pCache', sCache'.current)
              /\ \A q \in Names : q <= sCache'.last.name => DoneIn(pCache', q)
    <3>1. CASE sCache' = stage
      BY <1>0, <1>n, <3>1
    <3>2. CASE sCache' = sCache
      BY <1>0, <1>n, <1>1, <3>2 DEF LastInv
    <3> QED
      BY <1>0, <3>1, <3>2
  <2> QED
    BY <2>1, <2>2 DEF LastInv, OvertakenAt, DoneIn
<1>6. RecordInv'
  <2>1. \A s \in {stage', sCache'} : \A p \in Names :
           p <= s.last.name /\ promo'[p].phase = "Succeeded" =>
              \/ Accounted(s.history.recorded, p)
              \/ \E q \in Names : p < q /\ q <= s.last.name /\ promo'[q].phase \in {"Aborted", "gone"}
    BY <1>0, <1>4, <1>s DEF RecordInv
  <2>2. \A p \in Names :
           Accounted(sCache'.history.recorded, p) => Accounted(stage'.history.recorded, p)
    BY <1>0 DEF RecordInv
  <2> QED
    BY <2>1, <2>2 DEF RecordInv, OvertakenAt
<1>7. HoldInv'
  <2>1. \A q \in Names : Releases(q)' <=> Releases(q)
    BY <1>0 DEF Releases
  <2>2. \A s \in {stage', sCache'} :
           /\ s.hold # 0 /\ s.hold > s.last.name => pCache'[s.hold].phase = "gone"
           /\ \A q \in Names : s.hold # 0 /\ s.hold < q /\ q <= s.last.name /\ Releases(q)' =>
                 \E x \in Names : q < x /\ x <= s.last.name /\ promo'[x].phase \in {"Aborted", "gone"}
    BY <1>n, <1>1, <1>4, <1>s, <2>1 DEF HoldInv
  <2>3. \/ stage'.hold \in {0, sCache'.hold}
        \/ stage'.hold = sCache'.current /\ sCache'.last.name < sCache'.current
    BY <1>0 DEF HoldInv
  <2> QED
    BY <2>2, <2>3 DEF HoldInv, OvertakenAt
<1> QED
  BY <1>2, <1>3, <1>5, <1>6, <1>7

(***************************************************************************)
(* The theorems                                                            *)
(***************************************************************************)

\* As long as Promotions become visible in the order of their names and only
\* finished ones are deleted, the invariants always hold.
THEOREM AlwaysOutcomeInv ==
    ASSUME Orderly
    PROVE  Spec => []OutcomeInv
<1>1. Init => OutcomeInv
  <2> SUFFICES ASSUME Init PROVE OutcomeInv
    OBVIOUS
  <2>1. /\ \A p \in Names : /\ promo[p].phase = "absent" /\ pCache[p].phase = "absent"
                            /\ pCache[p].intent = promo[p].intent /\ worker[p] = "idle"
        /\ stage.current = 0 /\ stage.last.name = 0 /\ stage.hold = 0 /\ sCache = stage
    BY DEF Init, NoPromotion, NewStage
  <2>2. \A p \in Names : ~(p <= 0)
    BY ConstantsAssumption DEF Names
  <2>3. ViewInv
    BY <2>1 DEF ViewInv, DoneIn, Began, Terminal
  <2>4. TurnInv
    BY <2>1 DEF TurnInv
  <2>5. LastInv
    BY <2>1, <2>2 DEF LastInv, Ran, Began
  <2>6. RecordInv
    BY <2>1, <2>2 DEF RecordInv
  <2>7. HoldInv
    BY <2>1 DEF HoldInv
  <2> QED
    BY <2>3, <2>4, <2>5, <2>6, <2>7 DEF OutcomeInv
<1>2. TypeOK /\ TypeOK' /\ SerialInv /\ OutcomeInv /\ [Next]_vars => OutcomeInv'
  BY StepKinds, PassStep, MoveStep, CatchStep
<1> QED
  BY <1>1, <1>2, TypeCorrect, AlwaysSerialInv, PTL DEF Spec

\* No outcome is lost: once the Stage's lastPromotion has moved past a Promotion that
\* succeeded, its Freight is in freightHistory, unless newer entries pushed it out or
\* a Promotion that left the queue early overtook it.  Stale caches, lost patches and
\* restarts do not matter.
THEOREM AlwaysOutcomeRecorded ==
    ASSUME Orderly
    PROVE  Spec => []OutcomeRecorded
<1>1. OutcomeInv => OutcomeRecorded
  BY DEF OutcomeInv, RecordInv, OutcomeRecorded, Accounted, OvertakenAt, Overtaken
<1> QED
  BY <1>1, AlwaysOutcomeInv, PTL

\* No pass, however stale, brings back a hold once a newer Promotion that resumes
\* auto-promotion has been replayed.
THEOREM AlwaysReleaseSupersedesHold ==
    ASSUME Orderly
    PROVE  Spec => []ReleaseSupersedesHold
<1>1. OutcomeInv => ReleaseSupersedesHold
  BY DEF OutcomeInv, HoldInv, ReleaseSupersedesHold, Releases, OvertakenAt, Overtaken
<1> QED
  BY <1>1, AlwaysOutcomeInv, PTL

\* A pass that moves lastPromotion past a success records it.
LEMMA ReplayedStep ==
    ASSUME TypeOK, TypeOK', SerialInv, Orderly, OutcomeInv, [Next]_vars,
           NEW p \in Names, promo[p].phase = "Succeeded",
           stage.last.name < p, p <= stage'.last.name
    PROVE  Accounted(stage'.history.recorded, p)
<1> USE DEF OutcomeInv
<1>n. /\ Names \subseteq Nat /\ sCache.last.name \in Nat /\ stage.last.name \in Nat
      /\ stage'.last.name \in Nat /\ sCache.history.recorded \subseteq Names
  BY StatusNumbers DEF TypeOK
<1>1. stage'.last.name # stage.last.name
  BY <1>n
<1>2. Passes /\ ~Silent
  <2>1. ~Moves /\ ~Catches /\ ~Silent
    BY <1>1 DEF Moves, Catches, Silent
  <2> QED
    BY <2>1, StepKinds
<1>3. PICK c, l, R, h : (Quiet(c, l, R, h) \/ Ends(c, l, R, h)) /\ Written(c, l, R, h)
  BY <1>2 DEF Passes
<1>4. SoundTurn(c, l)
  BY <1>3, EndsTurn, QuietTurn
<1>5. l = stage'.last.name /\ l # stage.last.name
  BY <1>1, <1>3 DEF Written
<1>6. sCache.last.name < p
  BY <1>n DEF LastInv
<1>7. l # sCache.last.name
  BY <1>n, <1>5, <1>6
<1>8. Ends(c, l, R, h)
  BY <1>3, <1>7 DEF Quiet
<1>9. p = sCache.current
  <2>1. Ran(p) /\ ~(p <= sCache.last.name)
    BY <1>n, <1>6 DEF Ran, Began
  <2> QED
    BY <2>1 DEF LastInv
<1>10. pCache[p].phase = "Succeeded"
  <2>1. DoneIn(pCache, p)
    BY <1>4, <1>7, <1>9 DEF SoundTurn
  <2> QED
    BY <2>1 DEF ViewInv
<1>11. p \in FreshSuccesses /\ FreshSuccesses \subseteq Names
  <2>1. Fresh # {}
    BY <1>7, <1>8 DEF Ends
  <2>2. p \in Fresh
    BY <1>6, <1>10, <2>1, FreshLemma DEF Terminal
  <2> QED
    BY <1>10, <2>2, FreshLemma DEF FreshSuccesses
<1>12. Accounted(R, p)
  <2>1. R = Truncate(sCache.history.recorded \cup FreshSuccesses)
    BY <1>8, <1>11 DEF Ends
  <2> QED
    BY <1>n, <1>11, <2>1, TruncateAccounts
<1>13. \/ stage'.history.recorded = R
       \/ R = sCache.history.recorded /\ stage'.history.recorded = stage.history.recorded
  BY <1>3 DEF Written
<1> QED
  BY <1>12, <1>13 DEF RecordInv

\* The pass that moves lastPromotion past a Promotion that has succeeded is the one
\* that records its Freight, however stale the Stage and the Promotions it read.
THEOREM AlwaysSuccessReplayedWhole ==
    ASSUME Orderly
    PROVE  Spec => SuccessReplayedWhole
<1>1. ASSUME TypeOK, TypeOK', SerialInv, OutcomeInv, [Next]_vars
      PROVE  [ \A p \in Names :
                 /\ promo[p].phase = "Succeeded"
                 /\ stage.last.name < p /\ p <= stage'.last.name
                 => \/ p \in stage'.history.recorded
                    \/ /\ Cardinality(stage'.history.recorded) = HistoryLimit
                       /\ \A q \in stage'.history.recorded : p < q ]_vars
  BY <1>1, ReplayedStep DEF Accounted
<1> QED
  BY <1>1, TypeCorrect, AlwaysSerialInv, AlwaysOutcomeInv, PTL DEF Spec, SuccessReplayedWhole
=============================================================================
