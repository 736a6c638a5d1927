---------------------- MODULE CoalescingCacheProofs ----------------------
(***************************************************************************)
(* Proofs about CoalescingCache, for any number of callers, keys and calls *)
(* of Get: its types, that concurrent misses share one load, that no       *)
(* caller disturbs another and that nobody reads values going backwards.   *)
(*                                                                         *)
(* The argument: singleflight knows every load that is under way, and the  *)
(* load it knows for a key is the newest of the key.  So values are stored *)
(* in the order their loads began, and what is cached, or in flight, is at *)
(* least as new as what anybody has been given.                            *)
(***************************************************************************)
EXTENDS CoalescingCache, FiniteSetTheorems, TLAPS

Missed == {c \in Callers : call[c].at = "missed"}

\* Every load was started by a Get that missed.
Counted == loads + Cardinality(Missed) <= gets

\* The load's value was put in the cache, if only for a while.
Stored(l) ==
    /\ load[l].at \in {"finished", "delivered"}
    /\ load[l].out = "value"
    /\ load[l].ttl # "nil"
    /\ ~CacheNothing

\* Loads are numbered without gaps; one that has ended has a value or an error.
LoadInv ==
    \A l \in LoadIds :
        /\ load[l].at # "unused" <=> l <= loads
        /\ load[l].at \in {"finished", "delivered"} => load[l].out \in {"value", "error"}

\* singleflight knows exactly the loads that are under way, and for each key that is
\* the newest.
GroupInv ==
    /\ \A l \in LoadIds :
          load[l].at \in {"running", "finished"} => group[load[l].key] = l
    /\ \A k \in Keys : group[k] # 0 =>
          load[group[k]].key = k /\ load[group[k]].at \in {"running", "finished"}
    /\ \A l \in LoadIds :
          load[l].at = "delivered" /\ group[load[l].key] # 0 => l < group[load[l].key]

\* What is cached is the newest value that was stored.
EntryInv ==
    /\ \A k \in Keys : entry[k] # 0 => load[entry[k]].key = k /\ Stored(entry[k])
    /\ \A l \in LoadIds :
          Stored(l) => entry[load[l].key] = 0 \/ l <= entry[load[l].key]

\* What callers have been given was stored.
FloorInv == \A k \in Keys : floor[k] # 0 => load[floor[k]].key = k /\ Stored(floor[k])

\* A caller waits for, and returns, values no older than what was known when it began.
CallOK(c) ==
    /\ call[c].floor <= floor[call[c].key]
    /\ call[c].at = "waiting" =>
          /\ call[c].load # 0
          /\ load[call[c].load].at # "unused"
          /\ load[call[c].load].key = call[c].key
          /\ call[c].floor <= call[c].load
    /\ call[c].at = "returned" =>
          \/ call[c].out = "interrupted" /\ call[c].ctxEnded
          \/ /\ call[c].load # 0
             /\ load[call[c].load].at \in {"finished", "delivered"}
             /\ load[call[c].load].key = call[c].key
             /\ load[call[c].load].out = call[c].out
             /\ call[c].floor <= call[c].load

CallInv == \A c \in Callers : CallOK(c)

CacheInv == LoadInv /\ GroupInv /\ EntryInv /\ FloorInv /\ CallInv

(***************************************************************************)
(* Types                                                                   *)
(***************************************************************************)

\* The calls and loads that actions build from scratch are well formed.
LEMMA InitialTypes == IdleCall \in Call /\ UnusedLoad \in Load
<1>1. SomeKey \in Keys
  BY CacheAssumption DEF SomeKey
<1>2. 0 \in NilOrLoad
  BY CacheAssumption DEF NilOrLoad
<1> QED
  BY <1>1, <1>2 DEF IdleCall, UnusedLoad, Call, Load, Outcomes, Durations

\* The callers that have missed are finitely many.
LEMMA MissedFinite == IsFiniteSet(Missed) /\ Cardinality(Missed) \in Nat
<1>1. Missed \in SUBSET Callers
  BY DEF Missed
<1>2. IsFiniteSet(Missed)
  BY <1>1, FS_Subset, CacheAssumption
<1> QED
  BY <1>2, FS_CardinalityType

\* A caller that misses or begins to wait changes their number by one; a caller that
\* does neither leaves it alone.
LEMMA MissedChanges ==
    ASSUME TypeOK, NEW c \in Callers, NEW new \in Call,
           call' = [call EXCEPT ![c] = new]
    PROVE  /\ Cardinality(Missed') \in Nat
           /\ Cardinality(Missed') <= Cardinality(Missed) + 1
           /\ (new.at = "missed" => call[c].at = "missed")
                 => Cardinality(Missed') <= Cardinality(Missed)
           /\ new.at # "missed" /\ call[c].at = "missed"
                 => Cardinality(Missed') = Cardinality(Missed) - 1
<1>0. IsFiniteSet(Missed) /\ Cardinality(Missed) \in Nat
  BY MissedFinite
<1>1. CASE new.at = "missed"
  <2>1. Missed' = Missed \cup {c}
    BY <1>1 DEF Missed, TypeOK
  <2>2. c \in Missed <=> call[c].at = "missed"
    BY DEF Missed
  <2>3. Cardinality(Missed \cup {c}) =
          IF c \in Missed THEN Cardinality(Missed) ELSE Cardinality(Missed) + 1
    BY <1>0, FS_AddElement
  <2> QED
    BY <1>0, <1>1, <2>1, <2>2, <2>3
<1>2. CASE new.at # "missed"
  <2>1. Missed' = Missed \ {c}
    BY <1>2 DEF Missed, TypeOK
  <2>2. c \in Missed <=> call[c].at = "missed"
    BY DEF Missed
  <2>3. Cardinality(Missed \ {c}) =
          IF c \in Missed THEN Cardinality(Missed) - 1 ELSE Cardinality(Missed)
    BY <1>0, FS_RemoveElement
  <2>4. Cardinality(Missed \ {c}) \in Nat
    BY <1>0, FS_RemoveElement, FS_CardinalityType
  <2> QED
    BY <1>0, <1>2, <2>1, <2>2, <2>3, <2>4
<1> QED
  BY <1>1, <1>2

\* If somebody has missed, a load is left to start.
LEMMA LoadLeft ==
    ASSUME TypeOK, Counted, NEW c \in Callers, call[c].at = "missed"
    PROVE  loads + 1 \in LoadIds
<1>0. IsFiniteSet(Missed) /\ Cardinality(Missed) \in Nat
  BY MissedFinite
<1>1. Cardinality(Missed) # 0
  <2>1. c \in Missed
    BY DEF Missed
  <2> QED
    BY <1>0, <2>1, FS_EmptySet
<1>2. loads \in Nat /\ gets \in Nat /\ gets <= MaxGets
  BY CacheAssumption DEF TypeOK, NilOrLoad
<1> QED
  BY <1>0, <1>1, <1>2, CacheAssumption DEF Counted, LoadIds

\* What an action that changes one call owes.
LEMMA OneCall ==
    ASSUME TypeOK, Counted, NEW c \in Callers, NEW new \in Call,
           call' = [call EXCEPT ![c] = new],
           UNCHANGED <<gets, loads>>,
           new.at = "missed" => call[c].at = "missed"
    PROVE  call' \in [Callers -> Call] /\ Counted'
<1>1. call' \in [Callers -> Call]
  BY DEF TypeOK
<1>2. Cardinality(Missed) \in Nat /\ loads \in Nat /\ gets \in Nat
  BY MissedFinite DEF TypeOK, NilOrLoad
<1>3. Cardinality(Missed') \in Nat /\ Cardinality(Missed') <= Cardinality(Missed)
  BY MissedChanges, Zenon
<1> QED
  BY <1>1, <1>2, <1>3 DEF Counted

\* The newest value seen stays a load.
LEMMA RaisedType ==
    ASSUME TypeOK, NEW k \in Keys, NEW l \in NilOrLoad
    PROVE  Raised(k, l) \in [Keys -> NilOrLoad]
BY DEF TypeOK, Raised

\* A Get begins.
LEMMA BeginType ==
    ASSUME TypeOK, Counted, NEW c \in Callers, NEW k \in Keys, Begin(c, k)
    PROVE  TypeOK' /\ Counted'
<1> DEFINE begun == [IdleCall EXCEPT !.key = k, !.floor = floor[k]]
<1>1. floor[k] \in NilOrLoad /\ entry[k] \in NilOrLoad
  BY DEF TypeOK
<1>2. begun \in Call
  BY <1>1, InitialTypes DEF Call
<1>3. PICK new \in Call : call' = [call EXCEPT ![c] = new]
  <2>1. CASE entry[k] # 0
    <3>1. [begun EXCEPT !.at = "returned", !.load = entry[k], !.out = "value"] \in Call
      BY <1>1, <1>2 DEF Call, Outcomes
    <3> QED
      BY <2>1, <3>1 DEF Begin
  <2>2. CASE entry[k] = 0
    <3>1. [begun EXCEPT !.at = "missed"] \in Call
      BY <1>2 DEF Call
    <3> QED
      BY <2>2, <3>1 DEF Begin
  <2> QED
    BY <2>1, <2>2
<1>4. gets \in Nat /\ loads \in Nat /\ gets' = gets + 1 /\ gets' \in NilOrLoad /\ loads' = loads
  BY CacheAssumption DEF Begin, TypeOK, NilOrLoad
<1>5. floor' \in [Keys -> NilOrLoad]
  BY <1>1, RaisedType DEF Begin, TypeOK
<1>6. Cardinality(Missed) \in Nat
  BY MissedFinite
<1>7. Cardinality(Missed') \in Nat /\ Cardinality(Missed') <= Cardinality(Missed) + 1
  BY <1>3, MissedChanges, Zenon
<1>8. Counted'
  BY <1>4, <1>6, <1>7 DEF Counted
<1>9. call' \in [Callers -> Call]
  BY <1>3 DEF TypeOK
<1> QED
  BY <1>4, <1>5, <1>8, <1>9 DEF TypeOK, Begin

\* A caller leads a new load.
LEMMA StartLoadType ==
    ASSUME TypeOK, Counted, NEW c \in Callers, call[c].at = "missed", StartLoad(c),
           UNCHANGED <<entry, gets, floor>>
    PROVE  TypeOK' /\ Counted'
<1> DEFINE l == loads + 1
<1>1. l \in LoadIds /\ l \in NilOrLoad /\ loads \in Nat /\ gets \in Nat
  BY LoadLeft, CacheAssumption DEF LoadIds, NilOrLoad, TypeOK
<1>2. call[c] \in Call /\ call[c].key \in Keys
  BY DEF TypeOK, Call
<1> DEFINE new == [call[c] EXCEPT !.at = "waiting", !.load = l]
<1>3. new \in Call /\ new.at = "waiting"
  BY <1>1, <1>2 DEF Call
<1>4. call' = [call EXCEPT ![c] = new]
  BY DEF StartLoad, TypeOK
<1>5. [UnusedLoad EXCEPT !.key = call[c].key, !.at = "running"] \in Load
  BY <1>2, InitialTypes DEF Load
<1>6. load' \in [LoadIds -> Load] /\ group' \in [Keys -> NilOrLoad] /\ loads' = l
  BY <1>1, <1>2, <1>5 DEF StartLoad, TypeOK
<1>7. Cardinality(Missed') = Cardinality(Missed) - 1
  <2> HIDE DEF new
  <2>1. new.at # "missed"
    BY <1>3
  <2> QED
    BY <1>3, <1>4, <2>1, MissedChanges, Zenon
<1>8. Counted'
  BY <1>1, <1>6, <1>7, MissedFinite DEF Counted
<1>9. call' \in [Callers -> Call]
  BY <1>3, <1>4 DEF TypeOK
<1> QED
  BY <1>1, <1>6, <1>8, <1>9 DEF TypeOK

\* A miss joins a load or leads one.
LEMMA DoChanType ==
    ASSUME TypeOK, Counted, NEW c \in Callers, DoChan(c)
    PROVE  TypeOK' /\ Counted'
<1>1. CASE StartLoad(c)
  BY <1>1, StartLoadType DEF DoChan
<1>2. CASE ~StartLoad(c)
  <2>1. call[c] \in Call /\ group[call[c].key] \in NilOrLoad
    BY DEF TypeOK, Call
  <2> DEFINE new == [call[c] EXCEPT !.at = "waiting", !.load = group[call[c].key]]
  <2>2. new \in Call /\ new.at = "waiting"
    BY <2>1 DEF Call
  <2>3. call' = [call EXCEPT ![c] = new] /\ UNCHANGED <<gets, loads>>
    BY <1>2 DEF DoChan, TypeOK
  <2>4. call' \in [Callers -> Call] /\ Counted'
    <3> HIDE DEF new
    <3> QED
      BY <2>2, <2>3, OneCall
  <2> QED
    BY <1>2, <2>4 DEF DoChan, TypeOK
<1> QED
  BY <1>1, <1>2

\* A caller's context ends.
LEMMA EndContextType ==
    ASSUME TypeOK, Counted, NEW c \in Callers, EndContext(c)
    PROVE  TypeOK' /\ Counted'
<1> DEFINE new == [call[c] EXCEPT !.ctxEnded = TRUE]
<1>1. new \in Call /\ new.at = call[c].at
  BY DEF TypeOK, Call
<1>2. call' = [call EXCEPT ![c] = new] /\ UNCHANGED <<gets, loads>>
  BY DEF EndContext, TypeOK
<1>3. call' \in [Callers -> Call] /\ Counted'
  <2> HIDE DEF new
  <2> QED
    BY <1>1, <1>2, OneCall
<1> QED
  BY <1>3 DEF EndContext, TypeOK

\* A caller gives up.
LEMMA InterruptType ==
    ASSUME TypeOK, Counted, NEW c \in Callers, Interrupt(c)
    PROVE  TypeOK' /\ Counted'
<1> DEFINE new == [call[c] EXCEPT !.at = "returned", !.load = 0, !.out = "interrupted"]
<1>0. call[c] \in Call /\ 0 \in NilOrLoad /\ "interrupted" \in Outcomes
  BY CacheAssumption DEF TypeOK, NilOrLoad, Outcomes
<1>1. new \in Call /\ new.at = "returned"
  BY <1>0 DEF Call
<1>2. call' = [call EXCEPT ![c] = new] /\ UNCHANGED <<gets, loads>>
  BY DEF Interrupt, TypeOK
<1>3. call' \in [Callers -> Call] /\ Counted'
  <2> HIDE DEF new
  <2> QED
    BY <1>1, <1>2, OneCall
<1> QED
  BY <1>3 DEF Interrupt, TypeOK

\* A caller is told the result of the load it waits for, which exists.
LEMMA ReceiveType ==
    ASSUME TypeOK, Counted, CallInv, NEW c \in Callers, Receive(c)
    PROVE  TypeOK' /\ Counted'
<1>0. call[c] \in Call /\ call[c].load \in LoadIds /\ call[c].load \in NilOrLoad
  BY CacheAssumption DEF TypeOK, Call, NilOrLoad, LoadIds, CallInv, CallOK, Receive
<1>1. load[call[c].load] \in Load
  BY <1>0 DEF TypeOK
<1> DEFINE new == [call[c] EXCEPT !.at = "returned", !.out = load[call[c].load].out]
<1>2. new \in Call /\ new.at = "returned"
  BY <1>0, <1>1 DEF Call, Load
<1>3. call' = [call EXCEPT ![c] = new] /\ UNCHANGED <<gets, loads>>
  BY DEF Receive, TypeOK
<1>4. call' \in [Callers -> Call] /\ Counted'
  <2> HIDE DEF new
  <2> QED
    BY <1>2, <1>3, OneCall
<1>5. floor' \in [Keys -> NilOrLoad]
  <2>1. load[call[c].load].key \in Keys
    BY <1>1 DEF Load
  <2>2. Raised(load[call[c].load].key, call[c].load) \in [Keys -> NilOrLoad]
    BY <1>0, <2>1, RaisedType
  <2> QED
    BY <2>2 DEF Receive, TypeOK
<1> QED
  BY <1>4, <1>5 DEF Receive, TypeOK

\* Loads end, are delivered, and expire: no caller moves.
LEMMA LoadType ==
    ASSUME TypeOK, Counted,
           \/ \E l \in LoadIds : LoadValue(l) \/ LoadError(l) \/ Deliver(l)
           \/ \E k \in Keys : Expire(k)
    PROVE  TypeOK' /\ Counted'
<1>1. CASE \E l \in LoadIds : LoadValue(l)
  <2>1. PICK l \in LoadIds : LoadValue(l)
    BY <1>1
  <2>2. PICK ttl \in LoaderTTLs :
          load' = [load EXCEPT ![l].at = "finished", ![l].out = "value",
                               ![l].ttl = IF ttl = "zero" THEN DefaultTTL ELSE ttl]
    BY <2>1 DEF LoadValue
  <2>3. (IF ttl = "zero" THEN DefaultTTL ELSE ttl) \in Durations \cup {"nil"}
    BY CacheAssumption DEF TTLs, Durations
  <2>4. load' \in [LoadIds -> Load]
    <3> DEFINE life == IF ttl = "zero" THEN DefaultTTL ELSE ttl
    <3>1. load[l] \in Load /\ load \in [LoadIds -> Load] /\ "value" \in Outcomes
      BY DEF TypeOK, Outcomes
    <3>2. life \in Durations \cup {"nil"}
      BY <2>3
    <3>3. load' = [load EXCEPT ![l].at = "finished", ![l].out = "value", ![l].ttl = life]
      BY <2>2
    <3> HIDE DEF life
    <3> QED
      BY <3>1, <3>2, <3>3 DEF Load
  <2>5. l \in NilOrLoad /\ load[l].key \in Keys
    BY CacheAssumption DEF LoadIds, NilOrLoad, TypeOK, Load
  <2>6. entry' \in [Keys -> NilOrLoad]
    BY <2>1, <2>5 DEF LoadValue, TypeOK
  <2> QED
    BY <2>1, <2>4, <2>6 DEF LoadValue, TypeOK, Counted, Missed
<1>2. CASE \E l \in LoadIds : LoadError(l)
  BY <1>2 DEF LoadError, TypeOK, Load, Outcomes, Counted, Missed
<1>3. CASE \E l \in LoadIds : Deliver(l)
  <2>1. 0 \in NilOrLoad
    BY CacheAssumption DEF NilOrLoad
  <2> QED
    BY <1>3, <2>1 DEF Deliver, TypeOK, Load, Counted, Missed
<1>4. CASE \E k \in Keys : Expire(k)
  <2>1. 0 \in NilOrLoad
    BY CacheAssumption DEF NilOrLoad
  <2> QED
    BY <1>4, <2>1 DEF Expire, TypeOK, Counted, Missed
<1> QED
  BY <1>1, <1>2, <1>3, <1>4

(***************************************************************************)
(* The inductive invariant                                                 *)
(***************************************************************************)

\* Nothing known for a key is newer than a load under way for it.
LEMMA GroupIsNewest ==
    ASSUME TypeOK, CacheInv, NEW k \in Keys, group[k] # 0
    PROVE  floor[k] <= group[k]
<1>0. floor[k] \in Nat /\ group[k] \in Nat
  BY DEF TypeOK, NilOrLoad
<1>1. CASE floor[k] = 0
  BY <1>0, <1>1
<1>2. CASE floor[k] # 0
  <2>1. floor[k] \in LoadIds /\ load[floor[k]].key = k /\ Stored(floor[k])
    BY <1>2 DEF TypeOK, NilOrLoad, LoadIds, CacheInv, FloorInv
  <2> QED
    BY <1>0, <2>1 DEF CacheInv, GroupInv, Stored
<1> QED
  BY <1>1, <1>2

\* Nothing known for a key is newer than what is cached for it.
LEMMA EntryIsNewest ==
    ASSUME TypeOK, CacheInv, NEW k \in Keys, entry[k] # 0
    PROVE  floor[k] <= entry[k]
<1>0. floor[k] \in Nat /\ entry[k] \in Nat
  BY DEF TypeOK, NilOrLoad
<1>1. CASE floor[k] = 0
  BY <1>0, <1>1
<1>2. CASE floor[k] # 0
  <2>1. floor[k] \in LoadIds /\ load[floor[k]].key = k /\ Stored(floor[k])
    BY <1>2 DEF TypeOK, NilOrLoad, LoadIds, CacheInv, FloorInv
  <2> QED
    BY <1>0, <2>1 DEF CacheInv, EntryInv
<1> QED
  BY <1>1, <1>2

\* Raising the newest value seen does not lower it.
LEMMA RaisedGrows ==
    ASSUME TypeOK, NEW k \in Keys, NEW l \in NilOrLoad, NEW j \in Keys
    PROVE  /\ floor[j] <= Raised(k, l)[j]
           /\ Raised(k, l)[j] \in {floor[j], l}
           /\ j # k => Raised(k, l)[j] = floor[j]
BY DEF TypeOK, Raised, NilOrLoad

\* A Get that hits returns what is cached, which is the newest value stored.
LEMMA BeginInv ==
    ASSUME TypeOK, CacheInv, NEW c \in Callers, NEW k \in Keys, Begin(c, k)
    PROVE  CacheInv'
<1>0. entry[k] \in NilOrLoad
  BY DEF TypeOK
<1>1. LoadInv' /\ GroupInv' /\ EntryInv'
  BY DEF CacheInv, LoadInv, GroupInv, EntryInv, Stored, Begin
<1>2. CASE entry[k] # 0
  <2>1. floor' = Raised(k, entry[k])
    BY <1>2 DEF Begin
  <2>2. FloorInv'
    <3> SUFFICES ASSUME NEW j \in Keys, floor'[j] # 0
                 PROVE  load[floor'[j]].key = j /\ Stored(floor'[j])
      BY DEF FloorInv, Begin, Stored
    <3>1. floor'[j] = floor[j] \/ (j = k /\ floor'[j] = entry[k])
      BY <1>0, <2>1, RaisedGrows
    <3> QED
      BY <1>2, <3>1 DEF CacheInv, FloorInv, EntryInv
  <2>3. CallInv'
    <3> SUFFICES ASSUME NEW d \in Callers
                 PROVE  CallOK(d)'
      BY DEF CallInv
    <3>1. CASE d = c
      <4>1. call'[c] = [IdleCall EXCEPT !.key = k, !.floor = floor[k], !.at = "returned",
                                        !.load = entry[k], !.out = "value"]
        BY <1>2 DEF Begin, TypeOK, IdleCall
      <4>2. floor[k] <= floor'[k]
        BY <1>0, <2>1, RaisedGrows
      <4>3. load[entry[k]].key = k /\ Stored(entry[k])
        BY <1>2 DEF CacheInv, EntryInv
      <4> QED
        BY <1>2, <3>1, <4>1, <4>2, <4>3, EntryIsNewest DEF CallOK, Stored, Begin, IdleCall
    <3>2. CASE d # c
      <4>1. call'[d] = call[d] /\ call[d] \in Call /\ load' = load
        BY <3>2 DEF Begin, TypeOK
      <4>2. floor[call[d].key] <= floor'[call[d].key]
        BY <1>0, <2>1, <4>1, RaisedGrows DEF Call
      <4>3. call[d].floor \in Nat /\ floor[call[d].key] \in Nat /\ floor'[call[d].key] \in Nat
        BY <1>0, <2>1, <4>1, RaisedType DEF Call, TypeOK, NilOrLoad
      <4> QED
        BY <4>1, <4>2, <4>3 DEF CacheInv, CallInv, CallOK
    <3> QED
      BY <3>1, <3>2
  <2> QED
    BY <1>1, <2>2, <2>3 DEF CacheInv
<1>3. CASE entry[k] = 0
  <2>1. FloorInv'
    BY <1>3 DEF CacheInv, FloorInv, Stored, Begin
  <2>2. CallInv'
    <3> SUFFICES ASSUME NEW d \in Callers
                 PROVE  CallOK(d)'
      BY DEF CallInv
    <3>1. CASE d = c
      <4>1. call'[c] = [IdleCall EXCEPT !.key = k, !.floor = floor[k], !.at = "missed"]
        BY <1>3 DEF Begin, TypeOK, IdleCall
      <4>2. floor'[k] = floor[k] /\ floor[k] \in Nat
        BY <1>3 DEF Begin, TypeOK, NilOrLoad
      <4> QED
        BY <3>1, <4>1, <4>2 DEF CallOK, IdleCall
    <3>2. CASE d # c
      <4>1. call'[d] = call[d] /\ floor' = floor /\ load' = load
        BY <1>3, <3>2 DEF Begin, TypeOK
      <4> QED
        BY <4>1 DEF CacheInv, CallInv, CallOK
    <3> QED
      BY <3>1, <3>2
  <2> QED
    BY <1>1, <2>1, <2>2 DEF CacheInv
<1> QED
  BY <1>2, <1>3

\* A miss joins the load under way for its key.
LEMMA JoinInv ==
    ASSUME TypeOK, CacheInv, NEW c \in Callers, DoChan(c), group[call[c].key] # 0
    PROVE  CacheInv'
<1> DEFINE k == call[c].key
<1>0. k \in Keys /\ group[k] \in LoadIds /\ floor[k] \in Nat /\ call[c].floor \in Nat
  BY DEF TypeOK, Call, NilOrLoad, LoadIds
<1>1. /\ call' = [call EXCEPT ![c].at = "waiting", ![c].load = group[k]]
      /\ group' = group /\ load' = load /\ loads' = loads
      /\ entry' = entry /\ floor' = floor
  BY <1>0 DEF DoChan, LoadIds
<1>2. LoadInv' /\ GroupInv' /\ EntryInv' /\ FloorInv'
  <2>1. LoadInv'
    BY <1>1 DEF CacheInv, LoadInv
  <2>2. GroupInv'
    BY <1>1 DEF CacheInv, GroupInv
  <2>3. EntryInv' /\ FloorInv'
    BY <1>1 DEF CacheInv, EntryInv, FloorInv, Stored
  <2> QED
    BY <2>1, <2>2, <2>3
<1>3. CallInv'
  <2> SUFFICES ASSUME NEW d \in Callers
               PROVE  CallOK(d)'
    BY DEF CallInv
  <2>1. CASE d = c
    <3>1. call'[c] = [call[c] EXCEPT !.at = "waiting", !.load = group[k]]
      BY <1>1 DEF TypeOK
    <3>2. call[c].floor <= floor[k]
      BY DEF CacheInv, CallInv, CallOK
    <3>3. floor[k] <= group[k]
      BY <1>0, GroupIsNewest
    <3>4. load[group[k]].key = k /\ load[group[k]].at \in {"running", "finished"}
      BY <1>0 DEF CacheInv, GroupInv
    <3>5. /\ call'[c].at = "waiting" /\ call'[c].load = group[k]
          /\ call'[c].key = k /\ call'[c].floor = call[c].floor
      BY <3>1 DEF TypeOK, Call
    <3>6. group[k] \in Nat \ {0} /\ call[c].floor <= group[k]
      BY <1>0, <3>2, <3>3 DEF LoadIds
    <3> HIDE DEF k
    <3> QED
      BY <1>1, <2>1, <3>2, <3>4, <3>5, <3>6 DEF CallOK
  <2>2. CASE d # c
    BY <1>1, <2>2 DEF CacheInv, CallInv, CallOK, TypeOK
  <2> QED
    BY <2>1, <2>2
<1> QED
  BY <1>2, <1>3 DEF CacheInv

\* A miss leads a new load, which is the newest of all.
LEMMA LeadInv ==
    ASSUME TypeOK, Counted, CacheInv, NEW c \in Callers, DoChan(c), group[call[c].key] = 0
    PROVE  CacheInv'
<1> DEFINE k == call[c].key
           l == loads + 1
<1>0. k \in Keys /\ floor[k] \in Nat /\ call[c].floor \in Nat /\ call[c] \in Call
  BY DEF TypeOK, Call, NilOrLoad
<1>1. l \in LoadIds /\ loads \in Nat /\ LoadIds \subseteq Nat \ {0}
  BY LoadLeft DEF DoChan, TypeOK, NilOrLoad, LoadIds
<1>2. /\ loads' = l
      /\ load' = [load EXCEPT ![l] = [UnusedLoad EXCEPT !.key = k, !.at = "running"]]
      /\ group' = [group EXCEPT ![k] = l]
      /\ call' = [call EXCEPT ![c].at = "waiting", ![c].load = l]
      /\ entry' = entry /\ floor' = floor
  BY DEF DoChan, StartLoad
<1> HIDE DEF k
<1>3. /\ load'[l].key = k /\ load'[l].at = "running"
      /\ \A m \in LoadIds : m # l => load'[m] = load[m]
      /\ group'[k] = l
      /\ \A j \in Keys : j # k => group'[j] = group[j]
  BY <1>0, <1>1, <1>2 DEF UnusedLoad, TypeOK
<1>4. load[l].at = "unused"
  BY <1>1 DEF CacheInv, LoadInv
<1> HIDE DEF l
<1>5. \A m \in LoadIds : Stored(m) <=> Stored(m)'
  BY <1>3, <1>4 DEF Stored
<1>6. LoadInv'
  <2> SUFFICES ASSUME NEW m \in LoadIds
               PROVE  /\ load'[m].at # "unused" <=> m <= loads'
                      /\ load'[m].at \in {"finished", "delivered"} =>
                            load'[m].out \in {"value", "error"}
    BY DEF LoadInv
  <2>1. m \in Nat
    BY DEF LoadIds
  <2> QED
    BY <1>1, <1>2, <1>3, <2>1 DEF CacheInv, LoadInv, l
<1>7. GroupInv'
  <2>1. \A m \in LoadIds : load'[m].at \in {"running", "finished"} => group'[load'[m].key] = m
    <3> SUFFICES ASSUME NEW m \in LoadIds, load'[m].at \in {"running", "finished"}
                 PROVE  group'[load'[m].key] = m
      OBVIOUS
    <3>1. CASE m = l
      BY <1>3, <3>1
    <3>2. CASE m # l
      <4>1. load'[m] = load[m] /\ group[load[m].key] = m /\ m # 0 /\ load[m].key \in Keys
        BY <1>1, <1>3, <3>2 DEF CacheInv, GroupInv, TypeOK, Load
      <4> QED
        BY <1>3, <4>1 DEF k
    <3> QED
      BY <3>1, <3>2
  <2>2. \A j \in Keys : group'[j] # 0 =>
          load'[group'[j]].key = j /\ load'[group'[j]].at \in {"running", "finished"}
    <3> SUFFICES ASSUME NEW j \in Keys, group'[j] # 0
                 PROVE  load'[group'[j]].key = j /\ load'[group'[j]].at \in {"running", "finished"}
      OBVIOUS
    <3>1. CASE j = k
      BY <1>3, <3>1
    <3>2. CASE j # k
      <4>1. group'[j] = group[j] /\ group[j] \in LoadIds
        BY <1>3, <3>2 DEF TypeOK, NilOrLoad, LoadIds
      <4>2. load[group[j]].key = j /\ load[group[j]].at \in {"running", "finished"}
        BY <4>1 DEF CacheInv, GroupInv
      <4> QED
        BY <1>3, <1>4, <4>1, <4>2
    <3> QED
      BY <3>1, <3>2
  <2>3. \A m \in LoadIds : load'[m].at = "delivered" /\ group'[load'[m].key] # 0
          => m < group'[load'[m].key]
    <3> SUFFICES ASSUME NEW m \in LoadIds, load'[m].at = "delivered", group'[load'[m].key] # 0
                 PROVE  m < group'[load'[m].key]
      OBVIOUS
    <3>1. m # l /\ load'[m] = load[m] /\ load[m].key \in Keys
      BY <1>3 DEF TypeOK, Load
    <3>2. m \in Nat /\ m <= loads
      BY <3>1 DEF CacheInv, LoadInv, LoadIds
    <3>3. CASE load[m].key = k
      BY <1>1, <1>3, <3>1, <3>2, <3>3 DEF l
    <3>4. CASE load[m].key # k
      BY <1>3, <3>1, <3>4 DEF CacheInv, GroupInv
    <3> QED
      BY <3>3, <3>4
  <2> QED
    BY <2>1, <2>2, <2>3 DEF GroupInv
<1>8. \A m \in LoadIds : Stored(m) => load'[m] = load[m]
  BY <1>3, <1>4 DEF Stored
<1>9. EntryInv'
  <2>1. \A j \in Keys : entry[j] # 0 => entry[j] \in LoadIds
    BY DEF TypeOK, NilOrLoad, LoadIds
  <2> QED
    BY <1>2, <1>5, <1>8, <2>1 DEF CacheInv, EntryInv
<1>10. FloorInv'
  <2>1. \A j \in Keys : floor[j] # 0 => floor[j] \in LoadIds
    BY DEF TypeOK, NilOrLoad, LoadIds
  <2> QED
    BY <1>2, <1>5, <1>8, <2>1 DEF CacheInv, FloorInv
<1>11. CallInv'
  <2> SUFFICES ASSUME NEW d \in Callers
               PROVE  CallOK(d)'
    BY DEF CallInv
  <2>1. CASE d = c
    <3>1. call'[c] = [call[c] EXCEPT !.at = "waiting", !.load = l]
      BY <1>2 DEF TypeOK
    <3>2. call[c].floor <= floor[k]
      BY DEF CacheInv, CallInv, CallOK, k
    <3>3. floor[k] <= l
      <4>1. CASE floor[k] = 0
        BY <1>1, <4>1
      <4>2. CASE floor[k] # 0
        <5>1. floor[k] \in LoadIds /\ Stored(floor[k])
          BY <1>0, <4>2 DEF TypeOK, NilOrLoad, LoadIds, CacheInv, FloorInv
        <5>2. floor[k] <= loads
          BY <5>1 DEF Stored, CacheInv, LoadInv
        <5> QED
          BY <1>0, <1>1, <5>2 DEF l
      <4> QED
        BY <4>1, <4>2
    <3>4. l # 0 /\ l \in Nat
      BY <1>1
    <3>5. /\ call'[c].at = "waiting" /\ call'[c].load = l
          /\ call'[c].key = k /\ call'[c].floor = call[c].floor
      BY <1>0, <3>1 DEF Call, k
    <3>6. call[c].floor <= l
      BY <1>0, <3>2, <3>3, <3>4
    <3> QED
      BY <1>2, <1>3, <2>1, <3>2, <3>4, <3>5, <3>6 DEF CallOK
  <2>2. CASE d # c
    <3>1. call'[d] = call[d] /\ call[d] \in Call
      BY <1>2, <2>2 DEF TypeOK
    <3>2. call[d].load # 0 => call[d].load \in LoadIds
      BY <3>1 DEF Call, NilOrLoad, LoadIds
    <3>3. CallOK(d)
      BY DEF CacheInv, CallInv
    <3>4. \A m \in LoadIds : load[m].at # "unused" => load'[m] = load[m]
      BY <1>3, <1>4
    <3>5. call[d].load # 0 /\ load[call[d].load].at # "unused"
            => load'[call[d].load] = load[call[d].load]
      BY <3>2, <3>4
    <3> QED
      BY <1>2, <3>1, <3>3, <3>5 DEF CallOK
  <2> QED
    BY <2>1, <2>2
<1> QED
  BY <1>6, <1>7, <1>9, <1>10, <1>11 DEF CacheInv

\* What only moves one call, and that to a sound one, keeps the rest.
LEMMA OneCallInv ==
    ASSUME TypeOK, CacheInv, NEW c \in Callers, NEW new,
           call' = [call EXCEPT ![c] = new],
           group' = group, load' = load, loads' = loads, entry' = entry, floor' = floor,
           CallOK(c)'
    PROVE  CacheInv'
<1>1. LoadInv'
  BY DEF CacheInv, LoadInv
<1>2. GroupInv'
  BY DEF CacheInv, GroupInv
<1>3. EntryInv' /\ FloorInv'
  BY DEF CacheInv, EntryInv, FloorInv, Stored
<1>4. CallInv'
  <2> SUFFICES ASSUME NEW d \in Callers, d # c
               PROVE  CallOK(d)'
    BY DEF CallInv
  <2>1. call'[d] = call[d]
    BY DEF TypeOK
  <2> QED
    BY <2>1 DEF CacheInv, CallInv, CallOK
<1> QED
  BY <1>1, <1>2, <1>3, <1>4 DEF CacheInv

\* The end of a caller's context alters no call.
LEMMA EndContextInv ==
    ASSUME TypeOK, CacheInv, NEW c \in Callers, EndContext(c)
    PROVE  CacheInv'
<1> DEFINE new == [call[c] EXCEPT !.ctxEnded = TRUE]
<1>1. call[c] \in Call /\ call' = [call EXCEPT ![c] = new] /\ call'[c] = new
  BY DEF EndContext, TypeOK
<1>2. group' = group /\ load' = load /\ loads' = loads /\ entry' = entry /\ floor' = floor
  BY DEF EndContext
<1>3. CallOK(c)'
  <2>1. /\ new.at = call[c].at /\ new.load = call[c].load /\ new.key = call[c].key
        /\ new.floor = call[c].floor /\ new.at # "returned"
    BY <1>1 DEF Call, EndContext
  <2> HIDE DEF new
  <2> QED
    BY <1>1, <1>2, <2>1 DEF CacheInv, CallInv, CallOK
<1> HIDE DEF new
<1> QED
  BY <1>1, <1>2, <1>3, OneCallInv

\* A caller gives up because its own context ended.
LEMMA InterruptInv ==
    ASSUME TypeOK, CacheInv, NEW c \in Callers, Interrupt(c)
    PROVE  CacheInv'
<1> DEFINE new == [call[c] EXCEPT !.at = "returned", !.load = 0, !.out = "interrupted"]
<1>1. call[c] \in Call /\ call' = [call EXCEPT ![c] = new] /\ call'[c] = new
  BY DEF Interrupt, TypeOK
<1>2. group' = group /\ load' = load /\ loads' = loads /\ entry' = entry /\ floor' = floor
  BY DEF Interrupt
<1>3. CallOK(c)'
  <2>1. /\ new.at = "returned" /\ new.out = "interrupted" /\ new.key = call[c].key
        /\ new.floor = call[c].floor /\ new.ctxEnded
    BY <1>1 DEF Call, Interrupt
  <2> HIDE DEF new
  <2> QED
    BY <1>1, <1>2, <2>1 DEF CacheInv, CallInv, CallOK
<1> HIDE DEF new
<1> QED
  BY <1>1, <1>2, <1>3, OneCallInv

\* A caller returns what its load came to, and the newest value seen is still one that
\* was stored.
LEMMA ReceiveInv ==
    ASSUME TypeOK, CacheInv, NEW c \in Callers, Receive(c)
    PROVE  CacheInv'
<1> DEFINE l == call[c].load
<1>0. /\ call[c] \in Call /\ l \in LoadIds /\ l \in NilOrLoad /\ load[l] \in Load
      /\ load[l].key = call[c].key /\ load[l].at = "delivered" /\ call[c].floor <= l
  BY DEF Receive, TypeOK, Call, NilOrLoad, LoadIds, CacheInv, CallInv, CallOK
<1>1. group' = group /\ load' = load /\ loads' = loads /\ entry' = entry
  BY DEF Receive
<1>2. LoadInv' /\ GroupInv' /\ EntryInv'
  <2>1. LoadInv'
    BY <1>1 DEF CacheInv, LoadInv
  <2>2. GroupInv'
    BY <1>1 DEF CacheInv, GroupInv
  <2>3. EntryInv'
    BY <1>1 DEF CacheInv, EntryInv, Stored
  <2> QED
    BY <2>1, <2>2, <2>3
<1>3. /\ \A j \in Keys : floor[j] <= floor'[j] /\ floor[j] \in Nat /\ floor'[j] \in Nat
      /\ \A j \in Keys : floor'[j] = floor[j] \/ (floor'[j] = l /\ j = load[l].key /\ Stored(l))
  <2>1. CASE load[l].out = "value" /\ load[l].ttl # "nil" /\ ~CacheNothing
    <3>1. floor' = Raised(load[l].key, l) /\ load[l].key \in Keys /\ Stored(l)
      BY <1>0, <2>1 DEF Receive, Stored, Load
    <3>2. floor' \in [Keys -> NilOrLoad]
      BY <1>0, <3>1, RaisedType
    <3> HIDE DEF l
    <3>3. \A j \in Keys : floor[j] <= floor'[j]
      BY <1>0, <3>1, RaisedGrows
    <3>4. \A j \in Keys : floor'[j] = floor[j] \/ (floor'[j] = l /\ j = load[l].key)
      BY <1>0, <3>1, RaisedGrows
    <3> QED
      BY <3>1, <3>2, <3>3, <3>4 DEF TypeOK, NilOrLoad
  <2>2. CASE ~(load[l].out = "value" /\ load[l].ttl # "nil" /\ ~CacheNothing)
    <3>1. floor' = floor
      BY <2>2 DEF Receive
    <3> QED
      BY <3>1 DEF TypeOK, NilOrLoad
  <2> QED
    BY <2>1, <2>2
<1>4. FloorInv'
  BY <1>1, <1>3 DEF CacheInv, FloorInv, Stored
<1>5. CallInv'
  <2> SUFFICES ASSUME NEW d \in Callers
               PROVE  CallOK(d)'
    BY DEF CallInv
  <2>0. /\ call[d] \in Call /\ call[d].key \in Keys /\ call[d].floor \in Nat
        /\ CallOK(d)
    BY DEF TypeOK, Call, NilOrLoad, CacheInv, CallInv
  <2>1. call[d].floor <= floor'[call[d].key]
    BY <1>3, <2>0 DEF CallOK
  <2>2. CASE d = c
    <3>1. call'[c] = [call[c] EXCEPT !.at = "returned", !.out = load[l].out]
      BY DEF Receive, TypeOK
    <3>2. /\ call'[c].at = "returned" /\ call'[c].out = load[l].out /\ call'[c].load = l
          /\ call'[c].key = call[c].key /\ call'[c].floor = call[c].floor
      BY <1>0, <3>1 DEF Call
    <3>3. l # 0
      BY <1>0 DEF LoadIds
    <3> HIDE DEF l
    <3> QED
      BY <1>0, <1>1, <2>1, <2>2, <3>2, <3>3 DEF CallOK
  <2>3. CASE d # c
    <3>1. call'[d] = call[d]
      BY <2>3 DEF Receive, TypeOK
    <3> QED
      BY <1>1, <2>0, <2>1, <3>1 DEF CallOK
  <2> QED
    BY <2>2, <2>3
<1> QED
  BY <1>2, <1>4, <1>5 DEF CacheInv

\* A value that expires is no longer cached; the rest stays.
LEMMA ExpireInv ==
    ASSUME TypeOK, CacheInv, NEW k \in Keys, Expire(k)
    PROVE  CacheInv'
<1>1. /\ entry' = [entry EXCEPT ![k] = 0]
      /\ call' = call /\ group' = group /\ load' = load /\ loads' = loads /\ floor' = floor
  BY DEF Expire
<1>2. LoadInv' /\ FloorInv'
  BY <1>1 DEF CacheInv, LoadInv, FloorInv, Stored
<1>3. GroupInv'
  BY <1>1 DEF CacheInv, GroupInv
<1>4. EntryInv'
  <2>1. \A j \in Keys : entry'[j] = 0 \/ entry'[j] = entry[j]
    BY <1>1 DEF TypeOK
  <2>2. \A l \in LoadIds : load[l].key \in Keys
    BY DEF TypeOK, Load
  <2> QED
    BY <1>1, <2>1, <2>2 DEF CacheInv, EntryInv, Stored
<1>5. CallInv'
  BY <1>1 DEF CacheInv, CallInv, CallOK
<1> QED
  BY <1>2, <1>3, <1>4, <1>5 DEF CacheInv

\* A load that moves on, from running to finished or from there to delivered, takes
\* nothing from those that know it.
LEMMA LoadMovesOn ==
    ASSUME TypeOK, CacheInv, NEW l \in LoadIds, NEW new \in Load,
           load' = [load EXCEPT ![l] = new],
           call' = call, loads' = loads, floor' = floor,
           new.key = load[l].key,
           new.at \in {"finished", "delivered"},
           new.out \in {"value", "error"},
           \/ load[l].at = "running"
           \/ load[l].at = "finished" /\ new.out = load[l].out /\ new.ttl = load[l].ttl
    PROVE  /\ LoadInv' /\ FloorInv' /\ CallInv'
           /\ load'[l] = new
           /\ \A m \in LoadIds : m # l => load'[m] = load[m]
           /\ \A m \in LoadIds : load'[m].key = load[m].key
           /\ \A m \in LoadIds : Stored(m) => Stored(m)'
           /\ \A m \in LoadIds : m # l => (Stored(m) <=> Stored(m)')
<1>1. load'[l] = new /\ \A m \in LoadIds : m # l => load'[m] = load[m]
  BY DEF TypeOK
<1>2. \A m \in LoadIds : load'[m].key = load[m].key
  BY <1>1
<1>3. \A m \in LoadIds : m # l => (Stored(m) <=> Stored(m)')
  BY <1>1 DEF Stored
<1>4. Stored(l) => Stored(l)'
  BY <1>1 DEF Stored
<1>5. LoadInv'
  <2> SUFFICES ASSUME NEW m \in LoadIds
               PROVE  /\ load'[m].at # "unused" <=> m <= loads'
                      /\ load'[m].at \in {"finished", "delivered"} =>
                            load'[m].out \in {"value", "error"}
    BY DEF LoadInv
  <2>1. CASE m = l
    BY <1>1, <2>1 DEF CacheInv, LoadInv
  <2>2. CASE m # l
    BY <1>1, <2>2 DEF CacheInv, LoadInv
  <2> QED
    BY <2>1, <2>2
<1>6. FloorInv'
  <2>1. \A k \in Keys : floor[k] # 0 => floor[k] \in LoadIds
    BY DEF TypeOK, NilOrLoad, LoadIds
  <2> QED
    BY <1>2, <1>3, <1>4, <2>1 DEF CacheInv, FloorInv
<1>7. CallInv'
  <2> SUFFICES ASSUME NEW c \in Callers
               PROVE  CallOK(c)'
    BY DEF CallInv
  <2>1. CallOK(c) /\ (call[c].load # 0 => call[c].load \in LoadIds)
    BY DEF CacheInv, CallInv, TypeOK, Call, NilOrLoad, LoadIds
  <2>2. CASE call[c].load = l
    <3>1. load[l].at \in {"finished", "delivered"} =>
              load[l].at = "finished" /\ new.out = load[l].out
      OBVIOUS
    <3> QED
      BY <1>1, <2>1, <2>2, <3>1 DEF CallOK
  <2>3. CASE call[c].load # l
    <3>1. call[c].load # 0 => load'[call[c].load] = load[call[c].load]
      BY <1>1, <2>1, <2>3
    <3> QED
      BY <2>1, <3>1 DEF CallOK
  <2> QED
    BY <2>2, <2>3
<1> QED
  BY <1>1, <1>2, <1>3, <1>4, <1>5, <1>6, <1>7

\* A load that ends is still known to singleflight.
LEMMA LoadEnds ==
    ASSUME TypeOK, CacheInv, NEW l \in LoadIds, load[l].at = "running", group' = group,
           load'[l].at = "finished", load'[l].key = load[l].key,
           \A m \in LoadIds : m # l => load'[m] = load[m]
    PROVE  GroupInv'
<1>1. \A k \in Keys : group[k] # 0 => group[k] \in LoadIds
  BY DEF TypeOK, NilOrLoad, LoadIds
<1>2. \A m \in LoadIds :
        load'[m].at \in {"running", "finished"} => group'[load'[m].key] = m
  BY DEF CacheInv, GroupInv
<1>3. \A k \in Keys : group'[k] # 0 =>
        load'[group'[k]].key = k /\ load'[group'[k]].at \in {"running", "finished"}
  BY <1>1 DEF CacheInv, GroupInv
<1>4. \A m \in LoadIds :
        load'[m].at = "delivered" /\ group'[load'[m].key] # 0 => m < group'[load'[m].key]
  BY DEF CacheInv, GroupInv
<1> QED
  BY <1>2, <1>3, <1>4 DEF GroupInv

\* A load obtains a value, newer than all that were stored for the key.
LEMMA LoadValueInv ==
    ASSUME TypeOK, CacheInv, NEW l \in LoadIds, LoadValue(l)
    PROVE  CacheInv'
<1>1. PICK ttl \in LoaderTTLs :
        load' = [load EXCEPT ![l].at = "finished", ![l].out = "value",
                             ![l].ttl = IF ttl = "zero" THEN DefaultTTL ELSE ttl]
  BY DEF LoadValue
<1> DEFINE life == IF ttl = "zero" THEN DefaultTTL ELSE ttl
           new == [load[l] EXCEPT !.at = "finished", !.out = "value", !.ttl = life]
<1>2. life \in Durations \cup {"nil"} /\ load[l] \in Load /\ "value" \in Outcomes
  BY CacheAssumption DEF TTLs, Durations, TypeOK, Outcomes
<1>3. load' = [load EXCEPT ![l] = new]
  BY <1>1 DEF TypeOK
<1> HIDE DEF life
<1>4. /\ new \in Load /\ new.key = load[l].key /\ new.at = "finished"
      /\ new.out = "value" /\ new.ttl = life
  BY <1>2 DEF Load
<1> HIDE DEF new
<1>5. /\ load[l].at = "running"
      /\ call' = call /\ loads' = loads /\ floor' = floor /\ group' = group
  BY DEF LoadValue
<1>6. /\ LoadInv' /\ FloorInv' /\ CallInv'
      /\ load'[l] = new
      /\ \A m \in LoadIds : m # l => load'[m] = load[m]
      /\ \A m \in LoadIds : load'[m].key = load[m].key
      /\ \A m \in LoadIds : m # l => (Stored(m) <=> Stored(m)')
  BY <1>3, <1>4, <1>5, LoadMovesOn
<1>7. GroupInv'
  BY <1>4, <1>5, <1>6, LoadEnds
<1>8. /\ \A k \in Keys : entry[k] # 0 => entry[k] \in LoadIds
      /\ \A m \in LoadIds : load[m].key \in Keys
      /\ ~Stored(l)
  <2>1. \A k \in Keys : entry[k] # 0 => entry[k] \in LoadIds
    BY DEF TypeOK, NilOrLoad, LoadIds
  <2>2. \A m \in LoadIds : load[m].key \in Keys
    BY DEF TypeOK, Load
  <2>3. ~Stored(l)
    BY <1>5 DEF Stored
  <2> QED
    BY <2>1, <2>2, <2>3
<1>9. CASE CacheNothing \/ load'[l].ttl = "nil"
  <2>1. entry' = entry /\ ~Stored(l)'
    BY <1>9 DEF LoadValue, Stored
  <2>2. EntryInv'
    BY <1>6, <1>8, <2>1 DEF CacheInv, EntryInv
  <2> QED
    BY <1>6, <1>7, <2>2 DEF CacheInv
<1>10. CASE ~(CacheNothing \/ load'[l].ttl = "nil")
  <2>1. entry' = [entry EXCEPT ![load[l].key] = l] /\ Stored(l)'
    BY <1>4, <1>6, <1>10 DEF LoadValue, Stored
  <2>2. /\ entry'[load[l].key] = l
        /\ \A k \in Keys : k # load[l].key => entry'[k] = entry[k]
    BY <1>8, <2>1 DEF TypeOK
  <2>3. \A k \in Keys : entry'[k] # 0 => load'[entry'[k]].key = k /\ Stored(entry[k])'
    <3> SUFFICES ASSUME NEW k \in Keys, entry'[k] # 0
                 PROVE  load'[entry'[k]].key = k /\ Stored(entry[k])'
      OBVIOUS
    <3>1. CASE k = load[l].key
      BY <1>6, <2>1, <2>2, <3>1 DEF Stored
    <3>2. CASE k # load[l].key
      <4>1. entry'[k] = entry[k] /\ entry[k] \in LoadIds
        BY <1>8, <2>2, <3>2
      <4>2. load[entry[k]].key = k /\ Stored(entry[k]) /\ entry[k] # l
        BY <3>2, <4>1 DEF CacheInv, EntryInv
      <4>3. load'[entry[k]] = load[entry[k]]
        BY <1>6, <4>1, <4>2
      <4> QED
        BY <4>1, <4>2, <4>3 DEF Stored
    <3> QED
      BY <3>1, <3>2
  <2>4. \A m \in LoadIds :
          Stored(m)' => entry'[load'[m].key] = 0 \/ m <= entry'[load'[m].key]
    <3> SUFFICES ASSUME NEW m \in LoadIds, Stored(m)'
                 PROVE  entry'[load'[m].key] = 0 \/ m <= entry'[load'[m].key]
      OBVIOUS
    <3>1. CASE m = l
      BY <1>6, <2>2, <3>1 DEF LoadIds
    <3>2. CASE m # l /\ load[m].key = load[l].key
      <4>1. Stored(m)
        BY <1>6, <3>2
      <4>2. group[load[l].key] = l /\ l # 0
        BY <1>5 DEF CacheInv, GroupInv, LoadIds
      <4>3. m < l
        BY <3>2, <4>1, <4>2 DEF Stored, CacheInv, GroupInv
      <4>4. m \in Nat /\ l \in Nat
        BY DEF LoadIds
      <4> QED
        BY <1>6, <2>2, <3>2, <4>3, <4>4
    <3>3. CASE m # l /\ load[m].key # load[l].key
      BY <1>6, <1>8, <2>2, <3>3 DEF CacheInv, EntryInv
    <3> QED
      BY <3>1, <3>2, <3>3
  <2>5. EntryInv'
    BY <2>3, <2>4 DEF EntryInv
  <2> QED
    BY <1>6, <1>7, <2>5 DEF CacheInv
<1> QED
  BY <1>9, <1>10

\* A load that fails stores nothing.
LEMMA LoadErrorInv ==
    ASSUME TypeOK, CacheInv, NEW l \in LoadIds, LoadError(l)
    PROVE  CacheInv'
<1> DEFINE new == [load[l] EXCEPT !.at = "finished", !.out = "error"]
<1>1. load' = [load EXCEPT ![l] = new]
  BY DEF LoadError, TypeOK
<1>2. load[l] \in Load /\ "error" \in Outcomes
  BY DEF TypeOK, Outcomes
<1>3. new \in Load /\ new.key = load[l].key /\ new.at = "finished" /\ new.out = "error"
  BY <1>2 DEF Load
<1> HIDE DEF new
<1>4. /\ load[l].at = "running" /\ entry' = entry
      /\ call' = call /\ loads' = loads /\ floor' = floor /\ group' = group
  BY DEF LoadError
<1>5. /\ LoadInv' /\ FloorInv' /\ CallInv'
      /\ load'[l] = new
      /\ \A m \in LoadIds : m # l => load'[m] = load[m]
      /\ \A m \in LoadIds : load'[m].key = load[m].key
      /\ \A m \in LoadIds : m # l => (Stored(m) <=> Stored(m)')
  BY <1>1, <1>3, <1>4, LoadMovesOn
<1>6. GroupInv'
  BY <1>3, <1>4, <1>5, LoadEnds
<1>7. EntryInv'
  <2>1. /\ \A k \in Keys : entry[k] # 0 => entry[k] \in LoadIds
        /\ ~Stored(l) /\ ~Stored(l)'
    BY <1>3, <1>4, <1>5 DEF TypeOK, NilOrLoad, LoadIds, Stored
  <2> QED
    BY <1>4, <1>5, <2>1 DEF CacheInv, EntryInv
<1> QED
  BY <1>5, <1>6, <1>7 DEF CacheInv

\* A load is delivered and singleflight forgets it.
LEMMA DeliverInv ==
    ASSUME TypeOK, CacheInv, NEW l \in LoadIds, Deliver(l)
    PROVE  CacheInv'
<1> DEFINE new == [load[l] EXCEPT !.at = "delivered"]
           k == load[l].key
<1>1. load' = [load EXCEPT ![l] = new] /\ group' = [group EXCEPT ![k] = 0]
  BY DEF Deliver, TypeOK
<1>2. load[l] \in Load /\ k \in Keys
  BY DEF TypeOK, Load
<1>3. /\ new \in Load /\ new.key = load[l].key /\ new.at = "delivered"
      /\ new.out = load[l].out /\ new.ttl = load[l].ttl
  BY <1>2 DEF Load
<1> HIDE DEF new, k
<1>4. /\ load[l].at = "finished" /\ entry' = entry
      /\ call' = call /\ loads' = loads /\ floor' = floor
  BY DEF Deliver
<1>5. load[l].out \in {"value", "error"}
  BY <1>4 DEF CacheInv, LoadInv
<1>6. /\ LoadInv' /\ FloorInv' /\ CallInv'
      /\ load'[l] = new
      /\ \A m \in LoadIds : m # l => load'[m] = load[m]
      /\ \A m \in LoadIds : load'[m].key = load[m].key
      /\ \A m \in LoadIds : Stored(m) => Stored(m)'
      /\ \A m \in LoadIds : m # l => (Stored(m) <=> Stored(m)')
  BY <1>1, <1>3, <1>4, <1>5, LoadMovesOn
<1>7. /\ group'[k] = 0
      /\ \A j \in Keys : j # k => group'[j] = group[j]
      /\ \A m \in LoadIds : load[m].key \in Keys
  BY <1>1, <1>2 DEF TypeOK, Load
<1>8. GroupInv'
  <2>1. \A m \in LoadIds :
          load'[m].at \in {"running", "finished"} => group'[load'[m].key] = m
    <3> SUFFICES ASSUME NEW m \in LoadIds, load'[m].at \in {"running", "finished"}
                 PROVE  group'[load'[m].key] = m
      OBVIOUS
    <3>1. m # l /\ load'[m] = load[m]
      BY <1>3, <1>6
    <3>2. group[load[m].key] = m /\ group[k] = l
      BY <1>4, <3>1 DEF CacheInv, GroupInv, k
    <3> QED
      BY <1>7, <3>1, <3>2
  <2>2. \A j \in Keys : group'[j] # 0 =>
          load'[group'[j]].key = j /\ load'[group'[j]].at \in {"running", "finished"}
    <3> SUFFICES ASSUME NEW j \in Keys, group'[j] # 0
                 PROVE  load'[group'[j]].key = j /\ load'[group'[j]].at \in {"running", "finished"}
      OBVIOUS
    <3>1. j # k /\ group'[j] = group[j] /\ group[j] \in LoadIds
      BY <1>7 DEF TypeOK, NilOrLoad, LoadIds
    <3>2. load[group[j]].key = j /\ load[group[j]].at \in {"running", "finished"}
      BY <3>1 DEF CacheInv, GroupInv
    <3>3. load'[group[j]] = load[group[j]]
      BY <1>6, <3>1, <3>2 DEF k
    <3> QED
      BY <3>1, <3>2, <3>3
  <2>3. \A m \in LoadIds : load'[m].at = "delivered" /\ group'[load'[m].key] # 0
          => m < group'[load'[m].key]
    <3> SUFFICES ASSUME NEW m \in LoadIds, load'[m].at = "delivered", group'[load'[m].key] # 0
                 PROVE  m < group'[load'[m].key]
      OBVIOUS
    <3>1. load[m].key # k /\ load'[m].key = load[m].key
      BY <1>6, <1>7
    <3>2. m # l /\ load'[m] = load[m]
      BY <1>6, <3>1 DEF k
    <3> QED
      BY <1>7, <3>1, <3>2 DEF CacheInv, GroupInv
  <2> QED
    BY <2>1, <2>2, <2>3 DEF GroupInv
<1>9. EntryInv'
  <2>1. /\ \A j \in Keys : entry[j] # 0 => entry[j] \in LoadIds
        /\ Stored(l)' => Stored(l)
    BY <1>3, <1>4, <1>6 DEF TypeOK, NilOrLoad, LoadIds, Stored
  <2> QED
    BY <1>4, <1>6, <2>1 DEF CacheInv, EntryInv
<1> QED
  BY <1>6, <1>8, <1>9 DEF CacheInv

(***************************************************************************)
(* The theorems                                                            *)
(***************************************************************************)
IInv == TypeOK /\ Counted /\ CacheInv

\* An empty cache that nobody has called yet satisfies the invariant (NewCache).
LEMMA InitIInv == Init => IInv
<1> SUFFICES ASSUME Init
             PROVE  IInv
  OBVIOUS
<1> USE CacheAssumption
<1>1. 0 \in NilOrLoad /\ 0 \notin LoadIds
  BY DEF NilOrLoad, LoadIds
<1>2. TypeOK
  BY <1>1, InitialTypes DEF Init, TypeOK
<1>3. Counted
  <2>1. Missed = {}
    BY DEF Init, Missed, IdleCall
  <2>2. Cardinality(Missed) = 0
    BY <2>1, FS_EmptySet
  <2> QED
    BY <2>2 DEF Counted, Init
<1>4. \A l \in LoadIds : load[l].at = "unused" /\ l \in Nat /\ l > 0
  BY DEF Init, UnusedLoad, LoadIds
<1>5. LoadInv
  BY <1>4 DEF Init, LoadInv
<1>6. GroupInv /\ EntryInv /\ FloorInv
  BY <1>4 DEF Init, GroupInv, EntryInv, FloorInv, Stored
<1>7. CallInv
  <2>1. \A c \in Callers : call[c].at = "idle" /\ call[c].floor = 0 /\ call[c].key \in Keys
    BY InitialTypes DEF Init, IdleCall, Call
  <2> QED
    BY <2>1 DEF Init, CallInv, CallOK
<1> QED
  BY <1>2, <1>3, <1>5, <1>6, <1>7 DEF IInv, CacheInv

\* Every step of a caller, a load or the clock preserves the invariant.
LEMMA NextIInv == IInv /\ [Next]_vars => IInv'
<1> SUFFICES ASSUME TypeOK, Counted, CacheInv, [Next]_vars
             PROVE  TypeOK' /\ Counted' /\ CacheInv'
  BY DEF IInv
<1>1. ASSUME NEW c \in Callers, NEW k \in Keys, Begin(c, k)
      PROVE  TypeOK' /\ Counted' /\ CacheInv'
  BY <1>1, BeginType, BeginInv
<1>2. ASSUME NEW c \in Callers, DoChan(c)
      PROVE  TypeOK' /\ Counted' /\ CacheInv'
  BY <1>2, DoChanType, JoinInv, LeadInv
<1>3. ASSUME NEW c \in Callers, EndContext(c)
      PROVE  TypeOK' /\ Counted' /\ CacheInv'
  BY <1>3, EndContextType, EndContextInv
<1>4. ASSUME NEW c \in Callers, Interrupt(c)
      PROVE  TypeOK' /\ Counted' /\ CacheInv'
  BY <1>4, InterruptType, InterruptInv
<1>5. ASSUME NEW c \in Callers, Receive(c)
      PROVE  TypeOK' /\ Counted' /\ CacheInv'
  <2>1. CallInv
    BY DEF CacheInv
  <2> QED
    BY <1>5, <2>1, ReceiveType, ReceiveInv
<1>6. ASSUME NEW l \in LoadIds, LoadValue(l)
      PROVE  TypeOK' /\ Counted' /\ CacheInv'
  BY <1>6, LoadType, LoadValueInv
<1>7. ASSUME NEW l \in LoadIds, LoadError(l)
      PROVE  TypeOK' /\ Counted' /\ CacheInv'
  BY <1>7, LoadType, LoadErrorInv
<1>8. ASSUME NEW l \in LoadIds, Deliver(l)
      PROVE  TypeOK' /\ Counted' /\ CacheInv'
  BY <1>8, LoadType, DeliverInv
<1>9. ASSUME NEW k \in Keys, Expire(k)
      PROVE  TypeOK' /\ Counted' /\ CacheInv'
  BY <1>9, LoadType, ExpireInv
<1>10. CASE UNCHANGED vars
  <2>1. /\ call' = call /\ group' = group /\ load' = load /\ entry' = entry
        /\ gets' = gets /\ loads' = loads /\ floor' = floor
    BY <1>10 DEF vars
  <2>2. TypeOK' /\ Counted'
    BY <2>1 DEF TypeOK, Counted, Missed
  <2>3. CacheInv'
    BY <2>1 DEF CacheInv, LoadInv, GroupInv, EntryInv, FloorInv, Stored, CallInv, CallOK
  <2> QED
    BY <2>2, <2>3
<1> QED
  BY <1>1, <1>2, <1>3, <1>4, <1>5, <1>6, <1>7, <1>8, <1>9, <1>10 DEF Next

\* The invariant holds throughout every behaviour of the cache.
THEOREM AlwaysIInv == Spec => []IInv
<1>1. Init => IInv
  BY InitIInv
<1>2. IInv /\ [Next]_vars => IInv'
  BY NextIInv
<1> QED
  BY <1>1, <1>2, PTL DEF Spec

\* The variables keep their types; in particular there are never more loads than calls
\* of Get, so every load can be told apart.
THEOREM TypeCorrect == Spec => []TypeOK
<1>1. IInv => TypeOK
  BY DEF IInv
<1> QED
  BY <1>1, AlwaysIInv, PTL

\* However many callers miss a key at once, one execution of the Loader serves them.
THEOREM AlwaysOneLoadPerKey == Spec => []OneLoadPerKey
<1>1. IInv => OneLoadPerKey
  <2> SUFFICES ASSUME IInv, NEW l \in LoadIds, NEW m \in LoadIds,
                      load[l].at = "running", load[m].at = "running",
                      load[l].key = load[m].key
               PROVE  l = m
    BY DEF OneLoadPerKey
  <2> QED
    BY DEF IInv, CacheInv, GroupInv
<1> QED
  BY <1>1, AlwaysIInv, PTL

\* No Get returns a value older than one that was cached and returned before it began.
THEOREM AlwaysMonotonicReads == Spec => []MonotonicReads
<1>1. IInv => MonotonicReads
  <2> SUFFICES ASSUME IInv, NEW c \in Callers, call[c].at = "returned", call[c].out = "value"
               PROVE  call[c].load >= call[c].floor
    BY DEF MonotonicReads
  <2>1. call[c].load \in Nat /\ call[c].floor \in Nat
    BY DEF IInv, TypeOK, Call, NilOrLoad
  <2>2. call[c].floor <= call[c].load
    BY DEF IInv, CacheInv, CallInv, CallOK
  <2> QED
    BY <2>1, <2>2
<1> QED
  BY <1>1, AlwaysIInv, PTL

\* A Get ends with its load's own result, or because its own context ended, whichever
\* other callers give up.
THEOREM AlwaysUndisturbed == Spec => []Undisturbed
<1>1. IInv => Undisturbed
  <2> SUFFICES ASSUME IInv, NEW c \in Callers, call[c].at = "returned"
               PROVE  \/ call[c].out = "interrupted" /\ call[c].ctxEnded
                      \/ /\ call[c].out \in {"value", "error"}
                         /\ load[call[c].load].key = call[c].key
                         /\ load[call[c].load].out = call[c].out
    BY DEF Undisturbed
  <2>1. CallOK(c) /\ (call[c].load # 0 => call[c].load \in LoadIds)
    BY DEF IInv, CacheInv, CallInv, TypeOK, Call, NilOrLoad, LoadIds
  <2>2. \A l \in LoadIds :
          load[l].at \in {"finished", "delivered"} => load[l].out \in {"value", "error"}
    BY DEF IInv, CacheInv, LoadInv
  <2> QED
    BY <2>1, <2>2 DEF CallOK
<1> QED
  BY <1>1, AlwaysIInv, PTL
=============================================================================
