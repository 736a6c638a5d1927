------------------------- MODULE CoalescingCache -------------------------
(***************************************************************************)
(* The load-through cache of pkg/cache/coalescing.  Get looks a key up;    *)
(* on a miss it joins the load in flight for the key or becomes the leader *)
(* of a new one, and waits for the result or for the end of its own        *)
(* context.  A load runs detached from all callers, under a timeout of its *)
(* own, and caches its value before its waiters are told.                  *)
(*                                                                         *)
(* Loads are numbered in the order they start, and a load's number stands  *)
(* for the value it obtains: a larger number is a fresher value.           *)
(***************************************************************************)
EXTENDS Naturals, FiniteSets

CONSTANTS
    Callers,       \* goroutines that call Get
    Keys,
    CacheNothing,  \* CacheOptions.CacheNothing: there is no internal cache
    DefaultTTL,    \* what a TTL of zero stands for
    LoaderTTLs,    \* the TTLs the Loader may return with a value
    MaxGets        \* bound: calls of Get, hence loads

Durations == {"finite", "forever"}
TTLs == Durations \cup {"nil", "zero"}

ASSUME CacheAssumption ==
    /\ IsFiniteSet(Callers)
    /\ Keys # {}
    /\ CacheNothing \in BOOLEAN
    /\ DefaultTTL \in Durations
    /\ LoaderTTLs \subseteq TTLs
    /\ MaxGets \in Nat

VARIABLES
    call,     \* the Get each caller is in, or the one it returned from
    group,    \* singleflight: the load in flight for each key, or 0
    load,     \* every load so far
    entry,    \* the load whose value is cached under each key, or 0
    gets,     \* calls of Get so far
    loads,    \* loads so far
    floor     \* history: the newest cached value any Get has returned, per key

vars == <<call, group, load, entry, gets, loads, floor>>

LoadIds == 1 .. MaxGets
NilOrLoad == 0 .. MaxGets

\* How a Get or a load ended.  "interrupted": the caller's own context ended.
Outcomes == {"none", "value", "error", "interrupted"}

Call == [
    at: {"idle", "missed", "waiting", "returned"},
    key: Keys,
    load: NilOrLoad,       \* the load it waits for, or whose value it returned
    out: Outcomes,
    ctxEnded: BOOLEAN,
    floor: NilOrLoad]      \* history: floor[key] when the Get began

Load == [
    key: Keys,
    at: {"unused", "running", "finished", "delivered"},
    out: Outcomes,
    ttl: Durations \cup {"nil"}]

TypeOK ==
    /\ call \in [Callers -> Call]
    /\ group \in [Keys -> NilOrLoad]
    /\ load \in [LoadIds -> Load]
    /\ entry \in [Keys -> NilOrLoad]
    /\ gets \in NilOrLoad
    /\ loads \in NilOrLoad
    /\ floor \in [Keys -> NilOrLoad]

SomeKey == CHOOSE k \in Keys : TRUE
IdleCall == [at |-> "idle", key |-> SomeKey, load |-> 0, out |-> "none",
             ctxEnded |-> FALSE, floor |-> 0]
UnusedLoad == [key |-> SomeKey, at |-> "unused", out |-> "none", ttl |-> "nil"]

Init ==
    /\ call = [c \in Callers |-> IdleCall]
    /\ group = [k \in Keys |-> 0]
    /\ load = [l \in LoadIds |-> UnusedLoad]
    /\ entry = [k \in Keys |-> 0]
    /\ gets = 0
    /\ loads = 0
    /\ floor = [k \in Keys |-> 0]

Raised(k, l) == [floor EXCEPT ![k] = IF l > @ THEN l ELSE @]

(***************************************************************************)
(* Callers                                                                 *)
(***************************************************************************)

\* The lookup that opens Get: a hit returns the cached value.
Begin(c, k) ==
    LET begun == [IdleCall EXCEPT !.key = k, !.floor = floor[k]]
    IN  /\ call[c].at \in {"idle", "returned"}
        /\ gets < MaxGets
        /\ gets' = gets + 1
        /\ \/ /\ entry[k] # 0
              /\ call' = [call EXCEPT ![c] =
                     [begun EXCEPT !.at = "returned", !.load = entry[k], !.out = "value"]]
              /\ floor' = Raised(k, entry[k])
           \/ /\ entry[k] = 0
              /\ call' = [call EXCEPT ![c] = [begun EXCEPT !.at = "missed"]]
              /\ UNCHANGED floor
        /\ UNCHANGED <<group, load, entry, loads>>

\* Mutant: the leader waits for the load after its own.
StartLoadOffByOne(c) ==
    LET k == call[c].key
        l == loads + 1
    IN  /\ loads' = l
        /\ load' = [load EXCEPT ![l] = [UnusedLoad EXCEPT !.key = k, !.at = "running"]]
        /\ group' = [group EXCEPT ![k] = l]
        /\ call' = [call EXCEPT ![c].at = "waiting", ![c].load = l + 1]

\* This caller becomes the leader of a new load.
StartLoad(c) ==
    LET k == call[c].key
        l == loads + 1
    IN  /\ loads' = l
        /\ load' = [load EXCEPT ![l] = [UnusedLoad EXCEPT !.key = k, !.at = "running"]]
        /\ group' = [group EXCEPT ![k] = l]
        /\ call' = [call EXCEPT ![c].at = "waiting", ![c].load = l]

\* Mutant: misses are not coalesced.
DoChanAlways(c) ==
    /\ call[c].at = "missed"
    /\ StartLoad(c)
    /\ UNCHANGED <<entry, gets, floor>>

\* group.DoChan: join the load in flight, or lead a new one.  The cache is not
\* looked up again: what was stored since the miss is not noticed.
DoChan(c) ==
    /\ call[c].at = "missed"
    /\ \/ /\ group[call[c].key] # 0
          /\ call' = [call EXCEPT ![c].at = "waiting", ![c].load = group[call[c].key]]
          /\ UNCHANGED <<group, load, loads>>
       \/ /\ group[call[c].key] = 0
          /\ StartLoad(c)
    /\ UNCHANGED <<entry, gets, floor>>

\* Mutant: the load runs under a caller's context and fails with it.
EndContextOfLoad(c) ==
    /\ call[c].at \in {"missed", "waiting"}
    /\ ~call[c].ctxEnded
    /\ call' = [call EXCEPT ![c].ctxEnded = TRUE]
    /\ load' = [l \in LoadIds |->
           IF l = call[c].load /\ load[l].at = "running"
           THEN [load[l] EXCEPT !.at = "finished", !.out = "interrupted"]
           ELSE load[l]]
    /\ UNCHANGED <<group, entry, gets, loads, floor>>

\* The caller's context is canceled or runs out.  Nothing else notices.
EndContext(c) ==
    /\ call[c].at \in {"missed", "waiting"}
    /\ ~call[c].ctxEnded
    /\ call' = [call EXCEPT ![c].ctxEnded = TRUE]
    /\ UNCHANGED <<group, load, entry, gets, loads, floor>>

\* The first arm of select.  When the result has come too, either arm may win.
Interrupt(c) ==
    /\ call[c].at = "waiting"
    /\ call[c].ctxEnded
    /\ call' = [call EXCEPT ![c].at = "returned", ![c].load = 0, ![c].out = "interrupted"]
    /\ UNCHANGED <<group, load, entry, gets, loads, floor>>

\* The second arm of select: the load's value or its error.
Receive(c) ==
    LET l == call[c].load
    IN  /\ call[c].at = "waiting"
        /\ load[l].at = "delivered"
        /\ call' = [call EXCEPT ![c].at = "returned", ![c].out = load[l].out]
        /\ floor' = IF load[l].out = "value" /\ load[l].ttl # "nil" /\ ~CacheNothing
                    THEN Raised(load[l].key, l) ELSE floor
        /\ UNCHANGED <<group, load, entry, gets, loads>>

(***************************************************************************)
(* Loads                                                                   *)
(***************************************************************************)

\* The Loader obtains a value; loadAndCache stores it unless the TTL is nil.
\* A TTL of zero defers to DefaultTTL.
LoadValue(l) ==
    /\ load[l].at = "running"
    /\ \E ttl \in LoaderTTLs :
           load' = [load EXCEPT ![l].at = "finished", ![l].out = "value",
                                ![l].ttl = IF ttl = "zero" THEN DefaultTTL ELSE ttl]
    /\ entry' = IF CacheNothing \/ load'[l].ttl = "nil" THEN entry
                ELSE [entry EXCEPT ![load[l].key] = l]
    /\ UNCHANGED <<call, group, gets, loads, floor>>

\* The Loader fails, panics or exceeds LoadTimeout: an error, never cached.
LoadError(l) ==
    /\ load[l].at = "running"
    /\ load' = [load EXCEPT ![l].at = "finished", ![l].out = "error"]
    /\ UNCHANGED <<call, group, entry, gets, loads, floor>>

\* Mutant: a load that failed never tells its waiters.
DeliverValue(l) ==
    /\ load[l].at = "finished"
    /\ load[l].out = "value"
    /\ load' = [load EXCEPT ![l].at = "delivered"]
    /\ group' = [group EXCEPT ![load[l].key] = 0]
    /\ UNCHANGED <<call, entry, gets, loads, floor>>

\* singleflight drops the call and fills its waiters' channels under one lock.
Deliver(l) ==
    /\ load[l].at = "finished"
    /\ load' = [load EXCEPT ![l].at = "delivered"]
    /\ group' = [group EXCEPT ![load[l].key] = 0]
    /\ UNCHANGED <<call, entry, gets, loads, floor>>

\* go-cache: an expired entry is no longer found.
Expire(k) ==
    /\ entry[k] # 0
    /\ load[entry[k]].ttl = "finite"
    /\ entry' = [entry EXCEPT ![k] = 0]
    /\ UNCHANGED <<call, group, load, gets, loads, floor>>

Next ==
    \/ \E c \in Callers, k \in Keys : Begin(c, k)
    \/ \E c \in Callers : DoChan(c) \/ EndContext(c) \/ Interrupt(c) \/ Receive(c)
    \/ \E l \in LoadIds : LoadValue(l) \/ LoadError(l) \/ Deliver(l)
    \/ \E k \in Keys : Expire(k)

(***************************************************************************)
(* A goroutine that can run does.  A Loader honours its context, which     *)
(* LoadTimeout ends, so every load comes to an end.  No caller's context   *)
(* need ever end.                                                          *)
(***************************************************************************)
Fairness ==
    /\ \A c \in Callers : WF_vars(DoChan(c)) /\ WF_vars(Receive(c))
    /\ \A l \in LoadIds : WF_vars(LoadValue(l) \/ LoadError(l)) /\ WF_vars(Deliver(l))

Spec == Init /\ [][Next]_vars /\ Fairness

(***************************************************************************)
(* Properties                                                              *)
(***************************************************************************)

\* Concurrent misses of one key share one execution of the Loader (Cache.Get:
\* "potentially expensive work is done only once").
OneLoadPerKey ==
    \A l, m \in LoadIds :
        /\ load[l].at = "running"
        /\ load[m].at = "running"
        /\ load[l].key = load[m].key
        => l = m

\* Once some Get returned a value that was cached, no Get of that key begun later
\* returns an older one, whatever lookups, loads and expiries came in between.
MonotonicReads ==
    \A c \in Callers :
        call[c].at = "returned" /\ call[c].out = "value" => call[c].load >= call[c].floor

\* A Get ends with its load's own result or because its own context ended: no
\* caller that gives up, the load's leader included, disturbs the others.
Undisturbed ==
    \A c \in Callers : call[c].at = "returned" =>
        \/ call[c].out = "interrupted" /\ call[c].ctxEnded
        \/ /\ call[c].out \in {"value", "error"}
           /\ load[call[c].load].key = call[c].key
           /\ load[call[c].load].out = call[c].out

\* Every Get returns, even when no context ever ends: nobody waits on a load that
\* was dropped, timed out, failed or finished before it was joined.
EveryGetReturns ==
    \A c \in Callers : call[c].at \in {"missed", "waiting"} ~> call[c].at = "returned"
=============================================================================
