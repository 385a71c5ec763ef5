------------------------ MODULE DistinctCacheProofs ------------------------
(***************************************************************************)
(* Proofs about DistinctCache, for any number of overlapping requests, any *)
(* rows and values, any TTL, and any bound on the duration of a request.   *)
(***************************************************************************)
EXTENDS DistinctCache, TLAPS

\* What num_seconds() drops is less than a second: an entry that is not
\* refreshed is at most MaxAge old.
LEMMA SecondsDropped ==
    ASSUME NEW a \in Nat, ~(a \div TicksPerSec > TTL)
    PROVE  a <= MaxAge
BY ConstantsAssumption DEF MaxAge

\* The ages and bounds are natural numbers.
LEMMA AgeBounds ==
    /\ MaxAge \in Nat
    /\ Latency \in Nat
    /\ Bound = MaxAge + 2 * Latency
    /\ NoEntry = MaxAge + Latency + 1
<1>1. TTL * TicksPerSec \in Nat
  BY ConstantsAssumption
<1>2. (TTL + 1) * TicksPerSec = TTL * TicksPerSec + TicksPerSec
  BY ConstantsAssumption
<1>. QED
  BY <1>1, <1>2, ConstantsAssumption DEF MaxAge, Bound, NoEntry

\* AtMost(n, b) is n cut off at b.
LEMMA AtMostBounds ==
    ASSUME NEW n \in Nat, NEW b \in Nat
    PROVE  /\ AtMost(n, b) \in 0 .. b
           /\ AtMost(n, b) <= n
           /\ AtMost(n, b) < b => AtMost(n, b) = n
BY DEF AtMost

\* distinct_values returns values that have a place in the sort order.
LEMMA ListedValues ==
    ASSUME NEW rows \in SUBSET DOMAIN Row, NEW f \in Field
    PROVE  Listed(rows, f) \in SUBSET Value
<1>. DEFINE all(x, g) == Distinct([i \in x |-> Row[i]], g)
            shown(x, g) ==
                {v \in all(x, g) : Cardinality({w \in all(x, g) : Rank[w] < Rank[v]}) < FieldLimit[g]}
<1>1. Listing = [x \in SUBSET DOMAIN Row |-> [g \in Field |-> shown(x, g)]]
  BY DEF Listing
<1>2. all(rows, f) \subseteq Value
  BY RankAssumption
<1>3. shown(rows, f) \subseteq Value
  BY <1>2
<1>. HIDE DEF shown
<1>4. Listing[rows][f] = shown(rows, f)
  BY <1>1
<1>. QED
  BY <1>3, <1>4 DEF Listed
\* Before the first refresh there is no entry, and no request.
LEMMA CacheInit == Init => CacheInv
<1> SUFFICES ASSUME Init PROVE CacheInv
  OBVIOUS
<1> USE ConstantsAssumption, AgeBounds DEF Init
<1>1. TypeOK
  BY DEF TypeOK, Steps, NoLists
<1>2. EntryLag /\ HitIsYoung
  BY DEF EntryLag, HitIsYoung
<1>3. ReadLag
  BY DEF ReadLag, HasRead
<1>. QED
  BY <1>1, <1>2, <1>3 DEF CacheInv

\* A change of the store makes every value it concerns unsettled.
LEMMA CacheChange == CacheInv /\ Change => CacheInv'
<1> SUFFICES ASSUME CacheInv, Change PROVE CacheInv'
  OBVIOUS
<1> USE ConstantsAssumption, AgeBounds DEF CacheInv
<1>1. ASSUME NEW f \in Field, NEW v \in Value
      PROVE  /\ settled'[f][v] \in 0 .. Bound + 1
             /\ settled'[f][v] > 0 =>
                    /\ settled'[f][v] = settled[f][v]
                    /\ v \in Listed(hot, f) <=> v \in Listed(hot', f)
  BY DEF Change, TypeOK
<1>2. TypeOK'
  BY <1>1 DEF Change, TypeOK
<1>3. EntryLag'
  BY <1>1 DEF Change, TypeOK, EntryLag, RightAfter
<1>4. ReadLag'
  BY <1>1 DEF Change, TypeOK, ReadLag, HasRead
<1>5. HitIsYoung'
  BY DEF Change, HitIsYoung
<1>. QED
  BY <1>2, <1>3, <1>4, <1>5

\* The clock ages the entry, the requests and the store's news together.
LEMMA CacheTick == CacheInv /\ Tick => CacheInv'
<1> SUFFICES ASSUME CacheInv, Tick PROVE CacheInv'
  OBVIOUS
<1> USE ConstantsAssumption, AgeBounds DEF CacheInv
<1>1. /\ age' \in 0 .. NoEntry
      /\ age' <= age + 1
      /\ age' # NoEntry => age' = age + 1
  BY DEF Tick, TypeOK, AtMost
<1>2. /\ callAge' \in [Req -> 0 .. Latency]
      /\ \A r \in Req : pc[r] # "idle" => callAge'[r] = callAge[r] + 1
  BY DEF Tick, TypeOK
<1>3. ASSUME NEW f \in Field, NEW v \in Value
      PROVE  settled'[f][v] \in 0 .. Bound + 1 /\ settled'[f][v] <= settled[f][v] + 1
  BY AtMostBounds DEF Tick, TypeOK
<1>4. TypeOK'
  BY <1>1, <1>2, <1>3 DEF Tick, TypeOK
<1>5. EntryLag'
  BY <1>1, <1>3 DEF Tick, TypeOK, EntryLag, RightAfter
<1>6. ReadLag'
  BY <1>2, <1>3 DEF Tick, TypeOK, ReadLag, HasRead
<1>7. HitIsYoung'
  BY <1>1, <1>2 DEF Tick, TypeOK, HitIsYoung
<1>. QED
  BY <1>4, <1>5, <1>6, <1>7

\* A request that begins answers from the entry only if it is young.
LEMMA CacheRender ==
    ASSUME NEW r \in Req
    PROVE  CacheInv /\ Render(r) => CacheInv'
<1> SUFFICES ASSUME CacheInv, Render(r) PROVE CacheInv'
  OBVIOUS
<1> USE ConstantsAssumption, AgeBounds DEF CacheInv, Render
<1>1. TypeOK'
  BY DEF TypeOK, Steps
<1>2. EntryLag'
  BY DEF EntryLag, RightAfter
<1>3. ReadLag'
  BY DEF TypeOK, ReadLag, HasRead, Field
<1>4. ~NeedsRefresh => age <= MaxAge
  <2>1. age \in Nat
    BY DEF TypeOK
  <2>. QED
    BY <2>1, SecondsDropped DEF NeedsRefresh
<1>5. HitIsYoung'
  BY <1>4 DEF TypeOK, HitIsYoung
<1>. QED
  BY <1>1, <1>2, <1>3, <1>5

\* A read takes the store's list as it is; one that fails takes an empty list,
\* which is news about every value the store has.
LEMMA CacheRead ==
    ASSUME NEW r \in Req
    PROVE  CacheInv /\ (Read(r) \/ ReadFails(r)) => CacheInv'
<1> SUFFICES ASSUME CacheInv, Read(r) \/ ReadFails(r) PROVE CacheInv'
  OBVIOUS
<1> USE ConstantsAssumption, AgeBounds DEF CacheInv
<1> DEFINE f == pc[r]
<1>1. /\ f \in Field /\ pc' = [pc EXCEPT ![r] = After[f]]
      /\ UNCHANGED <<hot, cache, age, callAge>>
  BY DEF Read, ReadFails
<1>0. Listed(hot, f) \in SUBSET Value
  BY <1>1, ListedValues DEF TypeOK
<1>2. /\ got' \in [Req -> [Field -> SUBSET Value]]
      /\ \A q \in Req, g \in Field : q # r \/ g # f => got'[q][g] = got[q][g]
      /\ settled' \in [Field -> [Value -> 0 .. Bound + 1]]
      /\ \A g \in Field, v \in Value : settled'[g][v] = settled[g][v] \/ settled'[g][v] = 0
      /\ \A v \in Value : settled'[f][v] > 0 => (v \in got'[r][f] <=> v \in Listed(hot, f))
  <2>1. CASE Read(r)
    <3>1. /\ got' = [got EXCEPT ![r] = [got[r] EXCEPT ![f] = Listed(hot, f)]]
          /\ settled' = settled
      BY <2>1 DEF Read
    <3>. HIDE DEF f
    <3>2. /\ got' \in [Req -> [Field -> SUBSET Value]]
          /\ \A q \in Req, g \in Field : q # r \/ g # f => got'[q][g] = got[q][g]
          /\ got'[r][f] = Listed(hot, f)
      BY <1>0, <1>1, <3>1 DEF TypeOK
    <3>. QED
      BY <3>1, <3>2 DEF TypeOK
  <2>2. CASE ReadFails(r)
    <3> DEFINE news == [v \in Value |-> IF v \in Listed(hot, f) THEN 0 ELSE settled[f][v]]
    <3>1. /\ got' = [got EXCEPT ![r] = [got[r] EXCEPT ![f] = {}]]
          /\ settled' = [settled EXCEPT ![f] = news]
      BY <2>2 DEF ReadFails
    <3>. HIDE DEF f
    <3>2. /\ got' \in [Req -> [Field -> SUBSET Value]]
          /\ \A q \in Req, g \in Field : q # r \/ g # f => got'[q][g] = got[q][g]
          /\ got'[r][f] = {}
      BY <1>1, <3>1 DEF TypeOK
    <3>3. /\ news \in [Value -> 0 .. Bound + 1]
          /\ \A v \in Value : news[v] = settled[f][v] \/ news[v] = 0
          /\ \A v \in Value : news[v] > 0 => v \notin Listed(hot, f)
      BY <1>1 DEF TypeOK
    <3>. HIDE DEF news
    <3>4. /\ settled' \in [Field -> [Value -> 0 .. Bound + 1]]
          /\ settled'[f] = news
          /\ \A g \in Field : g # f => settled'[g] = settled[g]
      BY <1>1, <3>1, <3>3 DEF TypeOK
    <3>. QED
      BY <3>2, <3>3, <3>4
  <2>. QED
    BY <2>1, <2>2
<1>3. callAge' = callAge /\ \A q \in Req : callAge[q] \in Nat
  BY <1>1 DEF TypeOK
<1>4. TypeOK'
  <2>1. After[f] \in Steps
    BY <1>1 DEF After, Steps, Field
  <2>2. pc' \in [Req -> Steps]
    BY <1>1, <2>1 DEF TypeOK
  <2>. QED
    BY <1>1, <1>2, <2>2 DEF TypeOK
<1>5. EntryLag'
  <2> SUFFICES ASSUME age # NoEntry, NEW g \in Field, NEW v \in Value,
                      settled'[g][v] > age + Latency
               PROVE  v \in cache[g] <=> v \in Listed(hot, g)
    BY <1>1 DEF EntryLag, RightAfter
  <2>1. age \in Nat
    BY DEF TypeOK
  <2>2. settled'[g][v] = settled[g][v]
    BY <1>2, <2>1
  <2>. QED
    BY <2>2 DEF EntryLag, RightAfter
<1>6. ASSUME NEW q \in Req, NEW g \in Field, HasRead(q, g)', q # r \/ g # f
      PROVE  HasRead(q, g)
  BY <1>1, <1>6 DEF HasRead, After, Field, TypeOK
<1>7. ReadLag'
  <2> SUFFICES ASSUME NEW q \in Req, NEW g \in Field, NEW v \in Value,
                      HasRead(q, g)', settled'[g][v] > callAge'[q]
               PROVE  v \in got'[q][g] <=> v \in Listed(hot', g)
    BY DEF ReadLag
  <2>1. CASE q = r /\ g = f
    <3>1. settled'[f][v] > 0
      BY <1>2, <1>3, <2>1
    <3>. QED
      BY <1>1, <1>2, <2>1, <3>1
  <2>2. CASE q # r \/ g # f
    <3>1. settled'[g][v] = settled[g][v] /\ callAge'[q] = callAge[q]
      BY <1>2, <1>3
    <3>. QED
      BY <1>1, <1>2, <1>6, <2>2, <3>1 DEF ReadLag
  <2>. QED
    BY <2>1, <2>2
<1>8. HitIsYoung'
  BY <1>1 DEF TypeOK, HitIsYoung, After, Field
<1>. QED
  BY <1>4, <1>5, <1>7, <1>8

\* What is stored lags by at most its request; the entry is new.
LEMMA CacheDone ==
    ASSUME NEW r \in Req
    PROVE  CacheInv /\ (Store(r) \/ Hit(r)) => CacheInv'
<1> SUFFICES ASSUME CacheInv, Store(r) \/ Hit(r) PROVE CacheInv'
  OBVIOUS
<1> USE ConstantsAssumption, AgeBounds DEF CacheInv
<1>1. /\ pc' = [pc EXCEPT ![r] = "idle"]
      /\ got' = [got EXCEPT ![r] = NoLists]
      /\ callAge' = [callAge EXCEPT ![r] = 0]
      /\ UNCHANGED <<hot, settled>>
  BY DEF Store, Hit, Done
<1>2. \/ cache' = cache /\ age' = age
      \/ pc[r] = "store" /\ cache' = got[r] /\ age' = 0
  BY DEF Store, Hit
<1>3. TypeOK'
  BY <1>1, <1>2 DEF TypeOK, Steps, NoLists
<1>4. EntryLag'
  <2>1. CASE cache' = cache /\ age' = age
    BY <1>1, <2>1 DEF EntryLag, RightAfter
  <2>2. CASE pc[r] = "store" /\ cache' = got[r] /\ age' = 0
    <3>1. callAge[r] <= Latency
      BY DEF TypeOK
    <3>. QED
      BY <1>1, <2>2, <3>1 DEF TypeOK, EntryLag, RightAfter, ReadLag, HasRead
  <2>. QED
    BY <1>2, <2>1, <2>2
<1>5. ReadLag'
  BY <1>1 DEF TypeOK, ReadLag, HasRead
<1>6. HitIsYoung'
  BY <1>1, <1>2 DEF TypeOK, HitIsYoung
<1>. QED
  BY <1>3, <1>4, <1>5, <1>6

\* The entry and the lists of every request under way lag by their ages, in
\* every reachable state of the cache.
THEOREM CacheInvariance == Spec => []CacheInv
<1>1. CacheInv /\ UNCHANGED vars => CacheInv'
  BY DEF CacheInv, vars, TypeOK, EntryLag, RightAfter, ReadLag, HasRead, HitIsYoung
<1>2. CacheInv /\ [Next]_vars => CacheInv'
  BY <1>1, CacheChange, CacheTick, CacheRender, CacheRead, CacheDone DEF Next, Step
<1>. QED
  BY CacheInit, <1>2, PTL DEF Spec

\* No page suggests a value that has been gone for longer than Bound, or lacks
\* one that has been there as long.
THEOREM SuggestionsLagBounded == Spec => SuggestionsLag
<1> DEFINE Right == \A r \in Req : /\ Store(r) => RightAfter(got[r], Bound)
                                   /\ Hit(r) => RightAfter(cache, Bound)
<1>1. ASSUME CacheInv PROVE Right
  <2>. USE ConstantsAssumption, AgeBounds, <1>1 DEF CacheInv
  <2>1. ASSUME NEW r \in Req, Store(r) PROVE RightAfter(got[r], Bound)
    <3>1. callAge[r] \in Nat /\ callAge[r] <= Bound /\ pc[r] = "store"
      BY <2>1 DEF TypeOK, Store
    <3>. QED
      BY <3>1 DEF RightAfter, ReadLag, HasRead, TypeOK
  <2>2. ASSUME NEW r \in Req, Hit(r) PROVE RightAfter(cache, Bound)
    <3>1. age <= MaxAge + Latency /\ age \in Nat
      BY <2>2 DEF Hit, HitIsYoung, TypeOK
    <3>. QED
      BY <3>1 DEF RightAfter, EntryLag, TypeOK
  <2>. QED
    BY <2>1, <2>2
<1>2. CacheInv /\ [Next]_vars => [Right]_vars
  BY <1>1
<1>. QED
  BY CacheInvariance, <1>2, PTL DEF Spec, SuggestionsLag
=============================================================================
