--------------------------- MODULE DistinctCache ---------------------------
(***************************************************************************)
(* The dashboard's cache of filter values (cached_distinct_values and      *)
(* DistinctCache): one entry with three lists, shared by all requests      *)
(* behind a mutex that is not held while the hot store is read.            *)
(*                                                                         *)
(* A request looks at the entry's age under the lock, releases it, and     *)
(* either reads the three lists one after the other and stores them under  *)
(* the lock, or takes the lock again and answers from the entry as it is   *)
(* by then.  A read that fails yields an empty list, which is stored.      *)
(*                                                                         *)
(* Times are ages in clock ticks that stop growing when nothing can tell   *)
(* them apart any more.                                                    *)
(***************************************************************************)
EXTENDS Events

CONSTANTS
    Req,           \* concurrent dashboard requests
    Row,           \* events that may be in the hot store, by row id
    Rank,          \* the position of each field value in SQL's sort order
    FieldLimit,    \* distinct_values' limit of each field
    TTL,           \* DISTINCT_CACHE_TTL_SECS
    TicksPerSec,   \* clock ticks in a second
    Latency        \* the longest a request takes here; the code sets no timeout

Field == {"service", "env", "event_prefix"}
Value == DOMAIN Rank

ASSUME ConstantsAssumption ==
    /\ TTL \in Nat
    /\ TicksPerSec \in Nat \ {0}
    /\ Latency \in Nat

\* the sort order has a place for every value the store can list
ASSUME RankAssumption ==
    \A rows \in SUBSET DOMAIN Row, f \in Field :
        Distinct([i \in rows |-> Row[i]], f) \subseteq Value

\* the oldest entry a request answers from, and the oldest news an answer may lack
MaxAge == (TTL + 1) * TicksPerSec - 1
Bound == MaxAge + 2 * Latency
NoEntry == MaxAge + Latency + 1

VARIABLES
    hot,       \* ids of the rows in the hot store
    cache,     \* DistinctCache's three lists
    age,       \* ticks since last_refresh, NoEntry if more or none
    pc,        \* where each request is: a field's name while it is being read
    got,       \* the lists each request has read
    callAge,   \* ticks since each request began
    settled    \* history: ticks since the store's answer about a value last changed

vars == <<hot, cache, age, pc, got, callAge, settled>>

AtMost(n, bound) == IF n < bound THEN n ELSE bound
NoLists == [f \in Field |-> {}]

\* distinct_values of every set of rows: the first values in sort order, up
\* to the limit
Listing ==
    [rows \in SUBSET DOMAIN Row |-> [f \in Field |->
        LET all == Distinct([i \in rows |-> Row[i]], f)
        IN {v \in all : Cardinality({w \in all : Rank[w] < Rank[v]}) < FieldLimit[f]}]]
Listed(rows, f) == Listing[rows][f]

Steps == {"idle", "service", "env", "event_prefix", "store", "hit"}

TypeOK ==
    /\ hot \subseteq DOMAIN Row
    /\ cache \in [Field -> SUBSET Value]
    /\ age \in 0 .. NoEntry
    /\ pc \in [Req -> Steps]
    /\ got \in [Req -> [Field -> SUBSET Value]]
    /\ callAge \in [Req -> 0 .. Latency]
    /\ settled \in [Field -> [Value -> 0 .. Bound + 1]]

Init ==
    /\ hot = {}
    /\ cache = NoLists
    /\ age = NoEntry
    /\ pc = [r \in Req |-> "idle"]
    /\ got = [r \in Req |-> NoLists]
    /\ callAge = [r \in Req |-> 0]
    /\ settled = [f \in Field |-> [v \in Value |-> Bound + 1]]
-----------------------------------------------------------------------------
\* Ingest adds rows and a drain deletes some
Change ==
    /\ hot' \in SUBSET DOMAIN Row
    /\ settled' = [f \in Field |-> [v \in Value |->
                     IF v \in Listed(hot, f) <=> v \in Listed(hot', f)
                     THEN settled[f][v] ELSE 0]]
    /\ UNCHANGED <<cache, age, pc, got, callAge>>

Tick ==
    /\ \A r \in Req : pc[r] # "idle" => callAge[r] < Latency
    /\ age' = AtMost(age + 1, NoEntry)
    /\ callAge' = [r \in Req |-> IF pc[r] = "idle" THEN 0 ELSE callAge[r] + 1]
    /\ settled' = [f \in Field |-> [v \in Value |-> AtMost(settled[f][v] + 1, Bound + 1)]]
    /\ UNCHANGED <<hot, cache, pc, got>>

\* (Utc::now() - last_refresh).num_seconds() > TTL: the fraction is dropped
NeedsRefresh == age = NoEntry \/ age \div TicksPerSec > TTL

\* cached_distinct_values up to the release of the first lock
Render(r) ==
    /\ pc[r] = "idle"
    /\ pc' = [pc EXCEPT ![r] = IF NeedsRefresh THEN "service" ELSE "hit"]
    /\ UNCHANGED <<hot, cache, age, got, callAge, settled>>

After == [service |-> "env", env |-> "event_prefix", event_prefix |-> "store"]

\* hot.distinct_values of the field the request is at
Read(r) ==
    /\ pc[r] \in Field
    /\ got' = [got EXCEPT ![r][pc[r]] = Listed(hot, pc[r])]
    /\ pc' = [pc EXCEPT ![r] = After[pc[r]]]
    /\ UNCHANGED <<hot, cache, age, callAge, settled>>

\* ... failing: unwrap_or_default
ReadFails(r) ==
    /\ pc[r] \in Field
    /\ got' = [got EXCEPT ![r][pc[r]] = {}]
    /\ pc' = [pc EXCEPT ![r] = After[pc[r]]]
    /\ settled' = [settled EXCEPT ![pc[r]] =
                     [v \in Value |-> IF v \in Listed(hot, pc[r]) THEN 0 ELSE @[v]]]
    /\ UNCHANGED <<hot, cache, age, callAge>>

Done(r) ==
    /\ pc' = [pc EXCEPT ![r] = "idle"]
    /\ got' = [got EXCEPT ![r] = NoLists]
    /\ callAge' = [callAge EXCEPT ![r] = 0]
    /\ UNCHANGED <<hot, settled>>

Store_KeepsServices(r) ==
    /\ pc[r] = "store"
    /\ cache' = IF age = NoEntry THEN got[r] ELSE [got[r] EXCEPT !["service"] = cache["service"]]
    /\ age' = 0
    /\ Done(r)

\* the lists are stored, stamped with the time of storing, and returned
Store(r) ==
    /\ pc[r] = "store"
    /\ cache' = got[r]
    /\ age' = 0
    /\ Done(r)

\* the entry is copied under a second lock and returned
Hit(r) ==
    /\ pc[r] = "hit"
    /\ Done(r)
    /\ UNCHANGED <<cache, age>>

Step(r) == Read(r) \/ ReadFails(r) \/ Store(r) \/ Hit(r)

Next == Change \/ Tick \/ \E r \in Req : Render(r) \/ Step(r)

Spec == Init /\ [][Next]_vars

\* the clock runs, tokio and the store go on, the dashboard is visited again
FairSpec ==
    /\ Spec
    /\ WF_vars(Tick)
    /\ \A r \in Req : WF_vars(Render(r)) /\ WF_vars(Step(r))
-----------------------------------------------------------------------------
\* A set of lists is right about every value whose membership has not changed
\* for more than d ticks.
RightAfter(lists, d) ==
    \A f \in Field, v \in Value :
        settled[f][v] > d => (v \in lists[f] <=> v \in Listed(hot, f))

HasRead(r, f) ==
    \/ pc[r] = "store"
    \/ f = "service" /\ pc[r] \in {"env", "event_prefix"}
    \/ f = "env" /\ pc[r] = "event_prefix"

\* The entry lags by its age and one request: the request that stored it may
\* have read before another one that stored earlier, and the stamp is the
\* time of storing.
EntryLag == age # NoEntry => RightAfter(cache, age + Latency)

\* What a request has read lags by the request's age.
ReadLag ==
    \A r \in Req, f \in Field, v \in Value :
        HasRead(r, f) /\ settled[f][v] > callAge[r]
            => (v \in got[r][f] <=> v \in Listed(hot, f))

\* A request that saw a young entry answers from one that is hardly older.
HitIsYoung == \A r \in Req : pc[r] = "hit" => age <= MaxAge + callAge[r]

\* The inductive invariant of the cache.
CacheInv ==
    /\ TypeOK
    /\ EntryLag
    /\ ReadLag
    /\ HitIsYoung

\* The comment on DISTINCT_CACHE_TTL_SECS, "new services/envs don't appear in
\* autocomplete for <= 60s", made exact: whatever requests overlap, a page
\* lists a value that the store has listed for Bound ticks (a TTL, the
\* dropped fraction of a second, and two requests) and no value that has been
\* gone as long.
SuggestionsLag ==
    [][\A r \in Req : /\ Store(r) => RightAfter(got[r], Bound)
                      /\ Hit(r) => RightAfter(cache, Bound)]_vars

\* When the store stays as it is and its reads succeed, every overlapping
\* stale refresh is overwritten in the end: the entry comes to hold the
\* store's values and keeps them.
Quiet == \A f \in Field, v \in Value : settled[f][v] > Bound
Fresh == \A f \in Field : cache[f] = Listed(hot, f)
CacheConverges == <>[]Quiet => <>[]Fresh
=============================================================================
