----------------------------- MODULE TieredRead -----------------------------
(***************************************************************************)
(* GET /logs over both tiers (routes/logs.rs) while rotation runs.         *)
(*                                                                         *)
(* query_both_tiers asks hot for its oldest timestamp, asks cold whether   *)
(* it is healthy, then queries hot, cold, or both and merges.  The cold    *)
(* half lists keys and downloads one object at a time (S3ColdStore::       *)
(* read_range).  Each await is a step here, so rotation and ingest move    *)
(* events between the reads of one request.  A session is a first page and *)
(* the pages a client fetches by sending back next_cursor; it may begin at *)
(* any moment.  A behaviour has one session at most: a request writes      *)
(* nothing rotation or another request reads.                              *)
(*                                                                         *)
(* Sources are numbers, in the lexicographic order of their key prefixes.  *)
(***************************************************************************)
EXTENDS SteadyRotation

CONSTANTS
    Sinces,    \* `since` parameters clients send, NoSince among them or not
    Untils,    \* `until` parameters
    Limits,    \* `limit` parameters
    Filters,   \* env/service filters: sources, or AllSources
    ColdCap    \* COLD_QUERY_MAX_EVENTS

NoSince == -1
NoUntil == MaxTime + 1
NoOldest == MaxTime + 1
AllSources == 0

ASSUME ReadAssumption ==
    /\ Source \subseteq Nat \ {0}
    /\ Sinces \subseteq Time \cup {NoSince}
    /\ Untils \subseteq Time \cup {NoUntil}
    /\ Limits \subseteq Nat
    /\ Filters \subseteq Source \cup {AllSources}
    /\ ColdCap \in Nat \ {0}

VARIABLES
    rpc,        \* where the request is: "none" before the session, "answered"
                \* and "failed" after a request, else the await it is at
    params,     \* its QueryParams
    oldest,     \* hot_oldest, or NoOldest when hot was empty
    coldOk,     \* cold_ok
    coldParams, \* read_range's parameters, its defaults filled in
    keys,       \* read_range: listed keys not downloaded yet
    fetched,    \* read_range: all_events
    page,       \* the last answer: <<tier, event>> pairs
    next,       \* the last answer's next_cursor
    seen,       \* history: the pairs of the session's earlier pages
    stayedHot,  \* history: events in hot since the session began
    stayedCold, \* history: events in cold, and only there, since it began
    stayed      \* history: events in hot or in cold since it began

readVars == <<rpc, params, oldest, coldOk, coldParams, keys, fetched, page, next,
              seen>>
stays == <<stayedHot, stayedCold, stayed>>
allVars == <<vars, readVars, stays>>

FirstParams == [since : Sinces, until : Untils, limit : Limits, source : Filters,
                cursor : {NoCursor}]

\* the value of params and coldParams when there is no request
NoParams == [since |-> NoSince, until |-> NoUntil, limit |-> 0, source |-> AllSources,
             cursor |-> NoCursor]

Params == [since : Sinces \cup {NoSince}, until : Untils \cup Time \cup {NoUntil},
           limit : Limits \cup {0}, source : Filters \cup {AllSources},
           cursor : Time \cup {NoCursor}]

ReadTypeOK ==
    /\ rpc \in {"none", "hot_health", "cold_health", "query", "fetch", "hot_half",
                "answered", "failed"}
    /\ params \in Params
    /\ coldParams \in Params
    /\ oldest \in Time \cup {NoOldest}
    /\ coldOk \in BOOLEAN
    /\ keys \subseteq Key
    /\ fetched \subseteq Event
    /\ Cardinality(fetched) <= ColdCap
    /\ page \subseteq {"hot", "cold"} \X Event
    /\ params.limit <= 2000 => Cardinality(page) <= PageLimit(params.limit)
    /\ seen \subseteq {"hot", "cold"} \X Event
    /\ next \in Time \cup {NoCursor}
    /\ stayedHot \subseteq Event
    /\ stayedCold \subseteq Event
    /\ stayed \subseteq Event

ReadInit ==
    /\ rpc = "none"
    /\ params = NoParams
    /\ oldest = NoOldest
    /\ coldOk = FALSE
    /\ coldParams = NoParams
    /\ keys = {}
    /\ fetched = {}
    /\ page = {}
    /\ next = NoCursor
    /\ seen = {}
    /\ stayedHot = {}
    /\ stayedCold = {}
    /\ stayed = {}
-----------------------------------------------------------------------------
\* Definitions named X_Variant are plausible mistakes in X, as in Rotation.

\* apply_where / match_event_filters: the parameters both tiers filter by
Selects(p, e) ==
    /\ p.source \in {AllSources, e.source}
    /\ e.ts >= p.since
    /\ e.ts <= p.until

Matches_InclusiveCursor(p, e) == Selects(p, e) /\ e.ts <= p.cursor

\* the same and the cursor clause
Matches(p, e) == Selects(p, e) /\ e.ts < p.cursor

\* next_cursor, as the set of its one value: only after a full page
NextCursor(events, n) ==
    IF Cardinality(events) = n
    THEN {e.ts : e \in {x \in events : IsLast(x, events)}}
    ELSE {NoCursor}

Tagged(tier, events) == {<<tier, e>> : e \in events}

Merged_Untruncated(pairs, n) == {pairs}

\* merged.extend, a stable sort by ts descending, truncate: hot comes first
\* among equal timestamps
Precedes(x, y) ==
    \/ x[2].ts > y[2].ts
    \/ x[2].ts = y[2].ts /\ x[1] = "hot" /\ y[1] = "cold"
Merged(pairs, n) ==
    {P \in SUBSET pairs :
        /\ \A x \in P : \A y \in pairs \ P : ~Precedes(y, x)
        /\ Cardinality(P) = IF Cardinality(pairs) < n THEN Cardinality(pairs) ELSE n}

\* the answer ends the request; parameters stay for the session's next page
Answer(pairs, cursors) ==
    /\ rpc' = "answered"
    /\ page' = pairs
    /\ next' \in cursors
    /\ coldParams' = NoParams
    /\ keys' = {}
    /\ fetched' = {}
    /\ UNCHANGED <<params, oldest, coldOk, seen>>

\* a step of the reader: nothing happens elsewhere
Reads == UNCHANGED <<vars, stays>>

\* a storage error met by the reader
ReadFault ==
    /\ Fault
    /\ UNCHANGED <<now, hot, cold, cycleVars, ingested, arrived, missed, stays>>
-----------------------------------------------------------------------------
\* a client sends a first request: a session begins
FirstPage ==
    /\ rpc = "none"
    /\ rpc' = "hot_health"
    /\ params' \in FirstParams
    /\ stayedHot' = hot
    /\ stayedCold' = InCold \ hot
    /\ stayed' = hot \cup InCold
    /\ UNCHANGED <<vars, oldest, coldOk, coldParams, keys, fetched, page, next, seen>>

\* the client follows next_cursor
NextPage ==
    /\ rpc = "answered"
    /\ next # NoCursor
    /\ rpc' = "hot_health"
    /\ params' = [params EXCEPT !.cursor = next]
    /\ page' = {}
    /\ next' = NoCursor
    /\ seen' = seen \cup page
    /\ oldest' = NoOldest
    /\ coldOk' = FALSE
    /\ Reads
    /\ UNCHANGED <<coldParams, keys, fetched>>

\* hot.health(): MIN(ts) of the table.  An error becomes None by `.ok()` and
\* so reads as an empty table.
HotHealth ==
    /\ rpc = "hot_health"
    /\ rpc' = "cold_health"
    /\ \/ hot = {} /\ oldest' = NoOldest /\ Reads
       \/ (\E e \in hot : IsLast(e, hot) /\ oldest' = e.ts) /\ Reads
       \/ oldest' = NoOldest /\ ReadFault
    /\ UNCHANGED <<params, coldOk, coldParams, keys, fetched, page, next, seen>>

\* cold.health(): S3 reachable or not (module ColdHealth has the detail)
ColdHealthAnswer ==
    /\ rpc = "cold_health"
    /\ rpc' = "query"
    /\ coldOk' \in BOOLEAN
    /\ Reads
    /\ UNCHANGED <<params, oldest, coldParams, keys, fetched, page, next, seen>>

Straddles_Strict == oldest # NoOldest /\ params.until > oldest

\* query_tiered's decisions
ReadsCold == coldOk /\ params.since # NoSince /\ (oldest = NoOldest \/ params.since < oldest)
Straddles == oldest # NoOldest /\ params.until >= oldest

\* hot.query(params)
HotQuery(p) == {e \in hot : Matches(p, e)}

HotOnly ==
    /\ rpc = "query"
    /\ ~ReadsCold
    /\ \E P \in Pages(HotQuery(params), PageLimit(params.limit)) :
          Answer(Tagged("hot", P), NextCursor(P, PageLimit(params.limit)))
    /\ Reads

ColdParams_WholeRange == IF Straddles THEN [params EXCEPT !.cursor = NoCursor] ELSE params

\* what read_range is asked: the request itself, or its older half with the
\* boundary as `until` and no cursor
ColdParams ==
    IF Straddles THEN [params EXCEPT !.until = oldest, !.cursor = NoCursor] ELSE params

\* read_range's own default for a missing `until`
Resolved(p) == IF p.until = NoUntil THEN [p EXCEPT !.until = now] ELSE p

KeysInRange_ExclusiveUntil(p) ==
    {k \in Key :
        /\ cold[k] # {}
        /\ p.source \in {AllSources, k[1]}
        /\ truncate_to_hour(p.since) <= k[2]
        /\ k[2] < truncate_to_hour(p.until)}

\* list_keys_in_range: the objects under the filter's prefix from the hour of
\* `since` to the hour of `until`
KeysInRange(p) ==
    {k \in Key :
        /\ cold[k] # {}
        /\ p.source \in {AllSources, k[1]}
        /\ truncate_to_hour(p.since) <= k[2]
        /\ k[2] <= truncate_to_hour(p.until)}

\* read_range up to its LIST; an empty window lists nothing
ListKeys ==
    /\ rpc = "query"
    /\ ReadsCold
    /\ rpc' = "fetch"
    /\ coldParams' = Resolved(ColdParams)
    /\ keys' = IF coldParams'.since > coldParams'.until THEN {} ELSE KeysInRange(coldParams')
    /\ Reads
    /\ UNCHANGED <<params, oldest, coldOk, fetched, page, next, seen>>

\* page_limit
ColdLimit == IF params.limit = 0 THEN 1
             ELSE IF params.limit < ColdCap THEN params.limit ELSE ColdCap

\* keys.sort(), walked in reverse: by source first, then by hour
LastKey(k) ==
    /\ k \in keys
    /\ \A j \in keys : j[1] < k[1] \/ (j[1] = k[1] /\ j[2] <= k[2])

\* one turn of read_range's loop: get the next object and keep what matches,
\* up to the absolute cap; an object that cannot be read is skipped
FetchObject(k) ==
    /\ rpc = "fetch"
    /\ Cardinality(fetched) < ColdLimit
    /\ LastKey(k)
    /\ keys' = keys \ {k}
    /\ \/ /\ \E P \in Pages({e \in cold[k] : Matches(coldParams, e)},
                            ColdCap - Cardinality(fetched)) :
                fetched' = fetched \cup P
          /\ Reads
       \/ fetched' = fetched /\ ReadFault
    /\ UNCHANGED <<rpc, params, oldest, coldOk, coldParams, page, next, seen>>

\* the loop is over: sort, truncate
FetchDone == rpc = "fetch" /\ (keys = {} \/ Cardinality(fetched) >= ColdLimit)

ColdOnly ==
    /\ FetchDone
    /\ ~Straddles
    /\ \E P \in Pages(fetched, ColdLimit) : Answer(Tagged("cold", P), NextCursor(P, ColdLimit))
    /\ Reads

ColdHalf ==
    /\ FetchDone
    /\ Straddles
    /\ rpc' = "hot_half"
    /\ keys' = {}
    /\ coldParams' = NoParams
    /\ fetched' \in Pages(fetched, ColdLimit)
    /\ Reads
    /\ UNCHANGED <<params, oldest, coldOk, page, next, seen>>

\* hot.query(since = oldest), merge, truncate; the cursor is the hot half's
HotHalf ==
    /\ rpc = "hot_half"
    /\ \E P \in Pages(HotQuery([params EXCEPT !.since = oldest]), PageLimit(params.limit)) :
       \E pairs \in Merged(Tagged("hot", P) \cup Tagged("cold", fetched), params.limit) :
          Answer(pairs, NextCursor(P, PageLimit(params.limit)))
    /\ Reads

\* hot.query or list_objects fails: the request ends with an error
ReadFails ==
    /\ rpc \in {"query", "hot_half"}
    /\ rpc' = "failed"
    /\ fetched' = {}
    /\ ReadFault
    /\ UNCHANGED <<params, oldest, coldOk, coldParams, keys, page, next, seen>>

Read ==
    \/ FirstPage
    \/ NextPage
    \/ HotHealth
    \/ ColdHealthAnswer
    \/ HotOnly
    \/ ListKeys
    \/ \E k \in Key : FetchObject(k)
    \/ ColdOnly
    \/ ColdHalf
    \/ HotHalf
    \/ ReadFails

\* a step of rotation, ingest or the clock, during the session or not
Elsewhere(step) ==
    /\ step
    /\ stayedHot' = stayedHot \cap hot'
    /\ stayedCold' = stayedCold \cap (InCold' \ hot')
    /\ stayed' = stayed \cap (hot' \cup InCold')
    /\ UNCHANGED readVars

ReadSpec == Init /\ ReadInit /\ [][Read \/ Elsewhere(Next)]_allVars
SteadyReadSpec == Init /\ ReadInit /\ [][Read \/ Elsewhere(SteadyNext)]_allVars
-----------------------------------------------------------------------------
\* a page of n rows with nothing in it older than e: e is on a later page
FullAbove(n, e) == Cardinality(page) >= n /\ \A x \in page : x[2].ts >= e.ts

OneSource == params.source # AllSources \/ \E s \in Source : Source = {s}

\* Whatever rotation does meanwhile and whatever timestamps are sent, an event
\* that stays in hot during the whole request is returned, or the page is full
\* of newer ones.  (Above 2000, which the hot query cuts the limit to, a page
\* of both tiers is full of hot events and then of cold ones, older than the
\* hot events it lacks.)
HotNotSkipped ==
    rpc = "answered" /\ faults = 0 /\ params.limit <= 2000 =>
        \A e \in stayedHot :
            Matches(params, e) => <<"hot", e>> \in page \/ FullAbove(params.limit, e)

\* The same of an archived event, for a request with `since` that names its
\* source while S3 is healthy.
ColdNotSkipped ==
    /\ rpc = "answered" /\ faults = 0
    /\ coldOk /\ params.since # NoSince /\ params.limit # 0 /\ OneSource
    =>
        \A e \in stayedCold :
            Matches(params, e) => <<"cold", e>> \in page \/ FullAbove(ColdLimit, e)

\* A page holds an event twice only if it is the oldest of the hot tier.
DuplicateIsBoundary ==
    rpc = "answered" =>
        \A x, y \in page : x[2] = y[2] /\ x[1] # y[1] => x[2].ts = oldest

\* A client that follows next_cursor to the end has seen every event that
\* stayed in hot, each on one page, whatever arrives or is rotated meanwhile
\* and whichever tiers its pages came from.  (Archived events have no such
\* guarantee: the cold half of a page ignores the cursor.)
HotWalkComplete ==
    rpc = "answered" /\ faults = 0 /\ params.limit # 0 =>
        /\ \A x \in seen \cap page : x[1] = "cold"
        /\ next = NoCursor =>
              \A e \in stayedHot : Selects(params, e) => <<"hot", e>> \in seen \cup page

-----------------------------------------------------------------------------
\* What the comments and STORAGE.md say, and the code does not do.

\* logs.rs:45, "Answers a query from whichever tier holds the requested time
\* range": an event stored in one tier or the other all along is returned.
StoredNotSkipped ==
    rpc = "answered" /\ faults = 0 /\ coldOk /\ params.since # NoSince /\ OneSource =>
        \A e \in stayed :
            Matches(params, e) =>
                (\E x \in page : x[2] = e) \/ FullAbove(ColdLimit, e)
=============================================================================
