-------------------------- MODULE TieredSteadyProofs --------------------------
(***************************************************************************)
(* Proofs about a session while rotation runs under the Steady workload:   *)
(* what is in cold is older than what is in hot, and timestamps are unique *)
(* (RotationProofs).                                                       *)
(***************************************************************************)
EXTENDS TieredProofs

(* Steady restricts the steps beside the session. *)
LEMMA SteadyReadIsRead == SteadyReadSpec => ReadSpec
<1>1. Elsewhere(SteadyNext) => Elsewhere(Next)
  BY DEF Elsewhere, SteadyNext, Next
<1> QED
  BY <1>1, PTL DEF SteadyReadSpec, ReadSpec

(* What Steady adds to rotation, it adds also while it is read from. *)
LEMMA SteadyTiersStep ==
    ASSUME TiersInv, TiersInv', SteadyInv, [Read \/ Elsewhere(SteadyNext)]_allVars
    PROVE  SteadyInv'
<1>1. CASE Read
  <2>1. UNCHANGED <<now, hot, cold, cycleVars, ingested, arrived, missed>>
    BY <1>1, ReadLeavesTiers
  <2> QED
    BY <2>1 DEF cycleVars, SteadyInv, UniqueStamps, ArrivalsAreLate, ColdUpToCutoff,
       GroupsHaveEvents, HotIsSuffix, NothingMissed, LostToLaterPart, InCold
<1>2. CASE Elsewhere(SteadyNext) \/ UNCHANGED allVars
  <2>1. [SteadyNext]_vars
    BY <1>2 DEF Elsewhere, allVars
  <2> QED
    BY <2>1, SteadyStep DEF TiersInv
<1> QED
  BY <1>1, <1>2

LEMMA SteadySession == SteadyReadSpec => [](SessionInv /\ SteadyInv)
<1>1. TiersInv /\ TiersInv' /\ SteadyInv /\ [Read \/ Elsewhere(SteadyNext)]_allVars => SteadyInv'
  BY SteadyTiersStep
<1>2. SessionInv => TiersInv
  BY DEF SessionInv
<1> QED
  BY <1>1, <1>2, SteadyInit, SteadyReadIsRead, SessionInvariant, PTL DEF SteadyReadSpec
-----------------------------------------------------------------------------
(* A cursor is the timestamp of the last row of a full page. *)
LEMMA CursorIsLast ==
    ASSUME NEW P, P \subseteq Event, NEW n, NEW c \in NextCursor(P, n), c # NoCursor
    PROVE  /\ Cardinality(P) = n
           /\ \E last \in P : c = last.ts
           /\ \A e \in P : e.ts >= c
<1>1. PICK last \in P : IsLast(last, P) /\ c = last.ts /\ Cardinality(P) = n
  BY DEF NextCursor
<1>2. ASSUME NEW e \in P PROVE e.ts >= c
  <2>1. c <= e.ts /\ c \in Int /\ e.ts \in Int
    BY <1>1, StampBelowNoCursor DEF IsLast
  <2> QED
    BY <2>1
<1> QED
  BY <1>1, <1>2

(* A hot query leaves out nothing at or above its cursor. *)
LEMMA HotPageAboveCursor ==
    ASSUME SessionInv, SteadyInv,
           NEW q, NEW P \in Pages(HotQuery(q), PageLimit(params.limit)),
           NEW c \in NextCursor(P, PageLimit(params.limit)),
           NEW e \in hot, Matches(q, e), c = NoCursor \/ e.ts >= c
    PROVE  e \in P
<1> SUFFICES ASSUME e \notin P
             PROVE  FALSE
  OBVIOUS
<1>1. Cardinality(P) = PageLimit(params.limit) /\ \A f \in P : f.ts >= e.ts
  BY HotPageComplete
<1>2. P \subseteq hot /\ P \subseteq Event /\ hot \subseteq ingested /\ e \in Event
  BY HotPage, TiersFinite DEF SessionInv
<1>3. PICK last \in P : c = last.ts
  BY <1>1 DEF NextCursor, IsLast
<1>4. c # NoCursor
  BY <1>2, <1>3, StampBelowNoCursor
<1>5. e.ts = last.ts
  <2>1. e.ts \in Int /\ last.ts \in Int
    BY <1>2, StampBelowNoCursor
  <2> QED
    BY <1>1, <1>3, <1>4, <2>1
<1> QED
  BY <1>2, <1>5 DEF SteadyInv, UniqueStamps
-----------------------------------------------------------------------------
(***************************************************************************)
(* What a walk has seen.                                                   *)
(***************************************************************************)
(* Earlier pages hold the stayed events at or above the cursor, and hot     *)
(* events only from there.                                                  *)
SeenAboveCursor ==
    /\ \A e \in Event : <<"hot", e>> \in seen => e.ts >= params.cursor
    /\ \A e \in stayedHot :
          Selects(params, e) /\ e.ts >= params.cursor => <<"hot", e>> \in seen

(* The answer continues below the cursor, down to the next one. *)
PageBelowCursor ==
    rpc = "answered" =>
        /\ \A e \in Event : <<"hot", e>> \in page => e.ts < params.cursor
        /\ \A e \in Event : <<"hot", e>> \in seen \cup page => next = NoCursor \/ e.ts >= next
        /\ \A e \in stayedHot :
              Selects(params, e) /\ (next = NoCursor \/ e.ts >= next)
                => <<"hot", e>> \in seen \cup page

(* Archived events that are read without the boundary are below the cursor. *)
ColdBelowCursor ==
    rpc = "fetch" /\ ~Straddles =>
        /\ coldParams.cursor = params.cursor
        /\ \A e \in fetched : e.ts < params.cursor

WalkInv ==
    faults = 0 /\ params.limit # 0 => SeenAboveCursor /\ PageBelowCursor /\ ColdBelowCursor

(* A session starts with an unlimited cursor. *)
LEMMA WalkFirstPage ==
    ASSUME SessionInv, FirstPage
    PROVE  WalkInv'
<1>1. seen' = {} /\ params'.cursor = NoCursor /\ rpc' = "hot_health" /\ stayedHot' = hot
  BY DEF FirstPage, FirstParams, SessionInv, SessionShape
<1>2. \A e \in hot : e.ts < NoCursor /\ e.ts \in Int /\ NoCursor \in Int
  BY TiersFinite, StampBelowNoCursor DEF SessionInv
<1>3. SeenAboveCursor'
  BY <1>1, <1>2 DEF SeenAboveCursor
<1> QED
  BY <1>1, <1>3 DEF WalkInv, PageBelowCursor, ColdBelowCursor

(* The client's next page takes over what this one has shown. *)
LEMMA WalkNextPage ==
    ASSUME SessionInv, WalkInv, NextPage
    PROVE  WalkInv'
<1> SUFFICES ASSUME faults' = 0, params'.limit # 0
             PROVE  SeenAboveCursor' /\ PageBelowCursor' /\ ColdBelowCursor'
  BY DEF WalkInv
<1>1. /\ rpc = "answered" /\ rpc' = "hot_health" /\ next # NoCursor
      /\ params' = [params EXCEPT !.cursor = next]
      /\ seen' = seen \cup page /\ UNCHANGED <<stayedHot, faults>>
  BY DEF NextPage, Reads, stays, vars
<1>2. params \in Params
  BY DEF SessionInv, ReadTypeOK
<1>3. /\ params'.cursor = next /\ params'.limit = params.limit
      /\ \A e : Selects(params', e) <=> Selects(params, e)
  BY <1>1, <1>2 DEF Params, Selects
<1>4. PageBelowCursor
  BY <1>1, <1>3 DEF WalkInv
<1> QED
  BY <1>1, <1>3, <1>4 DEF PageBelowCursor, SeenAboveCursor, ColdBelowCursor

(* A page of hot events continues the walk. *)
LEMMA WalkAnswer ==
    ASSUME SessionInv, SteadyInv, WalkInv, faults = 0, params.limit # 0,
           NEW q, NEW P \in Pages(HotQuery(q), PageLimit(params.limit)),
           q.cursor = params.cursor,
           \A e \in stayedHot : Selects(params, e) => Selects(q, e),
           next' \in NextCursor(P, PageLimit(params.limit)),
           \A e \in Event : <<"hot", e>> \in page' <=> e \in P,
           UNCHANGED <<params, seen, stayedHot>>
    PROVE  PageBelowCursor'
<1>1. /\ P \subseteq hot /\ P \subseteq Event
      /\ \A e \in P : e.ts < params.cursor
  BY HotPage, PageFacts DEF SessionInv, HotQuery, Matches
<1>2. SeenAboveCursor
  BY DEF WalkInv
<1>3. ASSUME NEW e \in Event, <<"hot", e>> \in seen \cup page', next' # NoCursor
      PROVE  e.ts >= next'
  <2>1. (\E last \in P : next' = last.ts) /\ \A f \in P : f.ts >= next'
    BY <1>1, <1>3, CursorIsLast
  <2>2. CASE <<"hot", e>> \in seen
    <3>1. e.ts >= params.cursor
      BY <1>2, <2>2 DEF SeenAboveCursor
    <3>2. next' < params.cursor /\ next' \in Int
      BY <1>1, <2>1, StampBelowNoCursor
    <3>3. e.ts \in Int /\ params.cursor \in Int
      BY StampBelowNoCursor, StampFacts DEF SessionInv
    <3> QED
      BY <3>1, <3>2, <3>3
  <2>3. CASE <<"hot", e>> \in page'
    BY <2>1, <2>3
  <2> QED
    BY <1>3, <2>2, <2>3
<1>4. ASSUME NEW e \in stayedHot, Selects(params, e), next' = NoCursor \/ e.ts >= next'
      PROVE  <<"hot", e>> \in seen \cup page'
  <2>1. e \in hot /\ e \in Event
    BY TiersFinite DEF SessionInv, RequestInv, StaysAreHot
  <2>2. CASE e.ts >= params.cursor
    BY <1>2, <1>4, <2>2 DEF SeenAboveCursor
  <2>3. CASE e.ts < params.cursor
    <3>1. Matches(q, e)
      BY <1>4, <2>3 DEF Matches
    <3>2. e \in P
      BY <1>4, <2>1, <3>1, HotPageAboveCursor
    <3> QED
      BY <2>1, <3>2
  <2>4. e.ts \in Int /\ params.cursor \in Int
    BY <2>1, StampBelowNoCursor, StampFacts DEF SessionInv
  <2> QED
    BY <2>2, <2>3, <2>4
<1> QED
  BY <1>1, <1>3, <1>4 DEF PageBelowCursor

(* A request that is answered from cold alone asks for nothing at or above  *)
(* the oldest event of hot.                                                 *)
LEMMA ColdOnlyIsOlder ==
    ASSUME SessionInv, faults = 0, rpc = "fetch", ~Straddles, NEW e \in stayedHot
    PROVE  ~Selects(params, e)
<1>1. oldest <= e.ts /\ e \in ingested
  BY TiersFinite DEF SessionInv, RequestInv, OldestIsBelow, StaysAreHot
<1>2. /\ e.ts \in Int /\ e.ts < NoOldest /\ NoOldest \in Int
      /\ oldest \in Int /\ params.until \in Int
  BY <1>1, StampFacts DEF SessionInv
<1>3. e.ts > params.until
  BY <1>1, <1>2 DEF Straddles
<1> QED
  BY <1>2, <1>3 DEF Selects

LEMMA WalkColdOnly ==
    ASSUME SessionInv, WalkInv, faults = 0, params.limit # 0, ColdOnly
    PROVE  PageBelowCursor'
<1>1. PICK P \in Pages(fetched, ColdLimit) :
        /\ page' = Tagged("cold", P) /\ next' \in NextCursor(P, ColdLimit)
        /\ UNCHANGED <<params, seen, stayedHot>>
  BY DEF ColdOnly, Answer, Reads, stays
<1>2. rpc = "fetch" /\ ~Straddles /\ SeenAboveCursor /\ ColdBelowCursor
  BY DEF ColdOnly, FetchDone, WalkInv
<1>3. P \subseteq Event /\ \A e \in P : e.ts < params.cursor
  BY <1>2, PageFacts, TiersFinite DEF ColdBelowCursor, SessionInv, SessionShape
<1>4. ASSUME NEW e \in Event, <<"hot", e>> \in seen, next' # NoCursor
      PROVE  e.ts >= next'
  <2>1. \E last \in P : next' = last.ts
    <3>1. P \subseteq Event /\ next' \in NextCursor(P, ColdLimit) /\ next' # NoCursor
      BY <1>1, <1>3, <1>4
    <3> QED
      BY <3>1, CursorIsLast
  <2>2. next' < params.cursor /\ next' \in Int
    BY <1>3, <2>1, StampBelowNoCursor
  <2>3. e.ts >= params.cursor
    BY <1>2, <1>4 DEF SeenAboveCursor
  <2>4. e.ts \in Int /\ params.cursor \in Int
    BY StampBelowNoCursor, StampFacts DEF SessionInv
  <2> QED
    BY <2>2, <2>3, <2>4
<1>5. \A e \in stayedHot : ~Selects(params, e)
  BY <1>2, ColdOnlyIsOlder
<1>6. \A e \in Event : <<"hot", e>> \notin page'
  BY <1>1 DEF Tagged
<1> QED
  BY <1>1, <1>4, <1>5, <1>6 DEF PageBelowCursor, Selects

LEMMA WalkHotHalf ==
    ASSUME SessionInv, SteadyInv, WalkInv, faults = 0, params.limit # 0, HotHalf
    PROVE  PageBelowCursor'
<1> DEFINE q == [params EXCEPT !.since = oldest]
<1>1. PICK P \in Pages(HotQuery(q), PageLimit(params.limit)) :
        /\ page' \subseteq Tagged("hot", P) \cup Tagged("cold", fetched)
        /\ Tagged("hot", P) \subseteq page'
        /\ next' \in NextCursor(P, PageLimit(params.limit))
        /\ UNCHANGED <<params, seen, stayedHot>>
  BY BothHalves
<1>2. /\ q.since = oldest /\ q.source = params.source /\ q.until = params.until
      /\ q.cursor = params.cursor
  BY DEF SessionInv, ReadTypeOK, Params
<1> HIDE DEF q
<1>3. \A e \in Event : <<"hot", e>> \in page' <=> e \in P
  BY <1>1 DEF Tagged
<1>4. ASSUME NEW e \in stayedHot, Selects(params, e) PROVE Selects(q, e)
  <2>1. oldest <= e.ts /\ e \in ingested
    BY TiersFinite DEF HotHalf, SessionInv, RequestInv, OldestIsBelow, StaysAreHot
  <2>2. e.ts \in Int /\ oldest \in Int
    BY <2>1, StampFacts DEF SessionInv
  <2> QED
    BY <1>2, <1>4, <2>1, <2>2 DEF Selects
<1> QED
  BY <1>1, <1>2, <1>3, <1>4, WalkAnswer

LEMMA WalkHotOnly ==
    ASSUME SessionInv, SteadyInv, WalkInv, faults = 0, params.limit # 0, HotOnly
    PROVE  PageBelowCursor'
<1>1. PICK P \in Pages(HotQuery(params), PageLimit(params.limit)) :
        /\ page' = Tagged("hot", P)
        /\ next' \in NextCursor(P, PageLimit(params.limit))
        /\ UNCHANGED <<params, seen, stayedHot>>
  BY DEF HotOnly, Answer, Reads, stays
<1>2. \A e \in Event : <<"hot", e>> \in page' <=> e \in P
  BY <1>1 DEF Tagged
<1> QED
  BY <1>1, <1>2, WalkAnswer

(* Every step of the session and of what runs beside it. *)
LEMMA WalkStep ==
    ASSUME SessionInv, SteadyInv, WalkInv, [Read \/ Elsewhere(Next)]_allVars
    PROVE  WalkInv'
<1>1. CASE FirstPage \/ NextPage
  BY <1>1, WalkFirstPage, WalkNextPage
<1>2. CASE ~(FirstPage \/ NextPage)
  <2> SUFFICES ASSUME faults' = 0, params'.limit # 0
               PROVE  SeenAboveCursor' /\ PageBelowCursor' /\ ColdBelowCursor'
    BY DEF WalkInv
  <2>1. UNCHANGED <<params, seen>> /\ stayedHot' \subseteq stayedHot
    BY <1>2 DEF Read, HotHealth, ColdHealthAnswer, HotOnly, ListKeys, FetchObject, ColdOnly,
       ColdHalf, HotHalf, ReadFails, Answer, Reads, ReadFault, stays, Elsewhere, allVars, readVars
  <2>2. faults = 0 /\ params.limit # 0
    BY <2>1, FaultsGrow DEF SessionInv, TiersInv
  <2>3. SeenAboveCursor /\ PageBelowCursor /\ ColdBelowCursor
    BY <2>2 DEF WalkInv
  <2>4. SeenAboveCursor'
    BY <2>1, <2>3 DEF SeenAboveCursor, Selects
  <2>5. PageBelowCursor'
    <3>1. CASE rpc' # "answered"
      BY <3>1 DEF PageBelowCursor
    <3>2. CASE rpc' = "answered"
      <4>1. CASE UNCHANGED <<rpc, page, params, oldest, coldOk, next, seen>>
        BY <2>1, <2>3, <4>1 DEF PageBelowCursor, Selects
      <4> QED
        BY <2>2, <3>2, <4>1, Answered, WalkHotOnly, WalkColdOnly, WalkHotHalf
    <3> QED
      BY <3>1, <3>2
  <2>6. ColdBelowCursor'
    <3>1. CASE ListKeys
      <4>1. /\ rpc' = "fetch" /\ fetched' = {} /\ coldParams' = Resolved(ColdParams)
            /\ UNCHANGED <<params, oldest>>
        BY <3>1 DEF ListKeys, SessionInv, SessionShape
      <4>2. ~Straddles => coldParams'.cursor = params.cursor
        BY <4>1 DEF ColdParams, Resolved, SessionInv, ReadTypeOK, Params
      <4> QED
        BY <4>1, <4>2 DEF ColdBelowCursor, Straddles
    <3>2. ASSUME NEW k \in Key, FetchObject(k) PROVE ColdBelowCursor'
      <4>1. rpc = "fetch" /\ UNCHANGED <<rpc, params, oldest, coldParams>>
        BY <3>2 DEF FetchObject
      <4>2. fetched' \subseteq fetched \cup {e \in cold[k] : Matches(coldParams, e)}
        BY <3>2, PageFacts DEF FetchObject
      <4> QED
        BY <2>3, <4>1, <4>2 DEF ColdBelowCursor, Straddles, Matches
    <3>3. CASE Read /\ ~ListKeys /\ ~\E k \in Key : FetchObject(k)
      <4>1. rpc' # "fetch"
        BY <1>2, <3>3 DEF Read, HotHealth, ColdHealthAnswer, HotOnly, ColdOnly, ColdHalf, HotHalf,
           ReadFails, Answer
      <4> QED
        BY <4>1 DEF ColdBelowCursor
    <3>4. CASE Elsewhere(Next) \/ UNCHANGED allVars
      <4>1. UNCHANGED <<rpc, params, oldest, coldParams, fetched>>
        BY <3>4 DEF Elsewhere, allVars, readVars
      <4> QED
        BY <2>3, <4>1 DEF ColdBelowCursor, Straddles
    <3> QED
      BY <3>1, <3>2, <3>3, <3>4
  <2> QED
    BY <2>4, <2>5, <2>6
<1> QED
  BY <1>1, <1>2

(* A client that follows next_cursor to the end has seen all that stayed in *)
(* hot, once, whatever arrives and is rotated between its pages.            *)
THEOREM WalksAreComplete == SteadyReadSpec => []HotWalkComplete
<1>1. ReadInit => WalkInv
  BY DEF ReadInit, NoParams, WalkInv
<1>2. SessionInv /\ SteadyInv /\ WalkInv /\ [Read \/ Elsewhere(SteadyNext)]_allVars
        => WalkInv'
  BY WalkStep DEF Elsewhere, SteadyNext, Next
<1>3. SessionInv /\ WalkInv => HotWalkComplete
  <2> SUFFICES ASSUME SessionInv, WalkInv, rpc = "answered", faults = 0, params.limit # 0
               PROVE  /\ \A x \in seen \cap page : x[1] = "cold"
                      /\ next = NoCursor =>
                           \A e \in stayedHot :
                              Selects(params, e) => <<"hot", e>> \in seen \cup page
    BY DEF HotWalkComplete
  <2>1. SeenAboveCursor /\ PageBelowCursor
    BY DEF WalkInv
  <2>2. ASSUME NEW x \in seen \cap page PROVE x[1] = "cold"
    <3>1. PICK tier \in {"hot", "cold"}, e \in Event : x = <<tier, e>>
      BY DEF SessionInv, ReadTypeOK
    <3>2. tier = "hot" => e.ts < params.cursor /\ e.ts >= params.cursor
      BY <2>1, <3>1 DEF SeenAboveCursor, PageBelowCursor
    <3>3. e.ts \in Int /\ params.cursor \in Int
      BY StampBelowNoCursor, StampFacts DEF SessionInv
    <3> QED
      BY <3>1, <3>2, <3>3
  <2> QED
    BY <2>1, <2>2 DEF PageBelowCursor
<1> QED
  BY <1>1, <1>2, <1>3, SteadySession, PTL DEF SteadyReadSpec
-----------------------------------------------------------------------------
(***************************************************************************)
(* What a request finds in cold.                                           *)
(***************************************************************************)
(* Hours are in the order of timestamps. *)
LEMMA HoursInOrder ==
    ASSUME NEW s \in Int, NEW t \in Int
    PROVE  /\ truncate_to_hour(s) \in Int
           /\ s <= t => truncate_to_hour(s) <= truncate_to_hour(t)
           /\ truncate_to_hour(s) < truncate_to_hour(t) => s < t
<1> DEFINE h == HourLen
<1>1. h \in Nat \ {0}
  BY ConstantsAssumption
<1> HIDE DEF h
<1>2. s \div h \in Int /\ t \div h \in Int
  BY <1>1
<1>3. s <= t => s \div h <= t \div h
  BY <1>1, SMTT(30)
<1>4. t <= s => t \div h <= s \div h
  BY <1>1, SMTT(30)
<1> QED
  BY <1>2, <1>3, <1>4 DEF truncate_to_hour, h

(* Keys are pairs of a source and an hour. *)
LEMMA KeyFacts ==
    ASSUME NEW k \in Key
    PROVE  k = <<k[1], k[2]>> /\ k[1] \in Source /\ k[2] \in Int
<1>1. Hour \subseteq Int
  BY HoursInOrder, ConstantsAssumption DEF Hour, Time
<1>2. PICK s \in Source, h \in Hour : k = <<s, h>>
  BY DEF Key
<1> QED
  BY <1>1, <1>2

(* The archived events a request asks for; from here on it names one source *)
(* and S3 is healthy.                                                       *)
AsksCold ==
    /\ faults = 0
    /\ coldOk
    /\ params.since # NoSince
    /\ params.limit # 0
    /\ OneSource

StaysAreCold == stayedCold \subseteq InCold \ hot

(* Archived events are older than the boundary between the tiers. *)
ColdIsOlder ==
    faults = 0 /\ rpc \in {"cold_health", "query", "fetch", "hot_half"} =>
        \A e \in stayedCold : e.ts < oldest

(* The cold read walks one source's hours backwards.  An event it should     *)
(* return is still ahead, or fetched, or below a full page.                  *)
WalksBackwards ==
    rpc = "fetch" /\ AsksCold =>
        /\ \A j, k \in keys : j[1] = k[1]
        /\ \A f \in fetched : \A k \in keys : k[2] < truncate_to_hour(f.ts)
        /\ \A e \in stayedCold :
              Matches(params, e) =>
                  /\ Matches(coldParams, e)
                  /\ \/ build_key(e) \in keys
                     \/ e \in fetched
                     \/ /\ Cardinality(fetched) >= ColdLimit
                        /\ \A f \in fetched : f.ts >= e.ts

(* What read_range returned is complete down to a full page. *)
ColdHalfComplete ==
    rpc = "hot_half" /\ AsksCold =>
        \A e \in stayedCold :
            Matches(params, e) =>
                e \in fetched \/ (Cardinality(fetched) = ColdLimit
                                   /\ \A f \in fetched : f.ts >= e.ts)

ColdInv ==
    StaysAreCold /\ ColdIsOlder /\ WalksBackwards /\ ColdHalfComplete /\ ColdNotSkipped

(* What is known of an event that stays in cold. *)
LEMMA StayedColdFacts ==
    ASSUME SessionInv, SteadyInv, StaysAreCold, NEW e \in stayedCold
    PROVE  /\ e \in Event /\ e.ts \in Int
           /\ e \in ingested /\ e \notin hot
           /\ build_key(e) \in Key /\ e \in cold[build_key(e)]
           /\ e.ts <= now - Window
           /\ \A f \in hot : e.ts < f.ts
<1>1. TypeOK /\ RotationInv /\ HotIsSuffix
  BY DEF SessionInv, TiersInv, SteadyInv
<1>2. PICK k \in Key : e \in cold[k]
  BY DEF StaysAreCold, InCold
<1>3. build_key(e) = k /\ e \in ingested /\ e.ts <= now - Window
  BY <1>1, <1>2 DEF RotationInv, ColdWellPlaced
<1>4. e \in Event /\ e.ts \in Int
  BY <1>1, <1>3, StampBelowNoCursor DEF TypeOK
<1>5. e \notin hot
  BY DEF StaysAreCold
<1> QED
  BY <1>1, <1>2, <1>3, <1>4, <1>5 DEF HotIsSuffix

(* A healthy request that asks for archived events reads cold. *)
LEMMA AsksReadsCold ==
    ASSUME SessionInv, SteadyInv, StaysAreCold, ColdIsOlder, rpc = "query", AsksCold,
           NEW e \in stayedCold, Matches(params, e)
    PROVE  ReadsCold
<1>1. e.ts < oldest /\ params.since <= e.ts
  BY DEF ColdIsOlder, AsksCold, Matches, Selects
<1>2. e.ts \in Int /\ oldest \in Int /\ params.since \in Int
  BY StayedColdFacts, StampFacts DEF SessionInv
<1> QED
  BY <1>1, <1>2 DEF ReadsCold, AsksCold

(* What holds of coldParams once read_range is asked, for a request that    *)
(* asks for e: its range contains e.                                        *)
LEMMA ColdParamsInclude ==
    ASSUME SessionInv, SteadyInv, StaysAreCold, ColdIsOlder, Retention \in Nat,
           rpc = "query", faults = 0, NEW e \in stayedCold, Matches(params, e)
    PROVE  LET p == Resolved(ColdParams)
           IN  /\ Matches(p, e)
               /\ p.source = params.source /\ p.since = params.since
               /\ p.until \in Int /\ p.since \in Int
<1> DEFINE p == Resolved(ColdParams)
<1>1. ReadTypeOK /\ TypeOK
  BY DEF SessionInv, TiersInv
<1>2. /\ e.ts < oldest
      /\ e.ts \in Int /\ e.ts < NoCursor /\ NoCursor \in Int
      /\ e.ts <= now - Window
  BY StayedColdFacts, StampBelowNoCursor DEF ColdIsOlder
<1>3. /\ oldest \in Int /\ now \in Int
      /\ params.since \in Int /\ params.until \in Int /\ params.cursor \in Int
  BY <1>1, StampFacts DEF SessionInv, TypeOK, Time
<1>4. e.ts <= now
  <2>1. Window \in Nat
    BY ConstantsAssumption DEF Window
  <2> QED
    BY <1>2, <1>3, <2>1
<1>5. /\ ColdParams.source = params.source /\ ColdParams.since = params.since
      /\ ColdParams.until = IF Straddles THEN oldest ELSE params.until
      /\ ColdParams.cursor = IF Straddles THEN NoCursor ELSE params.cursor
      /\ ColdParams = [ColdParams EXCEPT !.source = params.source]
  BY <1>1 DEF ColdParams, ReadTypeOK, Params
<1>6. ColdParams \in Params
  <2>1. CASE Straddles
    BY <1>1, <2>1 DEF ColdParams, Straddles, ReadTypeOK, Params
  <2>2. CASE ~Straddles
    BY <1>1, <2>2 DEF ColdParams, ReadTypeOK
  <2> QED
    BY <2>1, <2>2
<1>7. /\ p.source = params.source /\ p.since = params.since
      /\ p.cursor = ColdParams.cursor
      /\ p.until = ColdParams.until \/ p.until = now
  BY <1>5, <1>6 DEF Resolved, Params
<1> HIDE DEF p
<1>8. e.ts <= p.until /\ p.until \in Int
  BY <1>2, <1>3, <1>4, <1>5, <1>7 DEF Matches, Selects
<1>9. e.ts < p.cursor
  BY <1>2, <1>3, <1>5, <1>7 DEF Matches
<1> QED
  BY <1>3, <1>7, <1>8, <1>9 DEF Matches, Selects, p

(* The keys read_range lists include those of the events asked for. *)
LEMMA ListsTheirKeys ==
    ASSUME SessionInv, SteadyInv, StaysAreCold, ColdIsOlder, Retention \in Nat, ListKeys
    PROVE  WalksBackwards'
<1>1. /\ rpc = "query" /\ coldParams' = Resolved(ColdParams)
      /\ keys' = IF coldParams'.since > coldParams'.until THEN {} ELSE KeysInRange(coldParams')
      /\ fetched' = {} /\ UNCHANGED <<params, coldOk, faults, stayedCold>>
  BY DEF ListKeys, Reads, vars, stays, SessionInv, SessionShape
<1> SUFFICES ASSUME AsksCold
             PROVE  /\ \A j, k \in keys' : j[1] = k[1]
                    /\ \A e \in stayedCold :
                          Matches(params, e) =>
                              Matches(coldParams', e) /\ build_key(e) \in keys'
  BY <1>1 DEF WalksBackwards, AsksCold, OneSource
<1>2. coldParams'.source = params.source
  <2>1. params \in Params
    BY DEF SessionInv, ReadTypeOK
  <2> QED
    BY <1>1, <2>1 DEF Resolved, ColdParams, Params
<1>3. ASSUME NEW j \in keys', NEW k \in keys' PROVE j[1] = k[1]
  <2>1. /\ j \in Key /\ params.source \in {AllSources, j[1]}
        /\ k \in Key /\ params.source \in {AllSources, k[1]}
    BY <1>1, <1>2 DEF KeysInRange
  <2> QED
    BY <2>1, KeyFacts DEF AsksCold, OneSource
<1>4. ASSUME NEW e \in stayedCold, Matches(params, e)
      PROVE  Matches(coldParams', e) /\ build_key(e) \in keys'
  <2>1. /\ Matches(coldParams', e)
        /\ coldParams'.until \in Int /\ coldParams'.since \in Int
    BY <1>1, <1>4, ColdParamsInclude DEF AsksCold
  <2>2. e.ts \in Int /\ build_key(e) \in Key /\ cold[build_key(e)] # {}
    BY StayedColdFacts
  <2>3. /\ coldParams'.since <= e.ts /\ e.ts <= coldParams'.until
        /\ coldParams'.source \in {AllSources, e.source}
    BY <2>1 DEF Matches, Selects
  <2>4. /\ truncate_to_hour(coldParams'.since) <= truncate_to_hour(e.ts)
        /\ truncate_to_hour(e.ts) <= truncate_to_hour(coldParams'.until)
    BY <2>1, <2>2, <2>3, HoursInOrder
  <2>5. build_key(e) \in KeysInRange(coldParams')
    BY <2>2, <2>3, <2>4 DEF KeysInRange, build_key
  <2>6. ~(coldParams'.since > coldParams'.until)
    BY <2>1, <2>2, <2>3
  <2> QED
    BY <1>1, <2>1, <2>5, <2>6
<1> QED
  BY <1>3, <1>4

(* A turn of read_range's loop takes the latest hour that is left. *)
LEMMA FetchesBackwards ==
    ASSUME SessionInv, SteadyInv, StaysAreCold, WalksBackwards,
           NEW k \in Key, FetchObject(k)
    PROVE  WalksBackwards'
<1>1. /\ rpc = "fetch" /\ Cardinality(fetched) < ColdLimit /\ LastKey(k)
      /\ keys' = keys \ {k}
      /\ UNCHANGED <<rpc, params, oldest, coldOk, coldParams, stayedCold>>
  BY DEF FetchObject, Reads, ReadFault, stays
<1>2. TypeOK /\ RotationInv /\ TiersInv /\ ReadTypeOK
  BY DEF SessionInv, TiersInv
<1> SUFFICES ASSUME AsksCold'
             PROVE  WalksBackwards'
  BY DEF WalksBackwards
<1>3. AsksCold /\ ~Fault
  <2>1. faults' = 0
    BY DEF AsksCold
  <2>2. faults = 0 /\ ~Fault
    BY <1>2, <2>1, FaultsGrow DEF Read
  <2> QED
    BY <1>1, <2>2 DEF AsksCold, OneSource
<1> DEFINE S == {e \in cold[k] : Matches(coldParams, e)}
           n == ColdCap - Cardinality(fetched)
<1>4. PICK P \in Pages(S, n) : fetched' = fetched \cup P
  BY <1>3 DEF FetchObject, ReadFault
<1>5. P \subseteq S
  BY PageFacts
<1>6. \A f \in P : truncate_to_hour(f.ts) = k[2] /\ f \in ingested
  BY <1>2, <1>5 DEF RotationInv, ColdWellPlaced, build_key
<1>7. ASSUME NEW j \in keys' PROVE j \in Key /\ j[2] \in Int /\ k[2] \in Int /\ j[2] < k[2]
  <2>1. j \in Key /\ j # k /\ j[1] = k[1] /\ j[2] <= k[2]
    <3>1. j \in keys /\ j \in Key /\ j # k /\ k \in keys
      BY <1>1, <1>2 DEF ReadTypeOK, LastKey
    <3>2. j[1] = k[1]
      BY <1>1, <1>3, <3>1 DEF WalksBackwards
    <3>3. k[1] \in Nat
      BY KeyFacts, ReadAssumption
    <3> QED
      BY <1>1, <3>1, <3>2, <3>3 DEF LastKey
  <2> QED
    BY <2>1, KeyFacts
<1>8. \A j1, j2 \in keys' : j1[1] = j2[1]
  BY <1>1, <1>3 DEF WalksBackwards
<1>9. \A f \in fetched' : \A j \in keys' : j[2] < truncate_to_hour(f.ts)
  BY <1>1, <1>3, <1>4, <1>6, <1>7 DEF WalksBackwards
<1>10. ASSUME NEW e \in stayedCold, Matches(params, e)
       PROVE  /\ Matches(coldParams, e)
              /\ \/ build_key(e) \in keys'
                 \/ e \in fetched'
                 \/ /\ Cardinality(fetched') >= ColdLimit
                    /\ \A f \in fetched' : f.ts >= e.ts
  <2>1. IsFiniteSet(fetched) /\ Cardinality(fetched) \in Nat
    BY <1>2, TiersFinite, FS_CardinalityType DEF SessionInv, SessionShape
  <2>2. ColdLimit \in Nat /\ ColdLimit <= ColdCap /\ ColdCap \in Nat
    BY <1>2, ColdLimitFacts, ReadAssumption DEF ReadTypeOK
  <2>3. /\ Matches(coldParams, e)
        /\ build_key(e) \in keys \/ e \in fetched
    BY <1>1, <1>3, <1>10, <2>1, <2>2 DEF WalksBackwards
  <2>4. CASE e \notin fetched' /\ build_key(e) = k
    <3>1. e \in S /\ e.ts \in Int
      BY <2>3, <2>4, StayedColdFacts
    <3>2. n \in Nat /\ IsFiniteSet(S)
      BY <1>2, <2>1, <2>2, TiersFinite DEF ReadTypeOK
    <3> HIDE DEF S, n
    <3>3. Cardinality(P) = n /\ \A f \in P : f.ts >= e.ts
      BY <1>4, <2>4, <3>1, PageFacts
    <3>4. \A f \in fetched : f.ts \in Int /\ k[2] < truncate_to_hour(f.ts)
      BY <1>1, <1>2, <1>3, StampFacts DEF WalksBackwards, LastKey, SessionInv, SessionShape
    <3>5. \A f \in fetched : f.ts >= e.ts
      <4>1. truncate_to_hour(e.ts) = k[2]
        BY <2>4 DEF build_key
      <4> QED
        BY <3>1, <3>4, <4>1, HoursInOrder
    <3>6. fetched \cap P = {} /\ IsFiniteSet(P)
      <4>1. \A f \in fetched \cap P : FALSE
        <5>1. k[2] \in Int
          BY KeyFacts
        <5> QED
          BY <1>6, <3>4, <5>1
      <4> QED
        BY <3>2, <4>1, PageSize
    <3>7. Cardinality(fetched \cup P) = Cardinality(fetched) + n
      <4>1. Cardinality(fetched \cap P) = 0
        BY <3>6, FS_EmptySet
      <4>2. Cardinality(fetched \cup P) =
              Cardinality(fetched) + Cardinality(P) - Cardinality(fetched \cap P)
        BY <2>1, <3>6, FS_Union
      <4> QED
        BY <2>1, <3>2, <3>3, <4>1, <4>2
    <3>8. Cardinality(fetched') >= ColdLimit
      BY <1>4, <2>1, <2>2, <3>7 DEF n
    <3> QED
      BY <1>4, <2>3, <3>3, <3>5, <3>8
  <2> QED
    BY <1>1, <1>4, <2>3, <2>4
<1>11. ColdLimit' = ColdLimit
  BY <1>1 DEF ColdLimit
<1> HIDE DEF S, n
<1> QED
  BY <1>1, <1>8, <1>9, <1>10, <1>11 DEF WalksBackwards

(* When the loop is over, the rows it returns are complete down to a full   *)
(* page.                                                                    *)
LEMMA FetchIsComplete ==
    ASSUME SessionInv, SteadyInv, StaysAreCold, WalksBackwards, FetchDone, AsksCold,
           NEW P \in Pages(fetched, ColdLimit), NEW e \in stayedCold, Matches(params, e)
    PROVE  e \in P \/ (Cardinality(P) = ColdLimit /\ \A f \in P : f.ts >= e.ts)
<1> SUFFICES ASSUME e \notin P
             PROVE  Cardinality(P) = ColdLimit /\ \A f \in P : f.ts >= e.ts
  OBVIOUS
<1>1. /\ P \subseteq fetched
      /\ Cardinality(P) # ColdLimit => P = fetched
      /\ \A f \in P : \A g \in fetched \ P : f.ts >= g.ts
  BY PageFacts
<1>2. /\ \A f \in fetched : \A k \in keys : k[2] < truncate_to_hour(f.ts)
      /\ \/ build_key(e) \in keys
         \/ e \in fetched
         \/ /\ Cardinality(fetched) >= ColdLimit
            /\ \A f \in fetched : f.ts >= e.ts
  BY DEF FetchDone, WalksBackwards
<1>3. /\ Cardinality(P) \in Nat /\ Cardinality(P) <= ColdLimit /\ ColdLimit \in Nat
      /\ e.ts \in Int /\ \A f \in fetched : f.ts \in Int
  BY ColdPage, ColdLimitFacts, StayedColdFacts, StampFacts DEF SessionInv, ReadTypeOK, SessionShape
<1>4. CASE e \in fetched
  BY <1>1, <1>4
<1>5. CASE Cardinality(fetched) >= ColdLimit /\ \A f \in fetched : f.ts >= e.ts
  BY <1>1, <1>3, <1>5
<1>6. CASE build_key(e) \in keys
  <2>1. Cardinality(fetched) >= ColdLimit
    BY <1>6 DEF FetchDone
  <2>2. ASSUME NEW f \in fetched PROVE f.ts >= e.ts
    <3>1. truncate_to_hour(e.ts) < truncate_to_hour(f.ts)
      BY <1>2, <1>6 DEF build_key
    <3> QED
      BY <1>3, <3>1, HoursInOrder
  <2> QED
    BY <1>1, <1>3, <2>1, <2>2
<1> QED
  BY <1>2, <1>4, <1>5, <1>6

(* The three ways to answer, for a request that asks for an archived event. *)
LEMMA ColdOnlyComplete ==
    ASSUME SessionInv, SteadyInv, StaysAreCold, WalksBackwards, AsksCold, ColdOnly,
           NEW e \in stayedCold, Matches(params, e)
    PROVE  \/ <<"cold", e>> \in page'
           \/ Cardinality(page') >= ColdLimit /\ \A x \in page' : x[2].ts >= e.ts
<1>1. PICK P \in Pages(fetched, ColdLimit) : page' = Tagged("cold", P)
  BY DEF ColdOnly, Answer
<1>2. IsFiniteSet(P) /\ ColdLimit \in Nat
  BY ColdPage, ColdLimitFacts DEF SessionInv, ReadTypeOK
<1>3. e \in P \/ (Cardinality(P) = ColdLimit /\ \A f \in P : f.ts >= e.ts)
  BY FetchIsComplete DEF ColdOnly
<1>4. Cardinality(page') = Cardinality(P)
  BY <1>1, <1>2, TaggedSize
<1> QED
  BY <1>1, <1>2, <1>3, <1>4 DEF Tagged

LEMMA HotHalfKeepsCold ==
    ASSUME SessionInv, SteadyInv, StaysAreCold, ColdIsOlder, ColdHalfComplete, AsksCold, HotHalf,
           NEW e \in stayedCold, Matches(params, e)
    PROVE  \/ <<"cold", e>> \in page'
           \/ Cardinality(page') >= ColdLimit /\ \A x \in page' : x[2].ts >= e.ts
<1> DEFINE q == [params EXCEPT !.since = oldest]
<1>1. PICK P \in Pages(HotQuery(q), PageLimit(params.limit)) :
        /\ page' \in Merged(Tagged("hot", P) \cup Tagged("cold", fetched), params.limit)
        /\ next' \in NextCursor(P, PageLimit(params.limit))
        /\ P \subseteq Event
        /\ IsFiniteSet(P)
        /\ Cardinality(P) \in Nat /\ Cardinality(P) <= PageLimit(params.limit)
        /\ IsFiniteSet(Tagged("hot", P) \cup Tagged("cold", fetched))
        /\ \A x \in P : x.ts >= oldest
        /\ \A f \in fetched : f.ts <= oldest
  BY MergedHalves
<1> DEFINE pairs == Tagged("hot", P) \cup Tagged("cold", fetched)
<1>2. params.limit \in Nat /\ params.limit # 0
  BY LimitType DEF SessionInv, ReadTypeOK, AsksCold
<1>3. ColdLimit \in Nat /\ ColdLimit <= params.limit
  BY <1>2, ColdLimitFacts DEF SessionInv, ReadTypeOK
<1>4. e.ts \in Int /\ e.ts < oldest /\ oldest \in Int
  BY StayedColdFacts, StampFacts DEF ColdIsOlder, HotHalf, AsksCold, SessionInv
<1>5. fetched \subseteq Event /\ IsFiniteSet(fetched)
  BY TiersFinite DEF SessionInv, SessionShape
<1>6. \A x \in pairs : x[2].ts \in Int /\ (x[2] \in P => x[2].ts >= e.ts)
  <2>1. \A x \in pairs : x[2] \in P \/ x[2] \in fetched
    BY DEF Tagged
  <2>2. \A f \in P \cup fetched : f.ts \in Int
    BY <1>1, <1>5, StampBelowNoCursor
  <2> QED
    BY <1>1, <1>4, <2>1, <2>2
<1>7. /\ page' \subseteq pairs
      /\ IsFiniteSet(page') /\ Cardinality(page') \in Nat
      /\ Cardinality(page') = (IF Cardinality(pairs) < params.limit
                               THEN Cardinality(pairs) ELSE params.limit)
      /\ Cardinality(page') < params.limit => page' = pairs
      /\ \A x \in page' : \A y \in pairs \ page' : ~Precedes(y, x)
  BY <1>1, <1>2, MergedFacts DEF Merged
<1> HIDE DEF q
<1>8. CASE e \in fetched
  <2> SUFFICES ASSUME <<"cold", e>> \notin page'
               PROVE  Cardinality(page') >= ColdLimit /\ \A x \in page' : x[2].ts >= e.ts
    OBVIOUS
  <2>1. <<"cold", e>> \in pairs
    BY <1>8 DEF Tagged
  <2> HIDE DEF pairs
  <2>2. Cardinality(page') >= ColdLimit
    BY <1>2, <1>3, <1>7, <2>1
  <2>3. ASSUME NEW x \in page' PROVE x[2].ts >= e.ts
    <3>1. ~Precedes(<<"cold", e>>, x) /\ x[2].ts \in Int
      BY <1>6, <1>7, <2>1
    <3> QED
      BY <1>4, <3>1 DEF Precedes
  <2> QED
    BY <2>2, <2>3
<1>9. CASE Cardinality(fetched) = ColdLimit /\ \A f \in fetched : f.ts >= e.ts
  <2>1. \A x \in pairs : x[2].ts >= e.ts
    BY <1>6, <1>9 DEF Tagged
  <2>2. Cardinality(pairs) \in Nat /\ ColdLimit <= Cardinality(pairs)
    <3>1. Cardinality(Tagged("cold", fetched)) = ColdLimit
      BY <1>5, <1>9, TaggedSize
    <3> QED
      BY <1>1, <3>1, FS_Subset, FS_CardinalityType
  <2> HIDE DEF pairs
  <2>3. Cardinality(page') >= ColdLimit
    BY <1>2, <1>3, <1>7, <2>2
  <2> QED
    BY <1>7, <2>1, <2>3
<1> QED
  BY <1>8, <1>9 DEF ColdHalfComplete, HotHalf

LEMMA AnswersHoldCold ==
    ASSUME SessionInv, SteadyInv, ColdInv, [Read \/ Elsewhere(Next)]_allVars
    PROVE  ColdNotSkipped'
<1> SUFFICES ASSUME rpc' = "answered", AsksCold', NEW e \in stayedCold', Matches(params, e)',
                    <<"cold", e>> \notin page'
             PROVE  FullAbove(ColdLimit, e)'
  BY DEF ColdNotSkipped, AsksCold
<1>1. CASE HotOnly \/ ColdOnly \/ HotHalf
  <2>1. UNCHANGED <<params, coldOk, faults, stayedCold>>
    BY <1>1 DEF HotOnly, ColdOnly, HotHalf, Answer, Reads, vars, stays
  <2>2. AsksCold /\ ColdLimit' = ColdLimit /\ Matches(params, e)
    BY <2>1 DEF AsksCold, OneSource, ColdLimit, Matches, Selects
  <2>3. ~HotOnly
    BY <2>1, <2>2, AsksReadsCold DEF HotOnly, ColdInv
  <2>4. Cardinality(page') >= ColdLimit /\ \A x \in page' : x[2].ts >= e.ts
    BY <1>1, <2>1, <2>2, <2>3, ColdOnlyComplete, HotHalfKeepsCold DEF ColdInv
  <2> QED
    BY <2>2, <2>4 DEF FullAbove
<1>2. CASE /\ UNCHANGED <<rpc, page, params, oldest, coldOk, next, seen>>
           /\ stayedCold' \subseteq stayedCold
  <2>1. faults = 0
    <3>1. faults' = 0
      BY DEF AsksCold
    <3> QED
      BY <3>1, FaultsGrow DEF SessionInv, TiersInv
  <2>2. AsksCold /\ ColdLimit' = ColdLimit /\ Matches(params, e)
    BY <1>2, <2>1 DEF AsksCold, OneSource, ColdLimit, Matches, Selects
  <2> QED
    BY <1>2, <2>2 DEF ColdInv, ColdNotSkipped, FullAbove, AsksCold
<1> QED
  BY <1>1, <1>2, Answered

(* The boundary is read when every archived event is older than hot. *)
LEMMA ColdStep ==
    ASSUME SessionInv, SteadyInv, ColdInv, Retention \in Nat,
           [Read \/ Elsewhere(Next)]_allVars
    PROVE  ColdInv'
<1>1. StaysAreCold /\ ColdIsOlder /\ WalksBackwards /\ ColdHalfComplete
  BY DEF ColdInv
<1>2. ColdNotSkipped'
  BY AnswersHoldCold
<1>3. faults' = 0 => faults = 0
  BY FaultsGrow DEF SessionInv, TiersInv
<1>4. StaysAreCold'
  <2>1. CASE Read
    <3>1. hot' = hot /\ cold' = cold
      BY <2>1, ReadLeavesTiers
    <3>2. stayedCold' = stayedCold \/ stayedCold' = InCold \ hot
      BY <2>1 DEF Read, FirstPage, NextPage, HotHealth, ColdHealthAnswer, HotOnly, ListKeys,
         FetchObject, ColdOnly, ColdHalf, HotHalf, ReadFails, Reads, ReadFault, stays
    <3> QED
      BY <1>1, <3>1, <3>2 DEF StaysAreCold, InCold
  <2>2. CASE Elsewhere(Next) \/ UNCHANGED allVars
    BY <1>1, <2>2 DEF Elsewhere, allVars, stays, vars, StaysAreCold, InCold
  <2> QED
    BY <2>1, <2>2
<1>5. CASE FirstPage \/ NextPage
  BY <1>2, <1>4, <1>5 DEF FirstPage, NextPage, ColdInv, ColdIsOlder, WalksBackwards, ColdHalfComplete
<1>6. CASE HotHealth
  <2>1. rpc' = "cold_health" /\ UNCHANGED stayedCold
    BY <1>6 DEF HotHealth, Reads, ReadFault, stays
  <2>2. ASSUME faults' = 0, NEW e \in stayedCold PROVE e.ts < oldest'
    <3>1. ~Fault
      BY <1>6, <2>2, FaultsGrow DEF Read, SessionInv, TiersInv
    <3>2. e \in Event /\ \A f \in hot : e.ts < f.ts
      BY <1>1, StayedColdFacts
    <3>3. e.ts < NoOldest
      BY <3>2, StampBelowNoCursor DEF NoOldest, NoCursor
    <3> QED
      BY <1>6, <3>1, <3>2, <3>3 DEF HotHealth, ReadFault
  <2> QED
    BY <1>2, <1>4, <2>1, <2>2 DEF ColdInv, ColdIsOlder, WalksBackwards, ColdHalfComplete
<1>7. CASE ColdHealthAnswer
  BY <1>1, <1>2, <1>4, <1>7
  DEF ColdHealthAnswer, Reads, vars, stays, ColdInv, ColdIsOlder, WalksBackwards, ColdHalfComplete
<1>8. CASE ListKeys
  <2>1. WalksBackwards'
    BY <1>1, <1>8, ListsTheirKeys
  <2> QED
    BY <1>1, <1>2, <1>4, <1>8, <2>1
    DEF ListKeys, Reads, vars, stays, ColdInv, ColdIsOlder, ColdHalfComplete
<1>9. ASSUME NEW k \in Key, FetchObject(k) PROVE ColdInv'
  <2>1. WalksBackwards'
    BY <1>1, <1>9, FetchesBackwards
  <2>2. rpc = "fetch" /\ UNCHANGED <<rpc, oldest, stayedCold>>
    BY <1>9 DEF FetchObject, Reads, ReadFault, stays
  <2> QED
    BY <1>1, <1>2, <1>3, <1>4, <2>1, <2>2 DEF ColdInv, ColdIsOlder, ColdHalfComplete
<1>10. CASE ColdHalf
  <2>1. /\ FetchDone /\ rpc = "fetch" /\ rpc' = "hot_half" /\ fetched' \in Pages(fetched, ColdLimit)
        /\ UNCHANGED <<params, oldest, coldOk, faults, stayedCold>>
    BY <1>10 DEF ColdHalf, FetchDone, Reads, vars, stays
  <2>2. AsksCold' = AsksCold /\ ColdLimit' = ColdLimit
    BY <2>1 DEF AsksCold, OneSource, ColdLimit
  <2>3. \A e : Matches(params, e)' <=> Matches(params, e)
    BY <2>1 DEF Matches, Selects
  <2>4. ASSUME AsksCold, NEW e \in stayedCold, Matches(params, e)
        PROVE  e \in fetched' \/ (Cardinality(fetched') = ColdLimit
                                   /\ \A f \in fetched' : f.ts >= e.ts)
    BY <1>1, <2>1, <2>4, FetchIsComplete
  <2>5. ColdHalfComplete'
    BY <2>1, <2>2, <2>3, <2>4 DEF ColdHalfComplete
  <2> QED
    BY <1>1, <1>2, <1>4, <2>1, <2>5 DEF ColdInv, ColdIsOlder, WalksBackwards
<1>11. CASE HotOnly \/ ColdOnly \/ HotHalf \/ ReadFails
  <2>1. rpc' \in {"answered", "failed"}
    BY <1>11 DEF HotOnly, ColdOnly, HotHalf, ReadFails, Answer
  <2> QED
    BY <1>2, <1>4, <2>1 DEF ColdInv, ColdIsOlder, WalksBackwards, ColdHalfComplete
<1>12. CASE Elsewhere(Next) \/ UNCHANGED allVars
  <2>1. /\ UNCHANGED <<rpc, params, oldest, coldOk, coldParams, keys, fetched>>
        /\ stayedCold' \subseteq stayedCold
    BY <1>12 DEF Elsewhere, allVars, readVars, stays
  <2>2. (AsksCold' => AsksCold) /\ ColdLimit' = ColdLimit
    BY <1>3, <2>1 DEF AsksCold, OneSource, ColdLimit
  <2>3. /\ \A e : Matches(params', e) <=> Matches(params, e)
        /\ \A e : Matches(coldParams', e) <=> Matches(coldParams, e)
    BY <2>1
  <2> QED
    BY <1>1, <1>2, <1>3, <1>4, <2>1, <2>2, <2>3
    DEF ColdInv, ColdIsOlder, WalksBackwards, ColdHalfComplete
<1> QED
  BY <1>5, <1>6, <1>7, <1>8, <1>9, <1>10, <1>11, <1>12 DEF Read

(* An archived event that a healthy request asks for is on the page, or the *)
(* page is full above it, whatever rotation writes and deletes meanwhile.   *)
(* (With a negative retention S3 may hold events of the future, which the   *)
(* default of a missing `until` cuts off.)                                  *)
THEOREM NoColdSkipped ==
    ASSUME Retention \in Nat
    PROVE  SteadyReadSpec => []ColdNotSkipped
<1>1. ReadInit => ColdInv
  BY DEF ReadInit, ColdInv, StaysAreCold, ColdIsOlder, WalksBackwards, ColdHalfComplete,
         ColdNotSkipped
<1>2. SessionInv /\ SteadyInv /\ ColdInv /\ [Read \/ Elsewhere(SteadyNext)]_allVars => ColdInv'
  <2>1. [Read \/ Elsewhere(SteadyNext)]_allVars => [Read \/ Elsewhere(Next)]_allVars
    BY DEF Elsewhere, SteadyNext, Next
  <2> QED
    BY <2>1, ColdStep
<1>3. ColdInv => ColdNotSkipped
  BY DEF ColdInv
<1> QED
  BY <1>1, <1>2, <1>3, SteadySession, PTL DEF SteadyReadSpec
=============================================================================
