------------------------------ MODULE Rotation ------------------------------
(***************************************************************************)
(* The hot-to-cold rotation task (rotation.rs) over the SQLite hot tier    *)
(* (store/sqlite.rs) and the S3 cold tier (store/s3.rs).                   *)
(*                                                                         *)
(* One tokio task repeats: take a cutoff, page through the hot tier below  *)
(* it, write one S3 object per (env, service, hour), and delete below the  *)
(* cutoff from hot if no write failed.  Every await is a step of its own,  *)
(* so HTTP ingest, the clock, storage errors and a process crash come in   *)
(* between.  Each SQL statement or transaction and each PUT is atomic.     *)
(*                                                                         *)
(* An event is its row id, its timestamp and its source; the other columns *)
(* are not looked at by rotation.  Source stands for the pair (env,        *)
(* service), a missing one of them being the string "unknown".             *)
(***************************************************************************)
EXTENDS Integers, FiniteSets

CONSTANTS
    Id,          \* row ids; a bound on the number of events ever ingested
    Source,      \* (env, service) pairs
    MaxTime,     \* the clock stops here (a bound of the model)
    HourLen,     \* clock ticks in an hour
    Retention,   \* HOT_RETENTION_HOURS, any i64 the environment holds
    BatchSize,   \* ROTATION_BATCH_SIZE
    MaxFaults    \* how many I/O errors and crashes may happen (a bound)

ASSUME ConstantsAssumption ==
    /\ MaxTime \in Nat
    /\ HourLen \in Nat \ {0}
    /\ Retention \in Int
    /\ BatchSize \in Nat
    /\ MaxFaults \in Nat

Time == 0 .. MaxTime

\* chrono::Duration::hours(hot_retention_hours)
Window == Retention * HourLen

Event == [id : Id, ts : Time, source : Source]

\* truncate_to_hour: hours are numbered, minutes and seconds dropped
truncate_to_hour(ts) == ts \div HourLen
Hour == {truncate_to_hour(t) : t \in Time}

\* Definitions named X_Variant are plausible mistakes in X; no definition uses
\* them.  They document what the properties below would catch.
build_key_Untruncated(e) == <<e.source, e.ts>>

\* build_key: the object of an event, {env}/{service}/{YYYY}/{MM}/{DD}/{HH}
Key == Source \X Hour
build_key(e) == <<e.source, truncate_to_hour(e.ts)>>

\* the limit clause of SqliteHotStore::query
PageLimit(n) == IF n = 0 THEN 200 ELSE IF n > 2000 THEN 2000 ELSE n

\* a cursor larger than every timestamp is the absent cursor
NoCursor == MaxTime + 1

VARIABLES
    now,        \* Utc::now()
    hot,        \* rows of the events table
    cold,       \* S3: each key's object, {} when there is none
    pc,         \* where rotate_once is: "idle", "reading" or "writing"
    cutoff,     \* rotate_once's cutoff
    cursor,     \* read_events_until's cursor
    toArchive,  \* events read so far in this cycle
    pending,    \* groups not yet written in this cycle
    failed,     \* groups whose write failed in this cycle
    faults,     \* errors and crashes so far
    ingested,   \* history: every event the hot tier ever accepted
    arrived,    \* history: events accepted since this cycle began
    missed      \* history: events a drain deleted that its cycle never read

cycleVars == <<pc, cutoff, cursor, toArchive, pending, failed>>
vars == <<now, hot, cold, cycleVars, faults, ingested, arrived, missed>>

TypeOK ==
    /\ now \in Time
    /\ hot \subseteq Event
    /\ cold \in [Key -> SUBSET Event]
    /\ pc \in {"idle", "reading", "writing"}
    /\ cutoff \in Int
    /\ cursor \in 0 .. NoCursor
    /\ toArchive \subseteq Event
    /\ pending \subseteq Key
    /\ failed \subseteq Key
    /\ faults \in 0 .. MaxFaults
    /\ ingested \subseteq Event
    /\ arrived \subseteq Event
    /\ missed \subseteq Event

Init ==
    /\ now = 0
    /\ hot = {}
    /\ cold = [k \in Key |-> {}]
    /\ pc = "idle"
    /\ cutoff = 0
    /\ cursor = NoCursor
    /\ toArchive = {}
    /\ pending = {}
    /\ failed = {}
    /\ faults = 0
    /\ ingested = {}
    /\ arrived = {}
    /\ missed = {}
-----------------------------------------------------------------------------
(***************************************************************************)
(* The environment: clock, HTTP ingest, faults.                            *)
(***************************************************************************)
Tick ==
    /\ now < MaxTime
    /\ now' = now + 1
    /\ UNCHANGED <<hot, cold, cycleVars, faults, ingested, arrived, missed>>

\* One row inserted by SqliteHotStore::ingest.  The timestamp is the
\* emitter's: backdated and future ones are accepted.  A batch of n is n such
\* steps; a row whose insert fails is counted as rejected and changes nothing.
Ingest(e) ==
    /\ \A f \in ingested : f.id # e.id
    /\ hot' = hot \cup {e}
    /\ ingested' = ingested \cup {e}
    /\ arrived' = IF pc = "idle" THEN {} ELSE arrived \cup {e}
    /\ UNCHANGED <<now, cold, cycleVars, faults, missed>>

Fault ==
    /\ faults < MaxFaults
    /\ faults' = faults + 1
-----------------------------------------------------------------------------
(***************************************************************************)
(* rotate_once.                                                            *)
(***************************************************************************)
EndCycle_KeepsFailed ==
    /\ pc' = "idle"
    /\ cutoff' = 0
    /\ cursor' = NoCursor
    /\ UNCHANGED failed
    /\ toArchive' = {}
    /\ pending' = {}
    /\ arrived' = {}

EndCycle_KeepsCursor ==
    /\ pc' = "idle"
    /\ cutoff' = 0
    /\ UNCHANGED cursor
    /\ toArchive' = {}
    /\ pending' = {}
    /\ failed' = {}
    /\ arrived' = {}

\* the end of a cycle drops every local variable of rotate_once
EndCycle ==
    /\ pc' = "idle"
    /\ cutoff' = 0
    /\ cursor' = NoCursor
    /\ toArchive' = {}
    /\ pending' = {}
    /\ failed' = {}
    /\ arrived' = {}

StartCycle ==
    /\ pc = "idle"
    /\ pc' = "reading"
    /\ cutoff' = now - Window
    /\ UNCHANGED <<now, hot, cold, cursor, toArchive, pending, failed,
                   faults, ingested, arrived, missed>>

\* rows WHERE ts <= until AND ts < cursor (apply_where and the cursor clause)
Matching(until, before) == {e \in hot : e.ts <= until /\ e.ts < before}

Pages_Ascending(S, n) ==
    {P \in SUBSET S :
        /\ \A e \in P : \A f \in S \ P : e.ts <= f.ts
        /\ \/ P = S /\ Cardinality(P) < n
           \/ Cardinality(P) = n}

\* ORDER BY ts DESC LIMIT n over the rows S.  Which of several rows of one
\* timestamp come first is SQLite's choice.
Pages(S, n) ==
    {P \in SUBSET S :
        /\ \A e \in P : \A f \in S \ P : e.ts >= f.ts
        /\ \/ P = S /\ Cardinality(P) < n
           \/ Cardinality(P) = n}

\* the last row of a page; its timestamp is the page's next_cursor
IsLast(e, P) == e \in P /\ \A f \in P : e.ts <= f.ts

\* One turn of read_events_until's loop.  A full page sets the cursor and
\* loops; a short one (or an empty one) ends the reading, and rotate_once
\* either returns, having read nothing, or groups what it read.
ReadPage ==
    /\ pc = "reading"
    /\ \E page \in Pages(Matching(cutoff, cursor), PageLimit(BatchSize)) :
          LET read == toArchive \cup page IN
          \/ /\ Cardinality(page) = PageLimit(BatchSize)
             /\ toArchive' = read
             /\ \E last \in page : IsLast(last, page) /\ cursor' = last.ts
             /\ UNCHANGED <<pc, cutoff, pending, failed, arrived>>
          \/ /\ Cardinality(page) # PageLimit(BatchSize)
             /\ read = {}
             /\ EndCycle
          \/ /\ Cardinality(page) # PageLimit(BatchSize)
             /\ read # {}
             /\ pc' = "writing"
             /\ toArchive' = read
             /\ cursor' = NoCursor
             /\ pending' = {build_key(e) : e \in read}
             /\ UNCHANGED <<cutoff, failed, arrived>>
    /\ UNCHANGED <<now, hot, cold, faults, ingested, missed>>

Group_BySource(k) == {e \in toArchive : e.source = k[1]}

\* group_by_hour: the events of this cycle that go to object k
Group(k) == {e \in toArchive : build_key(e) = k}

\* write_batch succeeds: put_object replaces the object at k.  The groups are
\* a HashMap, so any pending one may be next.
WriteGroup(k) ==
    /\ pc = "writing"
    /\ k \in pending
    /\ cold' = [cold EXCEPT ![k] = Group(k)]
    /\ pending' = pending \ {k}
    /\ UNCHANGED <<now, hot, pc, cutoff, cursor, toArchive, failed, faults,
                   ingested, arrived, missed>>

\* write_batch returns an error: the loop notes it and goes on.  S3 may have
\* stored the object all the same (a response lost after the PUT).
WriteGroupFails(k) ==
    /\ pc = "writing"
    /\ k \in pending
    /\ Fault
    /\ cold' \in {cold, [cold EXCEPT ![k] = Group(k)]}
    /\ pending' = pending \ {k}
    /\ failed' = failed \cup {k}
    /\ UNCHANGED <<now, hot, pc, cutoff, cursor, toArchive, ingested,
                   arrived, missed>>

\* `archived`: the events of the groups written without an error
Archived == {e \in toArchive : build_key(e) \notin pending \cup failed}

AllWritten_Any == Archived # {}

\* failed_groups == 0 && archived == total
AllWritten == failed = {} /\ Archived = toArchive

Kept_WholeHours == {e \in hot : e.ts >= truncate_to_hour(cutoff) * HourLen}

Kept_Inclusive == {e \in hot : e.ts > cutoff}

\* what DELETE WHERE ts < before leaves
Kept == {e \in hot : e.ts >= cutoff}

\* drain_older_than(cutoff), the last await of a cycle without failed groups
Drain ==
    /\ pc = "writing"
    /\ pending = {}
    /\ AllWritten
    /\ hot' = Kept
    /\ missed' = missed \cup ((hot \ Kept) \ toArchive)
    /\ EndCycle
    /\ UNCHANGED <<now, cold, faults, ingested>>

\* a cycle with a failed group leaves hot alone
SkipDrain ==
    /\ pc = "writing"
    /\ pending = {}
    /\ ~AllWritten
    /\ EndCycle
    /\ UNCHANGED <<now, hot, cold, faults, ingested, missed>>

\* hot.query or hot.drain_older_than returns an error (`?` leaves the cycle),
\* or the process dies and restarts: the SQLite file and S3 survive, the
\* cycle does not.
AbortCycle ==
    /\ pc # "idle"
    /\ Fault
    /\ EndCycle
    /\ UNCHANGED <<now, hot, cold, ingested, missed>>

Rotate ==
    \/ StartCycle
    \/ ReadPage
    \/ \E k \in Key : WriteGroup(k)
    \/ Drain
    \/ SkipDrain

Faulty == AbortCycle \/ \E k \in Key : WriteGroupFails(k)

Next ==
    \/ Tick
    \/ \E e \in Event : Ingest(e)
    \/ Rotate
    \/ Faulty

Spec == Init /\ [][Next]_vars

\* The interval loop never stops while the process lives: it logs an error
\* and awaits the next tick.
FairSpec == Spec /\ WF_vars(Rotate)

\* the events some object in S3 holds
InCold == UNION {cold[k] : k \in Key}
-----------------------------------------------------------------------------
(***************************************************************************)
(* What rotation promises, whatever timestamps emitters send.              *)
(***************************************************************************)
\* Retention: every event accepted with a timestamp inside the retention
\* window is still in the hot tier, however many cycles, failed cycles and
\* restarts came since.
RetentionPromise ==
    \A e \in ingested : e.ts >= now - Window => e \in hot

\* Delete on success: an event leaves the hot tier only when its hour's
\* object holds it, or when the cycle never read it (a row in `missed`).  A
\* failed group, of this or of an earlier cycle, never costs an event.
DrainOnlyArchived ==
    [][\A e \in hot \ hot' : e \in cold[build_key(e)] \cup missed']_vars

\* What a cycle can fail to read: once reading is over, a row up to the cutoff
\* that was not read either arrived while the cycle ran (the race window of
\* the module's header) or has the timestamp of a row that was read (two rows
\* of one timestamp across a page boundary).
UnreadExplained ==
    pc = "writing" =>
        \A e \in hot \ toArchive :
            e.ts <= cutoff =>
                e \in arrived \/ \E f \in toArchive : f.ts = e.ts

\* An object holds only accepted events of its own source and hour, all
\* of them past the retention window: no mixing of groups, nothing archived
\* early.
ColdWellPlaced ==
    \A k \in Key : \A e \in cold[k] :
        /\ build_key(e) = k
        /\ e \in ingested
        /\ e.ts <= now - Window

\* The strengthening that makes the invariants above inductive.  A running
\* cycle's cutoff is never ahead of the retention window.
CutoffInPast == pc # "idle" => cutoff <= now - Window

\* What a cycle has read is still in hot, and under its cutoff.
ReadFromHot ==
    /\ hot \subseteq ingested
    /\ toArchive \subseteq hot
    /\ \A e \in toArchive : pc # "idle" /\ e.ts <= cutoff

\* While reading, the rows between the cursor and the cutoff are read, but
\* for arrivals and ties; a cycle starts without a cursor.
Frontier ==
    /\ pc = "idle" => cursor = NoCursor
    /\ pc = "reading" =>
           \A e \in hot \ toArchive :
               e.ts <= cutoff /\ e.ts >= cursor =>
                   e \in arrived \/ \E f \in toArchive : f.ts = e.ts

\* While writing, an event read is in its object unless its group has yet to
\* be written or failed.
ReadIsWritten ==
    pc = "writing" =>
        \A e \in toArchive :
            \/ build_key(e) \in pending \cup failed
            \/ e \in cold[build_key(e)]

\* The inductive invariant of rotation: what a cycle holds in memory agrees
\* with both tiers at every await of rotate_once.
RotationInv ==
    /\ CutoffInPast
    /\ ReadFromHot
    /\ Frontier
    /\ ReadIsWritten
    /\ UnreadExplained
    /\ RetentionPromise
    /\ ColdWellPlaced

\* A retry cannot be starved: an event past the retention window is
\* eventually gone from hot, once the faults are over.
OldEventsLeaveHot ==
    \A i \in Id :
        (\E e \in hot : e.id = i /\ e.ts < now - Window)
            ~> (\A e \in hot : e.id # i)

\* And it does not just vanish: S3 holds it at some time, unless the drain took
\* it as one of the rows its cycle had not read.
OldEventsReachCold ==
    \A i \in Id :
        (\E e \in hot : e.id = i /\ e.ts < now - Window)
            ~> (\E e \in InCold \cup missed : e.id = i)
=============================================================================
