--------------------------- MODULE SteadyRotation ---------------------------
(***************************************************************************)
(* Rotation under workloads its authors describe, storage faults and       *)
(* crashes included.  Prompt: every event reaches the server inside the    *)
(* retention window (48 hours by default), which the header of rotation.rs *)
(* calls near certain.  Steady: timestamps are unique as well.             *)
(*                                                                         *)
(* Some sources may be Nightly: a nightly job, which logs at most once     *)
(* within any one hour.  The authors do not state this restriction; without *)
(* it an hour is archived in two parts and the second PUT replaces the     *)
(* first.  The other sources log as often as they like.                    *)
(***************************************************************************)
EXTENDS Rotation

CONSTANT Nightly    \* the sources that log at most once an hour

ASSUME NightlyAssumption == Nightly \subseteq Source

\* an emitter whose events arrive inside the retention window
Prompt(e) == e.ts > now - Window

\* no two events of one timestamp
Unique(e) == \A f \in ingested : f.ts # e.ts

\* no second event of one nightly source and hour
Sparse(e) == e.source \in Nightly => \A f \in ingested : build_key(f) # build_key(e)

SteadyNext ==
    \/ Tick
    \/ \E e \in Event : Prompt(e) /\ Unique(e) /\ Sparse(e) /\ Ingest(e)
    \/ Rotate
    \/ Faulty

SteadySpec == Init /\ [][SteadyNext]_vars
-----------------------------------------------------------------------------
\* The hot tier is a suffix in time: an event that has left it is older than
\* every event still there, and past the retention window.
HotIsSuffix ==
    \A e \in ingested \ hot :
        /\ e.ts < now - Window
        /\ \A f \in hot : e.ts < f.ts

\* A cycle reads everything it deletes, whatever the page size and whatever
\* arrives meanwhile: rotation.rs:157 drops what the drain returns "since we
\* already have the events in `to_archive`".  Unique timestamps are needed.
NothingMissed == missed = {}

\* Which events are lost, exactly: the earlier part of an hour archived in
\* two parts.  An event in neither tier has an object for its hour, and every
\* event of that object is later than it.
LostToLaterPart ==
    \A e \in ingested \ (hot \cup InCold) :
        /\ cold[build_key(e)] # {}
        /\ \A f \in cold[build_key(e)] : e.ts < f.ts

\* A retry after a failed or interrupted cycle replaces an object only by one
\* that still holds every event of it that is in hot: "re-writing replaces it
\* cleanly" (STORAGE.md) is true of retries.
RetryKeepsCopies ==
    [][\A k \in Key : \A e \in cold[k] \ cold'[k] : e \notin hot]_vars

\* The strengthening of the invariants above.
UniqueStamps == \A e, f \in ingested : e.ts = f.ts => e = f

\* what arrives during a cycle is above its cutoff
ArrivalsAreLate ==
    /\ pc = "idle" => arrived = {}
    /\ pc # "idle" => \A e \in arrived : e.ts > cutoff

\* what S3 holds is not above the cutoff of a running cycle
ColdUpToCutoff == pc # "idle" => \A e \in InCold : e.ts <= cutoff

\* write_batch is never called with no events
GroupsHaveEvents == pending \subseteq {build_key(e) : e \in toArchive}

\* The inductive invariant of rotation under the Steady workload: the hot
\* tier is a suffix, the cycle's reading is complete below its cutoff, and
\* only earlier parts of split hours are lost.
SteadyInv ==
    /\ UniqueStamps
    /\ ArrivalsAreLate
    /\ ColdUpToCutoff
    /\ GroupsHaveEvents
    /\ HotIsSuffix
    /\ NothingMissed
    /\ LostToLaterPart

\* Exact hand-over: between cycles of a run without faults, an event is in
\* both tiers only if it is the oldest of the hot tier (its timestamp was the
\* cutoff: the read includes it, the delete does not).
OverlapIsBoundary ==
    pc = "idle" /\ faults = 0 =>
        \A e \in hot \cap InCold : \A f \in hot : e.ts <= f.ts

\* Nothing a nightly source logs is ever lost, however many cycles fail, are
\* interrupted and retried, and whatever busier sources log beside it: hot and
\* cold together implement the log that only grows.
Durable == INSTANCE DurableLog
    WITH stored <- {e \in hot \cup InCold : e.source \in Nightly}
DurableSpec == Durable!Spec

\* README.md:134, "Cold --> [*]: archived (forever)", and STORAGE.md:229,
\* "re-writing replaces it cleanly": no accepted event ever leaves both tiers.
NothingLost == ingested \subseteq hot \cup InCold
=============================================================================
