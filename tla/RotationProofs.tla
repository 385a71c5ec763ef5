--------------------------- MODULE RotationProofs ---------------------------
(***************************************************************************)
(* Proofs about Rotation, for every number of events and sources, every    *)
(* clock bound, hour length, retention, batch size and number of faults,   *)
(* and then about rotation under the Steady workload.                      *)
(***************************************************************************)
EXTENDS SteadyRotation, TLAPS

(* The retention window is a number of ticks. *)
LEMMA WindowInt == Window \in Int
BY ConstantsAssumption DEF Window

(* Every event has an object key. *)
LEMMA KeyOfEvent ==
    ASSUME NEW e \in Event
    PROVE  build_key(e) \in Key
BY DEF Event, Key, Hour, build_key

(* A timestamp is smaller than the absent cursor. *)
LEMMA StampBelowNoCursor ==
    ASSUME NEW e \in Event
    PROVE  e.ts \in Time /\ e.ts \in Int /\ e.ts < NoCursor /\ NoCursor \in Nat
BY ConstantsAssumption DEF Event, Time, NoCursor

(* A page is part of the rows it is taken from; a page of fewer than n rows *)
(* is all of them, and no row left out of a page is newer than one in it.   *)
LEMMA PageFacts ==
    ASSUME NEW S, NEW n, NEW P \in Pages(S, n)
    PROVE  /\ P \subseteq S
           /\ Cardinality(P) # n => P = S
           /\ \A e \in P : \A f \in S \ P : e.ts >= f.ts
BY DEF Pages

-----------------------------------------------------------------------------
(* Init and every action keep the types. *)
LEMMA TypeInit == Init => TypeOK
BY ConstantsAssumption DEF Init, TypeOK, Time, NoCursor

(* The end of a cycle gives its variables values of their types. *)
LEMMA TypeEndCycle ==
    ASSUME EndCycle, TypeOK
    PROVE  /\ pc' \in {"idle", "reading", "writing"}
           /\ cutoff' \in Int
           /\ cursor' \in 0 .. NoCursor
           /\ toArchive' \subseteq Event
           /\ pending' \subseteq Key
           /\ failed' \subseteq Key
           /\ arrived' \subseteq Event
BY ConstantsAssumption DEF EndCycle, TypeOK, NoCursor

(* Every step of rotation and of its environment keeps the types. *)
LEMMA TypeStep ==
    ASSUME TypeOK, [Next]_vars
    PROVE  TypeOK'
<1>1. CASE Tick
  BY <1>1, ConstantsAssumption DEF Tick, TypeOK, Time, cycleVars
<1>2. ASSUME NEW e \in Event, Ingest(e) PROVE TypeOK'
  BY <1>2 DEF Ingest, TypeOK, cycleVars
<1>3. CASE StartCycle
  BY <1>3, WindowInt DEF StartCycle, TypeOK, Time
<1>4. CASE ReadPage
  <2>1. PICK page \in Pages(Matching(cutoff, cursor), PageLimit(BatchSize)) :
           LET read == toArchive \cup page IN
           \/ /\ Cardinality(page) = PageLimit(BatchSize)
              /\ toArchive' = read
              /\ \E last \in page : IsLast(last, page) /\ cursor' = last.ts
              /\ UNCHANGED <<pc, cutoff, pending, failed, arrived>>
           \/ /\ Cardinality(page) # PageLimit(BatchSize)
              /\ read = {}
              /\ EndCycle
           \/ /\ Cardinality(page) # PageLimit(BatchSize)
              /\ read # {}
              /\ pc' = "writing"
              /\ toArchive' = read
              /\ cursor' = NoCursor
              /\ pending' = {build_key(e) : e \in read}
              /\ UNCHANGED <<cutoff, failed, arrived>>
    BY <1>4 DEF ReadPage
  <2>2. page \subseteq Event
    BY PageFacts DEF Matching, TypeOK
  <2>3. now' \in Time /\ hot' \subseteq Event /\ cold' \in [Key -> SUBSET Event]
        /\ faults' \in 0 .. MaxFaults /\ ingested' \subseteq Event
        /\ missed' \subseteq Event
    BY <1>4 DEF ReadPage, TypeOK
  <2>4. CASE /\ toArchive' = toArchive \cup page
             /\ \E last \in page : IsLast(last, page) /\ cursor' = last.ts
             /\ UNCHANGED <<pc, cutoff, pending, failed, arrived>>
    <3>1. cursor' \in 0 .. NoCursor
      BY <2>2, <2>4, StampBelowNoCursor DEF Time
    <3> QED
      BY <2>2, <2>3, <2>4, <3>1 DEF TypeOK
  <2>5. CASE EndCycle
    BY <2>3, <2>5, TypeEndCycle DEF TypeOK
  <2>6. CASE /\ pc' = "writing"
             /\ toArchive' = toArchive \cup page
             /\ cursor' = NoCursor
             /\ pending' = {build_key(e) : e \in toArchive \cup page}
             /\ UNCHANGED <<cutoff, failed, arrived>>
    <3>1. toArchive \cup page \subseteq Event
      BY <2>2 DEF TypeOK
    <3>2. pending' \subseteq Key
      BY <2>6, <3>1, KeyOfEvent
    <3>3. cursor' \in 0 .. NoCursor
      BY <2>6, ConstantsAssumption DEF NoCursor
    <3> QED
      BY <2>3, <2>6, <3>1, <3>2, <3>3 DEF TypeOK
  <2> QED
    BY <2>1, <2>4, <2>5, <2>6
<1>5. ASSUME NEW k \in Key, WriteGroup(k) PROVE TypeOK'
  <2>1. Group(k) \subseteq Event
    BY DEF Group, TypeOK
  <2> QED
    BY <1>5, <2>1 DEF WriteGroup, TypeOK
<1>6. CASE Drain
  <2>1. Kept \subseteq Event
    BY DEF Kept, TypeOK
  <2> QED
    BY <1>6, <2>1, TypeEndCycle DEF Drain, TypeOK
<1>7. CASE SkipDrain
  BY <1>7, TypeEndCycle DEF SkipDrain, TypeOK
<1>8. ASSUME NEW k \in Key, WriteGroupFails(k) PROVE TypeOK'
  <2>1. Group(k) \subseteq Event
    BY DEF Group, TypeOK
  <2>2. cold' \in [Key -> SUBSET Event]
    BY <1>8, <2>1 DEF WriteGroupFails, TypeOK
  <2>3. faults' \in 0 .. MaxFaults
    BY <1>8, ConstantsAssumption DEF WriteGroupFails, Fault, TypeOK
  <2> QED
    BY <1>8, <2>2, <2>3 DEF WriteGroupFails, TypeOK
<1>9. CASE AbortCycle
  <2>1. faults' \in 0 .. MaxFaults
    BY <1>9, ConstantsAssumption DEF AbortCycle, Fault, TypeOK
  <2> QED
    BY <1>9, <2>1, TypeEndCycle DEF AbortCycle, TypeOK
<1>10. CASE UNCHANGED vars
  BY <1>10 DEF vars, cycleVars, TypeOK
<1> QED
  BY <1>1, <1>2, <1>3, <1>4, <1>5, <1>6, <1>7, <1>8, <1>9, <1>10
  DEF Next, Rotate, Faulty

(* Type correctness of the rotation task and of the two tiers it works on. *)
THEOREM TypeCorrect == Spec => []TypeOK
<1>1. TypeOK /\ [Next]_vars => TypeOK'
  BY TypeStep
<1> QED
  BY TypeInit, <1>1, PTL DEF Spec
-----------------------------------------------------------------------------
(***************************************************************************)
(* The inductive invariant RotationInv, one lemma per action.              *)
(***************************************************************************)
(* Initially there are no events and no cycle. *)
LEMMA InvInit == Init => RotationInv
BY DEF Init, RotationInv, CutoffInPast, ReadFromHot, Frontier, ReadIsWritten,
       UnreadExplained, RetentionPromise, ColdWellPlaced

(* A step that leaves the stores alone and ends the cycle keeps the         *)
(* invariant: nothing is said of a cycle that is over.                      *)
LEMMA InvEndCycle ==
    ASSUME TypeOK, RotationInv, EndCycle, UNCHANGED <<now, hot, cold, ingested>>
    PROVE  RotationInv'
<1>1. CutoffInPast' /\ ReadFromHot' /\ Frontier' /\ ReadIsWritten' /\ UnreadExplained'
  BY DEF EndCycle, RotationInv, CutoffInPast, ReadFromHot, Frontier,
         ReadIsWritten, UnreadExplained
<1>2. RetentionPromise' /\ ColdWellPlaced'
  BY DEF RotationInv, RetentionPromise, ColdWellPlaced
<1> QED
  BY <1>1, <1>2 DEF RotationInv

(* Time passing moves the retention window away from a running cycle's cutoff. *)
LEMMA InvTick ==
    ASSUME TypeOK, RotationInv, Tick
    PROVE  RotationInv'
<1>1. now \in Int /\ now' = now + 1 /\ UNCHANGED <<hot, cold, ingested>>
  BY DEF Tick, TypeOK, Time
<1>2. UNCHANGED <<pc, cutoff, cursor, toArchive, pending, failed, arrived>>
  BY DEF Tick, cycleVars
<1>3. CutoffInPast'
  BY <1>1, <1>2, WindowInt DEF RotationInv, CutoffInPast, TypeOK
<1>4. ReadFromHot' /\ Frontier' /\ ReadIsWritten' /\ UnreadExplained'
  BY <1>1, <1>2 DEF RotationInv, ReadFromHot, Frontier, ReadIsWritten, UnreadExplained
<1>5. RetentionPromise'
  <2> SUFFICES ASSUME NEW e \in ingested, e.ts >= now' - Window
               PROVE  e \in hot
    BY <1>1 DEF RetentionPromise
  <2>1. e \in Event
    BY DEF TypeOK
  <2>2. e.ts >= now - Window
    BY <1>1, <2>1, WindowInt, StampBelowNoCursor
  <2> QED
    BY <2>2 DEF RotationInv, RetentionPromise
<1>6. ColdWellPlaced'
  <2> SUFFICES ASSUME NEW k \in Key, NEW e \in cold[k]
               PROVE  /\ build_key(e) = k
                      /\ e \in ingested
                      /\ e.ts <= now' - Window
    BY <1>1 DEF ColdWellPlaced
  <2>1. build_key(e) = k /\ e \in ingested /\ e.ts <= now - Window
    BY DEF RotationInv, ColdWellPlaced
  <2>2. e \in Event
    BY <2>1 DEF TypeOK
  <2> QED
    BY <1>1, <2>1, <2>2, WindowInt, StampBelowNoCursor
<1> QED
  BY <1>3, <1>4, <1>5, <1>6 DEF RotationInv

(* An accepted event counts as arrived if a cycle is running. *)
LEMMA InvIngest ==
    ASSUME TypeOK, RotationInv, NEW e \in Event, Ingest(e)
    PROVE  RotationInv'
<1>1. /\ hot' = hot \cup {e}
      /\ ingested' = ingested \cup {e}
      /\ arrived' = IF pc = "idle" THEN {} ELSE arrived \cup {e}
      /\ UNCHANGED <<now, cold, pc, cutoff, cursor, toArchive, pending, failed>>
  BY DEF Ingest, cycleVars
<1>2. CutoffInPast' /\ ReadFromHot' /\ ReadIsWritten'
  BY <1>1 DEF RotationInv, CutoffInPast, ReadFromHot, ReadIsWritten
<1>3. Frontier' /\ UnreadExplained'
  BY <1>1 DEF RotationInv, Frontier, UnreadExplained
<1>4. RetentionPromise' /\ ColdWellPlaced'
  BY <1>1 DEF RotationInv, RetentionPromise, ColdWellPlaced
<1> QED
  BY <1>2, <1>3, <1>4 DEF RotationInv

(* A cycle starts with its cutoff at the edge of the retention window. *)
LEMMA InvStartCycle ==
    ASSUME TypeOK, RotationInv, StartCycle
    PROVE  RotationInv'
<1>1. /\ pc = "idle" /\ pc' = "reading" /\ cutoff' = now - Window
      /\ UNCHANGED <<now, hot, cold, toArchive, ingested, arrived>>
  BY DEF StartCycle, Window
<1>2. toArchive = {}
  BY <1>1 DEF RotationInv, ReadFromHot
<1>3. CutoffInPast' /\ ReadFromHot' /\ ReadIsWritten' /\ UnreadExplained'
  BY <1>1, <1>2, WindowInt
  DEF RotationInv, CutoffInPast, ReadFromHot, ReadIsWritten, UnreadExplained, TypeOK, Time
<1>4. Frontier'
  <2>1. cursor' = NoCursor
    BY DEF StartCycle, RotationInv, Frontier
  <2>2. \A e \in hot : ~(e.ts >= NoCursor)
    BY StampBelowNoCursor DEF TypeOK
  <2> QED
    BY <1>1, <2>1, <2>2 DEF Frontier
<1>5. RetentionPromise' /\ ColdWellPlaced'
  BY <1>1 DEF RotationInv, RetentionPromise, ColdWellPlaced
<1> QED
  BY <1>3, <1>4, <1>5 DEF RotationInv

(* A page moves the frontier of what has been read down to its last timestamp. *)
LEMMA InvReadPage ==
    ASSUME TypeOK, RotationInv, ReadPage
    PROVE  RotationInv'
<1>1. /\ pc = "reading"
      /\ UNCHANGED <<now, hot, cold, faults, ingested, missed>>
  BY DEF ReadPage
<1>2. PICK page \in Pages(Matching(cutoff, cursor), PageLimit(BatchSize)) :
         LET read == toArchive \cup page IN
         \/ /\ Cardinality(page) = PageLimit(BatchSize)
            /\ toArchive' = read
            /\ \E last \in page : IsLast(last, page) /\ cursor' = last.ts
            /\ UNCHANGED <<pc, cutoff, pending, failed, arrived>>
         \/ /\ Cardinality(page) # PageLimit(BatchSize)
            /\ read = {}
            /\ EndCycle
         \/ /\ Cardinality(page) # PageLimit(BatchSize)
            /\ read # {}
            /\ pc' = "writing"
            /\ toArchive' = read
            /\ cursor' = NoCursor
            /\ pending' = {build_key(e) : e \in read}
            /\ UNCHANGED <<cutoff, failed, arrived>>
  BY DEF ReadPage
<1> DEFINE read == toArchive \cup page
           rows == Matching(cutoff, cursor)
<1>3. /\ page \subseteq rows
      /\ Cardinality(page) # PageLimit(BatchSize) => page = rows
      /\ \A e \in page : \A f \in rows \ page : e.ts >= f.ts
  BY PageFacts
<1>4. rows = {e \in hot : e.ts <= cutoff /\ e.ts < cursor}
  BY DEF Matching
<1> HIDE DEF rows
<1>5. hot \subseteq Event /\ cutoff \in Int /\ cursor \in Int
  BY ConstantsAssumption DEF TypeOK, NoCursor
<1>6. RetentionPromise' /\ ColdWellPlaced'
  BY <1>1 DEF RotationInv, RetentionPromise, ColdWellPlaced
<1>7. /\ read \subseteq hot
      /\ \A e \in read : e.ts <= cutoff
  BY <1>3, <1>4 DEF RotationInv, ReadFromHot
<1>8. CASE /\ toArchive' = read
           /\ \E last \in page : IsLast(last, page) /\ cursor' = last.ts
           /\ UNCHANGED <<pc, cutoff, pending, failed, arrived>>
  <2>1. PICK last \in page : IsLast(last, page) /\ cursor' = last.ts
    BY <1>8
  <2>2. CutoffInPast' /\ ReadFromHot' /\ ReadIsWritten' /\ UnreadExplained'
    BY <1>1, <1>7, <1>8
    DEF RotationInv, CutoffInPast, ReadFromHot, ReadIsWritten, UnreadExplained
  <2>3. Frontier'
    <3> SUFFICES ASSUME NEW e \in hot \ read, e.ts <= cutoff, e.ts >= last.ts
                 PROVE  e \in arrived \/ \E f \in read : f.ts = e.ts
      BY <1>1, <1>8, <2>1 DEF Frontier
    <3>1. CASE e.ts >= cursor
      BY <1>1, <3>1 DEF RotationInv, Frontier
    <3>2. CASE ~(e.ts >= cursor)
      <4>1. e \in rows \ page
        BY <1>4, <1>5, <3>2, StampBelowNoCursor
      <4>2. e.ts <= last.ts
        BY <1>3, <4>1
      <4>3. last \in Event
        BY <1>3, <1>4, <1>5
      <4>4. e.ts = last.ts
        BY <1>5, <4>2, <4>3, StampBelowNoCursor
      <4> QED
        BY <4>4
    <3> QED
      BY <3>1, <3>2
  <2> QED
    BY <1>6, <2>2, <2>3 DEF RotationInv
<1>9. CASE EndCycle
  BY <1>1, <1>9, InvEndCycle
<1>10. CASE /\ page = rows
            /\ pc' = "writing"
            /\ toArchive' = read
            /\ cursor' = NoCursor
            /\ pending' = {build_key(e) : e \in read}
            /\ UNCHANGED <<cutoff, failed, arrived>>
  <2>1. CutoffInPast' /\ ReadFromHot' /\ Frontier' /\ ReadIsWritten'
    BY <1>1, <1>7, <1>10
    DEF RotationInv, CutoffInPast, ReadFromHot, Frontier, ReadIsWritten
  <2>2. UnreadExplained'
    <3> SUFFICES ASSUME NEW e \in hot \ read, e.ts <= cutoff
                 PROVE  e \in arrived \/ \E f \in read : f.ts = e.ts
      BY <1>1, <1>10 DEF UnreadExplained
    <3>1. e.ts >= cursor
      BY <1>4, <1>5, <1>10, StampBelowNoCursor
    <3> QED
      BY <1>1, <3>1 DEF RotationInv, Frontier
  <2> QED
    BY <1>6, <2>1, <2>2 DEF RotationInv
<1> QED
  BY <1>2, <1>3, <1>8, <1>9, <1>10

(* Writing a group, whatever the answer: S3 holds the group's object or what *)
(* it held before, and the group is no longer pending.                       *)
LEMMA InvPut ==
    ASSUME TypeOK, RotationInv, NEW k \in Key, pc = "writing",
           \/ cold' = [cold EXCEPT ![k] = Group(k)] /\ failed' = failed
           \/ /\ cold' \in {cold, [cold EXCEPT ![k] = Group(k)]}
              /\ failed' = failed \cup {k},
           pending' = pending \ {k},
           UNCHANGED <<now, hot, pc, cutoff, cursor, toArchive, ingested, arrived>>
    PROVE  RotationInv'
<1>1. CutoffInPast' /\ ReadFromHot' /\ Frontier' /\ UnreadExplained' /\ RetentionPromise'
  BY DEF RotationInv, CutoffInPast, ReadFromHot, Frontier, UnreadExplained, RetentionPromise
<1>2. \A e \in toArchive : build_key(e) \in Key
  BY KeyOfEvent DEF TypeOK
<1>3. ReadIsWritten'
  <2> SUFFICES ASSUME NEW e \in toArchive
               PROVE  \/ build_key(e) \in pending' \cup failed'
                      \/ e \in cold'[build_key(e)]
    BY DEF ReadIsWritten
  <2>1. \/ build_key(e) \in pending \cup failed
        \/ e \in cold[build_key(e)]
    BY DEF RotationInv, ReadIsWritten
  <2>2. CASE build_key(e) = k
    <3>1. e \in Group(k)
      BY <2>2 DEF Group
    <3> QED
      BY <2>2, <3>1 DEF TypeOK
  <2>3. CASE build_key(e) # k
    BY <1>2, <2>1, <2>3 DEF TypeOK
  <2> QED
    BY <2>2, <2>3
<1>4. ColdWellPlaced'
  <2> SUFFICES ASSUME NEW j \in Key, NEW e \in cold'[j]
               PROVE  /\ build_key(e) = j
                      /\ e \in ingested
                      /\ e.ts <= now - Window
    BY DEF ColdWellPlaced
  <2>1. CASE e \in cold[j]
    BY <2>1 DEF RotationInv, ColdWellPlaced
  <2>2. CASE j = k /\ e \in Group(k)
    <3>1. e \in toArchive /\ build_key(e) = j
      BY <2>2 DEF Group
    <3>2. e \in ingested /\ e.ts <= cutoff /\ cutoff <= now - Window
      BY <3>1 DEF RotationInv, ReadFromHot, CutoffInPast
    <3>3. e \in Event /\ cutoff \in Int /\ now \in Int
      BY <3>1 DEF TypeOK, Time
    <3>4. e.ts <= now - Window
      BY <3>2, <3>3, WindowInt, StampBelowNoCursor
    <3> QED
      BY <3>1, <3>2, <3>4
  <2> QED
    BY <2>1, <2>2 DEF TypeOK
<1> QED
  BY <1>1, <1>3, <1>4 DEF RotationInv

(* A drain deletes rows below the cutoff, which are past the window. *)
LEMMA InvDrain ==
    ASSUME TypeOK, RotationInv, Drain
    PROVE  RotationInv'
<1>1. pc = "writing" /\ hot' = Kept /\ EndCycle /\ UNCHANGED <<now, cold, ingested>>
  BY DEF Drain
<1>2. CutoffInPast' /\ ReadFromHot' /\ Frontier' /\ ReadIsWritten' /\ UnreadExplained'
  BY <1>1 DEF EndCycle, Kept, RotationInv, CutoffInPast, ReadFromHot, Frontier,
              ReadIsWritten, UnreadExplained
<1>3. RetentionPromise'
  <2> SUFFICES ASSUME NEW e \in ingested, e.ts >= now - Window
               PROVE  e \in Kept
    BY <1>1 DEF RetentionPromise
  <2>1. e \in hot /\ cutoff <= now - Window
    BY <1>1 DEF RotationInv, RetentionPromise, CutoffInPast
  <2>2. e \in Event /\ cutoff \in Int /\ now \in Int
    BY DEF TypeOK, Time
  <2>3. e.ts >= cutoff
    BY <2>1, <2>2, WindowInt, StampBelowNoCursor
  <2> QED
    BY <2>1, <2>3 DEF Kept
<1>4. ColdWellPlaced'
  BY <1>1 DEF RotationInv, ColdWellPlaced
<1> QED
  BY <1>2, <1>3, <1>4 DEF RotationInv

(* Every step of rotation and of its environment keeps the invariant. *)
LEMMA InvStep ==
    ASSUME TypeOK, RotationInv, [Next]_vars
    PROVE  RotationInv'
<1>1. CASE Tick
  BY <1>1, InvTick
<1>2. ASSUME NEW e \in Event, Ingest(e) PROVE RotationInv'
  BY <1>2, InvIngest
<1>3. CASE StartCycle
  BY <1>3, InvStartCycle
<1>4. CASE ReadPage
  BY <1>4, InvReadPage
<1>5. ASSUME NEW k \in Key, WriteGroup(k) PROVE RotationInv'
  BY <1>5, InvPut DEF WriteGroup
<1>6. CASE Drain
  BY <1>6, InvDrain
<1>7. CASE SkipDrain
  BY <1>7, InvEndCycle DEF SkipDrain
<1>8. ASSUME NEW k \in Key, WriteGroupFails(k) PROVE RotationInv'
  BY <1>8, InvPut DEF WriteGroupFails
<1>9. CASE AbortCycle
  BY <1>9, InvEndCycle DEF AbortCycle
<1>10. CASE UNCHANGED vars
  BY <1>10 DEF vars, cycleVars, RotationInv, CutoffInPast, ReadFromHot, Frontier,
               ReadIsWritten, UnreadExplained, RetentionPromise, ColdWellPlaced
<1> QED
  BY <1>1, <1>2, <1>3, <1>4, <1>5, <1>6, <1>7, <1>8, <1>9, <1>10
  DEF Next, Rotate, Faulty

(* What a cycle holds in memory agrees with both tiers at every await. *)
THEOREM Invariance == Spec => []RotationInv
<1>1. TypeOK /\ RotationInv /\ [Next]_vars => RotationInv'
  BY InvStep
<1> QED
  BY InvInit, TypeCorrect, <1>1, PTL DEF Spec

(* Every event accepted with a timestamp inside the retention window is in  *)
(* the hot tier: rotation, failures and restarts never take it early.       *)
THEOREM Retained == Spec => []RetentionPromise
<1>1. RotationInv => RetentionPromise
  BY DEF RotationInv
<1> QED
  BY Invariance, <1>1, PTL

(* What a cycle has not read below its cutoff arrived during the cycle or   *)
(* shares its timestamp with a row that was read, for every page size.      *)
THEOREM ReadComplete == Spec => []UnreadExplained
<1>1. RotationInv => UnreadExplained
  BY DEF RotationInv
<1> QED
  BY Invariance, <1>1, PTL

(* An S3 object holds accepted events of its own source and hour, past the  *)
(* retention window.                                                        *)
THEOREM Placed == Spec => []ColdWellPlaced
<1>1. RotationInv => ColdWellPlaced
  BY DEF RotationInv
<1> QED
  BY Invariance, <1>1, PTL

(* Delete on success: an event leaves the hot tier only when S3 holds it or *)
(* when the deleting cycle never read it.                                   *)
THEOREM DeleteOnSuccess == Spec => DrainOnlyArchived
<1> DEFINE Safe == \A e \in hot \ hot' : e \in cold[build_key(e)] \cup missed'
<1>1. TypeOK /\ RotationInv /\ [Next]_vars => [Safe]_vars
  <2> SUFFICES ASSUME TypeOK, RotationInv, Next
               PROVE  Safe
    OBVIOUS
  <2>1. CASE Drain
    <3> SUFFICES ASSUME NEW e \in hot \ Kept, e \notin missed'
                 PROVE  e \in cold[build_key(e)]
      BY <2>1 DEF Drain
    <3>1. e \in toArchive
      BY <2>1 DEF Drain
    <3>2. pc = "writing" /\ pending = {} /\ failed = {}
      BY <2>1 DEF Drain, AllWritten
    <3> QED
      BY <3>1, <3>2 DEF RotationInv, ReadIsWritten
  <2>2. CASE ~Drain
    <3>1. hot \subseteq hot'
      BY <2>2 DEF Next, Rotate, Faulty, Tick, Ingest, StartCycle, ReadPage, WriteGroup,
                  SkipDrain, WriteGroupFails, AbortCycle
    <3> QED
      BY <3>1
  <2> QED
    BY <2>1, <2>2
<1> QED
  BY TypeCorrect, Invariance, <1>1, PTL DEF Spec, DrainOnlyArchived
-----------------------------------------------------------------------------
(***************************************************************************)
(* The Steady workload, on top of what holds of every one.                 *)
(***************************************************************************)
(* The Steady workload restricts Rotation's steps. *)
LEMMA SteadyIsNext == SteadyNext => Next
BY DEF SteadyNext, Next

(* The invariants of Rotation hold under the Steady workload. *)
LEMMA SteadyIsRotation == SteadySpec => [](TypeOK /\ RotationInv)
<1>1. [SteadyNext]_vars => [Next]_vars
  BY SteadyIsNext
<1>2. SteadySpec => Spec
  BY <1>1, PTL DEF SteadySpec, Spec
<1> QED
  BY <1>2, TypeCorrect, Invariance, PTL

(* An event is in S3 exactly when the object of its hour holds it. *)
LEMMA InColdAtKey ==
    ASSUME TypeOK, RotationInv, NEW e \in Event
    PROVE  e \in InCold <=> e \in cold[build_key(e)]
<1>1. build_key(e) \in Key
  BY KeyOfEvent
<1>2. ASSUME NEW k \in Key, e \in cold[k] PROVE build_key(e) = k
  BY <1>2 DEF RotationInv, ColdWellPlaced
<1> QED
  BY <1>1, <1>2 DEF InCold

(* Once reading is over, every row of hot up to the cutoff has been read. *)
LEMMA ReadAll ==
    ASSUME TypeOK, RotationInv, SteadyInv, pc = "writing",
           NEW e \in hot, e.ts <= cutoff
    PROVE  e \in toArchive
<1> SUFFICES ASSUME e \notin toArchive
             PROVE  FALSE
  OBVIOUS
<1>1. e \in arrived \/ \E f \in toArchive : f.ts = e.ts
  BY DEF RotationInv, UnreadExplained
<1>2. CASE e \in arrived
  <2>1. e.ts > cutoff
    BY <1>2 DEF SteadyInv, ArrivalsAreLate
  <2>2. e.ts \in Int /\ cutoff \in Int
    BY StampBelowNoCursor DEF TypeOK
  <2> QED
    BY <2>1, <2>2
<1>3. CASE \E f \in toArchive : f.ts = e.ts
  BY <1>3 DEF RotationInv, ReadFromHot, SteadyInv, UniqueStamps
<1> QED
  BY <1>1, <1>2, <1>3

(* A PUT replaces an object by one that holds every event of it that is     *)
(* still in hot.                                                            *)
LEMMA PutKeepsHot ==
    ASSUME TypeOK, RotationInv, SteadyInv, pc = "writing",
           NEW k \in Key, NEW e \in cold[k], e \in hot
    PROVE  e \in Group(k)
<1>1. e \in InCold
  BY DEF InCold
<1>2. e.ts <= cutoff
  BY <1>1 DEF SteadyInv, ColdUpToCutoff
<1>3. e \in toArchive
  BY <1>2, ReadAll
<1>4. build_key(e) = k
  BY DEF RotationInv, ColdWellPlaced
<1> QED
  BY <1>3, <1>4 DEF Group

(* The group of a pending key has events, all of them still in hot. *)
LEMMA GroupFacts ==
    ASSUME TypeOK, RotationInv, SteadyInv, NEW k \in pending
    PROVE  Group(k) # {} /\ Group(k) \subseteq hot
BY DEF SteadyInv, GroupsHaveEvents, Group, RotationInv, ReadFromHot

-----------------------------------------------------------------------------
(* Initially there are no events and no cycle. *)
LEMMA SteadyInit == Init => SteadyInv
BY DEF Init, SteadyInv, UniqueStamps, ArrivalsAreLate, ColdUpToCutoff, GroupsHaveEvents,
       HotIsSuffix, NothingMissed, LostToLaterPart

(* Steps that leave the tiers and the clock alone. *)
LEMMA SteadyTiersUnchanged ==
    ASSUME SteadyInv, UNCHANGED <<now, hot, cold, ingested, missed>>
    PROVE  UniqueStamps' /\ HotIsSuffix' /\ NothingMissed' /\ LostToLaterPart'
BY DEF SteadyInv, UniqueStamps, HotIsSuffix, NothingMissed, LostToLaterPart, InCold

(* The end of a cycle leaves nothing to say of it. *)
LEMMA SteadyEndCycle ==
    ASSUME EndCycle
    PROVE  ArrivalsAreLate' /\ ColdUpToCutoff' /\ GroupsHaveEvents'
BY DEF EndCycle, ArrivalsAreLate, ColdUpToCutoff, GroupsHaveEvents

(* Time passing only moves the retention window on. *)
LEMMA SteadyTick ==
    ASSUME TypeOK, SteadyInv, Tick
    PROVE  SteadyInv'
<1>1. /\ now \in Int /\ now' = now + 1
      /\ UNCHANGED <<hot, cold, ingested, missed, arrived,
                     pc, cutoff, cursor, toArchive, pending, failed>>
  BY DEF Tick, TypeOK, Time, cycleVars
<1>2. HotIsSuffix'
  <2> SUFFICES ASSUME NEW e \in ingested \ hot
               PROVE  e.ts < now' - Window /\ \A f \in hot : e.ts < f.ts
    BY <1>1 DEF HotIsSuffix
  <2>1. e.ts < now - Window /\ \A f \in hot : e.ts < f.ts
    BY DEF SteadyInv, HotIsSuffix
  <2>2. e \in Event
    BY DEF TypeOK
  <2> QED
    BY <1>1, <2>1, <2>2, WindowInt, StampBelowNoCursor
<1>3. ColdUpToCutoff' /\ LostToLaterPart'
  BY <1>1 DEF SteadyInv, ColdUpToCutoff, LostToLaterPart, InCold
<1> QED
  BY <1>1, <1>2, <1>3
  DEF SteadyInv, UniqueStamps, ArrivalsAreLate, GroupsHaveEvents, NothingMissed

(* A prompt event is above the cutoff and later than all that has left hot. *)
LEMMA SteadyIngest ==
    ASSUME TypeOK, RotationInv, SteadyInv,
           NEW e \in Event, Prompt(e), Unique(e), Ingest(e)
    PROVE  SteadyInv'
<1>1. /\ hot' = hot \cup {e}
      /\ ingested' = ingested \cup {e}
      /\ arrived' = IF pc = "idle" THEN {} ELSE arrived \cup {e}
      /\ UNCHANGED <<now, cold, pc, cutoff, cursor, toArchive, pending, failed, missed>>
  BY DEF Ingest, cycleVars
<1>2. e.ts > now - Window
  BY DEF Prompt
<1>3. now \in Int /\ cutoff \in Int /\ e.ts \in Int
  BY StampBelowNoCursor DEF TypeOK, Time
<1>4. UniqueStamps'
  BY <1>1 DEF Unique, SteadyInv, UniqueStamps
<1>5. ArrivalsAreLate'
  <2>1. pc # "idle" => e.ts > cutoff
    BY <1>2, <1>3, WindowInt DEF RotationInv, CutoffInPast
  <2> QED
    BY <1>1, <2>1 DEF SteadyInv, ArrivalsAreLate
<1>6. HotIsSuffix'
  <2> SUFFICES ASSUME NEW d \in ingested \ hot
               PROVE  /\ d.ts < now - Window
                      /\ \A f \in hot \cup {e} : d.ts < f.ts
    BY <1>1 DEF HotIsSuffix
  <2>1. d.ts < now - Window /\ \A f \in hot : d.ts < f.ts
    BY DEF SteadyInv, HotIsSuffix
  <2>2. d \in Event
    BY DEF TypeOK
  <2>3. d.ts < e.ts
    BY <1>2, <1>3, <2>1, <2>2, WindowInt, StampBelowNoCursor
  <2> QED
    BY <2>1, <2>3
<1>7. LostToLaterPart' /\ ColdUpToCutoff'
  BY <1>1 DEF SteadyInv, LostToLaterPart, ColdUpToCutoff, InCold
<1> QED
  BY <1>1, <1>4, <1>5, <1>6, <1>7 DEF SteadyInv, GroupsHaveEvents, NothingMissed

(* All that S3 holds is below the cutoff of a new cycle. *)
LEMMA SteadyStart ==
    ASSUME TypeOK, RotationInv, SteadyInv, StartCycle
    PROVE  SteadyInv'
<1>1. /\ pc = "idle" /\ cutoff' = now - Window
      /\ UNCHANGED <<now, hot, cold, ingested, missed, toArchive, pending, arrived>>
  BY DEF StartCycle, Window
<1>2. ColdUpToCutoff'
  BY <1>1 DEF RotationInv, ColdWellPlaced, ColdUpToCutoff, InCold
<1>3. arrived = {}
  BY <1>1 DEF SteadyInv, ArrivalsAreLate
<1> QED
  BY <1>1, <1>2, <1>3, SteadyTiersUnchanged DEF SteadyInv, ArrivalsAreLate, GroupsHaveEvents

(* Reading groups events that exist. *)
LEMMA SteadyReadPage ==
    ASSUME TypeOK, RotationInv, SteadyInv, ReadPage
    PROVE  SteadyInv'
<1>1. pc = "reading" /\ UNCHANGED <<now, hot, cold, ingested, missed>>
  BY DEF ReadPage
<1>2. UniqueStamps' /\ HotIsSuffix' /\ NothingMissed' /\ LostToLaterPart'
  BY <1>1, SteadyTiersUnchanged
<1>3. PICK page \in Pages(Matching(cutoff, cursor), PageLimit(BatchSize)) :
         \/ /\ toArchive' = toArchive \cup page
            /\ UNCHANGED <<pc, cutoff, pending, failed, arrived>>
         \/ EndCycle
         \/ /\ pc' = "writing"
            /\ toArchive' = toArchive \cup page
            /\ pending' = {build_key(e) : e \in toArchive \cup page}
            /\ UNCHANGED <<cutoff, failed, arrived>>
  BY DEF ReadPage
<1>4. CASE EndCycle
  BY <1>2, <1>4, SteadyEndCycle DEF SteadyInv
<1>5. CASE /\ toArchive' = toArchive \cup page
           /\ UNCHANGED <<pc, cutoff, pending, failed, arrived>>
  BY <1>1, <1>2, <1>5
  DEF SteadyInv, ArrivalsAreLate, ColdUpToCutoff, GroupsHaveEvents, InCold
<1>6. CASE /\ pc' = "writing"
           /\ toArchive' = toArchive \cup page
           /\ pending' = {build_key(e) : e \in toArchive \cup page}
           /\ UNCHANGED <<cutoff, failed, arrived>>
  BY <1>1, <1>2, <1>6
  DEF SteadyInv, ArrivalsAreLate, ColdUpToCutoff, GroupsHaveEvents, InCold
<1> QED
  BY <1>3, <1>4, <1>5, <1>6

(* The only step that can drop an event from S3: a PUT, whatever its answer. *)
(* What it drops has left hot, so everything in the new object is later.     *)
LEMMA SteadyPut ==
    ASSUME TypeOK, RotationInv, RotationInv', TypeOK', SteadyInv, pc = "writing",
           NEW k \in pending,
           cold' \in {cold, [cold EXCEPT ![k] = Group(k)]},
           pending' = pending \ {k},
           UNCHANGED <<now, hot, pc, cutoff, cursor, toArchive, ingested, arrived, missed>>
    PROVE  SteadyInv'
<1>1. k \in Key /\ Group(k) # {} /\ Group(k) \subseteq hot
  BY GroupFacts DEF TypeOK
<1>2. UniqueStamps' /\ HotIsSuffix' /\ NothingMissed' /\ ArrivalsAreLate'
  BY DEF SteadyInv, UniqueStamps, HotIsSuffix, NothingMissed, ArrivalsAreLate
<1>3. GroupsHaveEvents'
  BY DEF SteadyInv, GroupsHaveEvents
<1>4. \A j \in Key : cold'[j] = cold[j] \/ (j = k /\ cold'[j] = Group(k))
  BY <1>1 DEF TypeOK
<1>5. ColdUpToCutoff'
  <2> SUFFICES ASSUME NEW j \in Key, NEW e \in cold'[j]
               PROVE  e.ts <= cutoff
    BY DEF ColdUpToCutoff, InCold
  <2>1. CASE e \in cold[j]
    BY <2>1 DEF SteadyInv, ColdUpToCutoff, InCold
  <2>2. CASE e \in Group(k)
    BY <2>2 DEF Group, RotationInv, ReadFromHot
  <2> QED
    BY <1>4, <2>1, <2>2
<1>6. LostToLaterPart'
  <2> SUFFICES ASSUME NEW e \in ingested \ hot, e \notin InCold'
               PROVE  /\ cold'[build_key(e)] # {}
                      /\ \A f \in cold'[build_key(e)] : e.ts < f.ts
    BY DEF LostToLaterPart
  <2>1. e \in Event /\ build_key(e) \in Key
    BY KeyOfEvent DEF TypeOK
  <2>2. e \notin cold'[build_key(e)]
    BY <2>1 DEF InCold
  <2>3. CASE cold'[build_key(e)] = cold[build_key(e)]
    <3>1. e \notin InCold
      BY <2>1, <2>2, <2>3, InColdAtKey
    <3> QED
      BY <2>3, <3>1 DEF SteadyInv, LostToLaterPart
  <2>4. CASE cold'[build_key(e)] = Group(k)
    BY <1>1, <2>4 DEF SteadyInv, HotIsSuffix
  <2> QED
    BY <1>4, <2>1, <2>3, <2>4
<1> QED
  BY <1>2, <1>3, <1>5, <1>6 DEF SteadyInv

(* A drain deletes what the cycle read, and S3 holds all of that. *)
LEMMA SteadyDrain ==
    ASSUME TypeOK, RotationInv, SteadyInv, Drain
    PROVE  SteadyInv'
<1>1. /\ pc = "writing" /\ pending = {} /\ failed = {}
      /\ hot' = Kept /\ missed' = missed \cup ((hot \ Kept) \ toArchive)
      /\ EndCycle /\ UNCHANGED <<now, cold, ingested>>
  BY DEF Drain, AllWritten
<1>2. \A e \in hot : e \in Event /\ e.ts \in Int
  BY StampBelowNoCursor DEF TypeOK
<1>3. cutoff \in Int /\ now \in Int /\ cutoff <= now - Window
  BY <1>1 DEF TypeOK, Time, RotationInv, CutoffInPast
<1>4. \A e \in hot \ Kept : e.ts < cutoff /\ e \in toArchive
  <2> SUFFICES ASSUME NEW e \in hot \ Kept
               PROVE  e.ts < cutoff /\ e \in toArchive
    OBVIOUS
  <2>1. e.ts < cutoff
    BY <1>2, <1>3 DEF Kept
  <2>2. e.ts <= cutoff
    BY <1>2, <1>3, <2>1
  <2> QED
    BY <1>1, <2>1, <2>2, ReadAll
<1>5. NothingMissed'
  BY <1>1, <1>4 DEF SteadyInv, NothingMissed
<1>6. UniqueStamps'
  BY <1>1 DEF SteadyInv, UniqueStamps
<1>7. HotIsSuffix'
  <2> SUFFICES ASSUME NEW e \in ingested \ Kept
               PROVE  /\ e.ts < now - Window
                      /\ \A f \in Kept : e.ts < f.ts
    BY <1>1 DEF HotIsSuffix
  <2>1. CASE e \in hot
    <3>1. e.ts < cutoff
      BY <1>4, <2>1
    <3>2. \A f \in Kept : f \in hot /\ f.ts >= cutoff
      BY DEF Kept
    <3> QED
      BY <1>2, <1>3, <2>1, <3>1, <3>2, WindowInt
  <2>2. CASE e \notin hot
    BY <2>2 DEF SteadyInv, HotIsSuffix, Kept
  <2> QED
    BY <2>1, <2>2
<1>8. LostToLaterPart'
  <2> SUFFICES ASSUME NEW e \in ingested, e \notin Kept, e \notin InCold
               PROVE  /\ cold[build_key(e)] # {}
                      /\ \A f \in cold[build_key(e)] : e.ts < f.ts
    BY <1>1 DEF LostToLaterPart, InCold
  <2>1. e \notin hot
    <3> SUFFICES ASSUME e \in hot
                 PROVE  FALSE
      OBVIOUS
    <3>1. e \in toArchive
      BY <1>4
    <3>2. e \in cold[build_key(e)]
      BY <1>1, <3>1 DEF RotationInv, ReadIsWritten
    <3> QED
      BY <1>2, <3>2, InColdAtKey
  <2> QED
    BY <2>1 DEF SteadyInv, LostToLaterPart
<1> QED
  BY <1>1, <1>5, <1>6, <1>7, <1>8, SteadyEndCycle DEF SteadyInv

(* Every step of the Steady workload keeps the invariant. *)
LEMMA SteadyStep ==
    ASSUME TypeOK, TypeOK', RotationInv, RotationInv', SteadyInv, [SteadyNext]_vars
    PROVE  SteadyInv'
<1>1. CASE Tick
  BY <1>1, SteadyTick
<1>2. ASSUME NEW e \in Event, Prompt(e), Unique(e), Ingest(e) PROVE SteadyInv'
  BY <1>2, SteadyIngest
<1>3. CASE StartCycle
  BY <1>3, SteadyStart
<1>4. CASE ReadPage
  BY <1>4, SteadyReadPage
<1>5. ASSUME NEW k \in Key, WriteGroup(k) PROVE SteadyInv'
  BY <1>5, SteadyPut DEF WriteGroup
<1>6. CASE Drain
  BY <1>6, SteadyDrain
<1>7. CASE SkipDrain
  BY <1>7, SteadyTiersUnchanged, SteadyEndCycle DEF SkipDrain, SteadyInv
<1>8. ASSUME NEW k \in Key, WriteGroupFails(k) PROVE SteadyInv'
  BY <1>8, SteadyPut DEF WriteGroupFails
<1>9. CASE AbortCycle
  BY <1>9, SteadyTiersUnchanged, SteadyEndCycle DEF AbortCycle, SteadyInv
<1>10. CASE UNCHANGED vars
  BY <1>10 DEF vars, cycleVars, SteadyInv, UniqueStamps, ArrivalsAreLate, ColdUpToCutoff,
               GroupsHaveEvents, HotIsSuffix, NothingMissed, LostToLaterPart, InCold
<1> QED
  BY <1>1, <1>2, <1>3, <1>4, <1>5, <1>6, <1>7, <1>8, <1>9, <1>10
  DEF SteadyNext, Rotate, Faulty

(* Under the Steady workload, at every await: hot is a suffix in time, the  *)
(* cycle reads all it deletes, and only earlier parts of hours are lost.    *)
THEOREM SteadyInvariance == SteadySpec => []SteadyInv
<1>1. TypeOK /\ TypeOK' /\ RotationInv /\ RotationInv' /\ SteadyInv /\ [SteadyNext]_vars
         => SteadyInv'
  BY SteadyStep
<1> QED
  BY SteadyInit, SteadyIsRotation, <1>1, PTL DEF SteadySpec

(* The drain deletes nothing its cycle has not read, for every page size,   *)
(* whatever arrives meanwhile.                                              *)
THEOREM NeverMissed == SteadySpec => []NothingMissed
<1>1. SteadyInv => NothingMissed
  BY DEF SteadyInv
<1> QED
  BY SteadyInvariance, <1>1, PTL

(* A lost event is the earlier part of an hour archived in two parts.       *)
THEOREM LossIsEarlierPart == SteadySpec => []LostToLaterPart
<1>1. SteadyInv => LostToLaterPart
  BY DEF SteadyInv
<1> QED
  BY SteadyInvariance, <1>1, PTL

(* A PUT never drops from S3 an event that is still in hot: retries replace *)
(* an object cleanly.                                                       *)
THEOREM RetriesAreClean == SteadySpec => RetryKeepsCopies
<1> DEFINE Safe == \A k \in Key : \A e \in cold[k] \ cold'[k] : e \notin hot
<1>1. TypeOK /\ RotationInv /\ SteadyInv /\ [SteadyNext]_vars => [Safe]_vars
  <2> SUFFICES ASSUME TypeOK, RotationInv, SteadyInv, SteadyNext,
                      NEW k \in Key, NEW e \in cold[k] \ cold'[k], e \in hot
               PROVE  FALSE
    OBVIOUS
  <2>1. PICK j \in Key : WriteGroup(j) \/ WriteGroupFails(j)
    BY DEF SteadyNext, Rotate, Faulty, Tick, Ingest, StartCycle, ReadPage, Drain, SkipDrain,
           AbortCycle
  <2>2. pc = "writing" /\ cold' \in {cold, [cold EXCEPT ![j] = Group(j)]}
    BY <2>1 DEF WriteGroup, WriteGroupFails
  <2>3. j = k /\ cold'[k] = Group(k)
    BY <2>2 DEF TypeOK
  <2> QED
    BY <2>2, <2>3, PutKeepsHot
<1> QED
  BY SteadyIsRotation, SteadyInvariance, <1>1, PTL DEF SteadySpec, RetryKeepsCopies

(* An event leaves hot in the order of time: none is archived and deleted   *)
(* before an older one.                                                     *)
THEOREM LeavesInOrder == SteadySpec => []HotIsSuffix
<1>1. SteadyInv => HotIsSuffix
  BY DEF SteadyInv
<1> QED
  BY SteadyInvariance, <1>1, PTL

(* Without faults no group of a cycle fails. *)
NoFaultNoFailure == faults \in Nat /\ (faults = 0 => failed = {})

(* The overlap of the tiers stays at its boundary: an arrival is later than *)
(* all of S3, and a drain leaves nothing below its cutoff.                  *)
LEMMA OverlapStep ==
    ASSUME TypeOK, RotationInv, SteadyInv, NoFaultNoFailure, OverlapIsBoundary,
           [SteadyNext]_vars
    PROVE  OverlapIsBoundary'
<1> SUFFICES ASSUME pc' = "idle", faults' = 0,
                    NEW e \in hot' \cap InCold', NEW f \in hot'
             PROVE  e.ts <= f.ts
  BY DEF OverlapIsBoundary
<1>1. ASSUME NEW d \in Event, Prompt(d), Unique(d), Ingest(d) PROVE e.ts <= f.ts
  <2>1. /\ hot' = hot \cup {d} /\ InCold' = InCold
        /\ pc = "idle" /\ faults = 0
    BY <1>1 DEF Ingest, cycleVars, InCold
  <2>2. InCold \subseteq ingested /\ \A x \in InCold : x.ts <= now - Window
    BY DEF RotationInv, ColdWellPlaced, InCold
  <2>3. d.ts > now - Window
    BY <1>1 DEF Prompt
  <2>4. e \in hot \/ e = d
    BY <2>1
  <2>5. d.ts \in Int /\ now \in Int
    BY StampBelowNoCursor DEF TypeOK, Time
  <2>6. d \notin InCold
    BY <2>2, <2>3, <2>5, WindowInt
  <2>7. e \in hot \cap InCold
    BY <2>1, <2>4, <2>6
  <2>8. e.ts \in Int
    BY <2>7, StampBelowNoCursor DEF TypeOK
  <2>9. e.ts <= d.ts
    BY <2>2, <2>3, <2>5, <2>7, <2>8, WindowInt
  <2> QED
    BY <2>1, <2>7, <2>9 DEF OverlapIsBoundary
<1>2. CASE Drain
  <2>1. /\ hot' = Kept /\ InCold' = InCold /\ pc # "idle"
    BY <1>2 DEF Drain, InCold
  <2>2. e.ts <= cutoff
    BY <2>1 DEF SteadyInv, ColdUpToCutoff
  <2>3. cutoff <= f.ts
    BY <2>1 DEF Kept
  <2>4. e.ts \in Int /\ f.ts \in Int /\ cutoff \in Int
    BY <2>1, StampBelowNoCursor DEF TypeOK, Kept
  <2> QED
    BY <2>2, <2>3, <2>4
<1>3. CASE SkipDrain
  BY <1>3 DEF SkipDrain, AllWritten, Archived, NoFaultNoFailure
<1>4. CASE Tick \/ UNCHANGED vars
  BY <1>4 DEF Tick, vars, cycleVars, InCold, OverlapIsBoundary
<1>5. ~StartCycle /\ ~Faulty /\ \A k \in Key : ~WriteGroup(k)
  BY DEF StartCycle, WriteGroup, Faulty, AbortCycle, WriteGroupFails, Fault, NoFaultNoFailure
<1>6. CASE ReadPage
  <2>1. /\ hot' = hot /\ InCold' = InCold /\ pc = "reading" /\ toArchive = {}
        /\ {} \in Pages(Matching(cutoff, cursor), PageLimit(BatchSize))
        /\ Cardinality({}) # PageLimit(BatchSize)
    BY <1>6 DEF ReadPage, InCold
  <2>2. Matching(cutoff, cursor) = {}
    BY <2>1, PageFacts
  <2>3. e \in hot /\ e.ts <= cutoff
    BY <2>1 DEF SteadyInv, ColdUpToCutoff
  <2>4. e.ts \in Int /\ cutoff \in Int /\ cursor \in Int
    BY <2>3, StampBelowNoCursor DEF TypeOK
  <2>5. e.ts >= cursor
    BY <2>2, <2>3, <2>4 DEF Matching
  <2>6. e \in arrived
    BY <2>1, <2>3, <2>5 DEF RotationInv, Frontier
  <2> QED
    BY <2>1, <2>3, <2>4, <2>6 DEF SteadyInv, ArrivalsAreLate
<1> QED
  BY <1>1, <1>2, <1>3, <1>4, <1>5, <1>6 DEF SteadyNext, Rotate

(* Between the cycles of a run without faults the tiers share at most the   *)
(* hot tier's oldest timestamp.                                             *)
THEOREM HandOverIsExact == SteadySpec => []OverlapIsBoundary
<1>1. Init => NoFaultNoFailure /\ OverlapIsBoundary
  BY DEF Init, NoFaultNoFailure, OverlapIsBoundary
<1>2. NoFaultNoFailure /\ [SteadyNext]_vars => NoFaultNoFailure'
  BY DEF NoFaultNoFailure, SteadyNext, Rotate, Faulty, Tick, Ingest, StartCycle, ReadPage,
         WriteGroup, WriteGroupFails, Drain, SkipDrain, AbortCycle, EndCycle, Fault, vars,
         cycleVars
<1>3. TypeOK /\ RotationInv /\ SteadyInv /\ NoFaultNoFailure /\ OverlapIsBoundary
        /\ [SteadyNext]_vars => OverlapIsBoundary'
  BY OverlapStep
<1> QED
  BY <1>1, <1>2, <1>3, SteadyIsRotation, SteadyInvariance, PTL DEF SteadySpec

-----------------------------------------------------------------------------
(***************************************************************************)
(* Rotation of nightly sources implements the log that only grows.         *)
(***************************************************************************)
\* the rows of nightly sources that some tier holds
NightlyRows == {e \in hot \cup InCold : e.source \in Nightly}

\* no two rows of a nightly source belong in one object
UniqueKeys ==
    \A e, f \in ingested :
        e.source \in Nightly /\ build_key(e) = build_key(f) => e = f

(* Two rows of one object have one source. *)
LEMMA KeySource ==
    ASSUME NEW e \in Event, NEW f \in Event, build_key(e) = build_key(f)
    PROVE  e.source = f.source
BY DEF build_key

(* A nightly source never logs twice within an hour. *)
LEMMA NightlyInvariance == SteadySpec => []UniqueKeys
<1>1. Init => UniqueKeys
  BY DEF Init, UniqueKeys
<1>2. TypeOK /\ UniqueKeys /\ [SteadyNext]_vars => UniqueKeys'
  <2> SUFFICES ASSUME TypeOK, UniqueKeys, [SteadyNext]_vars
               PROVE  UniqueKeys'
    OBVIOUS
  <2>1. ASSUME NEW e \in Event, Sparse(e), Ingest(e) PROVE UniqueKeys'
    <3>1. ingested' = ingested \cup {e} /\ ingested \subseteq Event
      BY <2>1 DEF Ingest, TypeOK
    <3>2. ASSUME NEW f \in ingested, build_key(e) = build_key(f), f.source \in Nightly
          PROVE  FALSE
      BY <2>1, <3>1, <3>2, KeySource DEF Sparse
    <3>3. ASSUME NEW f \in ingested, build_key(e) = build_key(f), e.source \in Nightly
          PROVE  FALSE
      BY <2>1, <3>3 DEF Sparse
    <3> QED
      BY <3>1, <3>2, <3>3 DEF UniqueKeys
  <2>2. CASE UNCHANGED ingested
    BY <2>2 DEF UniqueKeys
  <2> QED
    BY <2>1, <2>2
    DEF SteadyNext, Rotate, Faulty, Tick, StartCycle, ReadPage, WriteGroup, WriteGroupFails,
        Drain, SkipDrain, AbortCycle, vars
<1> QED
  BY <1>1, <1>2, SteadyIsRotation, PTL DEF SteadySpec

(* A PUT of a nightly source's object keeps all the object held. *)
LEMMA NightlyPut ==
    ASSUME TypeOK, RotationInv, SteadyInv, UniqueKeys,
           NEW k \in pending, NEW e \in cold[k], e.source \in Nightly
    PROVE  e \in Group(k)
<1>1. Group(k) # {} /\ k \in Key
  BY GroupFacts DEF TypeOK
<1>2. PICK f \in Group(k) : TRUE
  BY <1>1
<1>3. build_key(e) = k /\ e \in ingested
  BY <1>1 DEF RotationInv, ColdWellPlaced
<1>4. build_key(f) = k /\ f \in ingested
  BY <1>2 DEF Group, RotationInv, ReadFromHot
<1> QED
  BY <1>2, <1>3, <1>4 DEF UniqueKeys

(* Nothing a source logs at most once an hour is ever lost, beside sources  *)
(* that log more often: its rows in the two tiers implement DurableLog.     *)
THEOREM NightlyIsDurable == SteadySpec => DurableSpec
<1>1. Init => Durable!Init
  BY DEF Init, Durable!Init, InCold
<1>2. TypeOK /\ RotationInv /\ SteadyInv /\ UniqueKeys /\ [SteadyNext]_vars
        => [Durable!Next]_NightlyRows
  <2> SUFFICES ASSUME TypeOK, RotationInv, SteadyInv, UniqueKeys, [SteadyNext]_vars
               PROVE  Durable!Next \/ NightlyRows' = NightlyRows
    OBVIOUS
  <2>1. ASSUME NEW e \in Event, Ingest(e)
        PROVE  Durable!Next \/ NightlyRows' = NightlyRows
    <3>1. hot' = hot \cup {e} /\ InCold' = InCold
      BY <2>1 DEF Ingest, InCold
    <3>2. CASE e.source \in Nightly
      <4>1. NightlyRows' = NightlyRows \cup {e}
        BY <3>1, <3>2 DEF NightlyRows
      <4> QED
        BY <4>1 DEF Durable!Next, Durable!Accept, NightlyRows
    <3>3. CASE e.source \notin Nightly
      BY <3>1, <3>3 DEF NightlyRows
    <3> QED
      BY <3>2, <3>3
  <2>2. ASSUME NEW k \in Key, WriteGroup(k) \/ WriteGroupFails(k)
        PROVE  NightlyRows' = NightlyRows
    <3>1. /\ pc = "writing" /\ k \in pending /\ hot' = hot
          /\ cold' \in {cold, [cold EXCEPT ![k] = Group(k)]}
      BY <2>2 DEF WriteGroup, WriteGroupFails
    <3>2. Group(k) \subseteq hot
      BY <3>1, GroupFacts
    <3>3. \A j \in Key : cold'[j] = cold[j] \/ (j = k /\ cold'[j] = Group(k))
      BY <3>1 DEF TypeOK
    <3>4. ASSUME NEW e \in NightlyRows PROVE e \in NightlyRows'
      <4>1. CASE e \in hot
        BY <3>1, <4>1 DEF NightlyRows
      <4>2. ASSUME NEW j \in Key, e \in cold[j] PROVE e \in NightlyRows'
        <5>1. e \in cold'[j]
          BY <3>1, <3>3, <4>2, NightlyPut DEF NightlyRows
        <5> QED
          BY <5>1 DEF NightlyRows, InCold
      <4> QED
        BY <4>1, <4>2 DEF NightlyRows, InCold
    <3>5. ASSUME NEW e \in NightlyRows' PROVE e \in NightlyRows
      BY <3>1, <3>2, <3>3 DEF NightlyRows, InCold
    <3> QED
      BY <3>4, <3>5
  <2>3. CASE Drain
    <3>1. /\ hot' = Kept /\ UNCHANGED cold /\ Kept \subseteq hot
          /\ pc = "writing" /\ pending = {} /\ failed = {}
      BY <2>3 DEF Drain, AllWritten, Kept
    <3>2. ASSUME NEW e \in hot \ Kept PROVE e \in InCold
      <4>1. e \in Event /\ e.ts \in Int /\ cutoff \in Int
        BY StampBelowNoCursor DEF TypeOK
      <4>2. e.ts <= cutoff
        BY <4>1 DEF Kept
      <4>3. e \in cold[build_key(e)]
        BY <3>1, <4>2, ReadAll DEF RotationInv, ReadIsWritten
      <4> QED
        BY <4>1, <4>3, InColdAtKey
    <3>3. hot' \cup InCold' = hot \cup InCold
      BY <3>1, <3>2 DEF InCold
    <3> QED
      BY <3>3 DEF NightlyRows
  <2>4. CASE UNCHANGED <<hot, cold>>
    BY <2>4 DEF NightlyRows, InCold
  <2> QED
    BY <2>1, <2>2, <2>3, <2>4
    DEF SteadyNext, Rotate, Faulty, Tick, StartCycle, ReadPage, SkipDrain, AbortCycle, vars
<1> QED
  BY <1>1, <1>2, SteadyIsRotation, SteadyInvariance, NightlyInvariance, PTL
  DEF SteadySpec, DurableSpec, Durable!Spec, NightlyRows
=============================================================================
