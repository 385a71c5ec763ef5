----------------------------- MODULE TieredProofs -----------------------------
(***************************************************************************)
(* Proofs about a session of GET /logs over both tiers, for every rotation *)
(* and ingest that runs meanwhile, every number of events and sources, and *)
(* every range, limit and filter a client sends.                           *)
(***************************************************************************)
EXTENDS TieredRead, RotationProofs, FiniteSetTheorems

(* A page of finitely many rows has at most as many as its limit. *)
LEMMA PageSize ==
    ASSUME NEW S, IsFiniteSet(S), NEW n \in Nat, NEW P \in Pages(S, n)
    PROVE  IsFiniteSet(P) /\ Cardinality(P) \in Nat /\ Cardinality(P) <= n
<1>1. P \in SUBSET S /\ (Cardinality(P) < n \/ Cardinality(P) = n)
  BY DEF Pages
<1>2. IsFiniteSet(P)
  BY <1>1, FS_Subset
<1>3. Cardinality(P) \in Nat
  BY <1>2, FS_CardinalityType
<1> QED
  BY <1>1, <1>2, <1>3

(* Tagging events with a tier changes neither finiteness nor number. *)
LEMMA TaggedSize ==
    ASSUME NEW tier, NEW S, IsFiniteSet(S)
    PROVE  /\ IsFiniteSet(Tagged(tier, S))
           /\ Cardinality(Tagged(tier, S)) = Cardinality(S)
<1> DEFINE f == [e \in S |-> <<tier, e>>]
<1>1. f \in [S -> Tagged(tier, S)]
  BY DEF Tagged
<1>2. \A a, b \in S : f[a] = f[b] => a = b
  <2> SUFFICES ASSUME NEW a \in S, NEW b \in S, <<tier, a>> = <<tier, b>>
               PROVE  a = b
    OBVIOUS
  <2> QED
    OBVIOUS
<1>3. \A t \in Tagged(tier, S) : \E a \in S : f[a] = t
  BY DEF Tagged
<1> HIDE DEF f
<1>4. f \in Bijection(S, Tagged(tier, S))
  BY <1>1, <1>2, <1>3 DEF Bijection, Injection, Surjection, IsInjective
<1> QED
  BY <1>4, FS_Bijection DEF ExistsBijection

(* The merged page is part of both halves, and all of them if it is short. *)
LEMMA MergedFacts ==
    ASSUME NEW pairs, IsFiniteSet(pairs), NEW n \in Nat, NEW Q \in Merged(pairs, n)
    PROVE  /\ Q \subseteq pairs
           /\ IsFiniteSet(Q)
           /\ Cardinality(Q) \in Nat
           /\ Cardinality(Q) <= n
           /\ Cardinality(Q) < n => Q = pairs
           /\ \A x \in Q : \A y \in pairs \ Q : ~Precedes(y, x)
<1>1. /\ Q \in SUBSET pairs
      /\ Cardinality(Q) = IF Cardinality(pairs) < n THEN Cardinality(pairs) ELSE n
      /\ \A x \in Q : \A y \in pairs \ Q : ~Precedes(y, x)
  BY DEF Merged
<1>2. Cardinality(pairs) \in Nat
  BY FS_CardinalityType
<1>3. IsFiniteSet(Q) /\ (Cardinality(pairs) = Cardinality(Q) => pairs = Q)
  BY <1>1, FS_Subset
<1> QED
  BY <1>1, <1>2, <1>3

(* When no cold event is newer than a hot one and the hot half fits, the    *)
(* merged page holds all of the hot half.                                   *)
LEMMA HotHalfFits ==
    ASSUME NEW P, IsFiniteSet(P), NEW F, IsFiniteSet(F), NEW n \in Nat,
           P \subseteq Event, F \subseteq Event,
           \A e \in P : \A f \in F : f.ts <= e.ts,
           Cardinality(P) <= n,
           NEW Q \in Merged(Tagged("hot", P) \cup Tagged("cold", F), n)
    PROVE  Tagged("hot", P) \subseteq Q
<1> DEFINE H == Tagged("hot", P)
           C == Tagged("cold", F)
<1>1. IsFiniteSet(H) /\ Cardinality(H) = Cardinality(P) /\ IsFiniteSet(C)
  BY TaggedSize
<1>2. IsFiniteSet(H \cup C)
  BY <1>1, FS_Union
<1>3. /\ Q \subseteq H \cup C
      /\ IsFiniteSet(Q)
      /\ Cardinality(Q) \in Nat
      /\ Cardinality(Q) < n => Q = H \cup C
      /\ \A x \in Q : \A y \in (H \cup C) \ Q : ~Precedes(y, x)
  BY <1>2, MergedFacts
<1> SUFFICES ASSUME NEW e \in P, <<"hot", e>> \notin Q
             PROVE  FALSE
  BY DEF Tagged
<1>4. <<"hot", e>> \in H
  BY DEF Tagged
<1>5. ASSUME NEW x \in Q PROVE x \in H
  <2> SUFFICES ASSUME NEW f \in F, x = <<"cold", f>>
               PROVE  FALSE
    BY <1>3 DEF Tagged
  <2>1. f.ts <= e.ts /\ f.ts \in Int /\ e.ts \in Int
    BY StampBelowNoCursor
  <2>2. Precedes(<<"hot", e>>, x)
    BY <2>1 DEF Precedes
  <2> QED
    BY <1>3, <1>4, <2>2
<1>6. Q \in SUBSET H /\ Q # H
  BY <1>4, <1>5
<1>7. Cardinality(Q) <= Cardinality(H) /\ Cardinality(Q) # Cardinality(H)
  BY <1>1, <1>6, FS_Subset
<1>8. Cardinality(H) \in Nat
  BY <1>1, FS_CardinalityType
<1>9. Cardinality(Q) < n
  BY <1>1, <1>3, <1>7, <1>8
<1> QED
  BY <1>3, <1>4, <1>9
-----------------------------------------------------------------------------
(* A step of the reader leaves rotation's state alone, but for the count of *)
(* faults when it meets one.                                                *)
LEMMA ReadLeavesTiers ==
    ASSUME Read
    PROVE  /\ UNCHANGED <<now, hot, cold, cycleVars, ingested, arrived, missed>>
           /\ UNCHANGED faults \/ Fault
BY DEF Read, FirstPage, NextPage, HotHealth, ColdHealthAnswer, HotOnly, ListKeys,
       FetchObject, ColdOnly, ColdHalf, HotHalf, ReadFails, Reads, ReadFault, vars

(* Finitely many events have been ingested at any time. *)
FiniteLog == IsFiniteSet(ingested)

(* What rotation keeps, it keeps also while it is read from. *)
TiersInv == TypeOK /\ RotationInv /\ FiniteLog

LEMMA TiersStep ==
    ASSUME TiersInv, [Read \/ Elsewhere(Next)]_allVars
    PROVE  TiersInv'
<1>1. CASE Read
  <2>1. faults' \in 0 .. MaxFaults
    BY <1>1, ReadLeavesTiers, ConstantsAssumption DEF TiersInv, TypeOK, Fault
  <2>2. TypeOK'
    BY <1>1, <2>1, ReadLeavesTiers DEF TiersInv, TypeOK, cycleVars
  <2>3. RotationInv' /\ FiniteLog'
    BY <1>1, ReadLeavesTiers
    DEF TiersInv, RotationInv, CutoffInPast, ReadFromHot, Frontier, ReadIsWritten,
        UnreadExplained, RetentionPromise, ColdWellPlaced, FiniteLog, cycleVars
  <2> QED
    BY <2>2, <2>3 DEF TiersInv
<1>2. CASE Elsewhere(Next) \/ UNCHANGED allVars
  <2>1. [Next]_vars
    BY <1>2 DEF Elsewhere, allVars
  <2>2. ingested' = ingested \/ \E e \in Event : ingested' = ingested \cup {e}
    <3>1. CASE \E e \in Event : Ingest(e)
      BY <3>1 DEF Ingest
    <3>2. CASE ReadPage
      BY <3>2 DEF ReadPage
    <3>3. CASE Tick \/ StartCycle \/ (\E k \in Key : WriteGroup(k)) \/ Drain \/ SkipDrain
      BY <3>3 DEF Tick, StartCycle, WriteGroup, Drain, SkipDrain
    <3>4. CASE Faulty \/ UNCHANGED vars
      BY <3>4 DEF Faulty, AbortCycle, WriteGroupFails, vars
    <3> QED
      BY <2>1, <3>1, <3>2, <3>3, <3>4 DEF Next, Rotate
  <2>3. FiniteLog'
    BY <2>2, FS_AddElement DEF TiersInv, FiniteLog
  <2>4. TypeOK' /\ RotationInv'
    BY <2>1, TypeStep, InvStep DEF TiersInv
  <2> QED
    BY <2>3, <2>4 DEF TiersInv
<1> QED
  BY <1>1, <1>2

LEMMA TiersInvariant == ReadSpec => []TiersInv
<1>1. Init => TiersInv
  BY TypeInit, InvInit, FS_EmptySet DEF Init, TiersInv, FiniteLog
<1>2. TiersInv /\ [Read \/ Elsewhere(Next)]_allVars => TiersInv'
  BY TiersStep
<1> QED
  BY <1>1, <1>2, PTL DEF ReadSpec

(* Every event in either tier has been ingested, so that every set of them  *)
(* is finite.                                                               *)
LEMMA TiersFinite ==
    ASSUME TiersInv
    PROVE  /\ \A S \in SUBSET ingested : IsFiniteSet(S)
           /\ hot \subseteq ingested
           /\ \A k \in Key : cold[k] \subseteq ingested
           /\ ingested \subseteq Event
BY FS_Subset DEF TiersInv, FiniteLog, TypeOK, RotationInv, ReadFromHot, ColdWellPlaced
-----------------------------------------------------------------------------
(***************************************************************************)
(* Types of a session's state.                                             *)
(***************************************************************************)
(* Limits are numbers, and so are the page sizes made of them. *)
LEMMA LimitNat ==
    ASSUME NEW n \in Limits \cup {0}
    PROVE  n \in Nat
BY ReadAssumption

LEMMA PageLimitFacts ==
    ASSUME NEW n \in Nat
    PROVE  /\ PageLimit(n) \in Nat
           /\ PageLimit(n) # 0
           /\ n # 0 /\ n <= 2000 => PageLimit(n) = n
           /\ n # 0 => PageLimit(n) <= n
BY DEF PageLimit

LEMMA LimitType ==
    ASSUME params \in Params
    PROVE  params.limit \in Nat
<1>1. params.limit \in Limits \cup {0}
  BY DEF Params
<1> QED
  BY <1>1, LimitNat

LEMMA ColdLimitFacts ==
    ASSUME params \in Params
    PROVE  /\ ColdLimit \in Nat
           /\ ColdLimit # 0
           /\ ColdLimit <= ColdCap
           /\ params.limit = 0 => ColdLimit = 1
           /\ params.limit # 0 => ColdLimit <= params.limit
<1>1. ColdCap \in Nat \ {0}
  BY ReadAssumption
<1>2. ASSUME NEW n \in Nat
      PROVE  LET m == IF n = 0 THEN 1 ELSE IF n < ColdCap THEN n ELSE ColdCap
             IN /\ m \in Nat
                /\ m # 0
                /\ m <= ColdCap
                /\ n = 0 => m = 1
                /\ n # 0 => m <= n
  BY <1>1
<1> QED
  BY <1>2, LimitType DEF ColdLimit

(* What a cursor can be after a page of rows. *)
LEMMA CursorType ==
    ASSUME NEW P, P \subseteq Event, NEW n
    PROVE  NextCursor(P, n) \subseteq Time \cup {NoCursor}
BY StampBelowNoCursor DEF NextCursor

(* The parameters of a read_range are parameters. *)
LEMMA ColdParamsType ==
    ASSUME TypeOK, params \in Params, oldest \in Time \cup {NoOldest}
    PROVE  Resolved(ColdParams) \in Params
<1>1. ColdParams \in Params
  <2>1. CASE Straddles
    <3>1. oldest \in Time
      BY <2>1 DEF Straddles
    <3>2. ColdParams = [params EXCEPT !.until = oldest, !.cursor = NoCursor]
      BY <2>1 DEF ColdParams
    <3> QED
      BY <3>1, <3>2 DEF Params
  <2>2. CASE ~Straddles
    BY <2>2 DEF ColdParams
  <2> QED
    BY <2>1, <2>2
<1>2. now \in Time
  BY DEF TypeOK
<1>3. CASE ColdParams.until = NoUntil
  <2>1. Resolved(ColdParams) = [ColdParams EXCEPT !.until = now]
    BY <1>3 DEF Resolved
  <2> QED
    BY <1>1, <1>2, <2>1 DEF Params
<1>4. CASE ColdParams.until # NoUntil
  BY <1>1, <1>4 DEF Resolved
<1> QED
  BY <1>3, <1>4

(* What makes ReadTypeOK inductive: a fetch holds ingested events, and before *)
(* the session there are none.                                               *)
SessionShape ==
    /\ fetched \subseteq ingested
    /\ rpc \notin {"fetch", "hot_half"} => fetched = {}
    /\ rpc = "none" => page = {} /\ seen = {}

LEMMA TypeReadInit == ReadInit => ReadTypeOK
<1> SUFFICES ASSUME ReadInit
             PROVE  ReadTypeOK
  OBVIOUS
<1>1. NoParams \in Params
  BY DEF NoParams, Params
<1>2. Cardinality({}) = 0
  BY FS_EmptySet
<1>3. 0 <= ColdCap
  BY ReadAssumption
<1>4. 0 <= PageLimit(params.limit)
  BY <1>1, LimitType, PageLimitFacts DEF ReadInit
<1>5. /\ rpc = "none" /\ params = NoParams /\ coldParams = NoParams /\ page = {}
      /\ fetched = {} /\ oldest = NoOldest /\ coldOk = FALSE /\ keys = {} /\ next = NoCursor
      /\ seen = {} /\ stayedHot = {} /\ stayedCold = {} /\ stayed = {}
  BY DEF ReadInit
<1>6. Cardinality(page) <= PageLimit(params.limit) /\ Cardinality(fetched) <= ColdCap
  BY <1>2, <1>3, <1>4, <1>5
<1> QED
  BY <1>1, <1>5, <1>6 DEF ReadTypeOK

(* An answer of typed pairs and cursors is typed. *)
LEMMA TypeAnswer ==
    ASSUME ReadTypeOK, NEW pairs, NEW cursors, Answer(pairs, cursors),
           UNCHANGED stays,
           pairs \subseteq {"hot", "cold"} \X Event,
           params.limit <= 2000 => Cardinality(pairs) <= PageLimit(params.limit),
           cursors \subseteq Time \cup {NoCursor}
    PROVE  ReadTypeOK' /\ SessionShape'
<1>1. NoParams \in Params
  BY DEF NoParams, Params
<1>2. 0 <= ColdCap /\ Cardinality({}) = 0
  BY ReadAssumption, FS_EmptySet
<1>3. /\ rpc' = "answered" /\ page' = pairs /\ next' \in cursors /\ coldParams' = NoParams
      /\ keys' = {} /\ fetched' = {} /\ UNCHANGED <<params, oldest, coldOk, seen>>
      /\ UNCHANGED <<stayedHot, stayedCold, stayed>>
  BY DEF Answer, stays
<1>4. params'.limit <= 2000 => Cardinality(page') <= PageLimit(params'.limit)
  BY <1>3
<1>5. Cardinality(fetched') <= ColdCap
  BY <1>2, <1>3
<1> QED
  BY <1>1, <1>3, <1>4, <1>5 DEF ReadTypeOK, SessionShape

(* The pages of the two tiers, for a request that is answered from one. *)
LEMMA HotPage ==
    ASSUME TiersInv, ReadTypeOK, NEW q, NEW P \in Pages(HotQuery(q), PageLimit(params.limit))
    PROVE  /\ P \subseteq hot
           /\ P \subseteq Event
           /\ IsFiniteSet(P)
           /\ Cardinality(P) \in Nat
           /\ Cardinality(P) <= PageLimit(params.limit)
<1>1. HotQuery(q) \subseteq hot
  BY DEF HotQuery
<1>2. IsFiniteSet(HotQuery(q))
  BY <1>1, TiersFinite
<1>3. PageLimit(params.limit) \in Nat
  BY LimitType, PageLimitFacts DEF ReadTypeOK
<1>4. P \subseteq hot /\ P \subseteq Event
  BY <1>1, PageFacts, TiersFinite
<1> QED
  BY <1>2, <1>3, <1>4, PageSize

LEMMA ColdPage ==
    ASSUME TiersInv, ReadTypeOK, SessionShape, NEW P \in Pages(fetched, ColdLimit)
    PROVE  /\ P \subseteq fetched
           /\ P \subseteq Event
           /\ IsFiniteSet(P)
           /\ Cardinality(P) \in Nat
           /\ Cardinality(P) <= ColdLimit
<1>1. IsFiniteSet(fetched) /\ fetched \subseteq Event
  BY TiersFinite DEF SessionShape
<1>2. ColdLimit \in Nat
  BY ColdLimitFacts DEF ReadTypeOK
<1>3. P \subseteq fetched
  BY PageFacts
<1> QED
  BY <1>1, <1>2, <1>3, PageSize

LEMMA TypeHotOnly ==
    ASSUME TiersInv, ReadTypeOK, SessionShape, HotOnly
    PROVE  ReadTypeOK' /\ SessionShape'
<1>1. PICK P \in Pages(HotQuery(params), PageLimit(params.limit)) :
        Answer(Tagged("hot", P), NextCursor(P, PageLimit(params.limit)))
  BY DEF HotOnly
<1>2. P \subseteq Event /\ IsFiniteSet(P) /\ Cardinality(P) <= PageLimit(params.limit)
  BY HotPage
<1>3. Tagged("hot", P) \subseteq {"hot", "cold"} \X Event
  BY <1>2 DEF Tagged
<1>6. Cardinality(Tagged("hot", P)) <= PageLimit(params.limit)
  BY <1>2, TaggedSize
<1>4. NextCursor(P, PageLimit(params.limit)) \subseteq Time \cup {NoCursor}
  BY <1>2, CursorType
<1>5. UNCHANGED stays
  BY DEF HotOnly, Reads
<1> QED
  BY <1>1, <1>3, <1>4, <1>5, <1>6, TypeAnswer

LEMMA TypeColdOnly ==
    ASSUME TiersInv, ReadTypeOK, SessionShape, ColdOnly
    PROVE  ReadTypeOK' /\ SessionShape'
<1>1. PICK P \in Pages(fetched, ColdLimit) :
        Answer(Tagged("cold", P), NextCursor(P, ColdLimit))
  BY DEF ColdOnly
<1>2. /\ P \subseteq Event /\ IsFiniteSet(P)
      /\ Cardinality(P) \in Nat /\ Cardinality(P) <= ColdLimit
  BY ColdPage
<1>3. ASSUME NEW n \in Nat, n = params.limit, n <= 2000
      PROVE  ColdLimit <= PageLimit(params.limit)
  <2>1. PageLimit(n) \in Nat /\ PageLimit(n) # 0 /\ (n # 0 => PageLimit(n) = n)
    BY <1>3, PageLimitFacts
  <2>2. ColdLimit \in Nat /\ (n = 0 => ColdLimit = 1) /\ (n # 0 => ColdLimit <= n)
    BY <1>3, ColdLimitFacts DEF ReadTypeOK
  <2> QED
    BY <1>3, <2>1, <2>2
<1>4. params.limit <= 2000 => Cardinality(Tagged("cold", P)) <= PageLimit(params.limit)
  <2> SUFFICES ASSUME params.limit <= 2000
               PROVE  Cardinality(P) <= PageLimit(params.limit)
    BY <1>2, TaggedSize
  <2>1. params.limit \in Nat
    BY LimitType DEF ReadTypeOK
  <2>2. ColdLimit <= PageLimit(params.limit)
    BY <1>3, <2>1
  <2>3. PageLimit(params.limit) \in Nat /\ ColdLimit \in Nat
    BY <2>1, PageLimitFacts, ColdLimitFacts DEF ReadTypeOK
  <2> QED
    BY <1>2, <2>2, <2>3
<1>5. Tagged("cold", P) \subseteq {"hot", "cold"} \X Event
  BY <1>2 DEF Tagged
<1>6. NextCursor(P, ColdLimit) \subseteq Time \cup {NoCursor}
  BY <1>2, CursorType
<1>7. UNCHANGED stays
  BY DEF ColdOnly, Reads
<1> QED
  BY <1>1, <1>4, <1>5, <1>6, <1>7, TypeAnswer

LEMMA TypeHotHalf ==
    ASSUME TiersInv, ReadTypeOK, SessionShape, HotHalf
    PROVE  ReadTypeOK' /\ SessionShape'
<1> DEFINE q == [params EXCEPT !.since = oldest]
<1>1. PICK P \in Pages(HotQuery(q), PageLimit(params.limit)) :
        \E pairs \in Merged(Tagged("hot", P) \cup Tagged("cold", fetched), params.limit) :
            Answer(pairs, NextCursor(P, PageLimit(params.limit)))
  BY DEF HotHalf
<1>2. PICK pairs \in Merged(Tagged("hot", P) \cup Tagged("cold", fetched), params.limit) :
        Answer(pairs, NextCursor(P, PageLimit(params.limit)))
  BY <1>1
<1> HIDE DEF q
<1>3. P \subseteq Event /\ IsFiniteSet(P)
  BY HotPage
<1>4. IsFiniteSet(fetched) /\ fetched \subseteq Event
  BY TiersFinite DEF SessionShape
<1>5. IsFiniteSet(Tagged("hot", P) \cup Tagged("cold", fetched))
  BY <1>3, <1>4, TaggedSize, FS_Union
<1>6. params.limit \in Nat
  BY LimitType DEF ReadTypeOK
<1>7. /\ pairs \subseteq Tagged("hot", P) \cup Tagged("cold", fetched)
      /\ Cardinality(pairs) \in Nat /\ Cardinality(pairs) <= params.limit
  BY <1>5, <1>6, MergedFacts
<1>8. ASSUME NEW n \in Nat, n <= 2000, NEW c \in Nat, c <= n
      PROVE  c <= PageLimit(n)
  <2>1. PageLimit(n) \in Nat /\ (n # 0 => PageLimit(n) = n)
    BY <1>8, PageLimitFacts
  <2> QED
    BY <1>8, <2>1
<1>9. params.limit <= 2000 => Cardinality(pairs) <= PageLimit(params.limit)
  BY <1>6, <1>7, <1>8
<1>10. pairs \subseteq {"hot", "cold"} \X Event
  BY <1>3, <1>4, <1>7 DEF Tagged
<1>11. NextCursor(P, PageLimit(params.limit)) \subseteq Time \cup {NoCursor}
  BY <1>3, CursorType
<1>12. UNCHANGED stays
  BY DEF HotHalf, Reads
<1> QED
  BY <1>2, <1>9, <1>10, <1>11, <1>12, TypeAnswer

LEMMA TypeFetchObject ==
    ASSUME TiersInv, ReadTypeOK, SessionShape, NEW k \in Key, FetchObject(k)
    PROVE  ReadTypeOK' /\ SessionShape'
<1>1. /\ rpc = "fetch" /\ rpc' = rpc /\ keys' \subseteq keys
      /\ UNCHANGED <<params, oldest, coldOk, coldParams, page, next, seen>>
      /\ UNCHANGED <<stayedHot, stayedCold, stayed>>
      /\ UNCHANGED ingested
  BY DEF FetchObject, Reads, ReadFault, stays, vars
<1>2. IsFiniteSet(fetched) /\ Cardinality(fetched) \in Nat /\ ColdCap \in Nat
  BY TiersFinite, FS_CardinalityType, ReadAssumption DEF SessionShape
<1>3. /\ fetched' \subseteq ingested
      /\ Cardinality(fetched') <= ColdCap
  <2>1. CASE fetched' = fetched
    BY <2>1 DEF SessionShape, ReadTypeOK
  <2>2. CASE fetched' # fetched
    <3> DEFINE S == {e \in cold[k] : Matches(coldParams, e)}
               n == ColdCap - Cardinality(fetched)
    <3>1. PICK P \in Pages(S, n) : fetched' = fetched \cup P
      BY <2>2 DEF FetchObject
    <3>2. S \subseteq ingested /\ IsFiniteSet(S)
      BY TiersFinite
    <3>3. n \in Nat
      BY <1>2 DEF ReadTypeOK
    <3> HIDE DEF S, n
    <3>4. IsFiniteSet(P) /\ Cardinality(P) \in Nat /\ Cardinality(P) <= n
      BY <3>2, <3>3, PageSize
    <3>5. Cardinality(fetched \cup P) =
            Cardinality(fetched) + Cardinality(P) - Cardinality(fetched \cap P)
      BY <1>2, <3>4, FS_Union
    <3>6. Cardinality(fetched \cap P) \in Nat
      BY <1>2, FS_Intersection, FS_CardinalityType
    <3>7. Cardinality(fetched') <= ColdCap
      BY <1>2, <3>1, <3>4, <3>5, <3>6 DEF n
    <3>8. P \subseteq S
      BY PageFacts
    <3> QED
      BY <3>1, <3>2, <3>7, <3>8 DEF SessionShape
  <2> QED
    BY <2>1, <2>2
<1>4. fetched' \subseteq Event
  BY <1>3, TiersFinite
<1>5. params'.limit <= 2000 => Cardinality(page') <= PageLimit(params'.limit)
  BY <1>1 DEF ReadTypeOK
<1>6. ReadTypeOK'
  BY <1>1, <1>3, <1>4, <1>5 DEF ReadTypeOK
<1> QED
  BY <1>1, <1>3, <1>6 DEF SessionShape

(* The steps that fill in parameters, ask for health or start the cold read. *)
LEMMA TypeRequest ==
    ASSUME TiersInv, ReadTypeOK, SessionShape,
           FirstPage \/ NextPage \/ HotHealth \/ ColdHealthAnswer
    PROVE  ReadTypeOK' /\ SessionShape'
<1>1. /\ rpc' \in {"hot_health", "cold_health", "query"}
      /\ rpc \notin {"fetch", "hot_half"}
      /\ UNCHANGED <<coldParams, keys, fetched, ingested>>
  BY DEF FirstPage, NextPage, HotHealth, ColdHealthAnswer, Reads, ReadFault, vars
<1>2. params' \in Params
  <2>1. CASE FirstPage
    BY <2>1 DEF FirstPage, FirstParams, Params
  <2>2. CASE NextPage
    <3>1. next \in Time /\ params' = [params EXCEPT !.cursor = next]
      BY <2>2 DEF NextPage, ReadTypeOK
    <3> QED
      BY <3>1 DEF ReadTypeOK, Params
  <2>3. CASE HotHealth \/ ColdHealthAnswer
    BY <2>3 DEF HotHealth, ColdHealthAnswer, ReadTypeOK
  <2> QED
    BY <2>1, <2>2, <2>3
<1>3. oldest' \in Time \cup {NoOldest} /\ coldOk' \in BOOLEAN
  <2>1. CASE FirstPage \/ NextPage \/ ColdHealthAnswer
    BY <2>1 DEF FirstPage, NextPage, ColdHealthAnswer, ReadTypeOK
  <2>2. CASE HotHealth
    <3>1. \A e \in hot : e.ts \in Time
      BY StampBelowNoCursor, TiersFinite
    <3> QED
      BY <2>2, <3>1 DEF HotHealth, IsLast, ReadTypeOK
  <2> QED
    BY <2>1, <2>2
<1>4. /\ page' = page \/ page' = {}
      /\ seen' = seen \/ seen' = seen \cup page
      /\ next' = next \/ next' = NoCursor
      /\ stayedHot' = stayedHot \/ stayedHot' = hot
      /\ stayedCold' = stayedCold \/ stayedCold' = InCold \ hot
      /\ stayed' = stayed \/ stayed' = hot \cup InCold
  BY DEF FirstPage, NextPage, HotHealth, ColdHealthAnswer, Reads, ReadFault, stays
<1>5. InCold \subseteq Event /\ hot \subseteq Event
  BY TiersFinite DEF InCold
<1>6. params'.limit <= 2000 => Cardinality(page') <= PageLimit(params'.limit)
  <2>1. CASE page' = {}
    <3>1. 0 <= PageLimit(params'.limit)
      <4>1. params'.limit \in Limits \cup {0}
        BY <1>2 DEF Params
      <4> QED
        BY <4>1, LimitNat, PageLimitFacts
    <3> QED
      BY <2>1, <3>1, FS_EmptySet
  <2>2. CASE page' = page /\ UNCHANGED params
    BY <2>2 DEF ReadTypeOK
  <2>3. page' = {} \/ (page' = page /\ UNCHANGED params)
    BY DEF FirstPage, NextPage, HotHealth, ColdHealthAnswer, SessionShape
  <2> QED
    BY <2>1, <2>2, <2>3
<1>7. ReadTypeOK'
  BY <1>1, <1>2, <1>3, <1>4, <1>5, <1>6 DEF ReadTypeOK
<1> QED
  BY <1>1, <1>7 DEF SessionShape

(* The steps in the middle of a request that reads cold, and its failure. *)
LEMMA TypeMiddle ==
    ASSUME TiersInv, ReadTypeOK, SessionShape, ListKeys \/ ColdHalf \/ ReadFails
    PROVE  ReadTypeOK' /\ SessionShape'
<1>1. /\ rpc' \in {"fetch", "hot_half", "failed"}
      /\ UNCHANGED <<params, oldest, coldOk, page, next, seen>>
      /\ UNCHANGED <<stayedHot, stayedCold, stayed, ingested>>
  BY DEF ListKeys, ColdHalf, ReadFails, Reads, ReadFault, stays, vars
<1>2. coldParams' \in Params
  <2>1. CASE ListKeys
    BY <2>1, ColdParamsType DEF ListKeys, TiersInv, ReadTypeOK
  <2>2. CASE ColdHalf \/ ReadFails
    BY <2>2 DEF ColdHalf, ReadFails, ReadTypeOK, NoParams, Params
  <2> QED
    BY <2>1, <2>2
<1>3. keys' \subseteq Key
  BY DEF ListKeys, ColdHalf, ReadFails, KeysInRange, ReadTypeOK
<1>4. /\ fetched' \subseteq ingested
      /\ Cardinality(fetched') <= ColdCap
      /\ rpc' \notin {"fetch", "hot_half"} => fetched' = {}
  <2>1. CASE ListKeys
    BY <2>1 DEF ListKeys, SessionShape, ReadTypeOK
  <2>2. CASE ColdHalf
    <3>1. fetched' \in Pages(fetched, ColdLimit)
      BY <2>2 DEF ColdHalf
    <3>2. ColdLimit <= ColdCap /\ ColdLimit \in Nat /\ ColdCap \in Nat
      BY ColdLimitFacts, ReadAssumption DEF ReadTypeOK
    <3>3. fetched' \subseteq fetched /\ Cardinality(fetched') <= ColdCap
      BY <3>1, <3>2, ColdPage
    <3> QED
      BY <2>2, <3>3 DEF ColdHalf, SessionShape
  <2>3. CASE ReadFails
    BY <2>3, FS_EmptySet, ReadAssumption DEF ReadFails
  <2> QED
    BY <2>1, <2>2, <2>3
<1>5. fetched' \subseteq Event
  BY <1>4, TiersFinite
<1>6. params'.limit <= 2000 => Cardinality(page') <= PageLimit(params'.limit)
  BY <1>1 DEF ReadTypeOK
<1>7. ReadTypeOK'
  BY <1>1, <1>2, <1>3, <1>4, <1>5, <1>6 DEF ReadTypeOK
<1> QED
  BY <1>1, <1>4, <1>7 DEF SessionShape

(* Nothing elsewhere touches the session. *)
LEMMA TypeElsewhere ==
    ASSUME TiersInv, ReadTypeOK, SessionShape, Elsewhere(Next) \/ UNCHANGED allVars
    PROVE  ReadTypeOK' /\ SessionShape'
<1>1. UNCHANGED <<rpc, params, oldest, coldOk, coldParams, keys, fetched, page, next, seen>>
  BY DEF Elsewhere, allVars, readVars
<1>2. stayedHot' \subseteq stayedHot /\ stayedCold' \subseteq stayedCold /\ stayed' \subseteq stayed
  BY DEF Elsewhere, allVars, stays
<1>3. ingested \subseteq ingested'
  BY DEF Elsewhere, allVars, vars, Next, Tick, Ingest, Rotate, StartCycle, ReadPage, WriteGroup,
         Drain, SkipDrain, Faulty, AbortCycle, WriteGroupFails
<1>4. params'.limit <= 2000 => Cardinality(page') <= PageLimit(params'.limit)
  BY <1>1 DEF ReadTypeOK
<1>5. ReadTypeOK'
  BY <1>1, <1>2, <1>4 DEF ReadTypeOK
<1> QED
  BY <1>1, <1>3, <1>5 DEF SessionShape

(* Every step of the session and of what runs beside it. *)
LEMMA TypeReadStep ==
    ASSUME TiersInv, ReadTypeOK, SessionShape, [Read \/ Elsewhere(Next)]_allVars
    PROVE  ReadTypeOK' /\ SessionShape'
BY TypeRequest, TypeHotOnly, TypeFetchObject, TypeColdOnly, TypeHotHalf, TypeMiddle,
   TypeElsewhere DEF Read

(* Types of the session, and the bound on a page that the limit promises. *)
THEOREM ReadTypeCorrect == ReadSpec => []ReadTypeOK
<1>1. ReadInit => ReadTypeOK /\ SessionShape
  BY TypeReadInit DEF ReadInit, SessionShape
<1>2. TiersInv /\ ReadTypeOK /\ SessionShape /\ [Read \/ Elsewhere(Next)]_allVars
        => ReadTypeOK' /\ SessionShape'
  BY TypeReadStep
<1> QED
  BY <1>1, <1>2, TiersInvariant, PTL DEF ReadSpec
-----------------------------------------------------------------------------
(***************************************************************************)
(* What a request knows between its awaits, and what its answer holds.     *)
(***************************************************************************)
StaysAreHot == stayedHot \subseteq hot

(* Once read, the oldest timestamp is below every event that stays in hot,  *)
(* whatever is drained or ingested later.                                   *)
OldestIsBelow ==
    faults = 0 /\ rpc \in {"cold_health", "query", "fetch", "hot_half"} =>
        \A e \in stayedHot : oldest <= e.ts

(* The cold half of a request that straddles the boundary ends at it. *)
OlderHalf ==
    /\ rpc = "fetch" /\ Straddles => coldParams.until = oldest
    /\ rpc \in {"fetch", "hot_half"} /\ Straddles => \A e \in fetched : e.ts <= oldest
    /\ rpc = "hot_half" => Straddles

RequestInv == StaysAreHot /\ OldestIsBelow /\ OlderHalf

SessionInv == TiersInv /\ ReadTypeOK /\ SessionShape /\ RequestInv

(* Faults are only counted up. *)
LEMMA FaultsGrow ==
    ASSUME TypeOK, [Read \/ Elsewhere(Next)]_allVars, faults' = 0
    PROVE  faults = 0 /\ ~Fault
<1>1. faults \in Nat
  BY ConstantsAssumption DEF TypeOK
<1>2. UNCHANGED faults \/ Fault
  <2>1. CASE Read
    BY <2>1, ReadLeavesTiers
  <2>2. CASE Elsewhere(Next) \/ UNCHANGED allVars
    BY <2>2 DEF Elsewhere, allVars, vars, Next, Tick, Ingest, Rotate, StartCycle, ReadPage,
         WriteGroup, Drain, SkipDrain, Faulty, AbortCycle, WriteGroupFails
  <2> QED
    BY <2>1, <2>2
<1> QED
  BY <1>1, <1>2 DEF Fault

(* Timestamps and boundaries are integers. *)
LEMMA StampFacts ==
    ASSUME TiersInv, ReadTypeOK
    PROVE  /\ \A e \in ingested : e.ts \in Int /\ e.ts < NoOldest
           /\ oldest \in Int /\ NoOldest \in Int
           /\ oldest # NoOldest => oldest \in Time /\ oldest # NoUntil
           /\ params.since \in Int /\ params.until \in Int /\ params.cursor \in Int
           /\ params.until <= NoUntil
<1>1. \A e \in ingested : e.ts \in Int /\ e.ts < NoOldest
  BY TiersFinite, StampBelowNoCursor DEF NoOldest, NoCursor
<1>2. Time \subseteq Int /\ MaxTime \in Nat /\ \A t \in Time : t <= MaxTime
  BY ConstantsAssumption DEF Time
<1>3. oldest \in Time \cup {NoOldest}
  BY DEF ReadTypeOK
<1>4. /\ params.since \in Sinces \cup {NoSince}
      /\ params.until \in Untils \cup Time \cup {NoUntil}
      /\ params.cursor \in Time \cup {NoCursor}
  BY DEF ReadTypeOK, Params
<1>5. Sinces \cup {NoSince} \subseteq Int
  BY <1>2, ReadAssumption DEF NoSince
<1>6. \A t \in Untils \cup Time \cup {NoUntil} : t \in Int /\ t <= NoUntil
  BY <1>2, ReadAssumption DEF NoUntil
<1>7. Time \cup {NoCursor} \subseteq Int
  BY <1>2 DEF NoCursor
<1>8. /\ oldest \in Int /\ NoOldest \in Int
      /\ oldest # NoOldest => oldest \in Time /\ oldest # NoUntil
  BY <1>2, <1>3 DEF NoOldest, NoUntil
<1> QED
  BY <1>1, <1>4, <1>5, <1>6, <1>7, <1>8

LEMMA RequestStep ==
    ASSUME SessionInv, [Read \/ Elsewhere(Next)]_allVars
    PROVE  RequestInv'
<1>1. /\ TypeOK /\ TiersInv /\ ReadTypeOK /\ SessionShape
      /\ StaysAreHot /\ OldestIsBelow /\ OlderHalf
  BY DEF SessionInv, RequestInv, TiersInv
<1>2. StaysAreHot'
  <2>1. CASE Read
    <3>1. hot' = hot
      BY <2>1, ReadLeavesTiers
    <3>2. stayedHot' = stayedHot \/ stayedHot' = hot
      BY <2>1 DEF Read, FirstPage, NextPage, HotHealth, ColdHealthAnswer, HotOnly, ListKeys,
         FetchObject, ColdOnly, ColdHalf, HotHalf, ReadFails, Reads, ReadFault, stays
    <3> QED
      BY <1>1, <3>1, <3>2 DEF StaysAreHot
  <2>2. CASE Elsewhere(Next) \/ UNCHANGED allVars
    BY <1>1, <2>2 DEF Elsewhere, allVars, stays, vars, StaysAreHot
  <2> QED
    BY <2>1, <2>2
<1>3. CASE FirstPage \/ NextPage
  BY <1>2, <1>3 DEF FirstPage, NextPage, RequestInv, OldestIsBelow, OlderHalf
<1>4. CASE HotHealth
  <2>1. rpc' = "cold_health" /\ UNCHANGED stayedHot
    BY <1>4 DEF HotHealth, Reads, ReadFault, stays
  <2>2. ASSUME faults' = 0, NEW e \in stayedHot PROVE oldest' <= e.ts
    <3>1. e \in hot /\ ~Fault
      BY <1>1, <2>2, FaultsGrow, <1>4 DEF Read, StaysAreHot
    <3>2. PICK f \in hot : IsLast(f, hot) /\ oldest' = f.ts
      BY <1>4, <3>1 DEF HotHealth, ReadFault
    <3> QED
      BY <3>1, <3>2 DEF IsLast
  <2> QED
    BY <1>2, <2>1, <2>2 DEF RequestInv, OldestIsBelow, OlderHalf
<1>5. CASE ColdHealthAnswer
  BY <1>1, <1>2, <1>5 DEF ColdHealthAnswer, Reads, vars, stays, RequestInv, OldestIsBelow, OlderHalf
<1>6. CASE ListKeys
  <2>1. /\ rpc = "query" /\ rpc' = "fetch" /\ fetched' = {} /\ coldParams' = Resolved(ColdParams)
        /\ UNCHANGED <<params, oldest, stayedHot, faults>>
    BY <1>1, <1>6 DEF ListKeys, Reads, vars, stays, SessionShape
  <2>2. Straddles' = Straddles
    BY <2>1 DEF Straddles
  <2>3. ASSUME Straddles PROVE coldParams'.until = oldest
    <3>1. ColdParams.until = oldest
      BY <1>1, <2>3 DEF ColdParams, ReadTypeOK, Params
    <3>2. oldest # NoUntil
      BY <1>1, <2>3, StampFacts DEF Straddles
    <3> QED
      BY <2>1, <3>1, <3>2 DEF Resolved
  <2> QED
    BY <1>1, <1>2, <2>1, <2>2, <2>3 DEF RequestInv, OldestIsBelow, OlderHalf
<1>7. ASSUME NEW k \in Key, FetchObject(k) PROVE RequestInv'
  <2>1. /\ rpc = "fetch" /\ rpc' = "fetch"
        /\ UNCHANGED <<params, oldest, coldParams, stayedHot>>
    BY <1>7 DEF FetchObject, Reads, ReadFault, stays
  <2>2. Straddles' = Straddles
    BY <2>1 DEF Straddles
  <2>3. fetched' \subseteq fetched \cup {e \in cold[k] : Matches(coldParams, e)}
    BY <1>7, PageFacts DEF FetchObject
  <2>4. ASSUME Straddles PROVE \A e \in fetched' : e.ts <= oldest
    BY <1>1, <2>1, <2>3, <2>4 DEF OlderHalf, Matches, Selects
  <2>5. faults' = 0 => faults = 0
    BY <1>1, <1>7, FaultsGrow DEF Read
  <2> QED
    BY <1>1, <1>2, <2>1, <2>2, <2>4, <2>5 DEF RequestInv, OldestIsBelow, OlderHalf
<1>8. CASE ColdHalf
  <2>1. /\ rpc = "fetch" /\ rpc' = "hot_half" /\ Straddles
        /\ UNCHANGED <<params, oldest, stayedHot, faults>>
    BY <1>8 DEF ColdHalf, FetchDone, Reads, vars, stays
  <2>2. fetched' \subseteq fetched
    BY <1>8, PageFacts DEF ColdHalf
  <2> QED
    BY <1>1, <1>2, <2>1, <2>2 DEF RequestInv, OldestIsBelow, OlderHalf, Straddles
<1>9. CASE HotOnly \/ ColdOnly \/ HotHalf \/ ReadFails
  <2>1. rpc' \in {"answered", "failed"}
    BY <1>9 DEF HotOnly, ColdOnly, HotHalf, ReadFails, Answer
  <2> QED
    BY <1>2, <2>1 DEF RequestInv, OldestIsBelow, OlderHalf
<1>10. CASE Elsewhere(Next) \/ UNCHANGED allVars
  <2>1. UNCHANGED <<rpc, params, oldest, coldParams, fetched>> /\ stayedHot' \subseteq stayedHot
    BY <1>10 DEF Elsewhere, allVars, readVars, stays
  <2>2. faults' = 0 => faults = 0
    BY <1>1, <1>10, FaultsGrow
  <2> QED
    BY <1>1, <1>2, <2>1, <2>2 DEF RequestInv, OldestIsBelow, OlderHalf, Straddles
<1> QED
  BY <1>3, <1>4, <1>5, <1>6, <1>7, <1>8, <1>9, <1>10 DEF Read

LEMMA SessionInvariant == ReadSpec => []SessionInv
<1>1. Init /\ ReadInit => SessionInv
  BY TypeInit, InvInit, FS_EmptySet, TypeReadInit
  DEF Init, ReadInit, SessionInv, TiersInv, FiniteLog, SessionShape, RequestInv, StaysAreHot,
      OldestIsBelow, OlderHalf
<1>2. SessionInv /\ [Read \/ Elsewhere(Next)]_allVars => SessionInv'
  BY TiersStep, TypeReadStep, RequestStep DEF SessionInv
<1> QED
  BY <1>1, <1>2, PTL DEF ReadSpec
-----------------------------------------------------------------------------
(***************************************************************************)
(* The three ways a request is answered.                                   *)
(***************************************************************************)
(* A hot query returns each event it matches, or is full of newer ones. *)
LEMMA HotPageComplete ==
    ASSUME SessionInv, NEW q, NEW P \in Pages(HotQuery(q), PageLimit(params.limit)),
           NEW e \in hot, Matches(q, e), e \notin P
    PROVE  Cardinality(P) = PageLimit(params.limit) /\ \A f \in P : f.ts >= e.ts
<1>1. e \in HotQuery(q)
  BY DEF HotQuery
<1> QED
  BY <1>1, PageFacts

(* The answer of a request of both tiers: a hot half at or above the        *)
(* boundary, a cold half at or below it, merged and truncated.              *)
LEMMA MergedHalves ==
    ASSUME SessionInv, HotHalf
    PROVE  \E P \in Pages(HotQuery([params EXCEPT !.since = oldest]), PageLimit(params.limit)) :
             /\ page' \in Merged(Tagged("hot", P) \cup Tagged("cold", fetched), params.limit)
             /\ next' \in NextCursor(P, PageLimit(params.limit))
             /\ P \subseteq Event
             /\ IsFiniteSet(P)
             /\ Cardinality(P) \in Nat /\ Cardinality(P) <= PageLimit(params.limit)
             /\ IsFiniteSet(Tagged("hot", P) \cup Tagged("cold", fetched))
             /\ \A e \in P : e.ts >= oldest
             /\ \A f \in fetched : f.ts <= oldest
<1> DEFINE q == [params EXCEPT !.since = oldest]
<1>1. PICK P \in Pages(HotQuery(q), PageLimit(params.limit)) :
        \E pairs \in Merged(Tagged("hot", P) \cup Tagged("cold", fetched), params.limit) :
            Answer(pairs, NextCursor(P, PageLimit(params.limit)))
  BY DEF HotHalf
<1>2. /\ page' \in Merged(Tagged("hot", P) \cup Tagged("cold", fetched), params.limit)
      /\ next' \in NextCursor(P, PageLimit(params.limit))
  BY <1>1 DEF Answer
<1>3. /\ TiersInv /\ ReadTypeOK /\ SessionShape
      /\ \A f \in fetched : f.ts <= oldest
  BY DEF SessionInv, RequestInv, OlderHalf, HotHalf
<1>4. q.since = oldest
  BY <1>3 DEF ReadTypeOK, Params
<1>5. \A e \in P : e.ts >= oldest
  BY <1>4, PageFacts DEF HotQuery, Matches, Selects
<1> HIDE DEF q
<1>6. P \subseteq Event /\ IsFiniteSet(P)
      /\ Cardinality(P) \in Nat /\ Cardinality(P) <= PageLimit(params.limit)
  BY <1>3, HotPage
<1>7. IsFiniteSet(Tagged("hot", P) \cup Tagged("cold", fetched))
  BY <1>3, <1>6, TiersFinite, TaggedSize, FS_Union DEF SessionShape
<1> QED
  BY <1>2, <1>3, <1>5, <1>6, <1>7 DEF q

(* All of the hot half is on the page, and of the cold half what still fits. *)
LEMMA BothHalves ==
    ASSUME SessionInv, HotHalf
    PROVE  \E P \in Pages(HotQuery([params EXCEPT !.since = oldest]), PageLimit(params.limit)) :
             /\ page' \subseteq Tagged("hot", P) \cup Tagged("cold", fetched)
             /\ IsFiniteSet(page') /\ Cardinality(page') \in Nat
             /\ Cardinality(page') <= params.limit
             /\ params.limit # 0 => Tagged("hot", P) \subseteq page'
             /\ next' \in NextCursor(P, PageLimit(params.limit))
             /\ IsFiniteSet(P)
             /\ \A e \in P : e.ts >= oldest
             /\ \A f \in fetched : f.ts <= oldest
             /\ UNCHANGED <<params, oldest, seen, stayedHot, faults>>
<1> DEFINE q == [params EXCEPT !.since = oldest]
<1>1. PICK P \in Pages(HotQuery(q), PageLimit(params.limit)) :
        /\ page' \in Merged(Tagged("hot", P) \cup Tagged("cold", fetched), params.limit)
        /\ next' \in NextCursor(P, PageLimit(params.limit))
        /\ P \subseteq Event
        /\ IsFiniteSet(P)
        /\ Cardinality(P) \in Nat /\ Cardinality(P) <= PageLimit(params.limit)
        /\ IsFiniteSet(Tagged("hot", P) \cup Tagged("cold", fetched))
        /\ \A e \in P : e.ts >= oldest
        /\ \A f \in fetched : f.ts <= oldest
  BY MergedHalves
<1> HIDE DEF q
<1>2. TiersInv /\ ReadTypeOK /\ SessionShape
  BY DEF SessionInv
<1>3. IsFiniteSet(fetched) /\ fetched \subseteq Event
  BY <1>2, TiersFinite DEF SessionShape
<1>4. params.limit \in Nat
  BY <1>2, LimitType DEF ReadTypeOK
<1>5. /\ page' \subseteq Tagged("hot", P) \cup Tagged("cold", fetched)
      /\ IsFiniteSet(page') /\ Cardinality(page') \in Nat
      /\ Cardinality(page') <= params.limit
  BY <1>1, <1>4, MergedFacts
<1>6. ASSUME params.limit # 0
      PROVE  Tagged("hot", P) \subseteq page'
  <2>1. PageLimit(params.limit) <= params.limit /\ PageLimit(params.limit) \in Nat
    BY <1>4, <1>6, PageLimitFacts
  <2>2. \A e \in P : \A f \in fetched : f.ts <= e.ts
    <3>1. \A e \in P \cup fetched : e.ts \in Int
      BY <1>1, <1>3, StampBelowNoCursor
    <3>2. oldest \in Int
      BY <1>2, StampFacts
    <3> QED
      BY <1>1, <3>1, <3>2
  <2>3. Cardinality(P) <= params.limit
    BY <1>1, <1>4, <2>1
  <2> QED
    BY <1>1, <1>3, <1>4, <2>2, <2>3, HotHalfFits
<1>7. UNCHANGED <<params, oldest, seen, stayedHot, faults>>
  BY DEF HotHalf, Answer, Reads, stays, vars
<1> QED
  BY <1>1, <1>5, <1>6, <1>7 DEF q

(* A step that answers is one of three; any other keeps an answer as it is. *)
LEMMA Answered ==
    ASSUME [Read \/ Elsewhere(Next)]_allVars, rpc' = "answered"
    PROVE  \/ HotOnly
           \/ ColdOnly
           \/ HotHalf
           \/ /\ UNCHANGED <<rpc, page, params, oldest, coldOk, next, seen>>
              /\ stayedHot' \subseteq stayedHot /\ stayedCold' \subseteq stayedCold
<1>1. CASE Read
  BY <1>1 DEF Read, FirstPage, NextPage, HotHealth, ColdHealthAnswer, ListKeys, FetchObject,
     ColdHalf, ReadFails
<1>2. CASE Elsewhere(Next) \/ UNCHANGED allVars
  BY <1>2 DEF Elsewhere, allVars, readVars, stays
<1> QED
  BY <1>1, <1>2
-----------------------------------------------------------------------------
(* The two halves of a page overlap at the boundary only, whatever rotation *)
(* moves between them.                                                      *)
LEMMA BoundaryStep ==
    ASSUME SessionInv, DuplicateIsBoundary, [Read \/ Elsewhere(Next)]_allVars
    PROVE  DuplicateIsBoundary'
<1> SUFFICES ASSUME rpc' = "answered", NEW x \in page', NEW y \in page',
                    x[2] = y[2], x[1] # y[1]
             PROVE  x[2].ts = oldest'
  BY DEF DuplicateIsBoundary
<1>1. CASE HotOnly
  <2>1. PICK P : page' = Tagged("hot", P)
    BY <1>1 DEF HotOnly, Answer
  <2> QED
    BY <2>1 DEF Tagged
<1>2. CASE ColdOnly
  <2>1. PICK P : page' = Tagged("cold", P)
    BY <1>2 DEF ColdOnly, Answer
  <2> QED
    BY <2>1 DEF Tagged
<1>3. CASE HotHalf
  <2>1. PICK P \in Pages(HotQuery([params EXCEPT !.since = oldest]), PageLimit(params.limit)) :
          /\ page' \subseteq Tagged("hot", P) \cup Tagged("cold", fetched)
          /\ \A e \in P : e.ts >= oldest
          /\ \A f \in fetched : f.ts <= oldest
          /\ oldest' = oldest
    BY <1>3, BothHalves
  <2>2. x[2] \in P /\ x[2] \in fetched
    BY <2>1 DEF Tagged
  <2>3. x[2].ts \in Int /\ oldest \in Int
    BY <2>2, TiersFinite, StampFacts DEF SessionInv, SessionShape
  <2> QED
    BY <2>1, <2>2, <2>3
<1>4. CASE UNCHANGED <<rpc, page, params, oldest, coldOk, next, seen>>
  BY <1>4 DEF DuplicateIsBoundary
<1> QED
  BY <1>1, <1>2, <1>3, <1>4, Answered

(* A page never holds an event twice but at the boundary. *)
THEOREM BoundaryOnly == ReadSpec => []DuplicateIsBoundary
<1>1. ReadInit => DuplicateIsBoundary
  BY DEF ReadInit, DuplicateIsBoundary
<1> QED
  BY <1>1, BoundaryStep, SessionInvariant, PTL DEF ReadSpec
-----------------------------------------------------------------------------
(* Each answer holds every matching event that stayed in hot, or newer ones. *)
LEMMA HotNotSkippedStep ==
    ASSUME SessionInv, HotNotSkipped, [Read \/ Elsewhere(Next)]_allVars
    PROVE  HotNotSkipped'
<1> SUFFICES ASSUME rpc' = "answered", faults' = 0, params'.limit <= 2000,
                    NEW e \in stayedHot', Matches(params', e), <<"hot", e>> \notin page'
             PROVE  /\ Cardinality(page') >= params'.limit
                    /\ \A x \in page' : x[2].ts >= e.ts
  BY DEF HotNotSkipped, FullAbove, Matches, Selects
<1>1. /\ TiersInv /\ ReadTypeOK /\ SessionShape
      /\ StaysAreHot /\ OldestIsBelow /\ TypeOK
  BY DEF SessionInv, RequestInv, TiersInv
<1>2. faults = 0
  BY <1>1, FaultsGrow
<1>3. params.limit \in Nat
  BY <1>1, LimitType DEF ReadTypeOK
<1>4. CASE HotOnly
  <2>1. PICK P \in Pages(HotQuery(params), PageLimit(params.limit)) :
          page' = Tagged("hot", P) /\ UNCHANGED <<params, stayedHot>>
    BY <1>4 DEF HotOnly, Answer, Reads, stays
  <2>2. e \in hot /\ e \notin P
    BY <1>1, <2>1 DEF StaysAreHot, Tagged
  <2>3. Cardinality(P) = PageLimit(params.limit) /\ \A f \in P : f.ts >= e.ts
    BY <2>1, <2>2, HotPageComplete
  <2>4. Cardinality(page') = PageLimit(params.limit)
    BY <1>1, <2>1, <2>3, HotPage, TaggedSize
  <2>5. ASSUME NEW n \in Nat, n <= 2000 PROVE PageLimit(n) >= n
    BY <2>5 DEF PageLimit
  <2>6. PageLimit(params.limit) >= params.limit
    BY <1>3, <2>1, <2>5
  <2> QED
    BY <2>1, <2>3, <2>4, <2>6 DEF Tagged
<1>5. CASE ColdOnly
  <2>1. rpc = "fetch" /\ ~Straddles /\ UNCHANGED <<params, stayedHot>>
    BY <1>5 DEF ColdOnly, FetchDone, Answer, Reads, stays
  <2>2. oldest <= e.ts /\ e \in ingested
    BY <1>1, <1>2, <2>1, TiersFinite DEF OldestIsBelow, StaysAreHot
  <2>3. e.ts <= params.until
    BY <2>1 DEF Matches, Selects
  <2>4. /\ e.ts \in Int /\ e.ts < NoOldest /\ NoOldest \in Int
        /\ oldest \in Int /\ params.until \in Int
    BY <1>1, <2>2, StampFacts
  <2>5. Straddles
    BY <2>2, <2>3, <2>4 DEF Straddles
  <2> QED
    BY <2>1, <2>5
<1>6. CASE HotHalf
  <2> DEFINE q == [params EXCEPT !.since = oldest]
  <2>1. PICK P \in Pages(HotQuery(q), PageLimit(params.limit)) :
          /\ page' \subseteq Tagged("hot", P) \cup Tagged("cold", fetched)
          /\ IsFiniteSet(page') /\ Cardinality(page') \in Nat
          /\ Cardinality(page') <= params.limit
          /\ params.limit # 0 => Tagged("hot", P) \subseteq page'
          /\ IsFiniteSet(P)
          /\ UNCHANGED <<params, stayedHot>>
    BY <1>6, BothHalves
  <2>2. CASE params.limit = 0
    <3>1. Cardinality(page') = 0
      BY <2>1, <2>2
    <3>2. page' = {}
      BY <2>1, <3>1, FS_EmptySet
    <3> QED
      BY <2>1, <2>2, <3>1, <3>2
  <2>3. CASE params.limit # 0
    <3>1. Tagged("hot", P) \subseteq page' /\ PageLimit(params.limit) = params.limit
      BY <1>3, <2>1, <2>3, PageLimitFacts
    <3>2. e \in hot /\ e \notin P
      BY <1>1, <2>1, <3>1 DEF StaysAreHot, Tagged
    <3>3. Matches(q, e)
      <4>1. oldest <= e.ts
        BY <1>1, <1>2, <1>6, <2>1 DEF OldestIsBelow, HotHalf
      <4>2. e.ts \in Int /\ oldest \in Int
        BY <1>1, <3>2, StampFacts, TiersFinite
      <4>3. /\ q.since = oldest /\ q.source = params.source /\ q.until = params.until
            /\ q.cursor = params.cursor
        BY <1>1 DEF ReadTypeOK, Params
      <4> HIDE DEF q
      <4> QED
        BY <2>1, <4>1, <4>2, <4>3 DEF Matches, Selects
    <3> HIDE DEF q
    <3>4. Cardinality(P) = params.limit /\ \A f \in P : f.ts >= e.ts
      BY <3>1, <3>2, <3>3, HotPageComplete
    <3>5. Cardinality(Tagged("hot", P)) = params.limit
      BY <2>1, <3>4, TaggedSize
    <3>6. Cardinality(page') = params.limit /\ page' = Tagged("hot", P)
      <4>1. /\ Cardinality(Tagged("hot", P)) <= Cardinality(page')
            /\ Cardinality(Tagged("hot", P)) = Cardinality(page') => Tagged("hot", P) = page'
        BY <2>1, <3>1, FS_Subset
      <4> QED
        BY <1>3, <2>1, <3>5, <4>1
    <3> QED
      BY <1>3, <2>1, <3>4, <3>6 DEF Tagged
  <2> QED
    BY <2>2, <2>3
<1>7. CASE /\ UNCHANGED <<rpc, page, params, oldest, coldOk, next, seen>>
           /\ stayedHot' \subseteq stayedHot
  BY <1>2, <1>7 DEF HotNotSkipped, FullAbove
<1> QED
  BY <1>4, <1>5, <1>6, <1>7, Answered

(* An event that stays in hot is on the page, or the page is full above it. *)
THEOREM NoHotSkipped == ReadSpec => []HotNotSkipped
<1>1. ReadInit => HotNotSkipped
  BY DEF ReadInit, HotNotSkipped
<1> QED
  BY <1>1, HotNotSkippedStep, SessionInvariant, PTL DEF ReadSpec
=============================================================================
