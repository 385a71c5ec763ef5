---------------------------- MODULE HealthProofs ----------------------------
(***************************************************************************)
(* Proofs about ColdHealth, for any number of concurrent health() calls,   *)
(* any TTL, any bound on the duration of a call, and any of S3's troubles. *)
(***************************************************************************)
EXTENDS ColdHealth, TLAPS

\* The constants derived from TTL and Latency are natural numbers, and a
\* cached verdict and a probe are both younger than Oldest.
LEMMA OldestBounds ==
    /\ Oldest \in Nat
    /\ Horizon = Oldest + Latency
    /\ Latency <= Oldest
    /\ \A n \in 0 .. TTL : n < TTL => n <= Oldest
BY ConstantsAssumption DEF Oldest, Horizon

\* AtMost(n, b) is n cut off at b.
LEMMA AtMostBounds ==
    ASSUME NEW n \in Nat, NEW b \in Nat
    PROVE  /\ AtMost(n, b) \in 0 .. b
           /\ AtMost(n, b) <= n
           /\ AtMost(n, b) < b => AtMost(n, b) = n
BY DEF AtMost

\* Whatever the SDK's error, the kind reported is one operators can look up.
LEMMA Classified == ASSUME NEW err PROVE classify_sdk_err(err) \in S3IssueKind
<1>1. SdkErrorKind(err) \in S3IssueKind
  <2>1. CASE err.kind \in {"DispatchFailure", "TimeoutError", "ResponseError", "ConstructionFailure"}
    BY <2>1 DEF SdkErrorKind, S3IssueKind
  <2>2. CASE err.kind \notin {"DispatchFailure", "TimeoutError", "ResponseError", "ConstructionFailure"}
    BY <2>2 DEF SdkErrorKind, S3IssueKind
  <2>. QED
    BY <2>1, <2>2
<1>2. StatusKind(err) \in S3IssueKind
  <2>1. CASE err.status = 403
    BY <2>1 DEF StatusKind, S3IssueKind
  <2>2. CASE err.status # 403
    BY <2>2 DEF StatusKind, S3IssueKind
  <2>. QED
    BY <2>1, <2>2
<1>. QED
  BY <1>1, <1>2 DEF classify_sdk_err, S3IssueKind

\* No issue is called none.
LEMMA IssuesAreNamed == None \notin S3IssueKind
BY DEF None, S3IssueKind

\* A trouble's responses are errors a PUT or a HEAD can end with.
LEMMA SymptomsAreReplies ==
    ASSUME NEW t \in S3IssueKind
    PROVE  Symptoms[t] \subseteq Reply
BY DEF Reply

\* Every response of every trouble is reported under the trouble's own name,
\* but for a redirect that names no region: no status and no code hides a wrong
\* region, and no header a wrong key.
THEOREM TroublesNamed ==
    \A t \in S3IssueKind : \A err \in Symptoms[t] :
        classify_sdk_err(err) = IF err = Bare301 THEN "ServiceError" ELSE t
<1>. USE DEF Symptoms, Service, Sdk, None, Bare301, classify_sdk_err, SdkErrorKind, StatusKind
<1>1. \A err \in Symptoms.WrongRegion :
         classify_sdk_err(err) = IF err = Bare301 THEN "ServiceError" ELSE "WrongRegion"
  OBVIOUS
<1>2. \A err \in Symptoms.BucketNotFound : classify_sdk_err(err) = "BucketNotFound" /\ err # Bare301
  OBVIOUS
<1>3. \A err \in Symptoms.AuthFailure : classify_sdk_err(err) = "AuthFailure" /\ err # Bare301
  OBVIOUS
<1>4. \A err \in Symptoms.AccessDenied : classify_sdk_err(err) = "AccessDenied" /\ err # Bare301
  OBVIOUS
<1>5. \A err \in Symptoms.NetworkFailure : classify_sdk_err(err) = "NetworkFailure" /\ err # Bare301
  OBVIOUS
<1>6. \A err \in Symptoms.TimeoutError : classify_sdk_err(err) = "TimeoutError" /\ err # Bare301
  OBVIOUS
<1>7. \A err \in Symptoms.ServiceError : classify_sdk_err(err) = "ServiceError"
  OBVIOUS
<1>8. \A err \in Symptoms.SdkInternal : classify_sdk_err(err) = "SdkInternal" /\ err # Bare301
  OBVIOUS
<1>. QED
  BY <1>1, <1>2, <1>3, <1>4, <1>5, <1>6, <1>7, <1>8 DEF S3IssueKind

\* The conjuncts of HealthInv that speak of the calls under way, for actions
\* that leave calls, flag and evidence alone.
LEMMA HealthFrame ==
    HealthInv /\ TypeOK' /\ UNCHANGED <<trouble, sinceUp, ok, issue, age, calls, written>>
        => HealthInv'
BY DEF HealthInv, calls, OkHasWitness, UpIsNow, up, ReachedHasWitness, AnswerHasWitness,
       AnswerExplained

\* After boot every verdict is the boot probe's own.
LEMMA HealthInit == Init => HealthInv
<1> SUFFICES ASSUME Init PROVE HealthInv
  OBVIOUS
<1> USE ConstantsAssumption, OldestBounds DEF Init
<1>1. issue \in S3IssueKind \union {None}
  BY Classified DEF up
<1>2. NoReply \in Reply
  BY DEF Reply
<1>3. TypeOK
  <2>1. trouble \in Troubles \union {None} /\ ok \in BOOLEAN
    BY DEF up
  <2>2. sinceUp \in 0 .. Horizon + 1 /\ age \in 0 .. TTL
    OBVIOUS
  <2>. QED
    BY <1>1, <1>2, <2>1, <2>2 DEF TypeOK
<1>4. OkHasWitness /\ UpIsNow
  BY DEF OkHasWitness, UpIsNow
<1>5. ReachedHasWitness /\ AnswerHasWitness /\ AnswerExplained
  BY DEF ReachedHasWitness, AnswerHasWitness, AnswerExplained
<1>. QED
  BY <1>3, <1>4, <1>5 DEF HealthInv

\* The clock ages the evidence, the flag and the calls together.
LEMMA HealthTick == HealthInv /\ Tick => HealthInv'
<1> SUFFICES ASSUME HealthInv, Tick PROVE HealthInv'
  OBVIOUS
<1> USE ConstantsAssumption, OldestBounds DEF HealthInv, writing
<1>1. /\ sinceUp' \in 0 .. Horizon + 1
      /\ sinceUp' <= sinceUp + 1
      /\ up => sinceUp' = 0
  BY AtMostBounds DEF Tick, TypeOK, AtMost
<1>2. age' \in 0 .. TTL /\ (age' < TTL => age' = age + 1)
  BY AtMostBounds DEF Tick, TypeOK
<1>3. /\ callAge' \in [Req -> 0 .. Latency]
      /\ \A r \in Req : pc[r] # "idle" => callAge'[r] = callAge[r] + 1
  BY DEF Tick, TypeOK
<1>4. TypeOK'
  BY <1>1, <1>2, <1>3 DEF Tick, TypeOK
<1>5. OkHasWitness'
  BY <1>1, <1>2 DEF Tick, TypeOK, OkHasWitness
<1>6. UpIsNow'
  BY <1>1 DEF Tick, UpIsNow, up
<1>7. ReachedHasWitness'
  BY <1>1, <1>3 DEF Tick, TypeOK, ReachedHasWitness
<1>8. AnswerHasWitness'
  BY <1>1, <1>3 DEF Tick, TypeOK, AnswerHasWitness
<1>9. AnswerExplained'
  BY DEF Tick, AnswerExplained
<1>. QED
  BY <1>4, <1>5, <1>6, <1>7, <1>8, <1>9

\* A change of S3's trouble leaves the flag alone and only renews the
\* evidence.
LEMMA HealthSwitch == HealthInv /\ Switch => HealthInv'
<1> SUFFICES ASSUME HealthInv, Switch PROVE HealthInv'
  OBVIOUS
<1> USE ConstantsAssumption, OldestBounds DEF HealthInv, Switch, calls, writing
<1>1. TypeOK'
  BY DEF TypeOK
<1>2. sinceUp' \in Nat /\ sinceUp' <= sinceUp
  BY DEF TypeOK
<1>3. UpIsNow'
  BY DEF UpIsNow, up
<1>4. OkHasWitness'
  BY <1>2 DEF OkHasWitness, TypeOK
<1>5. ReachedHasWitness'
  BY <1>2 DEF ReachedHasWitness, TypeOK
<1>6. AnswerHasWitness'
  BY <1>2 DEF AnswerHasWitness, TypeOK
<1>7. AnswerExplained'
  BY DEF AnswerExplained
<1>. QED
  BY <1>1, <1>3, <1>4, <1>5, <1>6, <1>7

\* A call begins: it answers from the flag only when the flag is young.
LEMMA HealthBegin ==
    ASSUME NEW r \in Req
    PROVE  HealthInv /\ Health(r) => HealthInv'
<1> SUFFICES ASSUME HealthInv, Health(r) PROVE HealthInv'
  OBVIOUS
<1> USE ConstantsAssumption, OldestBounds DEF HealthInv, Health, writing
<1>1. TypeOK'
  BY DEF TypeOK
<1>2. OkHasWitness' /\ UpIsNow'
  BY DEF OkHasWitness, UpIsNow, up
<1>3. ReachedHasWitness'
  BY DEF ReachedHasWitness, TypeOK
<1>4. ok /\ ~NeedProbe => sinceUp <= Oldest
  BY DEF OkHasWitness, NeedProbe, TypeOK
<1>5. AnswerHasWitness'
  BY <1>4 DEF AnswerHasWitness, TypeOK
<1>6. AnswerExplained'
  BY DEF AnswerExplained, NeedProbe, TypeOK
<1>. QED
  BY <1>1, <1>2, <1>3, <1>5, <1>6

\* A probe sees S3 up only while it is, and records the time it began.
LEMMA HealthProbe ==
    ASSUME NEW r \in Req
    PROVE  HealthInv /\ Probe(r) => HealthInv'
<1> SUFFICES ASSUME HealthInv, Probe(r) PROVE HealthInv'
  OBVIOUS
<1> USE ConstantsAssumption, OldestBounds DEF HealthInv, writing
<1>1. CASE Head(r)
  <2> USE <1>1 DEF Head
  <2>1. reply' \in [Req -> Reply]
    BY SymptomsAreReplies DEF TypeOK, up
  <2>2. TypeOK'
    BY <2>1 DEF TypeOK
  <2>3. OkHasWitness' /\ UpIsNow'
    BY DEF OkHasWitness, UpIsNow, up
  <2>4. ReachedHasWitness'
    BY DEF ReachedHasWitness, UpIsNow, TypeOK
  <2>5. AnswerHasWitness' /\ AnswerExplained'
    BY DEF AnswerHasWitness, AnswerExplained, TypeOK
  <2>. QED
    BY <2>2, <2>3, <2>4, <2>5
<1>2. CASE ProbeOk(r)
  <2> USE <1>2 DEF ProbeOk
  <2>1. age' \in 0 .. TTL /\ (age' < TTL => age' = callAge[r])
    BY AtMostBounds DEF TypeOK
  <2>2. sinceUp <= callAge[r]
    BY DEF ReachedHasWitness
  <2>3. TypeOK'
    BY <2>1 DEF TypeOK
  <2>4. OkHasWitness' /\ UpIsNow'
    BY <2>1, <2>2 DEF OkHasWitness, UpIsNow, up, TypeOK
  <2>5. ReachedHasWitness'
    BY DEF ReachedHasWitness, TypeOK
  <2>6. AnswerHasWitness'
    BY <2>2 DEF AnswerHasWitness, TypeOK
  <2>7. AnswerExplained'
    BY DEF AnswerExplained
  <2>. QED
    BY <2>3, <2>4, <2>5, <2>6, <2>7
<1>3. CASE ProbeFails(r)
  <2> USE <1>3 DEF ProbeFails
  <2>1. age' \in 0 .. TTL
    BY AtMostBounds DEF TypeOK
  <2>2. issue' \in S3IssueKind
    BY Classified
  <2>3. NoReply \in Reply
    BY DEF Reply
  <2>4. TypeOK'
    BY <2>1, <2>2, <2>3 DEF TypeOK
  <2>5. OkHasWitness' /\ UpIsNow'
    BY DEF OkHasWitness, UpIsNow, up
  <2>6. ReachedHasWitness' /\ AnswerHasWitness'
    BY DEF ReachedHasWitness, AnswerHasWitness, TypeOK
  <2>7. AnswerExplained'
    BY <2>2, IssuesAreNamed DEF AnswerExplained
  <2>. QED
    BY <2>4, <2>5, <2>6, <2>7
<1>. QED
  BY <1>1, <1>2, <1>3 DEF Probe

\* A write that succeeds takes the issue away and marks the calls under way;
\* one that fails brings an issue and clears the flag.
LEMMA HealthWrite == HealthInv /\ (Put \/ Write) => HealthInv'
<1> SUFFICES ASSUME HealthInv, Put \/ Write PROVE HealthInv'
  OBVIOUS
<1> USE ConstantsAssumption, OldestBounds
<1>1. CASE Put
  <2>1. TypeOK'
    BY <1>1 DEF HealthInv, Put, TypeOK, calls
  <2>. QED
    BY <1>1, <2>1, HealthFrame DEF Put
<1>2. CASE PutHandled
  <2>1. refusal' \in Reply
    BY <1>2, SymptomsAreReplies DEF HealthInv, PutHandled, TypeOK, up, S3IssueKind
  <2>2. TypeOK'
    BY <1>2, <2>1 DEF HealthInv, PutHandled, TypeOK, calls
  <2>. QED
    BY <1>2, <2>2, HealthFrame DEF PutHandled
<1>3. CASE WriteOk
  <2> USE <1>3 DEF HealthInv, WriteOk, calls
  <2>1. TypeOK'
    BY DEF TypeOK
  <2>2. OkHasWitness' /\ UpIsNow' /\ ReachedHasWitness' /\ AnswerHasWitness'
    BY DEF OkHasWitness, UpIsNow, up, ReachedHasWitness, AnswerHasWitness
  <2>3. AnswerExplained'
    BY DEF AnswerExplained
  <2>. QED
    BY <2>1, <2>2, <2>3
<1>4. CASE WriteFails
  <2> USE <1>4 DEF HealthInv, WriteFails, calls
  <2>1. issue' \in S3IssueKind
    BY Classified
  <2>2. NoReply \in Reply
    BY DEF Reply
  <2>3. TypeOK'
    BY <2>1, <2>2 DEF TypeOK
  <2>4. OkHasWitness' /\ UpIsNow' /\ ReachedHasWitness' /\ AnswerHasWitness'
    BY DEF OkHasWitness, UpIsNow, up, ReachedHasWitness, AnswerHasWitness
  <2>5. AnswerExplained'
    BY <2>1, IssuesAreNamed DEF AnswerExplained
  <2>. QED
    BY <2>3, <2>4, <2>5
<1>. QED
  BY <1>1, <1>2, <1>3, <1>4 DEF Write

\* An answer ends a call.
LEMMA HealthAnswer ==
    ASSUME NEW r \in Req
    PROVE  HealthInv /\ Answer(r) => HealthInv'
<1> SUFFICES ASSUME HealthInv, Answer(r) PROVE HealthInv'
  OBVIOUS
<1> USE ConstantsAssumption, OldestBounds DEF HealthInv, Answer, writing
<1>1. TypeOK'
  BY DEF TypeOK
<1>2. OkHasWitness' /\ UpIsNow'
  BY DEF OkHasWitness, UpIsNow, up
<1>3. ReachedHasWitness' /\ AnswerHasWitness'
  BY DEF ReachedHasWitness, AnswerHasWitness, TypeOK
<1>4. AnswerExplained'
  BY DEF AnswerExplained, TypeOK
<1>. QED
  BY <1>1, <1>2, <1>3, <1>4

\* Every flag that can still be reported has a witness or an issue, in every
\* reachable state of health() and write_batch.
THEOREM HealthInvariance == Spec => []HealthInv
<1>1. HealthInv /\ UNCHANGED vars => HealthInv'
  <2> SUFFICES ASSUME HealthInv, UNCHANGED vars PROVE HealthInv'
    OBVIOUS
  <2>1. TypeOK'
    BY DEF HealthInv, vars, TypeOK, calls, writing
  <2>. QED
    BY <2>1, HealthFrame DEF vars
<1>2. HealthInv /\ [Next]_vars => HealthInv'
  BY <1>1, HealthTick, HealthSwitch, HealthBegin, HealthProbe, HealthAnswer, HealthWrite
     DEF Next
<1>. QED
  BY HealthInit, <1>2, PTL DEF Spec

\* No call answers ok = true on evidence older than a TTL and a call.
THEOREM OutagesShow == Spec => OutageBound
<1>1. HealthInv => \A r \in Req : Answer(r) /\ ok => sinceUp <= Horizon
  BY ConstantsAssumption, OldestBounds DEF HealthInv, AnswerHasWitness, Answer, TypeOK
<1>2. HealthInv /\ [Next]_vars => [\A r \in Req : Answer(r) /\ ok => sinceUp <= Horizon]_vars
  BY <1>1
<1>. QED
  BY HealthInvariance, <1>2, PTL DEF Spec, OutageBound

\* No call answers ok = false without an issue, unless a write succeeded
\* during the call.
THEOREM OutagesExplained == Spec => OutageExplained
<1>1. HealthInv => \A r \in Req : Answer(r) /\ ~ok => issue # None \/ r \in written
  BY DEF HealthInv, AnswerExplained, Answer
<1>2. HealthInv /\ [Next]_vars
        => [\A r \in Req : Answer(r) /\ ~ok => issue # None \/ r \in written]_vars
  BY <1>1
<1>. QED
  BY HealthInvariance, <1>2, PTL DEF Spec, OutageExplained
=============================================================================
