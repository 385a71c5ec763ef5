----------------------------- MODULE ColdHealth -----------------------------
(***************************************************************************)
(* The health state of S3ColdStore (store/s3.rs): what health() tells GET  *)
(* /health, the dashboard and query_tiered about S3, while rotation's      *)
(* writes change the same state.                                           *)
(*                                                                         *)
(* health() takes the state's lock, decides whether to probe, releases it, *)
(* awaits HEAD, takes the lock to record the result, and takes it again to *)
(* read the answer.  write_batch awaits PUT and takes the lock to record   *)
(* its result.  Any number of health() calls and the rotation task         *)
(* interleave at those awaits.                                             *)
(*                                                                         *)
(* Times are ages in clock ticks that stop growing when nothing can tell   *)
(* them apart any more, so that behaviours need no end of time.            *)
(* What is wrong with S3, if anything, is a trouble; each shows in the     *)
(* responses S3ColdStore gets, which classify_sdk_err turns into the kind  *)
(* of issue operators read.                                                *)
(***************************************************************************)
EXTENDS Integers

CONSTANTS
    Req,      \* concurrent health() calls
    TTL,      \* HEALTH_CACHE_TTL_SECS
    Latency,  \* the longest a health() call takes; the code sets no timeout
    Troubles  \* bound: the troubles S3 gets into

S3IssueKind ==
    {"WrongRegion", "BucketNotFound", "AuthFailure", "AccessDenied", "NetworkFailure",
     "TimeoutError", "ServiceError", "SdkInternal"}

ASSUME ConstantsAssumption ==
    /\ TTL \in Nat \ {0}
    /\ Latency \in Nat
    /\ Troubles \subseteq S3IssueKind
-----------------------------------------------------------------------------
(* S3's responses, and what they say.  Only a service error has a status,  *)
(* an x-amz-bucket-region header (home is AWS_REGION) and an AWS code.     *)

None == "none"
Sdk(kind) == [kind |-> kind, status |-> 0, region |-> None, code |-> None]
Service(status, region, code) ==
    [kind |-> "ServiceError", status |-> status, region |-> region, code |-> code]

\* a redirect that does not name the bucket's region
Bare301 == Service(301, None, None)

\* how each trouble shows: the responses S3IssueKind's comments name ("HTTP 301"
\* for a wrong region), and those in which the region's header or the code is
\* all that tells
Symptoms ==
    [WrongRegion    |-> {Service(301, "away", None), Service(403, "away", None), Bare301},
     BucketNotFound |-> {Service(404, None, "NoSuchBucket")},
     AuthFailure    |-> {Service(403, None, "InvalidAccessKeyId"),
                         Service(403, "home", "SignatureDoesNotMatch")},
     AccessDenied   |-> {Service(403, "home", "AccessDenied"), Service(403, None, None)},
     NetworkFailure |-> {Sdk("DispatchFailure")},
     TimeoutError   |-> {Sdk("TimeoutError")},
     ServiceError   |-> {Service(503, None, "SlowDown")},
     SdkInternal    |-> {Sdk("ResponseError"), Sdk("ConstructionFailure")}]

SdkErrorKind(err) ==
    CASE err.kind = "DispatchFailure" -> "NetworkFailure"
      [] err.kind = "TimeoutError" -> "TimeoutError"
      [] err.kind \in {"ResponseError", "ConstructionFailure"} -> "SdkInternal"
      [] OTHER -> "ServiceError"

StatusKind(err) ==
    CASE err.status = 403 ->
            IF err.code \in {"InvalidAccessKeyId", "SignatureDoesNotMatch"}
            THEN "AuthFailure" ELSE "AccessDenied"
      [] err.status = 404 -> "BucketNotFound"
      [] OTHER -> "ServiceError"

classify_sdk_err_StatusFirst(err) ==
    IF err.kind # "ServiceError" THEN SdkErrorKind(err)
    ELSE IF err.status = 301 /\ err.region # None THEN "WrongRegion"
    ELSE StatusKind(err)

\* The region is looked at before the status.  A redirect that names none falls
\* through, to a mere ServiceError.
classify_sdk_err(err) ==
    IF err.kind # "ServiceError" THEN SdkErrorKind(err)
    ELSE IF err.region # None /\ (err.status = 301 \/ err.region # "home") THEN "WrongRegion"
    ELSE StatusKind(err)
-----------------------------------------------------------------------------

\* the oldest evidence an answer may rest on: a cached verdict below its TTL,
\* or another call's slow probe; and its age once the call is over
Oldest == IF Latency < TTL THEN TTL - 1 ELSE Latency
Horizon == Oldest + Latency

VARIABLES
    trouble,   \* what is wrong with S3; without one it answers HEAD with success
    sinceUp,   \* history: ticks since it last did, Horizon + 1 if more
    ok,        \* S3State.last_health_ok
    issue,     \* the kind of S3State.last_issue
    age,       \* ticks since S3State.last_health_check, TTL if more or none
    pc,        \* where each health() call is
    callAge,   \* ticks since each call began
    reply,     \* the error each call's HEAD ended with
    written,   \* history: the calls during which a write succeeded
    write,     \* where write_batch is
    refusal    \* the error its PUT ended with

calls == <<pc, callAge, reply>>
writing == <<write, refusal>>
vars == <<trouble, sinceUp, ok, issue, age, calls, written, writing>>

up == trouble = None
NoReply == Sdk(None)
Reply == (UNION {Symptoms[t] : t \in S3IssueKind}) \union {NoReply}

AtMost(n, bound) == IF n < bound THEN n ELSE bound

TypeOK ==
    /\ trouble \in Troubles \union {None}
    /\ sinceUp \in 0 .. Horizon + 1
    /\ ok \in BOOLEAN
    /\ issue \in S3IssueKind \union {None}
    /\ age \in 0 .. TTL
    /\ pc \in [Req -> {"idle", "probing", "reached", "unreached", "answering"}]
    /\ callAge \in [Req -> 0 .. Latency]
    /\ reply \in [Req -> Reply]
    /\ written \subseteq Req
    /\ write \in {"idle", "putting", "stored", "refused"}
    /\ refusal \in Reply

\* connect has made the boot probe
Init ==
    /\ trouble \in Troubles \union {None}
    /\ sinceUp = IF up THEN 0 ELSE Horizon + 1
    /\ ok = up
    /\ issue \in IF up THEN {None} ELSE {classify_sdk_err(err) : err \in Symptoms[trouble]}
    /\ age = 0
    /\ pc = [r \in Req |-> "idle"]
    /\ callAge = [r \in Req |-> 0]
    /\ reply = [r \in Req |-> NoReply]
    /\ written = {}
    /\ write = "idle"
    /\ refusal = NoReply
-----------------------------------------------------------------------------
\* S3 gets into trouble, into another, or out of it
Switch ==
    /\ trouble' \in (Troubles \union {None}) \ {trouble}
    /\ sinceUp' = IF up \/ trouble' # None THEN sinceUp ELSE 0
    /\ UNCHANGED <<ok, issue, age, calls, written, writing>>

Tick ==
    /\ \A r \in Req : pc[r] # "idle" => callAge[r] < Latency
    /\ sinceUp' = IF up THEN 0 ELSE AtMost(sinceUp + 1, Horizon + 1)
    /\ age' = AtMost(age + 1, TTL)
    /\ callAge' = [r \in Req |-> IF pc[r] = "idle" THEN 0 ELSE callAge[r] + 1]
    /\ UNCHANGED <<trouble, ok, issue, pc, reply, written, writing>>

\* need_probe
NeedProbe == ~(age < TTL /\ ok)

\* health() up to its first await
Health(r) ==
    /\ pc[r] = "idle"
    /\ pc' = [pc EXCEPT ![r] = IF NeedProbe THEN "probing" ELSE "answering"]
    /\ UNCHANGED <<trouble, sinceUp, ok, issue, age, callAge, reply, written, writing>>

\* S3 handles the HEAD
Head(r) ==
    /\ pc[r] = "probing"
    /\ pc' = [pc EXCEPT ![r] = IF up THEN "reached" ELSE "unreached"]
    /\ IF up THEN UNCHANGED reply
       ELSE \E err \in Symptoms[trouble] : reply' = [reply EXCEPT ![r] = err]
    /\ UNCHANGED <<trouble, sinceUp, ok, issue, age, callAge, written, writing>>

ProbeOk_StampsArrival(r) ==
    /\ pc[r] = "reached"
    /\ pc' = [pc EXCEPT ![r] = "answering"]
    /\ age' = 0
    /\ ok' = TRUE
    /\ UNCHANGED <<trouble, sinceUp, issue, callAge, reply, written, writing>>

ProbeOk_KeepsFlag(r) ==
    /\ pc[r] = "reached"
    /\ pc' = [pc EXCEPT ![r] = "answering"]
    /\ age' = AtMost(callAge[r], TTL)
    /\ UNCHANGED <<trouble, sinceUp, ok, issue, callAge, reply, written, writing>>

\* probe_bucket records a success.  Its `now` was taken before the HEAD.
ProbeOk(r) ==
    /\ pc[r] = "reached"
    /\ pc' = [pc EXCEPT ![r] = "answering"]
    /\ age' = AtMost(callAge[r], TTL)
    /\ ok' = TRUE
    /\ UNCHANGED <<trouble, sinceUp, issue, callAge, reply, written, writing>>

ProbeFails_KeepsIssue(r) ==
    /\ pc[r] = "unreached"
    /\ pc' = [pc EXCEPT ![r] = "answering"]
    /\ reply' = [reply EXCEPT ![r] = NoReply]
    /\ age' = AtMost(callAge[r], TTL)
    /\ ok' = FALSE
    /\ UNCHANGED <<trouble, sinceUp, issue, callAge, written, writing>>

\* probe_bucket records a failure
ProbeFails(r) ==
    /\ pc[r] = "unreached"
    /\ pc' = [pc EXCEPT ![r] = "answering"]
    /\ reply' = [reply EXCEPT ![r] = NoReply]
    /\ age' = AtMost(callAge[r], TTL)
    /\ ok' = FALSE
    /\ issue' = classify_sdk_err(reply[r])
    /\ UNCHANGED <<trouble, sinceUp, callAge, written, writing>>

\* health() reads the state once more and returns <<ok, issue>>
Answer(r) ==
    /\ pc[r] = "answering"
    /\ pc' = [pc EXCEPT ![r] = "idle"]
    /\ callAge' = [callAge EXCEPT ![r] = 0]
    /\ written' = written \ {r}
    /\ UNCHANGED <<trouble, sinceUp, ok, issue, age, reply, writing>>

\* write_batch sends its PUT
Put ==
    /\ write = "idle"
    /\ write' = "putting"
    /\ UNCHANGED <<trouble, sinceUp, ok, issue, age, calls, written, refusal>>

\* S3 handles the PUT.  HEAD and PUT need permissions of their own: either may
\* be denied where the other is granted.
PutHandled ==
    /\ write = "putting"
    /\ \/ trouble \in {None, "AccessDenied"} /\ write' = "stored" /\ UNCHANGED refusal
       \/ /\ write' = "refused"
          /\ refusal' \in Symptoms[IF up THEN "AccessDenied" ELSE trouble]
    /\ UNCHANGED <<trouble, sinceUp, ok, issue, age, calls, written>>

\* write_batch records a success: last_issue is cleared, the flag is not set
WriteOk ==
    /\ write = "stored"
    /\ write' = "idle"
    /\ issue' = None
    /\ written' = {r \in Req : pc[r] # "idle"}
    /\ UNCHANGED <<trouble, sinceUp, ok, age, calls, refusal>>

\* write_batch records a failure: last_health_check is left alone
WriteFails ==
    /\ write = "refused"
    /\ write' = "idle"
    /\ refusal' = NoReply
    /\ issue' = classify_sdk_err(refusal)
    /\ ok' = FALSE
    /\ UNCHANGED <<trouble, sinceUp, age, calls, written>>

Probe(r) == Head(r) \/ ProbeOk(r) \/ ProbeFails(r)
Write == PutHandled \/ WriteOk \/ WriteFails

Next ==
    \/ Switch
    \/ Tick
    \/ \E r \in Req : Health(r) \/ Probe(r) \/ Answer(r)
    \/ Put
    \/ Write

Spec == Init /\ [][Next]_vars

\* tokio runs every task whose await is over, S3 answers, the clock runs, and
\* a monitor keeps polling /health
FairSpec ==
    /\ Spec
    /\ WF_vars(Tick)
    /\ \A r \in Req : WF_vars(Health(r)) /\ WF_vars(Probe(r)) /\ WF_vars(Answer(r))
    /\ WF_vars(Write)
-----------------------------------------------------------------------------
\* A cached verdict has a witness: while the flag is set and within its TTL,
\* S3 answered a HEAD since last_health_check.  A probe that was slow, or was
\* overtaken by newer ones, does not make an old answer look new.
OkHasWitness == ok /\ age < TTL => sinceUp <= age

\* The strengthening that makes it inductive: a probe's success is no older
\* than the probe, and a set flag a call is about to report rests on evidence
\* of bounded age.
UpIsNow == up => sinceUp = 0
ReachedHasWitness == \A r \in Req : pc[r] = "reached" => sinceUp <= callAge[r]
AnswerHasWitness ==
    \A r \in Req : pc[r] = "answering" /\ ok => sinceUp <= Oldest + callAge[r]

\* ... and an outage a call is about to report has its issue, unless a write
\* cleared it during the call.
AnswerExplained ==
    \A r \in Req : pc[r] = "answering" /\ ~ok => issue # None \/ r \in written

\* The inductive invariant of health(): every set flag that can still be
\* reported has a witness, every cleared one an issue.
HealthInv ==
    /\ TypeOK
    /\ OkHasWitness
    /\ UpIsNow
    /\ ReachedHasWitness
    /\ AnswerHasWitness
    /\ AnswerExplained

\* STORAGE.md's "outages are detected within ~30s", with the tilde made exact:
\* no call answers ok = true when S3 has not answered for longer than the TTL
\* (or a probe, if that takes longer) and the call itself, however calls and
\* writes overlap.
OutageBound == [][\A r \in Req : Answer(r) /\ ok => sinceUp <= Horizon]_vars

\* No call answers ok = false without an issue to act on, though probes and
\* writes record flag and issue separately, but when a write succeeds while
\* the call is under way: that clears the issue and leaves the flag.
OutageExplained ==
    [][\A r \in Req : Answer(r) /\ ~ok => issue # None \/ r \in written]_vars

\* An outage that lasts is reported in the end under its own name, whichever of
\* its responses a probe or a write gets, and so is a recovery: no cached verdict
\* and no probe from before it wins.  But for writes that go on succeeding in the
\* one and failing in the other, and for redirects that go on naming no region.
Told(t) ==
    /\ trouble = t
    /\ write # "stored"
    /\ refusal # Bare301 /\ \A r \in Req : reply[r] # Bare301
OutageReported == \A t \in Troubles : <>[]Told(t) => <>[](~ok /\ issue = t)
RecoveryReported == <>[](up /\ write # "refused") => <>[]ok
=============================================================================
