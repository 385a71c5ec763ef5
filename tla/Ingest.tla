------------------------------- MODULE Ingest -------------------------------
(***************************************************************************)
(* From the environment to stored, attributed events: boot (main.rs,       *)
(* config.rs, seed.rs), POST /ingest (auth.rs, ingest.rs), the two hot     *)
(* stores, and rotation as one step, for clients that may lose a request   *)
(* or a reply and try again.  A process may crash at any time and is       *)
(* started again, with the same or another environment.                    *)
(***************************************************************************)
EXTENDS Events

CONSTANTS
    Environs,      \* the environments a process is started with, a sequence
    Client,
    Batches,       \* bodies a client may post: a resource and raw events
    Bearers,       \* tokens a client may present, None for no header
    Params,        \* queries asked of what is stored
    Times,         \* clock readings, in milliseconds
    HourLen,       \* milliseconds in an hour
    MaxAttempts,   \* bound: times a client posts its batch
    MaxSeedings    \* bound: boots that seed the file

\* environments are numbered from 1; their variables, the bodies and the
\* queries are made of text, and times are numbers
ASSUME EnvironsAssumption ==
    /\ DOMAIN Environs \subseteq Nat \ {0}
    /\ \A k \in DOMAIN Environs : \A v \in ToSet(Environs[k].vars) :
          v.name \in Text \ {<<>>} /\ v.value \in Text
    /\ \A k \in DOMAIN Environs : DOMAIN Environs[k].vars \in SUBSET Nat
    /\ \A k \in DOMAIN Environs : IsFiniteSet(DOMAIN Environs[k].vars)

ASSUME TextAssumption ==
    /\ None \notin Text /\ None \notin Int
    /\ \A body \in Batches :
          /\ body.resource.service \in Text \union {None}
          /\ body.resource.env \in Text \union {None}
          /\ body.events \in Seq({body.events[i] : i \in DOMAIN body.events})
          /\ \A i \in DOMAIN body.events :
                /\ body.events[i].event \in Text \union {None}
                /\ body.events[i].service \in Text \union {None}
                /\ body.events[i].env \in Text \union {None}
                /\ body.events[i].ts \in Int \union {None}
    /\ Bearers \subseteq Text \union {None}

ASSUME ParamsAssumption ==
    /\ \A p \in Params :
          /\ p.service \in Text \union {None} /\ p.env \in Text \union {None}
          /\ p.event_prefix \in Text \union {None}
          /\ p.since \in Int \union {None} /\ p.until \in Int \union {None}
          /\ p.limit \in Nat
    /\ Times \subseteq Int
    /\ HourLen \in Nat \ {0}

VARIABLES
    conf,      \* which environment the process runs with, 0 when it is down
    disk,      \* rows of the SQLite file
    mem,       \* rows of the process's memory
    archive,   \* rows in S3
    pc,        \* each client's request: idle, sent, lost or replied
    req,       \* its body and bearer
    attempts,  \* how often it was sent
    reply,     \* the answer to it and, as history, the environment it was given in
    seedings   \* history: number of boots that seeded the file

vars == <<conf, disk, mem, archive, pc, req, attempts, reply, seedings>>
-----------------------------------------------------------------------------
(* config.rs: an environment variable is a name and a value, both text. *)

AfterColon(value) == PlaceOf(":", value)
Tier(value) == SubSeq(value, 1, AfterColon(value) - 1)
Token(value) == SubSeq(value, AfterColon(value) + 1, Len(value))
Suffix(name) == Tail(name)
Named(v) == Head(v.name) = "INGEST_TOKEN_"

\* why discover_named_tokens skips a variable
Problem(v) ==
    CASE Suffix(v.name) = <<>> -> "empty suffix"
      [] Suffix(v.name) # <<>> /\ AfterColon(v.value) = 0 -> "missing tier"
      [] Suffix(v.name) # <<>> /\ AfterColon(v.value) # 0
            /\ Tier(v.value) \notin {<<"full">>, <<"public">>} -> "unknown tier"
      [] Suffix(v.name) # <<>> /\ AfterColon(v.value) # 0
            /\ Tier(v.value) \in {<<"full">>, <<"public">>}
            /\ \A i \in DOMAIN Token(v.value) : Token(v.value)[i] = " " -> "empty token"
      [] OTHER -> "none"

\* lower case, with - for _
ConsumerName(name) ==
    [i \in DOMAIN Suffix(name) |->
        IF Suffix(name)[i] = "_" THEN "-" ELSE Fold(Suffix(name)[i])]

TokenRecord(v) ==
    [name |-> ConsumerName(v.name), tier |-> Tier(v.value)[1], token |-> Token(v.value)]

\* the records of a sequence of variables, each at its variable's place
Records(vs) ==
    [i \in {n \in DOMAIN vs : Named(vs[n]) /\ Problem(vs[n]) = "none"} |-> TokenRecord(vs[i])]

discover_named_tokens_Quiet(vs) ==
    [tokens |-> Records(vs),
     warned |-> {v \in ToSet(vs) : Named(v) /\ Problem(v) \in {"missing tier", "unknown tier"}}]

\* the records, and the variables skipped with a warning
discover_named_tokens(vs) ==
    [tokens |-> Records(vs), warned |-> {v \in ToSet(vs) : Named(v) /\ Problem(v) # "none"}]

\* the variables named as no longer honoured
check_deprecated_vars(vs) ==
    {v \in ToSet(vs) :
        \/ v.name \in {<<"INGEST_TOKEN">>, <<"INGEST_TOKENS">>}
        \/ /\ v.name = <<"INGEST_TOKEN_", "PUBLIC">>
           /\ ~ \E t \in {"full", "public"} : IsPrefix(<<t, ":">>, v.value)}

Default(env, key, value) == IF key \in DOMAIN env THEN env[key] ELSE value

from_env(env) ==
    LET found == discover_named_tokens(env.vars)
    IN [tokens |-> found.tokens,
        warned |-> found.warned \union check_deprecated_vars(env.vars),
        database |-> Default(env, "DATABASE_URL", "memory"),
        hot |-> Default(env, "HOT_STORE", "memory"),
        cold |-> Default(env, "COLD_STORE", "noop"),
        bucket |-> Default(env, "S3_LOGS_BUCKET", None),
        rotation |-> Default(env, "ROTATION_ENABLED", "true") \in {"true", "1"}]

Config == [k \in DOMAIN Environs |-> from_env(Environs[k])]
cfg == Config[conf]
-----------------------------------------------------------------------------
(* auth.rs and ingest.rs: a bearer and a body to events. *)

\* the consumer a request counts for: the first record with its token; None is 401
require_bearer_record(bearer, tokens) ==
    LET same == {i \in DOMAIN tokens : tokens[i].token = bearer}
    IN IF DOMAIN tokens = {} THEN <<"_unauth">>
       ELSE IF same = {} THEN None ELSE tokens[Min(same)].name

Or(value, default) == IF value = None THEN default ELSE value

\* f, with what else g has
Over(f, g) == [x \in DOMAIN f \union DOMAIN g |-> IF x \in DOMAIN f THEN f[x] ELSE g[x]]

Stamp(consumer) == [_auth_consumer |-> [kind |-> "string", text |-> consumer]]

stamp_auth_consumer_KeepsOwn(payload, consumer) ==
    IF payload.kind = "object" THEN Over(payload.fields, Stamp(consumer))
    ELSE IF payload.kind = "null" THEN Stamp(consumer)
    ELSE Over(Stamp(consumer), [_value |-> payload])

stamp_auth_consumer(payload, consumer) ==
    IF payload.kind = "object" THEN Over(Stamp(consumer), payload.fields)
    ELSE IF payload.kind = "null" THEN Stamp(consumer)
    ELSE Over(Stamp(consumer), [_value |-> payload])

\* an event named by its raw form; defined where raw.event is there
build_event(raw, resource, consumer, now) ==
    LET severity == Or(raw.severity_number, 9)
    IN [request_id |-> Or(raw.request_id, <<>>), event |-> raw.event,
        severity_number |-> severity,
        severity_text |-> Or(raw.severity_text, severity_label(severity)),
        ts |-> Or(raw.ts, now), message |-> raw.message,
        service |-> Or(raw.service, resource.service), env |-> Or(raw.env, resource.env),
        user_id |-> raw.user_id, session_id |-> raw.session_id,
        payload |-> stamp_auth_consumer(raw.payload, consumer)]

\* positions of the events build_event refuses, and of the others
Rejected(body) == {i \in DOMAIN body.events : body.events[i].event = None}
Built(body) == DOMAIN body.events \ Rejected(body)
-----------------------------------------------------------------------------
(* seed.rs *)

\* make, and the fields the filters look at
Seed(offset, rid, service, env, event, severity, message, job) ==
    [offset |-> offset, request_id |-> rid, event |-> event,
     severity_number |-> severity, severity_text |-> severity_label(severity),
     message |-> message, service |-> <<service>>, env |-> <<env>>,
     user_id |-> None, session_id |-> None,
     payload |-> Over([dummy |-> [kind |-> "bool", text |-> <<"true">>]],
                      IF job = None THEN <<>> ELSE [job_id |-> [kind |-> "string", text |-> job]])]

SeedEvents == <<
    Seed(0, <<"alice">>, "versable-app", "prod", <<"ui", ".", "page", ".", "view">>, 9, <<"User", " ", "viewed">>, None),
    Seed(150, <<"alice">>, "versable-api", "prod", <<"http", ".", "request">>, 9, <<"POST", " ", "201">>, None),
    Seed(400, <<"alice">>, "versable-api", "prod", <<"redis", ".", "enqueue">>, 5, <<"enqueued", " ", "j_9001">>, <<"j_9001">>),
    Seed(820, <<"alice">>, "credit-worker", "prod", <<"pipeline", ".", "start">>, 9, <<"picked", " ", "j_9001">>, <<"j_9001">>),
    Seed(3400, <<"alice">>, "credit-worker", "prod", <<"pipeline", ".", "done">>, 9, <<"completed", " ", "j_9001">>, <<"j_9001">>),
    Seed(5000, <<"bob">>, "versable-app", "prod", <<"ui", ".", "upload", ".", "start">>, 9, <<"upload">>, None),
    Seed(6200, <<"bob">>, "versable-api", "prod", <<"http", ".", "request">>, 13, <<"POST", " ", "413">>, None),
    Seed(6210, <<"bob">>, "versable-app", "prod", <<"ui", ".", "upload", ".", "error">>, 13, <<"Upload", " ", "failed">>, None),
    Seed(8000, <<"crn">>, "cron-daily", "prod", <<"cron", ".", "rollup", ".", "start">>, 9, <<"Starting">>, None),
    Seed(9500, <<"crn">>, "cron-daily", "prod", <<"cron", ".", "rollup", ".", "warn">>, 13, <<"Skipping">>, None),
    Seed(11000, <<"crn">>, "cron-daily", "prod", <<"cron", ".", "rollup", ".", "done">>, 9, <<"Rollup", " ", "OK">>, None),
    Seed(14000, <<"err">>, "credit-worker", "prod", <<"openai", ".", "call", ".", "error">>, 17, <<"429">>, None),
    Seed(14010, <<"err">>, "credit-worker", "prod", <<"pipeline", ".", "retry">>, 13, <<"Retrying">>, None),
    Seed(16000, <<"dev5">>, "versable-api", "dev", <<"db", ".", "query", ".", "slow">>, 13, <<"Slow">>, None),
    Seed(16500, <<"dev6">>, "versable-api", "dev", <<"auth", ".", "login", ".", "ok">>, 9, <<"login">>, None),
    Seed(18000, <<"fatal">>, "credit-worker", "prod", <<"worker", ".", "panic">>, 21, <<"Worker">>, None)>>

\* seed_dummy_events: half an hour back, and on from there
seed_dummy_events(now) ==
    [n \in DOMAIN SeedEvents |->
        Over([id |-> <<"seed", n>>, ts |-> now - 1800000 + SeedEvents[n].offset], SeedEvents[n])]

\* they are events
ASSUME SeedsAssumption ==
    \A n \in DOMAIN SeedEvents :
        /\ {"event", "service", "env"} \subseteq DOMAIN SeedEvents[n]
        /\ SeedEvents[n].offset \in Int /\ SeedEvents[n].event \in Text
        /\ SeedEvents[n].service \in Text /\ SeedEvents[n].env \in Text
-----------------------------------------------------------------------------
Persistent(k) == Config[k].hot = "sqlite" /\ Config[k].database = "file"
Rows == IF conf # 0 /\ Persistent(conf) THEN disk ELSE mem

\* a store's rows are a function from their rowids, of which only the order counts; new
\* ones come after the last
LastRow(rows) == IF DOMAIN rows = {} THEN 0 ELSE Max(DOMAIN rows)
NewRows(rows, new) == {LastRow(rows) + i : i \in DOMAIN new}
Inserted(rows, new) ==
    [n \in DOMAIN rows \union NewRows(rows, new) |->
        IF n \in DOMAIN rows THEN rows[n] ELSE new[n - LastRow(rows)]]

SetRows(rows) ==
    IF Persistent(conf) THEN disk' = rows /\ UNCHANGED mem
    ELSE mem' = rows /\ UNCHANGED disk

Init ==
    /\ conf = 0
    /\ disk = <<>>
    /\ mem = <<>>
    /\ archive = {}
    /\ pc = [c \in Client |-> "idle"]
    /\ req \in [Client -> [body : Batches, bearer : Bearers]]
    /\ attempts = [c \in Client |-> 0]
    /\ reply = [c \in Client |-> None]
    /\ seedings = 0

\* main bails out when a store is unknown or S3 has no bucket
Bootable(k) ==
    /\ Config[k].hot \in {"memory", "sqlite"}
    /\ \/ Config[k].cold = "noop"
       \/ Config[k].cold = "s3" /\ Config[k].bucket # None

NeedsSeed_Always(k, rows) == Default(Environs[k], "SEED_ON_BOOT", "0") = "1"
NeedsSeed(k, rows) == Default(Environs[k], "SEED_ON_BOOT", "0") = "1" /\ DOMAIN rows = {}

\* seeding ends before the listener is bound; it may fail, and boot goes on
Boot(k, now) ==
    /\ conf = 0
    /\ Bootable(k)
    /\ conf' = k
    /\ LET rows == IF Persistent(k) THEN disk ELSE <<>>
           seeded == Inserted(rows, seed_dummy_events(now))
       IN \/ /\ NeedsSeed(k, rows)
             /\ IF Persistent(k)
                THEN /\ seedings < MaxSeedings
                     /\ seedings' = seedings + 1
                     /\ disk' = seeded /\ mem' = <<>>
                ELSE mem' = seeded /\ UNCHANGED <<disk, seedings>>
          \/ /\ mem' = <<>>
             /\ UNCHANGED <<disk, seedings>>
    /\ UNCHANGED <<archive, pc, req, attempts, reply>>

\* the process ends; a request it was serving is lost, a reply may still arrive
Crash ==
    /\ conf # 0
    /\ conf' = 0
    /\ mem' = <<>>
    /\ pc' = [c \in Client |-> IF pc[c] = "sent" THEN "lost" ELSE pc[c]]
    /\ UNCHANGED <<disk, archive, req, attempts, reply, seedings>>

\* the client posts, or posts again without having seen an answer; one that
\* has seen it does nothing more
Post(c) ==
    /\ conf # 0
    /\ attempts[c] < MaxAttempts
    /\ pc[c] # "sent"
    /\ pc' = [pc EXCEPT ![c] = "sent"]
    /\ reply' = [reply EXCEPT ![c] = None]
    /\ attempts' = [attempts EXCEPT ![c] = @ + 1]
    /\ UNCHANGED <<conf, disk, mem, archive, req, seedings>>

Answer(c, answer) ==
    /\ pc' = [pc EXCEPT ![c] = "replied"]
    /\ reply' = [reply EXCEPT ![c] = answer]
    /\ UNCHANGED <<conf, archive, req, attempts, seedings>>

Status(n) == [status |-> n, accepted |-> 0, rejected |-> {}, conf |-> conf]

Consumer(c) == require_bearer_record(req[c].bearer, cfg.tokens)

Unauthorized(c) ==
    /\ conf # 0
    /\ pc[c] = "sent"
    /\ Consumer(c) = None
    /\ Answer(c, Status(401))
    /\ UNCHANGED <<disk, mem>>

\* the store's transaction cannot begin or commit: 500, and nothing is stored
StoreFails(c) ==
    /\ conf # 0
    /\ pc[c] = "sent"
    /\ Consumer(c) # None
    /\ Built(req[c].body) # {}
    /\ cfg.hot = "sqlite"
    /\ Answer(c, Status(500))
    /\ UNCHANGED <<disk, mem>>

\* events the store takes: SQLite refuses an empty name, and an insert that fails
Stores(body, failed) ==
    {i \in Built(body) \ failed : cfg.hot = "sqlite" => body.events[i].event # <<>>}

Accepted_Built(body, stored) == Cardinality(Built(body))

\* summary.accepted; of the refused ones only build_event's are listed
Accepted(body, stored) == Cardinality(stored)

\* a row and, as history, which event of whose request it is
Row(c, i, now) ==
    Over(build_event(req[c].body.events[i], req[c].body.resource, Consumer(c), now),
         [id |-> <<c, i, attempts[c]>>, bearer |-> req[c].bearer, conf |-> conf])

\* post_ingest, with the inserts of the events at failed failing
Accept(c, now, failed) ==
    /\ conf # 0
    /\ pc[c] = "sent"
    /\ Consumer(c) # None
    /\ failed # {} => cfg.hot = "sqlite"
    /\ LET body == req[c].body
       IN /\ SetRows(Inserted(Rows, [i \in Stores(body, failed) |-> Row(c, i, now)]))
          /\ Answer(c, [status |-> 202, accepted |-> Accepted(body, Stores(body, failed)),
                        rejected |-> Rejected(body), conf |-> conf])

Rotates_Always(k) == Config[k].rotation
Rotates(k) == Config[k].cold = "s3" /\ Config[k].rotation

\* a whole successful cycle, which the noop store would take as well
Rotate(cutoff) ==
    /\ conf # 0
    /\ Rotates(conf)
    /\ LET old == {i \in DOMAIN Rows : Rows[i].ts < cutoff}
       IN /\ SetRows([i \in DOMAIN Rows \ old |-> Rows[i]])
          /\ archive' = archive \union
                 IF cfg.cold = "s3" THEN {Rows[i] : i \in old} ELSE {}
    /\ UNCHANGED <<conf, pc, req, attempts, reply, seedings>>

Next ==
    \/ \E k \in DOMAIN Environs, now \in Times : Boot(k, now)
    \/ Crash
    \/ \E c \in Client :
          \/ Post(c)
          \/ Unauthorized(c)
          \/ StoreFails(c)
          \/ \E now \in Times, failed \in SUBSET Built(req[c].body) : Accept(c, now, failed)
    \/ \E cutoff \in Times : Rotate(cutoff)

Spec == Init /\ [][Next]_vars
-----------------------------------------------------------------------------
Stored == Range(disk) \union Range(mem) \union archive
FromClient(row) == Len(row.id) = 3

\* what an operator means by a variable: this consumer, by this token
Grants(v, bearer, consumer) ==
    /\ Named(v) /\ Suffix(v.name) # <<>>
    /\ v.value \in {<<"full", ":">> \o bearer, <<"public", ":">> \o bearer}
    /\ consumer = ConsumerName(v.name)

\* ingest.rs:119, "Server-stamp the auth_consumer into payload. Emitter-supplied
\* values are overwritten": wherever a row is kept, and whatever the process
\* was restarted with since, its stamp is a name the environment of the time
\* gave to the token of the request, or _unauth if that environment had no
\* usable token.
Attributed ==
    \A row \in Stored :
        FromClient(row) =>
            LET stamp == row.payload["_auth_consumer"].text
                vs == ToSet(Environs[row.conf].vars)
            IN IF row.bearer # None /\ \E v \in vs : Grants(v, row.bearer, stamp) THEN TRUE
               ELSE stamp = <<"_unauth">> /\ DOMAIN Config[row.conf].tokens = {}

\* config.rs:145, "a clear startup warning instead of silent 'auth turned
\* off'": when /ingest is open although the operator set variables for its
\* tokens, each of them has its warning.
NoSilentAuthOff ==
    conf # 0 /\ DOMAIN cfg.tokens = {} =>
        \A v \in ToSet(Environs[conf].vars) :
            v.name \in {<<"INGEST_TOKEN">>, <<"INGEST_TOKENS">>} \/ Named(v) => v \in cfg.warned

\* An answer tells the truth about its request, also after a crash and when
\* it was not the first attempt: 401 and 500 left nothing behind, and 202
\* counts what a persistent store then holds or has archived.  Only when the
\* numbers do not add up to the batch is there an event that was refused
\* without being listed.
AnswerIsTrue ==
    \A c \in Client :
        reply[c] # None =>
            LET kept == {i \in DOMAIN req[c].body.events :
                            \E row \in Stored : row.id = <<c, i, attempts[c]>>}
            IN IF reply[c].status # 202 THEN kept = {}
               ELSE Persistent(reply[c].conf) =>
                    /\ Cardinality(kept) = reply[c].accepted
                    /\ kept \intersect reply[c].rejected = {}
                    /\ reply[c].accepted + Cardinality(reply[c].rejected) = Len(req[c].body.events)
                           => kept = DOMAIN req[c].body.events \ reply[c].rejected

\* main.rs:86, seeding only a store without rows: through restarts the hot
\* store never holds a seed event twice, nor seeds after other events.
SeedsFirstAndOnce ==
    \A i, j \in DOMAIN Rows :
        i < j /\ ~FromClient(Rows[j]) => ~FromClient(Rows[i]) /\ Rows[i].id # Rows[j].id

\* main.rs:113, "rotation would just delete events": with a persistent store
\* a row only leaves the file for S3, whatever the environments.
NothingDiscarded == [][Range(disk) \subseteq Range(disk') \union archive']_vars

\* s3.rs:683, "Mirrors match_event in the memory store": whether a row is
\* found does not depend on the tier it is in, except for words, wildcards or
\* capitals in a prefix, and work ids that are neither text nor a number SQLite
\* and serde write alike.
TiersAgree ==
    \A row \in Stored, p \in Params :
        ~TiersDiffer(row, p) => (SqliteMatch(row, p) <=> match_event(row, p))

\* memory.rs:41, "matches sqlite's": where the filters agree, the page of the
\* memory store is one SQLite may give, and the dashboard's total belongs to
\* the page.
StoresAgree ==
    \A p \in Params :
        (1 <= p.limit /\ p.limit <= 2000 /\ \A i \in DOMAIN Rows : ~TiersDiffer(Rows[i], p)) =>
            LET page == MemoryPage(Rows, p)
                total == MemoryCount(Rows, p)
            IN /\ IsSqlitePage(Rows, p, page)
               /\ SqliteCount(Rows, p) = total
               /\ p.cursor = None =>
                     Cardinality(page.rows) = IF total < p.limit THEN total ELSE p.limit

\* The objects a query's listing keeps, by their prefix and by their hours.  The
\* ends of the range are those of the query; read_range's own, now and 30 days
\* earlier, are left out.
Listed(key, p) ==
    /\ IsPrefix(build_s3_prefix(p.env, p.service), key)
    /\ p.since # None => floor_to_hour(p.since, HourLen) <= parse_key_hour(key)
    /\ p.until # None => parse_key_hour(key) <= floor_to_hour(p.until, HourLen)

\* s3.rs:642, "the narrowest S3 key prefix from filter context": a row whose
\* object a query's listing leaves out is none the query asks for, also for
\* sources without names or with slashes in them.
ListingCovers ==
    \A row \in Stored :
        LET key == build_key(row, HourLen)
        IN \A p \in Params : ~Listed(key, p) => ~match_event(row, p)

\* A value the filter lists suggest finds a row, in either store.
NoDeadSuggestions ==
    \A field \in {"service", "env", "event_prefix"} : \A value \in Distinct(Rows, field) :
        LET p == [NoFilter(1) EXCEPT ![field] = value]
        IN \E i \in DOMAIN Rows : SqliteMatch(Rows[i], p) /\ match_event(Rows[i], p)
=============================================================================
