------------------------------ MODULE IngestMC ------------------------------
(* Instances of Ingest for TLC. *)
EXTENDS Ingest

MCUpper == [PROD |-> "prod", APP |-> "app", OPS |-> "ops", Job |-> "job", PUBLIC |-> "public"]
MCHourLen == 3600000

\* 2^63, which SQLite takes for a real
Huge == <<"9223372036854775808">>
MCRounded == Huge :> <<"9.22337203685478e+18">>

\* one token under two names, every way to get one wrong, one of the tokens, and none
MCEnvirons == <<
    [vars |-> <<[name |-> <<"INGEST_TOKEN_", "PROD", "_", "APP">>, value |-> <<"full", ":", "t1">>],
                [name |-> <<"INGEST_TOKEN_", "OPS">>, value |-> <<"full", ":", "t1">>],
                [name |-> <<"INGEST_TOKEN_", "PUBLIC">>, value |-> <<"public", ":", "t2", ":", "x">>]>>,
     HOT_STORE |-> "sqlite", DATABASE_URL |-> "file", COLD_STORE |-> "s3",
     S3_LOGS_BUCKET |-> "logs", SEED_ON_BOOT |-> "1"],
    [vars |-> <<[name |-> <<"INGEST_TOKEN">>, value |-> <<"t1">>],
                [name |-> <<"INGEST_TOKENS">>, value |-> <<"t1">>],
                [name |-> <<"INGEST_TOKEN_", "PUBLIC">>, value |-> <<"t2">>],
                [name |-> <<"INGEST_TOKEN_">>, value |-> <<"full", ":", "t1">>],
                [name |-> <<"INGEST_TOKEN_", "APP">>, value |-> <<"admin", ":", "t1">>],
                [name |-> <<"INGEST_TOKEN_", "OPS">>, value |-> <<"full", ":", " ">>]>>,
     HOT_STORE |-> "sqlite", DATABASE_URL |-> "file"],
    [vars |-> <<[name |-> <<"INGEST_TOKEN_", "PUBLIC">>, value |-> <<"public", ":", "t2", ":", "x">>]>>,
     SEED_ON_BOOT |-> "1"],
    [vars |-> <<>>, COLD_STORE |-> "s3"]>>

\* the seeds of the first start at 59:50 of an hour
MCTimes == {5390000, 7200000}

\* the first is wrong where only the second is known
MCBearers == {<<"t1">>, <<"t2", ":", "x">>, None}

Raw == [request_id |-> None, event |-> <<"job", ".", "done">>, severity_number |-> None,
        severity_text |-> None, ts |-> None, message |-> None, service |-> None, env |-> None,
        user_id |-> None, session_id |-> None, payload |-> [kind |-> "null"]]
Quoted(t) == [kind |-> "string", text |-> t]
Number(t) == [kind |-> "number", text |-> t]

\* an impostor with a number for a team; an event without name; an empty name and
\* a list for payload; work ids that are a boolean and a huge number, from a source
\* with a slash and no env
Impostor == [Raw EXCEPT !.message = <<"Job", " ", "done">>, !.payload =
    [kind |-> "object",
     fields |-> ("job_id" :> Quoted(<<"j1">>)) @@ ("team_id" :> Number(<<"7">>))
                    @@ ("_auth_consumer" :> Quoted(<<"ops">>))]]
Nameless == [Raw EXCEPT !.event = None]
Empty == [Raw EXCEPT !.event = <<>>, !.payload = [kind |-> "array", text |-> <<"1", ",", "2">>]]
Odd == [Raw EXCEPT !.event = <<"Job", "-", "x">>, !.service = <<"api", "v2">>, !.severity_number = 17,
    !.ts = 7200000,
    !.payload = [kind |-> "object",
                 fields |-> ("job_id" :> [kind |-> "bool", text |-> <<"true">>])
                                @@ ("task_id" :> Number(Huge))]]

Web == [service |-> <<"web">>, env |-> <<"prod">>]
Bare == [service |-> None, env |-> None]
MCBatches ==
    {[resource |-> Web, events |-> <<Nameless, Impostor>>],
     [resource |-> Bare, events |-> <<Odd, Empty>>]}

P == NoFilter(3)
MCParams ==
    {P, [P EXCEPT !.service = <<"api", "v2">>],
     [P EXCEPT !.env = <<"prod">>, !.service = <<"web">>, !.job_id = <<"j1">>],
     [P EXCEPT !.event_prefix = <<"job">>, !.team_id = <<"7">>],
     [P EXCEPT !.event_prefix = <<"job", "_">>],
     [P EXCEPT !.job_id = <<"1">>], [P EXCEPT !.task_id = Huge],
     [P EXCEPT !.service = <<"web">>, !.since = 3600000, !.until = 5390000, !.min_severity = 9],
     [P EXCEPT !.cursor = 7200000]}
=============================================================================
