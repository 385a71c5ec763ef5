------------------------------- MODULE Events -------------------------------
(***************************************************************************)
(* Events, the filters of a query, and how each store answers one: pure    *)
(* definitions.                                                            *)
(*                                                                         *)
(* Text is a sequence of tokens: words, and one-character separators.  An  *)
(* event name is such a sequence, <<"pipeline", ".", "done">>.  A service  *)
(* or env is the sequence of its parts between slashes, and so is an S3    *)
(* key.  Rows are a sequence in the order of insertion.                    *)
(***************************************************************************)
EXTENDS Integers, FiniteSets, SequencesExt

CONSTANTS
    None,    \* an absent Option
    Upper,   \* the tokens written with capitals, as a function to lower case
    Rounded  \* the JSON numbers SQLite writes in another way than serde, by their
             \* text: reals (15 digits, 1.0e+20) and integers above 64 bits

Text == Seq(STRING)

Separator == {".", "_", "-", " ", "=", ":"}

Fold(t) == IF t \in DOMAIN Upper THEN Upper[t] ELSE t
FoldAll(s) == [i \in DOMAIN s |-> Fold(s[i])]

\* the first place of a token in a text, 0 if there is none
PlaceOf(token, text) == SelectInSeq(text, LAMBDA t : t = token)

\* a needle inside a text, token by token
HasPhrase(text, needle) ==
    \E i \in 0 .. Len(text) - Len(needle) :
        SubSeq(text, i + 1, i + Len(needle)) = needle

\* columns a query compares for equality
Columns == {"request_id", "user_id", "session_id", "service", "env"}
WorkKeys == {"job_id", "task_id", "team_id"}

\* QueryParams::default with a limit
NoFilter(limit) ==
    [request_id |-> None, user_id |-> None, session_id |-> None, service |-> None,
     env |-> None, event_prefix |-> None, min_severity |-> None, since |-> None,
     until |-> None, fts |-> None, job_id |-> None, task_id |-> None,
     team_id |-> None, limit |-> limit, cursor |-> None]
-----------------------------------------------------------------------------
(* Severities. *)

level_to_min_severity_WarnIsError(level) ==
    CASE Fold(level) = "debug" -> 5
      [] Fold(level) = "info" -> 9
      [] Fold(level) \in {"warn", "warning", "error"} -> 17
      [] Fold(level) = "fatal" -> 21
      [] OTHER -> 1

level_to_min_severity(level) ==
    CASE Fold(level) = "debug" -> 5
      [] Fold(level) = "info" -> 9
      [] Fold(level) \in {"warn", "warning"} -> 13
      [] Fold(level) = "error" -> 17
      [] Fold(level) = "fatal" -> 21
      [] OTHER -> 1

severity_label(n) ==
    CASE n \in 1 .. 4 -> "trace"
      [] n \in 5 .. 8 -> "debug"
      [] n \in 13 .. 16 -> "warn"
      [] n \in 17 .. 20 -> "error"
      [] n \in 21 .. 24 -> "fatal"
      [] OTHER -> "info"
-----------------------------------------------------------------------------
(* Matching. *)

\* the payload keys a query filters on
payload_filters(p) == {k \in WorkKeys : p[k] # None}

\* payload_field_eq: strings and numbers by their text, nothing else
payload_field_eq(payload, key, want) ==
    /\ key \in DOMAIN payload
    /\ payload[key].kind \in {"string", "number"}
    /\ payload[key].text = want

\* CAST(json_extract(payload, key) AS TEXT): null is absent, a boolean 1 or 0,
\* and a number what SQLite makes of it
JsonText(payload, key) ==
    IF key \notin DOMAIN payload THEN None
    ELSE LET v == payload[key]
         IN CASE v.kind = "null" -> None
              [] v.kind = "bool" -> IF v.text = <<"true">> THEN <<"1">> ELSE <<"0">>
              [] v.kind = "number" /\ v.text \in DOMAIN Rounded -> Rounded[v.text]
              [] OTHER -> v.text

\* the payload as it is searched: its JSON text, keys in order
PayloadText(payload) ==
    LET keys == SetToSeq(DOMAIN payload)
    IN FlattenSeq([i \in DOMAIN keys |-> <<keys[i], ":">> \o payload[keys[i]].text \o <<" ">>])

MessageText(e) == IF e.message = None THEN <<>> ELSE e.message

InTime(e, p) ==
    /\ p.since # None => e.ts >= p.since
    /\ p.until # None => e.ts <= p.until

\* event LIKE '{prefix}%': SQLite ignores case, and _ and % in the prefix are
\* wildcards
LikePrefix(prefix, name) ==
    LET fits(i, j) ==
            \/ Fold(prefix[i]) = Fold(name[j])
            \/ prefix[i] = "_" /\ name[j] \in Separator
        after(at, i) == IF i = 1 THEN 0 ELSE at[i - 1]
    IN IF \A i \in DOMAIN prefix : prefix[i] # "%"
       THEN Len(prefix) <= Len(name) /\ \A i \in DOMAIN prefix : fits(i, i)
       ELSE \E at \in [DOMAIN prefix -> 0 .. Len(name)] : \A i \in DOMAIN prefix :
               IF prefix[i] = "%" THEN at[i] >= after(at, i)
               ELSE at[i] = after(at, i) + 1 /\ fits(i, at[i])

\* events_fts MATCH '"phrase"': whole words of one column, separators ignored
PhraseMatch(e, fts) ==
    LET words(s) == FoldAll(SelectSeq(s, LAMBDA t : t \notin Separator))
    IN /\ words(fts) # <<>>
       /\ \E text \in {e.event, MessageText(e), PayloadText(e.payload)} :
              HasPhrase(words(text), words(fts))

\* apply_where
SqliteMatch(e, p) ==
    /\ \A c \in Columns : p[c] # None => e[c] = p[c]
    /\ p.event_prefix # None => LikePrefix(p.event_prefix, e.event)
    /\ p.min_severity # None => e.severity_number >= p.min_severity
    /\ InTime(e, p)
    /\ \A k \in payload_filters(p) : JsonText(e.payload, k) = p[k]
    /\ p.fts \notin {None, <<>>, <<" ">>} => PhraseMatch(e, p.fts)

match_event_filters_AnySource(e, p) ==
    /\ \A c \in Columns \ {"service"} : p[c] # None => e[c] = p[c]
    /\ p.event_prefix # None => IsPrefix(p.event_prefix, e.event)

\* match_event_filters: what read_range keeps of an S3 object
match_event_filters(e, p) ==
    /\ \A c \in Columns : p[c] # None => e[c] = p[c]
    /\ p.event_prefix # None => IsPrefix(p.event_prefix, e.event)
    /\ p.min_severity # None => e.severity_number >= p.min_severity
    /\ \A k \in payload_filters(p) : payload_field_eq(e.payload, k, p[k])
    /\ p.fts # None =>
           HasPhrase(FoldAll(MessageText(e) \o <<" ">> \o PayloadText(e.payload)), FoldAll(p.fts))

\* match_event: what the memory store keeps
match_event(e, p) == match_event_filters(e, p) /\ InTime(e, p)

\* a work id both tiers compare by one text
OneText(v) == v.kind = "string" \/ (v.kind = "number" /\ v.text \notin DOMAIN Rounded)

\* The differences between the tiers' filters that the code has.
TiersDiffer(row, p) ==
    \/ p.fts # None
    \/ /\ p.event_prefix # None
       /\ ~IsPrefix(p.event_prefix, row.event)
       /\ LikePrefix(p.event_prefix, row.event)
    \/ \E k \in payload_filters(p) : k \in DOMAIN row.payload /\ ~OneText(row.payload[k])
-----------------------------------------------------------------------------
(* Answering: a page is the set of positions of its rows, and the cursor.  *)

OldestTs(rows, T) == CHOOSE ts \in {rows[t].ts : t \in T} : \A t \in T : ts <= rows[t].ts

Below_Inclusive(e, p) == p.cursor # None => e.ts <= p.cursor
Below(e, p) == p.cursor # None => e.ts < p.cursor

Page_PastLimit(rows, T, limit) ==
    [rows |-> T, next_cursor |-> IF Cardinality(T) > limit THEN OldestTs(rows, T) ELSE None]

Page(rows, T, limit) ==
    [rows |-> T, next_cursor |-> IF Cardinality(T) = limit THEN OldestTs(rows, T) ELSE None]

SqliteLimit(p) == IF p.limit = 0 THEN 200 ELSE IF p.limit > 2000 THEN 2000 ELSE p.limit

SqliteFound(rows, p) == {i \in DOMAIN rows : SqliteMatch(rows[i], p) /\ Below(rows[i], p)}

\* whether T is as many as there are up to a limit
FillsUpTo(T, limit, found) ==
    Cardinality(T) = IF Cardinality(found) < limit THEN Cardinality(found) ELSE limit

\* whether SQLite may answer with these rows: the newest, ties in any order
IsSqliteAnswer(rows, p, T) ==
    LET found == SqliteFound(rows, p)
    IN /\ T \subseteq found
       /\ FillsUpTo(T, SqliteLimit(p), found)
       /\ \A t \in T, i \in found \ T : rows[t].ts >= rows[i].ts

IsSqlitePage(rows, p, page) ==
    /\ IsSqliteAnswer(rows, p, page.rows)
    /\ page = Page(rows, page.rows, SqliteLimit(p))

MemoryPage_Oldest(rows, p) ==
    LET limit == IF p.limit = 0 THEN 100 ELSE p.limit
        found == {i \in DOMAIN rows : match_event(rows[i], p) /\ Below(rows[i], p)}
    IN Page(rows, {i \in found : Cardinality({j \in found : j < i}) < limit}, limit)

MemoryLimit(p) == IF p.limit = 0 THEN 100 ELSE p.limit

MemoryFound(rows, p) == {i \in DOMAIN rows : match_event(rows[i], p) /\ Below(rows[i], p)}

\* sort_by_key is stable: ties stay in the order of insertion
Newer(rows, j, i) == rows[j].ts > rows[i].ts \/ (rows[j].ts = rows[i].ts /\ j < i)

MemoryPage(rows, p) ==
    LET found == MemoryFound(rows, p)
        newest == {i \in found : Cardinality({j \in found : Newer(rows, j, i)}) < MemoryLimit(p)}
    IN Page(rows, newest, MemoryLimit(p))

SqliteCount(rows, p) == Cardinality({i \in DOMAIN rows : SqliteMatch(rows[i], p)})
MemoryCount(rows, p) == Cardinality({i \in DOMAIN rows : match_event(rows[i], p)})

\* the place of an event name's first dot
Dot(name) == PlaceOf(".", name)

PrefixOf_AlwaysDot(name) ==
    IF Dot(name) = 0 THEN Append(name, ".") ELSE SubSeq(name, 1, Dot(name))

\* its name up to there, or all of it
PrefixOf(name) == IF Dot(name) = 0 THEN name ELSE SubSeq(name, 1, Dot(name))

\* distinct_values of one field, before LIMIT; absent and empty ones are left out
Distinct(rows, field) ==
    LET value(e) == IF field = "event_prefix" THEN PrefixOf(e.event) ELSE e[field]
    IN {value(rows[i]) : i \in DOMAIN rows} \ {None, <<>>, <<"">>}
-----------------------------------------------------------------------------
(* S3 keys. *)

Unknown == <<"unknown">>
OrUnknown(name) == IF name = None THEN Unknown ELSE name

floor_to_hour(ts, hourLen) == ts \div hourLen

\* {env}/{service}/{YYYY}/{MM}/{DD}/{HH}.ndjson.gz, the date and hour being one part
build_key(e, hourLen) == OrUnknown(e.env) \o OrUnknown(e.service) \o <<floor_to_hour(e.ts, hourLen)>>

parse_key_hour(key) == Last(key)

build_s3_prefix_Service(env, service) ==
    IF service # None /\ env = None THEN Unknown \o service
    ELSE IF env # None /\ service # None THEN env \o service ELSE <<>>

\* the prefix a listing is narrowed to; without env the whole bucket
build_s3_prefix(env, service) ==
    IF env \in {None, <<"">>} THEN <<>>
    ELSE IF service \in {None, <<"">>} THEN env
    ELSE env \o service
=============================================================================
