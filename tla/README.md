# logger-crab in TLA+

A formal model of [logger-crab](../src/README.md): a log server that accepts
events over HTTP, keeps recent ones in SQLite (the hot tier), archives older
ones to S3 (the cold tier), and answers queries from both, over HTTP and on a
dashboard. The modules model the code under `src/crates/log-server/src/`; every
definition that stands for code names its lines in `PROJECT.json` (`map`).

## The system

| Component | State | Operations | Correct when |
|---|---|---|---|
| Rotation task (`rotation.rs`) | none between cycles; cutoff, page cursor, read buffer, failure count within one | `rotate_once` at every tick of an interval | what leaves hot is in cold; nothing inside the retention window leaves; failures are retried |
| SQLite hot store (`store/sqlite.rs`) | the `events` table, on disk | `ingest`, `query`, `count`, `distinct_values`, `drain_older_than`, `health` | a page is the newest matching rows below the cursor; drain is atomic |
| In-memory hot store (`store/memory.rs`) | a vector behind a mutex, lost with the process | as SQLite | same answers as SQLite |
| S3 cold store (`store/s3.rs`) | objects by key; `S3State` behind a mutex | `write_batch`, `read_range`, `health` | an object holds the events of its source and hour, and listings find it; health reflects S3 |
| Tiered query (`routes/logs.rs`) | none; several awaits per request | `GET /logs`, `GET /logs/download.ndjson`, the dashboard | an event stored in either tier is found, once |
| Ingest route (`routes/ingest.rs`) | none | `POST /ingest` | the answer tells what is stored; every row carries the consumer whose token was presented |
| Filter-value cache (`routes/dashboard.rs`) | one entry behind a mutex, shared by all requests | `cached_distinct_values` | suggestions lag by a bounded time and catch up |
| Dashboard (`routes/dashboard*.rs`) | filters, cursor and page in the URL; nothing in the server | page render, links, form, pager | the page shows what was asked for; a walk to older pages misses and repeats nothing |
| Auth and login (`routes/auth.rs`, `routes/dashboard_login.rs`, `routes/mod.rs`) | a cookie in the browser; the tokens, fixed at boot | bearer and cookie checks, login form, redirects | login leads where the user wanted to go |
| Configuration (`config.rs`) | environment variables | `from_env`, `discover_named_tokens`, `check_deprecated_vars` | a variable that is not honoured is warned about |
| Boot (`main.rs`, `seed.rs`) | – | choice of stores, seeding, spawning rotation | seeds an empty store only; no rotation without an archive |
| Docs pages, notify crate, scripts | – | – | – |

Interactions: rotation calls both stores; a query calls both stores' `health`
and then one or both stores' reads; ingest and the dashboard's cache call hot.
There are no messages between tasks: tasks meet in the two stores, in
`S3State` and in the cache, each of which is locked or atomic for one call
only. What is hard is therefore what happens **between** calls: a request or a
cycle that read something and acts on it later, a client or a browser that
comes back with what it was told earlier, and a process that is started again
over an old file with other variables. `PROJECT.json` (`hazards`) lists these
places line by line, each with the properties about it or the reason why there
is none.

## The modules

| Module | Models |
|---|---|
| `Rotation` | rotation, ingest, clock, faults and restarts over both tiers; arbitrary timestamps |
| `SteadyRotation` | the same under the workloads the authors describe: *Prompt* (events arrive inside the retention window) and *Steady* (and no two share a timestamp), with some sources *Nightly* (logging at most once in an hour) beside busier ones |
| `DurableLog` | the abstract promise: a log that only grows |
| `TieredRead` | a `GET /logs` session of pages, step by step, composed with `SteadyRotation` |
| `ColdHealth` | `S3State`: overlapping `health()` calls, rotation's writes, and the classification of S3's errors |
| `Events` | events, filters and answers as pure definitions: the three filters (SQLite, memory, S3), pages, counts, suggestions, severities, S3 keys and prefixes |
| `Ingest` | from the environment to stored events: boot, seeding, `POST /ingest` for clients that lose requests and replies, both hot stores, crashes, restarts with other environments |
| `Dashboard` | a browser session: login, redirects, the URL and every link built from it, paging while others ingest |
| `DistinctCache` | the filter-value cache under overlapping requests, failing reads and a changing store |
| `RotationMC`, `SteadyRotationMC`, `TieredReadMC`, `DistinctCacheMC`, `IngestMC`, `DashboardMC` | instances for TLC |
| `EventsProofs` | lemmas about finite sets, filters and pages, for the modules that extend `Events` |
| `RotationProofs`, `TieredProofs`, `TieredSteadyProofs`, `HealthProofs`, `DistinctCacheProofs`, `IngestProofs`, `DashboardProofs` | theorems |

`TieredRead` extends `SteadyRotation`, which extends `Rotation` and implements
`DurableLog`; `Ingest`, `Dashboard` and `DistinctCache` extend `Events`.

### From code to steps

An SQL statement or transaction, one S3 request, or one critical section of a
mutex is one step; between two awaits nothing is split. So `rotate_once` is
`StartCycle` (the cutoff), one `ReadPage` per turn of `read_events_until`
(the last one also groups), one `WriteGroup` or `WriteGroupFails` per group in
any order (a `HashMap` is iterated), and `Drain` or `SkipDrain`. `AbortCycle`
is both an error passed on by `?` and a crash: in both cases the tables
survive and the cycle's variables do not. A failing PUT may have been stored.

In the modules about tiers an event is an id, a timestamp and a source; a
source is the pair (env, service) after `unwrap_or("unknown")`. Rows tie when
their timestamps do, and SQLite may return tying rows in any order. Timestamps
are compared as RFC 3339 strings in the code; `to_rfc3339` writes `+00:00`
after 0, 3, 6 or 9 digits of fraction and `+` sorts before `.` and the digits,
so string order is time order for years of four digits, and the model compares
numbers. Hours are numbered (`truncate_to_hour`). In `Rotation` a batch of n
ingested events is n steps, which allows more interleavings than the
transaction does.

In `TieredRead` the reader's parameters are a time range, a source, a limit
and a cursor; filters that do not depend on time or source would only thin
the events out. `ListKeys` is one step although S3 lists 1000 keys at a time.
A session starts at any moment of rotation, one per behaviour, since a reader
writes nothing anyone else reads. The dashboard calls the same `query_tiered`
with other limits.

`ColdHealth` counts time in ages that stop at a cap (the TTL, or the oldest
evidence an answer can rest on), so that its liveness properties need no last
moment. `Latency` bounds how long one `health()` call takes; the code sets no
timeout, so this is an assumption about S3 and the lock.

`DistinctCache` has a step for each critical section of the cache's lock and
for each of the three `distinct_values` reads between them; a failing read is
an empty list (`unwrap_or_default`). Its ages are capped as in `ColdHealth`,
and `Latency` bounds a request here too. Seconds have several ticks, because
the code drops the fraction of a second before it compares with the TTL.

In `Events` text is a sequence of tokens, words and one-character separators,
as far as the filters can tell texts apart: `LIKE` with its wildcards and
folding of case, an FTS5 phrase, S3's substring search. A service, an env and
an S3 key are the sequences of their parts between slashes, so that prefixes
of keys are prefixes of sequences. A store's rows are a function from their
rowids, of which only the order counts: it breaks ties in the memory store and
tells what came first. A page is the set of its rows and a cursor; for SQLite
any choice among rows that tie (`IsSqlitePage`), for the memory store the one
its stable sort makes (`MemoryPage`).

In `Ingest` a request is handled in one step, `Accept`, for any set of events
whose insert fails: nothing another task does in between is visible to it,
since the inserts are one transaction. What is split is the client's side:
`Post` sends, the answer is a step of its own, and `Crash` falls anywhere
between, so a batch may be stored although the client never hears of it and
posts it again. `Boot` follows the order of `main.rs`: the
variables are read, a refused configuration does not start, seeding ends
before the listener is bound. A rotation is one successful cycle here, since
`Rotation` has its steps. Rows carry, as history, the environment and bearer
they were accepted under.

In `Dashboard` the URL is a record, and each click is one GET: an operator
for every link builder of `dashboard_url.rs`, an action for every link, chip,
pill, button, the form and the pager. The page keeps the set of its rows and
the cursor in the link to older ones; `wanted`, `depth`, `walk` and `goal`
record what the user asked for and has seen: `walk` is the rows of the pages
before this one, so that loading a page again, with rows that have arrived
since, leaves it alone, and `goal` the rows that matched when the walk began. The cold store is the no-op one,
so a page is one hot query. The browser's back button leads to URLs the
session has had before and is left out, as is every other way to type a URL.

Definitions named `X_Variant` are plausible mistakes in `X` and are used by no
definition: `PROJECT.json` (`mutants`) names, for each property, the variant that breaks it.

## What TLC checks

| Run | Question | Distinct states |
|---|---|---|
| `rotation` | any timestamps, two faults: retention, delete-on-success, what a cycle can miss, placement; every event past the window leaves hot once faults end, and S3 has held it or a drain took it unread | 150 000 |
| `steady_safety` | prompt unique events: hot is a suffix in time, nothing is deleted unread, exactly the earlier parts of split hours are lost, retries keep copies; a nightly source's rows refine `DurableLog` beside a busier source | 563 000 |
| `read_any` | pages against any rotation and ingest, with read errors: no skipped hot event, duplicates only at the boundary | 1 094 000 |
| `read_steady` | pages against steady rotation of two sources: complete archive reads; following `next_cursor` visits every hot event once, across pages that switch tiers | 627 000 |
| `health` | two overlapping calls and writes: how long an outage can hide, that its cause is in the answer, that lasting outages and recoveries are reported | 773 000 |
| `cache` | two overlapping requests and a changing store: how far a suggestion lags, and that the cache catches up | 27 000 |
| `ingest` | a client that tries again, failing inserts, crashes, restarts with other environments: attribution, true answers, seeding, nothing discarded; and the filters of the two stores and two tiers compared on every set of rows that arises | 31 000 |
| `dashboard` | links, form, pager, login, expiry, new tokens, ingest: the page shows what is wanted, walks are complete, without repetition and end, the row links, the download, where login leads | 39 000 |

### Bounds

`Id`, `MaxTime`, `MaxFaults`, `MaxAttempts`, `MaxSeedings`, `MaxPage`,
`LinkKeys`, `Levels` and `Edits` bound the models only. The proofs hold for any
values of the constants of their modules.

- *Rotation.* Two or three events and two sources give two groups in one
  cycle, an hour split between cycles, a page boundary inside a tie (batch
  size 1), and an arrival during a cycle; a clock of five or six ticks with
  hours of two runs two or three cycles with different cutoffs. Two faults put
  an error or a crash at any await and again in its retry.
- *Reading.* Two events and a limit of 2 (`read_any`) or 1 (`read_steady`) are
  enough for a full page followed by another, a page with an event from each
  tier, and a rotation between any two awaits of one request.
- *Health.* Two calls, each taking up to half the TTL, overtake each other and
  the writes between. Two troubles: a bucket in another region, which answers in
  three ways, and a denied HEAD, which leaves writes free to succeed.
- *Cache.* Two requests and a TTL of one second of two ticks: one refresh can
  be stored over a later one, a request can see a young entry and answer from
  an old one, and the dropped fraction of a second is a tick. One row comes and goes.
- *Ingest.* Four environments (named tokens that repeat or contain a colon;
  every way to get a token variable wrong; the memory store with one token; S3
  without bucket), two batches (an event that claims another consumer, with a
  number for its team, and one without name; an empty name, a payload that is
  no object, a boolean and a number of 2^63 as work ids, and a service with a
  slash), three bearers, nine queries, and times on both sides of an hour.
  The file is seeded at most twice, so that a restart and a rotation that
  emptied the table can each lead to a second seeding; seeding the memory has
  no bound. One client makes two attempts: clients only meet in the table, each
  request is one step of it, and a row's position matters to seeding and to
  ties only.
- *Dashboard.* Four events (a tie, a late arrival, no dot and no service, a
  label that overstates its severity) on pages of two and three, so that a
  walk has up to three pages; a blank filter and a time range in the form; tokens
  with `=` and `;`; a gated address with a colon.

Ids are interchangeable, and sources where no reader asks for one; hence the
symmetry sets. Runs with liveness use none.

### Fairness

`WF_vars(Rotate)`: the interval loop in `spawn` never stops, logs errors and
awaits the next tick; a cycle's steps are awaits that complete. Faults are
finitely many, which is what "once the faults are over" means. In
`ColdHealth`: the clock, the answers of S3, tokio's scheduling and a monitor
that polls `/health` (as the README's deployment does). `RecoveryReported`
supposes that writes stop failing: a bucket that answers HEAD and refuses PUT
flips the flag for ever. `OutageReported` supposes the converse, for a HEAD
that is denied while writes succeed: each of them clears the issue. In `DistinctCache`: the clock, requests that go on
once begun, and users who keep opening the dashboard; `CacheConverges` supposes
that the store's lists stop changing and its reads stop failing. `Ingest`,
`Dashboard` and `TieredRead` state no fairness: a client need not come back,
and their properties are safety.

### Where the code and its documentation disagree

Each run below checks one sentence of a comment or document, and TLC finds
it violated. `PROJECT.json` (`findings`) quotes the sentences.

| Run | Shows |
|---|---|
| `steady_lossless` | an hour archived in two cycles loses its first part: same key, the PUT replaces |
| `read_race` | an event rotated between the choice of tier and the query is in no answer |
| `dashboard_download` | a time range set in the form is copied into the download link as the form posts it, and the download route answers 400 |
| `dashboard_page` | a filter link on the second page drops the cursor and keeps `page=2`: the first page of the new results is shown as the second |

The model contains other behaviour a reader of the documents may not expect,
which no run is spent on.

Rotation and the tiers:

- a row that ties with a full page's last row is skipped by the next page:
  rotation deletes it unread, a reader misses it. `UnreadExplained`,
  `HotWalkComplete` and `WalkComplete` state that there is no other case;
- a failed group does not stop the others from being written; only the drain
  is skipped (`rotation.rs:125` says "abort on first failure"): `WriteGroupFails`;
- an event at the boundary can be on one page from both tiers (`logs.rs:75`
  says "no overlap"): `DuplicateIsBoundary` states that this is the only case;
- a cold page of several sources is not the newest events, since keys are
  walked by source before time: `ColdNotSkipped` is about one source;
- the cold half of a page ignores the cursor, so the next page of a session may
  repeat an archived event: `ColdParams`, and why `HotWalkComplete` speaks of
  hot events only;
- an error of `hot.health()` reads as an empty hot tier and sends the request
  to cold alone: `HotHealth`, and why completeness assumes no faults;
- limits: 0 means 200 rows in SQLite, 100 in memory and none in a merged page;
  above 2000 the hot query is cut and the merged page is not, so
  `HotNotSkipped` is about limits up to 2000;
- a 301 without a region header falls through every test of `classify_sdk_err`
  (`s3.rs:404-419`) and is reported as `ServiceError`, though `models.rs:156`
  files HTTP 301 under `WrongRegion`: `Bare301`, the exception in
  `OutageReported` and in the theorem `TroublesNamed`;
- a write that succeeds between a failed probe and the answer clears the issue
  and leaves `ok = false`: `WriteOk`, and the exception in `OutageExplained`.

Ingest and configuration:

- a batch posted again is stored again, with new ids;
- of two variables with one token the first names the consumer; a
  `INGEST_TOKEN_PUBLIC` in the old form is warned about twice;
- the memory store takes an event with an empty name, SQLite does not and
  does not list it among the refused: `Stores`, `Rejected`;
- words, wildcards and capitals in a prefix match differently in the tiers, and
  so do work ids that are neither text nor number (`sqlite.rs:261` finds a
  boolean as 1 or 0), or that are numbers SQLite writes otherwise than serde:
  reals by 15 digits or as `1.0e+20`, integers above 64 bits as reals
  (`models.rs:76` has their JSON text). `Rounded` is the list of those numbers,
  any at all in the proofs. `TiersDiffer` lists the cases, and `TiersAgree` and
  `StoresAgree` state that there is no other.

Dashboard:

- the form has no fields for the level and the page size, so Apply drops both:
  `FormUrl`, and the exception in `Submit`;
- a token with a semicolon is cut by `Set-Cookie` and login never succeeds; an
  address with a colon is forgotten by the login form: both are exceptions in
  `LoginLands`.

## What is proved

Every safety invariant and action property that a passing run checks, and the
refinement of `DurableLog`, is a theorem. TLAPS checks them for all values of
the constants, under named assumptions of the modules:

- `ConstantsAssumption`: a positive hour, integers elsewhere, names of pages
  that differ; where a theorem names it, a retention that is not negative;
- `SizesAssumption` (`Dashboard`): page sizes and the download's cap are numbers
  from 1, none above SQLite's own limit of 2000;
- `TextAssumption`, `EnvironsAssumption`, `ParamsAssumption` (`Dashboard`,
  `Ingest`): names, values and tokens are text or absent, times are numbers, an
  environment has finitely many variables;
- `SeedsAssumption` (`Ingest`): the literals of `SeedEvents` are text. It holds
  by inspection and TLC evaluates it; the provers have no rule by which a
  literal such as `"prod"` is a member of `STRING`.

TLC has checked the inductive invariants named below on the instances of the
runs, before they were proved.

- `RotationProofs`. `RotationInv` is inductive together with `TypeOK`. The
  safety properties alone are not: that a drain deletes only archived rows
  needs `ReadIsWritten` (each row read is in its object, pending or failed)
  and `ReadFromHot`; `UnreadExplained` needs `Frontier`, the same statement
  about the rows between the cursor and the cutoff while paging;
  `RetentionPromise` and `ColdWellPlaced` need `CutoffInPast`. One lemma per action,
  then `TypeCorrect`, `Invariance`, `Retained`, `ReadComplete`, `Placed` and
  the action property `DeleteOnSuccess`.
- `RotationProofs`, second part. Under Steady, arrivals are above the cutoff and timestamps
  identify events, so hot is a suffix in time (`LeavesInOrder`), the tiers meet
  in one event (`HandOverIsExact`), a cycle reads all it deletes
  (`NeverMissed`), a PUT never drops what is still in hot (`RetriesAreClean`),
  and what is lost is the earlier part of an hour (`LossIsEarlierPart`). Two
  rows of a nightly source never share an object (`NightlyInvariance`), so a PUT
  keeps all its object held (`NightlyPut`), and `NightlyIsDurable` proves the
  refinement for any set of nightly sources: a step accepts one of their events
  or stutters, and a busier source's steps stutter.
- `TieredProofs`. A session beside any rotation. A page that was read is
  judged against tiers that have moved on, so `RequestInv` says what each step of a
  request has fixed: the events that stay in hot for the whole walk
  (`StaysAreHot`) are still there at every step; the boundary the request read
  is not above any of them (`OldestIsBelow`); the cold half is older than the
  boundary or at it (`OlderHalf`). From these, `NoHotSkipped` and
  `BoundaryOnly`; `ReadTypeCorrect` bounds the pages.
- `TieredSteadyProofs`. The session under Steady, joined with `SteadyInv`.
  `WalkInv` relates the pages of a walk: what it has seen is at or above its
  cursor, and what the current page adds, from whichever tier the page was
  read, is below that cursor and down to the next; hence `WalksAreComplete`. `ColdInv` follows one request through the
  listing: objects are visited backwards in time, so that stopping early or at
  the limit leaves out older events only; hence `NoColdSkipped`, which assumes
  a retention in `Nat`: with a negative one S3 holds events of the future, and
  a request without `until` leaves those out.
- `HealthProofs`. `HealthInv`: while the flag is set and young, S3 answered
  since the recorded check; the induction carries the age of a probe's success
  from the moment S3 answers (`ReachedHasWitness`) through the flag to the
  answer (`AnswerHasWitness`). `OutagesShow`: the bound on hidden outages;
  `OutagesExplained`: an answer that is not ok has its cause, but for the case
  above; `TroublesNamed`: every response is classified as `S3IssueKind`
  describes it, but for the 301 without region.
- `DistinctCacheProofs`. `CacheInv`: the entry lags by its age and one request
  (`EntryLag`), what a request has read lags by the request's age (`ReadLag`),
  and a request that chose to answer from the entry finds it hardly older
  (`HitIsYoung`). `SuggestionsLagBounded` adds them up: TTL, the dropped second
  and two requests.
- `EventsProofs`. What the next two rest on. `FirstOnes`: in any strict order,
  the elements with fewer than n before them are n, or all; this is what a sort
  followed by `truncate` returns, and with it `MemoryPageIsSqlites`.
  `PageSplits`: a page's cursor divides what was found. `FiltersAgree`: the
  filters differ only where `TiersDiffer` says. `FirstPlace`: where a separator
  is found. A finite set of numbers has a least and a greatest one (`FiniteMin`,
  `FiniteMax`), from the library's theorem that strict inclusion among finite
  sets is well-founded.
- `IngestProofs`. `IngestInv`. That an answer is true is not inductive: a row
  could be of an attempt not yet made, or be counted by nobody. So rows are
  numbered by attempts that were made (`Numbered`), nothing is stored of an
  attempt under way or refused (`NothingOf`), and an accepted count is the size
  of a set of events that contains every stored row of the attempt and, in a
  persistent store, whose rows are all in the file or in S3 (`CountIsTrue`).
  The stamp carries over as `Owned`, which needs that a token variable's value
  is its tier, a colon and its token (`ValueSplits`) and that the record found
  is one of the environment's (`ConsumerIsGranted`). Then every property of the
  run: `StampsAreTrue`, `OpenIsWarned`, `AnswersAreTrue`, `SeedsStayFirst`,
  `TiersFindTheSame`, `StoresAnswerAlike`, `ListingsCover`, `SuggestionsFind`
  and the action property `FileKeepsOrArchives`.
- `DashboardProofs`. `LoginInv`: the login form's field stands for the page that
  was asked for, and a redirect has set the token as the cookie
  (`LoginLeadsOn`). `SessionInv`, from which the rest follows: the URL means
  to the query what the user asked for (`FilterInv`), and the pages of a walk are
  stacked (`WalkInv`): the rows of the pages before lie above the page's cursor
  parameter, and each row that matched at first is shown, ties with a row that
  is shown, or lies below the cursor the page leads on with. The pages' rows
  alone are not inductive, since a row that arrives late may be on a page that is
  loaded again. Then `WantedIsShown`, `WalksAreWhole`, `PagesAreApart`,
  `DownloadIsWhole` and `RowLinksLeadBack`; and, since each page but the last
  adds a row (`WalkIsDeep`), `WalksComeToAnEnd`: a walk has at most one page
  more than rows that match.

Only model-checked: liveness (the prover has no fairness or `ENABLED`), namely
`OldEventsLeaveHot`, `OldEventsReachCold`, `OutageReported`,
`RecoveryReported` and `CacheConverges`. What a recursive definition computes
would need induction over data with an operator as parameter, which the
installed provers cannot instantiate; no property needs it, as the modules
define rows, pages and places by sets and functions.

## What is not modelled

- Encoding: NDJSON, gzip, RFC 3339 (compared as numbers, see above), percent-encoding
  of URLs and cookies, HTML and its escaping, JSON beyond what the filters see.
- The bytes of a text, so neither the cut at a byte in `truncate`
  (`dashboard.rs:759`) nor `safe_next`'s limit of 512, and no blanks around an
  address, which `safe_next` trims.
- HTTP Basic, comparison in constant time, the cookie's Secure flag, and the
  tier of a token, which no route tests.
- The archive counters (displayed only), migrations, the connection pool, and
  errors of decoding a row.
- Objects shared by two sources whose names contain slashes: `Rotation` keeps
  one object per source and hour. Listing an S3 prefix in several requests.
- Docs, openapi, navigation, modal and script assets (static pages); the notify
  crate (nothing calls it); scripts and deployment files; loss of the disk and
  deletes by hand.

## Plan

Done: rotation with its workloads and abstraction, tiered reads, cold health,
the cache, ingest from the environment to rows, the stores' filters compared,
the dashboard session, and the theorems above. Left:

1. the dashboard over both tiers, with its time range: `Dashboard`'s page
   replaced by `TieredRead`'s steps;
2. keys of names with slashes in `Rotation`, and a LIST of several requests
   during rotation;
3. proofs: that a walk through `TieredRead`'s pages ends, as the dashboard's
   does, and that `MemoryPage` gives the rows of a stable sort in their order;
4. a liveness run for a reader whose walk ends.
