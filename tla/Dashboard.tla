----------------------------- MODULE Dashboard -----------------------------
(***************************************************************************)
(* A browser session with the HTML pages: login and its redirects, and the *)
(* dashboard, whose whole state is its URL.  Every link of the page is     *)
(* built from the URL by dashboard_url.rs; a request is answered from the  *)
(* hot store while others ingest, the cookie may expire, and the server    *)
(* may be restarted with another token.  The cold store is the noop one:   *)
(* TieredRead has the query over both tiers.                               *)
(***************************************************************************)
EXTENDS Events

CONSTANTS
    Feed,         \* the events ingested, in this order
    Tokens,       \* values DASHBOARD_TOKEN may have, None for unset
    Paths,        \* the gated pages a user visits, with their query strings
    LinkKeys,     \* bound: the keys whose links and chips are followed
    Levels,       \* bound: the levels whose pills are followed
    Edits,        \* bound: what is typed into the form, per field
    PAGE_SIZES, PageMin, PageMax, PageDefault,   \* sizes offered; the clamp
    MaxPage,      \* bound: the page number up to which older pages are opened
    DownloadCap   \* the rows of a download

FormKeys == {"request_id", "service", "env", "event_prefix", "q", "since", "until"}
FilterKeys == FormKeys \union {"level"}

\* gated pages are paths of this host with names of their own, filters are set
\* by their keys, and an absent value is no number
ASSUME ConstantsAssumption ==
    /\ \A path \in Paths :
          /\ path \in Text /\ Len(path) > 1 /\ path[1] = "/"
          /\ path[2] \notin {"/", "login", "wrong", "redirect", "dashboard"}
    /\ LinkKeys \subseteq FilterKeys
    /\ \A edit \in Edits : edit.key \in FormKeys
    /\ None \notin Int

ASSUME SizesAssumption ==
    /\ PageMin \in Nat /\ PageMax \in Nat /\ PageDefault \in Nat
    /\ 1 <= PageMin /\ PageMin <= PageMax /\ PageMax <= 2000
    /\ DownloadCap \in Nat /\ 1 <= DownloadCap /\ DownloadCap <= 2000
    /\ PAGE_SIZES \subseteq Nat

\* what is compared is text, times are numbers, and the severities' own labels
\* have no capitals
ASSUME TextAssumption ==
    /\ Tokens \subseteq Text \union {None} /\ None \notin Text
    /\ Feed \in Seq({Feed[i] : i \in DOMAIN Feed})
    /\ \A i \in DOMAIN Feed : Feed[i].ts \in Int /\ Feed[i].event \in Text
    /\ \A label \in {"trace", "debug", "info", "warn", "error", "fatal"} :
          label \notin DOMAIN Upper

VARIABLES
    rows,      \* the hot store
    token,     \* the server's DASHBOARD_TOKEN
    jar,       \* the browser's lc_dash cookie
    screen,    \* what it shows: login, wrong, redirect, dashboard, or a gated page
    next,      \* the login form's hidden field
    target,    \* where the redirect leads
    url,       \* the dashboard's URL, a DashboardQuery
    page,      \* the rows shown and the cursor of the link to older ones
    asked,     \* history: the page the user wanted when the login page came
    wanted,    \* history: the filters the user has set
    depth,     \* history: pages from the newest
    walk,      \* history: rows shown on the pages before, from the newest
    goal       \* history: rows that matched then

login == <<jar, next, target, asked>>
session == <<url, page, wanted, depth, walk, goal>>
vars == <<rows, token, screen, login, session>>

Root == <<"/">>
-----------------------------------------------------------------------------
(* auth.rs and dashboard_login.rs.  A cookie header is a sequence of       *)
(* pairs, each of them text.                                               *)

Equals(pair) == PlaceOf("=", pair)
NameOf(pair) == SubSeq(pair, 1, Equals(pair) - 1)

\* the first pair of that name
PairAt(header, name) == SelectInSeq(header, LAMBDA pair : NameOf(pair) = name)

extract_cookie_LastPart(header, name) ==
    LET i == PairAt(header, name)
        j == IF i = 0 THEN 0 ELSE SelectLastInSeq(header[i], LAMBDA t : t = "=")
    IN IF i = 0 THEN None ELSE SubSeq(header[i], j + 1, Len(header[i]))

\* the value is all after the first = of the pair
extract_cookie(header, name) ==
    LET i == PairAt(header, name)
    IN IF i = 0 THEN None ELSE SubSeq(header[i], Equals(header[i]) + 1, Len(header[i]))

check_dashboard_auth(header, bearer, expected) ==
    \/ expected = None
    \/ extract_cookie(header, <<"lc_dash">>) = expected
    \/ bearer = expected

\* what the browser sends: another cookie of the host, and ours
CookieHeader(value) ==
    <<<<"theme", "=", "dark">>>> \o
    (IF value = None THEN <<>> ELSE <<<<"lc_dash", "=">> \o value>>)

Authorized(value) == check_dashboard_auth(CookieHeader(value), None, token)

\* Set-Cookie's attributes follow a ;, so the browser keeps what precedes it
Kept(value) ==
    LET i == PlaceOf(";", value)
    IN IF i = 0 THEN value ELSE SubSeq(value, 1, i - 1)

\* a path of this host, or None; those longer than 512 bytes and blanks around
\* it are left out
safe_next(raw) ==
    IF raw = None \/ raw = <<>> THEN None
    ELSE IF \/ raw[1] # "/" \/ (Len(raw) > 1 /\ raw[2] = "/")
            \/ \E i \in DOMAIN raw : raw[i] \in {":", "\\"}
         THEN None ELSE raw
-----------------------------------------------------------------------------
(* dashboard_url.rs: the URL as a record; None is a key that is not there, *)
(* an empty text one without value.  A since or until has a form: local    *)
(* (datetime-local), rfc3339 or empty.                                     *)

NoQuery ==
    [request_id |-> None, service |-> None, env |-> None, event_prefix |-> None, q |-> None,
     since |-> None, until |-> None, level |-> None, limit |-> None, cursor |-> None,
     page |-> None]
NoWish == [k \in FilterKeys |-> None]

Empty(k) == IF k \in {"since", "until"} THEN [form |-> "empty"] ELSE <<>>
HasValue(k, v) ==
    v # None /\ IF k \in {"since", "until"} THEN v.form # "empty" ELSE v # <<>>

current_pairs_NoLevel(q) ==
    [k \in DOMAIN q |->
        CASE k \in {"cursor", "level"} -> None
          [] k = "page" -> IF q.page # None /\ q.page > 1 THEN q.page ELSE None
          [] k = "limit" -> q.limit
          [] OTHER -> IF HasValue(k, q[k]) THEN q[k] ELSE None]

\* the filters that are set, the limit, and the page if it is not the first
current_pairs(q) ==
    [k \in DOMAIN q |->
        CASE k = "cursor" -> None
          [] k = "page" -> IF q.page # None /\ q.page > 1 THEN q.page ELSE None
          [] k = "limit" -> q.limit
          [] OTHER -> IF HasValue(k, q[k]) THEN q[k] ELSE None]

filter_url_override(q, key, value) == [current_pairs(q) EXCEPT ![key] = value]
filter_url_remove(q, key) == [current_pairs(q) EXCEPT ![key] = None]
reset_to_first_page(q) == [current_pairs(q) EXCEPT !.page = None]

PageOf(q) == IF q.page = None THEN 1 ELSE q.page

build_next_url_with_page_Keeps(q, cursor) == [current_pairs(q) EXCEPT !.cursor = cursor]
build_next_url_with_page(q, cursor) ==
    [current_pairs(q) EXCEPT !.cursor = cursor, !.page = PageOf(q) + 1]

parse_dashboard_dt(v) == IF v # None /\ v.form = "local" THEN v.ts ELSE None
download_url(q) == [current_pairs(q) EXCEPT !.page = None]
-----------------------------------------------------------------------------
(* dashboard.rs: the query of a URL, and the links of the page.            *)

not_empty(v) == IF v # None /\ \E i \in DOMAIN v : v[i] # " " THEN v ELSE None

PageSize(limit) ==
    LET n == IF limit = None THEN PageDefault ELSE limit
    IN IF n < PageMin THEN PageMin ELSE IF n > PageMax THEN PageMax ELSE n

Severity(level) == IF level = None THEN None ELSE level_to_min_severity(Head(level))

\* get_dashboard's parameters
QueryParams(q) ==
    [NoFilter(PageSize(q.limit)) EXCEPT
        !.request_id = not_empty(q.request_id), !.service = not_empty(q.service),
        !.env = not_empty(q.env), !.event_prefix = not_empty(q.event_prefix),
        !.min_severity = Severity(not_empty(q.level)), !.since = parse_dashboard_dt(q.since),
        !.until = parse_dashboard_dt(q.until), !.fts = not_empty(q.q), !.cursor = q.cursor]

\* what distinguishes render's filter chips, Reset and Refresh
any_filter_active(q) == \E k \in FilterKeys : HasValue(k, q[k])

\* the values of a row's links, None where there is no link
RowLink(e, key) ==
    CASE key = "level" -> <<e.severity_text>>
      [] key \in {"service", "env"} -> e[key]
      [] key = "request_id" -> IF e.request_id = <<>> THEN None ELSE e.request_id
      [] key = "event_prefix" ->
            IF Dot(e.event) = 0 THEN Append(e.event, ".") ELSE SubSeq(e.event, 1, Dot(e.event))

\* values offered for a key: a row's link, and for levels the pills
Offers(key) ==
    ({RowLink(rows[i], key) : i \in page.rows} \ {None})
        \union (IF key = "level" THEN Levels ELSE {})

\* the form carries its own fields only, one of them edited
FormUrl(q, key, value) ==
    [NoQuery EXCEPT
        !.request_id = IF q.request_id = None THEN Empty("request_id") ELSE q.request_id,
        !.service = IF q.service = None THEN Empty("service") ELSE q.service,
        !.env = IF q.env = None THEN Empty("env") ELSE q.env,
        !.event_prefix = IF q.event_prefix = None THEN Empty("event_prefix") ELSE q.event_prefix,
        !.q = IF q.q = None THEN Empty("q") ELSE q.q,
        !.since = IF q.since = None THEN Empty("since") ELSE q.since,
        !.until = IF q.until = None THEN Empty("until") ELSE q.until,
        ![key] = value]
-----------------------------------------------------------------------------
(* logs.rs: the download. *)

DownloadLimit_AsAsked(limit) == IF limit = None THEN 200 ELSE limit
DownloadLimit(limit) == IF limit = None \/ limit < DownloadCap THEN DownloadCap ELSE limit

\* build_query_params: values as they are
DownloadParams(q) ==
    [NoFilter(DownloadLimit(q.limit)) EXCEPT
        !.request_id = q.request_id, !.service = q.service, !.env = q.env,
        !.event_prefix = q.event_prefix, !.min_severity = Severity(q.level),
        !.since = IF q.since = None THEN None ELSE q.since.ts,
        !.until = IF q.until = None THEN None ELSE q.until.ts, !.fts = q.q]

\* LogsQuery takes RFC 3339 times only; otherwise the answer is 400
DownloadAnswers(q) == \A k \in {"since", "until"} : q[k] # None => q[k].form = "rfc3339"

\* the sets of rows a query may be answered with
Answers(p) == {T \in SUBSET DOMAIN rows : IsSqliteAnswer(rows, p, T)}
-----------------------------------------------------------------------------
NoPage == [rows |-> {}, next_cursor |-> None]
NoSession ==
    /\ url = NoQuery /\ page = NoPage /\ wanted = NoWish
    /\ depth = 0 /\ walk = {} /\ goal = {}

LeaveDashboard ==
    /\ url' = NoQuery /\ page' = NoPage /\ wanted' = NoWish
    /\ depth' = 0 /\ walk' = {} /\ goal' = {}

Init ==
    /\ rows = <<>>
    /\ token \in Tokens
    /\ jar = None /\ screen = "login" /\ next = None /\ target = Root /\ asked = Root
    /\ NoSession

\* the login page, for the page wanted
ShowLogin(name, field, wants) ==
    /\ screen' = name
    /\ next' = field
    /\ asked' = wants
    /\ LeaveDashboard
    /\ UNCHANGED <<jar, target>>

\* get_dashboard for a URL, and a walk that begins without cursor
Load(q) ==
    \E T \in Answers(QueryParams(q)) :
        /\ screen' = "dashboard"
        /\ url' = q
        /\ page' = Page(rows, T, PageSize(q.limit))
        /\ goal' = IF q.cursor # None THEN goal
                   ELSE {i \in DOMAIN rows : SqliteMatch(rows[i], QueryParams(q))}

\* GET / with the browser's cookie; the login page does not remember the URL
GetDashboard(q, wish, past, deep) ==
    IF Authorized(jar)
    THEN /\ Load(q)
         /\ wanted' = wish /\ walk' = past /\ depth' = deep
         /\ UNCHANGED login
    ELSE ShowLogin("login", None, Root)

\* gate_html: GET of a page behind the same gate
GetGated(path) ==
    IF Authorized(jar)
    THEN /\ screen' = path[2]
         /\ LeaveDashboard
         /\ UNCHANGED login
    ELSE ShowLogin("login", safe_next(path), path)

GetPath(path) ==
    IF path = Root THEN GetDashboard(NoQuery, NoWish, {}, 1) ELSE GetGated(path)

\* the user goes to a page by its address or the navigation bar
Visit(path) ==
    /\ screen # "redirect"
    /\ GetPath(path)
    /\ UNCHANGED <<rows, token>>

\* GET /?token=...&next=...
PasteToken(t, field, wants) ==
    /\ screen # "redirect"
    /\ IF token # None /\ t = token
       THEN /\ screen' = "redirect"
            /\ jar' = Kept(t)
            /\ target' = IF safe_next(field) = None THEN Root ELSE safe_next(field)
            /\ asked' = wants
            /\ LeaveDashboard
            /\ UNCHANGED next
       ELSE ShowLogin("wrong", safe_next(field), wants)
    /\ UNCHANGED <<rows, token>>

SubmitToken(t) == screen \in {"login", "wrong"} /\ PasteToken(t, next, asked)

\* the browser follows the redirect
Follow ==
    /\ screen = "redirect"
    /\ GetPath(target)
    /\ UNCHANGED <<rows, token>>

OnDashboard == screen = "dashboard"

\* a link or the form that changes filters: no cursor, so the newest page
Refilter(q, wish) ==
    /\ OnDashboard
    /\ GetDashboard(q, wish, {}, 1)
    /\ UNCHANGED <<rows, token>>

Filter(key) ==
    \E v \in Offers(key) :
        Refilter(filter_url_override(url, key, v), [wanted EXCEPT ![key] = v])

\* a chip's x, or the level pill any
RemoveFilter(key) ==
    /\ HasValue(key, url[key]) \/ key = "level"
    /\ Refilter(filter_url_remove(url, key), [wanted EXCEPT ![key] = None])

ChangeSize(n) == Refilter(filter_url_override(url, "limit", n), wanted)

\* Apply; the level and the page size are not fields of the form
Submit(key, v) ==
    Refilter(FormUrl(url, key, v), [wanted EXCEPT !.level = None, ![key] = v])

Reset ==
    /\ any_filter_active(url)
    /\ Refilter(NoQuery, NoWish)

Older ==
    /\ OnDashboard
    /\ page.next_cursor # None
    /\ PageOf(url) < MaxPage
    /\ GetDashboard(build_next_url_with_page(url, page.next_cursor), wanted,
                    walk \union page.rows, depth + 1)
    /\ UNCHANGED <<rows, token>>

Newest ==
    /\ OnDashboard
    /\ url.cursor # None
    /\ GetDashboard(reset_to_first_page(url), wanted, {}, 1)
    /\ UNCHANGED <<rows, token>>

Refresh ==
    /\ OnDashboard
    /\ any_filter_active(url) \/ url.cursor # None
    /\ GetDashboard(url, wanted, walk, depth)
    /\ UNCHANGED <<rows, token>>

Ingest ==
    /\ Len(rows) < Len(Feed)
    /\ rows' = Append(rows, Feed[Len(rows) + 1])
    /\ UNCHANGED <<token, screen, login, session>>

\* 30 days pass, or the user clears cookies
Expire ==
    /\ jar # None
    /\ screen # "redirect"
    /\ jar' = None
    /\ UNCHANGED <<rows, token, screen, next, target, asked, session>>

\* the server comes back with another token
Restart ==
    /\ screen # "redirect"
    /\ token' \in Tokens \ {token}
    /\ UNCHANGED <<rows, screen, login, session>>

Next ==
    \/ \E path \in Paths \union {Root} : Visit(path)
    \/ \E t \in Tokens \ {None} : SubmitToken(t) \/ PasteToken(t, None, Root)
    \/ Follow
    \/ \E key \in LinkKeys : Filter(key) \/ RemoveFilter(key)
    \/ \E n \in PAGE_SIZES : ChangeSize(n)
    \/ \E edit \in Edits : Submit(edit.key, edit.value)
    \/ Reset
    \/ Older
    \/ Newest
    \/ Refresh
    \/ Ingest
    \/ Expire
    \/ Restart

Spec == Init /\ [][Next]_vars
-----------------------------------------------------------------------------
Holds(e, wish) ==
    LET q == [k \in DOMAIN NoQuery |-> IF k \in FilterKeys THEN wish[k] ELSE None]
    IN SqliteMatch(e, QueryParams(q))

\* What is shown is what was asked for: whatever links, pages, refreshes and
\* page sizes lie between, a row on the page passes every filter the user has
\* set and not removed, and none is missing from the page that passes them.
\* The form is the exception the code makes: it forgets the level.
ShownIsWanted ==
    OnDashboard =>
        /\ \A i \in page.rows : Holds(rows[i], wanted)
        /\ \A i \in goal : Holds(rows[i], wanted)
        /\ url.cursor = None /\ page.next_cursor = None =>
              \A i \in goal : i \in page.rows

\* the rows of the walk so far
Shown == walk \union page.rows

\* docs/STORAGE.md:219, new events "won't shift older pages around": following
\* "older" to its end has shown every row that matched when the walk began,
\* while others are ingested, but for rows with the timestamp of one that was
\* shown.
WalkComplete ==
    OnDashboard /\ page.next_cursor = None =>
        \A i \in goal : \E j \in Shown : j = i \/ rows[j].ts = rows[i].ts

\* ... and no row is on two of its pages, also when one is loaded again.
NoRepeats == OnDashboard => page.rows \intersect walk = {}

\* ... and the walk comes to an end: it has at most one page more than there are
\* rows that match, and on the page after which there is none left the link to
\* older ones is gone.
WalkEnds ==
    OnDashboard =>
        LET matching == SqliteCount(rows, QueryParams(url))
        IN depth <= matching + 1 /\ (depth = matching + 1 => page.next_cursor = None)

\* dashboard.rs:505-560: a link in a row leads to a page its row is on, but for
\* an event without a dot, whose prefix link adds one, and a label that
\* is not its number's own.
RowLinksFindRow ==
    OnDashboard =>
        \A i \in page.rows, key \in {"level", "service", "env", "request_id", "event_prefix"} :
            LET e == rows[i]
                link == RowLink(e, key)
            IN \/ link = None
               \/ SqliteMatch(e, QueryParams(filter_url_override(url, key, link)))
               \/ key = "event_prefix" /\ Dot(e.event) = 0
               \/ /\ key = "level"
                  /\ \/ e.severity_number \notin 1 .. 24
                     \/ e.severity_text # severity_label(e.severity_number)

\* The download has every row of the walk so far, and more if the walk is not
\* over, when no time range is set, no filter is blank and what matches is not
\* more than a download's rows.
DownloadHasWalk ==
    OnDashboard =>
        LET q == download_url(url)
        IN (/\ q.since = None /\ q.until = None
            /\ \A k \in FilterKeys : q[k] # None => not_empty(q[k]) # None
            /\ SqliteCount(rows, DownloadParams(q)) <= DownloadCap)
               => /\ DownloadAnswers(q)
                  /\ \A T \in Answers(DownloadParams(q)) : Shown \subseteq T

\* dashboard.rs:36, the page number is "reset to 1 when ... any filter changes", and
\* docs/DASHBOARD.md:55, it "reflects where you are".  Violated: a link that
\* changes a filter leads to the newest rows and keeps the number.
PageReflectsPosition == OnDashboard => PageOf(url) = depth

\* dashboard_url.rs:157, "so the download contains exactly what the user is
\* looking at".  Violated: the time range is sent in the form of the form's
\* fields, which /logs/download.ndjson refuses.
DownloadCoversPage ==
    OnDashboard => DownloadAnswers(download_url(url))

\* mod.rs:167, "so the user lands on the page they asked for": after any number
\* of wrong tokens, the right one leads to the page the user asked for, or to
\* the dashboard if its address has a colon or a backslash; never back to the login page,
\* unless the token has a semicolon, which no cookie can carry.
LoginLands ==
    [][Follow /\ (\A i \in DOMAIN token : token[i] # ";") =>
          screen' = IF asked = Root \/ \E i \in DOMAIN asked : asked[i] \in {":", "\\"}
                    THEN "dashboard" ELSE asked[2]]_vars
=============================================================================
