-------------------------- MODULE DashboardProofs --------------------------
(***************************************************************************)
(* Proofs about Dashboard, for any events, tokens, pages, page sizes and   *)
(* edits of the form.                                                      *)
(***************************************************************************)
EXTENDS Dashboard, EventsProofs, SequenceTheorems

\* The login form and the redirect lead to pages of this host.
PathsKnown ==
    /\ next \in Paths \union {None, Root}
    /\ target \in Paths \union {Root}

\* The hidden field and the redirect take a path from the user as it is, or
\* none of it.
LEMMA NextIsPath == ASSUME NEW raw PROVE safe_next(raw) \in {raw, None}
BY DEF safe_next

\* They stay on this host.
LEMMA PathsStep == PathsKnown /\ [Next]_vars => PathsKnown'
<1> SUFFICES ASSUME PathsKnown, [Next]_vars PROVE PathsKnown'
  OBVIOUS
<1>1. ASSUME NEW q, NEW wish, NEW past, NEW deep,
           GetDashboard(q, wish, past, deep)
      PROVE  PathsKnown'
  BY <1>1 DEF GetDashboard, ShowLogin, login, PathsKnown
<1>2. ASSUME NEW path \in Paths \union {Root}, GetPath(path) PROVE PathsKnown'
  BY <1>1, <1>2, NextIsPath DEF GetPath, GetGated, ShowLogin, login, PathsKnown
<1>3. ASSUME NEW t, NEW field, NEW wants, PasteToken(t, field, wants),
             field \in Paths \union {None, Root}
      PROVE  PathsKnown'
  BY <1>3, NextIsPath DEF PasteToken, ShowLogin, PathsKnown
<1>4. ASSUME NEW q, NEW wish, Refilter(q, wish) PROVE PathsKnown'
  BY <1>1, <1>4 DEF Refilter
<1>5. CASE \E path \in Paths \union {Root} : Visit(path)
  BY <1>2, <1>5 DEF Visit
<1>6. CASE \E t \in Tokens \ {None} : SubmitToken(t) \/ PasteToken(t, None, Root)
  BY <1>3, <1>6 DEF SubmitToken, PathsKnown
<1>7. CASE Follow
  BY <1>2, <1>7 DEF Follow, PathsKnown
<1>8. CASE \/ \E key \in LinkKeys : Filter(key) \/ RemoveFilter(key)
           \/ \E n \in PAGE_SIZES : ChangeSize(n)
           \/ \E edit \in Edits : Submit(edit.key, edit.value)
           \/ Reset
  BY <1>4, <1>8 DEF Filter, RemoveFilter, ChangeSize, Submit, Reset
<1>9. CASE Older \/ Newest \/ Refresh
  BY <1>1, <1>9 DEF Older, Newest, Refresh
<1>10. CASE Ingest \/ Expire \/ Restart \/ UNCHANGED vars
  BY <1>10 DEF Ingest, Expire, Restart, login, vars, PathsKnown
<1>. QED
  BY <1>5, <1>6, <1>7, <1>8, <1>9, <1>10 DEF Next
-----------------------------------------------------------------------------
(***************************************************************************)
(* Login.                                                                  *)
(***************************************************************************)
\* Short texts.
LEMMA OneWord == ASSUME NEW S, NEW a \in S PROVE <<a>> \in Seq(S)
OBVIOUS

LEMMA TwoWords == ASSUME NEW S, NEW a \in S, NEW b \in S PROVE <<a, b>> \in Seq(S)
OBVIOUS

LEMMA ThreeWords ==
    ASSUME NEW S, NEW a \in S, NEW b \in S, NEW c \in S PROVE <<a, b, c>> \in Seq(S)
OBVIOUS

LEMMA OneAndOne == ASSUME NEW a, NEW b PROVE <<a>> \o <<b>> = <<a, b>>
<1>. DEFINE S == {a, b}
            x == <<a>> \o <<b>>
            y == <<a, b>>
<1>1. x \in Seq(S) /\ y \in Seq(S)
  BY OneWord, TwoWords
<1>2. Len(x) = 2 /\ Len(y) = 2
  OBVIOUS
<1>3. \A i \in 1 .. 2 : x[i] = y[i]
  OBVIOUS
<1>4. x = y
  <2>. HIDE DEF S, x, y
  <2>. QED
    BY <1>1, <1>2, <1>3, SeqEqual
<1>. QED
  BY <1>4

\* A pair's name, of one word, is what precedes its first =.
LEMMA NameFirst ==
    ASSUME NEW S, NEW s \in Seq(S), Len(s) >= 2, s[1] # "=", s[2] = "="
    PROVE  Equals(s) = 2 /\ NameOf(s) = <<s[1]>>
<1>. DEFINE at == PlaceOf("=", s)
<1>1. DOMAIN s = 1 .. Len(s) /\ Len(s) \in Nat
  OBVIOUS
<1>2. \/ at = 0 /\ \A j \in DOMAIN s : s[j] # "="
      \/ at \in DOMAIN s /\ s[at] = "=" /\ \A j \in DOMAIN s : j < at => s[j] # "="
  BY FirstPlace
<1>3. at = 2
  <2>. HIDE DEF at
  <2>1. at # 0 /\ at # 1
    BY <1>1, <1>2
  <2>2. at \in 1 .. Len(s) /\ ~(2 < at)
    BY <1>1, <1>2, <2>1
  <2>. QED
    BY <2>1, <2>2
<1>4. Equals(s) = 2
  BY <1>3 DEF Equals
<1>5. NameOf(s) = SubSeq(s, 1, 1)
  BY <1>4 DEF NameOf
<1>6. s[1] \in S
  BY <1>1
<1>7. /\ SubSeq(s, 1, 1) \in Seq(S) /\ Len(SubSeq(s, 1, 1)) = 1
      /\ SubSeq(s, 1, 1)[1] = s[1]
  BY <1>6, SubSeqProperties
<1>8. <<s[1]>> \in Seq(S) /\ Len(<<s[1]>>) = 1 /\ <<s[1]>>[1] = s[1]
  BY <1>6, OneWord
<1>9. SubSeq(s, 1, 1) = <<s[1]>>
  <2>. DEFINE x == SubSeq(s, 1, 1)
              y == <<s[1]>>
  <2>1. x \in Seq(S) /\ y \in Seq(S) /\ Len(x) = 1 /\ Len(y) = 1 /\ x[1] = y[1]
    BY <1>7, <1>8
  <2>. HIDE DEF x, y
  <2>2. x = y
    BY <2>1, SeqEqual
  <2>. QED
    BY <2>2 DEF x, y
<1>. QED
  BY <1>4, <1>5, <1>9

\* The browser's cookie is the second pair of its header: the server reads
\* from it what was set.
LEMMA CookieIsRead ==
    ASSUME NEW value \in Text
    PROVE  extract_cookie(CookieHeader(value), <<"lc_dash">>) = value
<1>. DEFINE theme == <<"theme", "=", "dark">>
            ours == <<"lc_dash", "=">> \o value
            header == <<theme, ours>>
            I == {i \in 1 .. Len(header) : NameOf(header[i]) = <<"lc_dash">>}
            S == STRING \union {"lc_dash", "="}
<1>1. CookieHeader(value) = header
  <2>1. CookieHeader(value) = <<theme>> \o <<ours>>
    BY TextAssumption DEF CookieHeader
  <2>. HIDE DEF theme, ours
  <2>. QED
    BY <2>1, OneAndOne
<1>2. value \in Seq(S)
  <2>1. STRING \subseteq S
    OBVIOUS
  <2>. HIDE DEF S
  <2>. QED
    BY <2>1, SeqMonotonic DEF Text
<1>3. /\ ours \in Seq(S) /\ Len(ours) = Len(value) + 2 /\ Len(value) \in Nat
      /\ ours[1] = "lc_dash" /\ ours[2] = "="
      /\ SubSeq(ours, 3, Len(ours)) = value
  <2>1. "lc_dash" \in S /\ "=" \in S
    OBVIOUS
  <2>. HIDE DEF S
  <2>2. <<"lc_dash", "=">> \in Seq(S)
    BY <2>1, TwoWords
  <2>. QED
    BY <1>2, <2>2
<1>4. NameOf(theme) = <<"theme">>
  <2>1. theme \in Seq({"theme", "=", "dark"}) /\ Len(theme) = 3
    BY ThreeWords
  <2>2. theme[1] = "theme" /\ theme[2] = "="
    OBVIOUS
  <2>. HIDE DEF theme
  <2>. QED
    BY <2>1, <2>2, NameFirst
<1>5. Equals(ours) = 2 /\ NameOf(ours) = <<"lc_dash">>
  <2>. HIDE DEF ours, S
  <2>. QED
    BY <1>3, NameFirst
<1>6. I = {2}
  <2>1. <<"theme">> # <<"lc_dash">>
    OBVIOUS
  <2>2. Len(header) = 2 /\ header[1] = theme /\ header[2] = ours
    OBVIOUS
  <2>. HIDE DEF theme, ours, header
  <2>. QED
    BY <1>4, <1>5, <2>1, <2>2
<1>7. PairAt(header, <<"lc_dash">>) = 2
  <2>1. Min(I) = 2
    <3>. HIDE DEF I
    <3>. QED
      BY <1>6 DEF Min
  <2>2. PairAt(header, <<"lc_dash">>) = IF I # {} THEN Min(I) ELSE 0
    BY DEF PairAt, SelectInSeq
  <2>. QED
    BY <1>6, <2>1, <2>2
<1>8. extract_cookie(header, <<"lc_dash">>) = SubSeq(ours, 3, Len(ours))
  <2>1. header[2] = ours
    OBVIOUS
  <2>. HIDE DEF theme, ours, header
  <2>. QED
    BY <1>5, <1>7, <2>1 DEF extract_cookie
<1>. QED
  BY <1>1, <1>3, <1>8

\* A token without a semicolon is kept whole, so it opens the gate.
LEMMA KeptOpens ==
    ASSUME token \in Text, \A i \in DOMAIN token : token[i] # ";"
    PROVE  Authorized(Kept(token))
<1>1. PlaceOf(";", token) = 0
  BY FirstPlace DEF Text
<1>2. Kept(token) = token
  BY <1>1 DEF Kept
<1>. QED
  BY <1>2, CookieIsRead DEF Authorized, check_dashboard_auth

\* The addresses the check of the hidden field refuses among those of gated
\* pages.
Odd(path) == \E i \in DOMAIN path : path[i] \in {":", "\\"}

\* It takes the others as they are, and takes what it has taken.
LEMMA NextOfPath ==
    ASSUME NEW path \in Paths
    PROVE  /\ safe_next(path) = IF Odd(path) THEN None ELSE path
           /\ safe_next(safe_next(path)) = safe_next(path)
<1>1. path # None /\ path # <<>> /\ path[1] = "/" /\ ~(Len(path) > 1 /\ path[2] = "/")
  BY ConstantsAssumption, TextAssumption DEF Text
<1>2. safe_next(path) = IF Odd(path) THEN None ELSE path
  BY <1>1 DEF safe_next, Odd
<1>3. safe_next(None) = None
  BY DEF safe_next
<1>. QED
  BY <1>2, <1>3

\* The hidden field that stands for the page wanted.
FieldFor(field, wants) ==
    IF wants = Root THEN field \in {None, Root}
    ELSE field = IF Odd(wants) THEN None ELSE wants

\* The login pages carry the page wanted in their field; a redirect is the
\* answer to the right token, has set it as the cookie, and leads there.
LoginInv ==
    /\ token \in Tokens
    /\ asked \in Paths \union {Root}
    /\ screen \in {"login", "wrong"} => FieldFor(next, asked)
    /\ screen = "redirect" =>
          /\ token # None
          /\ jar = Kept(token)
          /\ target = IF asked = Root \/ Odd(asked) THEN Root ELSE asked

\* A page behind the gate is shown, or a login page that remembers it.
LEMMA LoginAtGate ==
    ASSUME LoginInv, NEW path \in Paths \union {Root}, GetPath(path), UNCHANGED token
    PROVE  LoginInv'
<1>1. ASSUME NEW q, NEW wish, NEW past, NEW deep,
             GetDashboard(q, wish, past, deep)
      PROVE  LoginInv'
  <2>1. CASE Authorized(jar)
    BY <1>1, <2>1 DEF GetDashboard, Load, LoginInv, login
  <2>2. CASE ~Authorized(jar)
    BY <1>1, <2>2 DEF GetDashboard, ShowLogin, LoginInv, FieldFor
  <2>. QED
    BY <2>1, <2>2
<1>2. CASE path = Root
  BY <1>1, <1>2 DEF GetPath
<1>3. CASE path # Root /\ Authorized(jar)
  BY <1>3, ConstantsAssumption DEF GetPath, GetGated, LoginInv, login
<1>4. CASE path # Root /\ ~Authorized(jar)
  BY <1>4, NextOfPath DEF GetPath, GetGated, ShowLogin, LoginInv, FieldFor
<1>. QED
  BY <1>2, <1>3, <1>4

\* The dashboard and a token keep it.
LEMMA LoginStep == PathsKnown /\ LoginInv /\ [Next]_vars => LoginInv'
<1> SUFFICES ASSUME PathsKnown, LoginInv, [Next]_vars PROVE LoginInv'
  OBVIOUS
<1>1. ASSUME NEW q, NEW wish, NEW past, NEW deep,
             GetDashboard(q, wish, past, deep), UNCHANGED token
      PROVE  LoginInv'
  <2>1. CASE Authorized(jar)
    BY <1>1, <2>1 DEF GetDashboard, Load, LoginInv, login
  <2>2. CASE ~Authorized(jar)
    BY <1>1, <2>2 DEF GetDashboard, ShowLogin, LoginInv, FieldFor
  <2>. QED
    BY <2>1, <2>2
<1>2. ASSUME NEW t, NEW field, NEW wants \in Paths \union {Root}, FieldFor(field, wants),
             PasteToken(t, field, wants)
      PROVE  LoginInv'
  <2>1. FieldFor(safe_next(field), wants)
    <3>1. safe_next(None) = None /\ safe_next(Root) \in {Root, None}
      BY NextIsPath DEF safe_next
    <3>. QED
      BY <1>2, <3>1, NextOfPath DEF FieldFor
  <2>2. CASE token # None /\ t = token
    <3>1. target' = IF wants = Root \/ Odd(wants) THEN Root ELSE wants
      <4>1. \A path \in Paths : path # None
        BY ConstantsAssumption, TextAssumption
      <4>. QED
        BY <1>2, <2>1, <2>2, <4>1 DEF PasteToken, FieldFor
    <3>. QED
      BY <1>2, <2>2, <3>1 DEF PasteToken, LoginInv, FieldFor
  <2>3. CASE ~(token # None /\ t = token)
    BY <1>2, <2>1, <2>3 DEF PasteToken, ShowLogin, LoginInv
  <2>. QED
    BY <2>2, <2>3
<1>3. ASSUME NEW q, NEW wish, Refilter(q, wish) PROVE LoginInv'
  BY <1>1, <1>3 DEF Refilter
<1>4. CASE \E path \in Paths \union {Root} : Visit(path)
  BY <1>4, LoginAtGate DEF Visit
<1>5. CASE \E t \in Tokens \ {None} : SubmitToken(t) \/ PasteToken(t, None, Root)
  <2>1. FieldFor(None, Root)
    BY DEF FieldFor
  <2>. QED
    BY <1>2, <1>5, <2>1 DEF SubmitToken, LoginInv
<1>6. CASE Follow
  BY <1>6, LoginAtGate DEF Follow, PathsKnown
<1>7. CASE \/ \E key \in LinkKeys : Filter(key) \/ RemoveFilter(key)
           \/ \E n \in PAGE_SIZES : ChangeSize(n)
           \/ \E edit \in Edits : Submit(edit.key, edit.value)
           \/ Reset
  BY <1>3, <1>7 DEF Filter, RemoveFilter, ChangeSize, Submit, Reset
<1>8. CASE Older \/ Newest \/ Refresh
  BY <1>1, <1>8 DEF Older, Newest, Refresh
<1>9. CASE Ingest \/ Expire \/ Restart \/ UNCHANGED vars
  BY <1>9 DEF Ingest, Expire, Restart, login, vars, LoginInv
<1>. QED
  BY <1>4, <1>5, <1>6, <1>7, <1>8, <1>9 DEF Next

\* After any number of wrong tokens the right one leads to the page wanted, or
\* to the dashboard if its address is odd, and not back to the login page.
THEOREM LoginLeadsOn == Spec => LoginLands
<1>1. Init => PathsKnown /\ LoginInv
  BY DEF Init, PathsKnown, LoginInv, FieldFor
<1>2. ASSUME LoginInv, Follow, \A i \in DOMAIN token : token[i] # ";"
      PROVE  screen' = IF asked = Root \/ Odd(asked) THEN "dashboard" ELSE asked[2]
  <2>1. token \in Text
    BY <1>2, TextAssumption DEF LoginInv, Follow
  <2>2. Authorized(jar)
    BY <1>2, <2>1, KeptOpens DEF LoginInv, Follow
  <2>3. GetPath(target) /\ target = IF asked = Root \/ Odd(asked) THEN Root ELSE asked
    BY <1>2 DEF LoginInv, Follow
  <2>. QED
    BY <2>2, <2>3 DEF GetPath, GetDashboard, GetGated, Load
<1>3. LoginInv => [Follow /\ (\A i \in DOMAIN token : token[i] # ";") =>
          screen' = IF asked = Root \/ \E i \in DOMAIN asked : asked[i] \in {":", "\\"}
                    THEN "dashboard" ELSE asked[2]]_vars
  BY <1>2 DEF Odd
<1>. QED
  BY <1>1, <1>3, PathsStep, LoginStep, PTL DEF Spec, LoginLands
-----------------------------------------------------------------------------
(***************************************************************************)
(* What a URL's filters do.                                                *)
(***************************************************************************)
Keys == {"request_id", "service", "env", "event_prefix", "q", "since", "until", "level", "limit",
         "cursor", "page"}

\* What is typed under a key as the query sees it.
Effect(k, v) == IF k \in {"since", "until"} THEN parse_dashboard_dt(v) ELSE not_empty(v)
SameFilters(q, r) == \A k \in FilterKeys : Effect(k, q[k]) = Effect(k, r[k])

\* A URL the page can have, but for its number.
UrlTyped(q) ==
    /\ DOMAIN q = Keys
    /\ q.limit # None => q.limit \in Nat
    /\ q.cursor # None => q.cursor \in Int

\* The parameters of a query.
Plain(p) == payload_filters(p) = {} /\ p.user_id = None /\ p.session_id = None

\* What is read from a URL, key by key.
LEMMA QueryFields ==
    ASSUME NEW q
    PROVE  LET p == QueryParams(q)
           IN /\ p.request_id = not_empty(q.request_id) /\ p.service = not_empty(q.service)
              /\ p.env = not_empty(q.env) /\ p.event_prefix = not_empty(q.event_prefix)
              /\ p.min_severity = Severity(not_empty(q.level))
              /\ p.since = parse_dashboard_dt(q.since) /\ p.until = parse_dashboard_dt(q.until)
              /\ p.fts = not_empty(q.q) /\ p.cursor = q.cursor /\ p.limit = PageSize(q.limit)
              /\ Plain(p)
<1>. DEFINE p == QueryParams(q)
<1>1. /\ p.request_id = not_empty(q.request_id) /\ p.service = not_empty(q.service)
      /\ p.env = not_empty(q.env) /\ p.event_prefix = not_empty(q.event_prefix)
  BY DEF QueryParams, NoFilter
<1>2. /\ p.min_severity = Severity(not_empty(q.level))
      /\ p.since = parse_dashboard_dt(q.since) /\ p.until = parse_dashboard_dt(q.until)
  BY DEF QueryParams, NoFilter
<1>3. p.fts = not_empty(q.q) /\ p.cursor = q.cursor /\ p.limit = PageSize(q.limit)
  BY DEF QueryParams, NoFilter
<1>4. /\ p.job_id = None /\ p.task_id = None /\ p.team_id = None
      /\ p.user_id = None /\ p.session_id = None
  BY DEF QueryParams, NoFilter
<1>. HIDE DEF p
<1>5. Plain(p)
  BY <1>4 DEF Plain, payload_filters, WorkKeys
<1>. QED
  BY <1>1, <1>2, <1>3, <1>5 DEF p

\* ... and from the address of a download.
LEMMA DownloadFields ==
    ASSUME NEW q
    PROVE  LET p == DownloadParams(q)
           IN /\ p.request_id = q.request_id /\ p.service = q.service
              /\ p.env = q.env /\ p.event_prefix = q.event_prefix
              /\ p.min_severity = Severity(q.level)
              /\ p.since = IF q.since = None THEN None ELSE q.since.ts
              /\ p.until = IF q.until = None THEN None ELSE q.until.ts
              /\ p.fts = q.q /\ p.cursor = None /\ p.limit = DownloadLimit(q.limit)
              /\ Plain(p)
<1>. DEFINE p == DownloadParams(q)
<1>1. /\ p.request_id = q.request_id /\ p.service = q.service
      /\ p.env = q.env /\ p.event_prefix = q.event_prefix
      /\ p.min_severity = Severity(q.level)
  BY DEF DownloadParams, NoFilter
<1>2. /\ p.since = IF q.since = None THEN None ELSE q.since.ts
      /\ p.until = IF q.until = None THEN None ELSE q.until.ts
  BY DEF DownloadParams, NoFilter
<1>3. p.fts = q.q /\ p.cursor = None /\ p.limit = DownloadLimit(q.limit)
  BY DEF DownloadParams, NoFilter
<1>4. /\ p.job_id = None /\ p.task_id = None /\ p.team_id = None
      /\ p.user_id = None /\ p.session_id = None
  BY DEF DownloadParams, NoFilter
<1>. HIDE DEF p
<1>5. Plain(p)
  BY <1>4 DEF Plain, payload_filters, WorkKeys
<1>. QED
  BY <1>1, <1>2, <1>3, <1>5 DEF p

\* Queries that agree in these find the same events.
LEMMA SameFields ==
    ASSUME NEW e, NEW p, NEW r, Plain(p), Plain(r), p.request_id = r.request_id,
           p.service = r.service, p.env = r.env, p.event_prefix = r.event_prefix,
           p.min_severity = r.min_severity, p.since = r.since, p.until = r.until, p.fts = r.fts
    PROVE  SqliteMatch(e, p) <=> SqliteMatch(e, r)
BY DEF SqliteMatch, InTime, Plain, Columns

\* URLs whose filters agree find the same events.
LEMMA SameMatch ==
    ASSUME NEW q, NEW r, SameFilters(q, r), NEW e
    PROVE  SqliteMatch(e, QueryParams(q)) <=> SqliteMatch(e, QueryParams(r))
<1>1. /\ not_empty(q.request_id) = not_empty(r.request_id)
      /\ not_empty(q.service) = not_empty(r.service)
      /\ not_empty(q.env) = not_empty(r.env)
      /\ not_empty(q.event_prefix) = not_empty(r.event_prefix)
      /\ not_empty(q.level) = not_empty(r.level)
      /\ not_empty(q.q) = not_empty(r.q)
      /\ parse_dashboard_dt(q.since) = parse_dashboard_dt(r.since)
      /\ parse_dashboard_dt(q.until) = parse_dashboard_dt(r.until)
  BY DEF SameFilters, Effect, FilterKeys, FormKeys
<1>. DEFINE p == QueryParams(q)
            s == QueryParams(r)
<1>2. /\ p.request_id = not_empty(q.request_id) /\ p.service = not_empty(q.service)
      /\ p.env = not_empty(q.env) /\ p.event_prefix = not_empty(q.event_prefix)
      /\ p.min_severity = Severity(not_empty(q.level))
      /\ p.since = parse_dashboard_dt(q.since) /\ p.until = parse_dashboard_dt(q.until)
      /\ p.fts = not_empty(q.q) /\ Plain(p)
  BY QueryFields
<1>3. /\ s.request_id = not_empty(r.request_id) /\ s.service = not_empty(r.service)
      /\ s.env = not_empty(r.env) /\ s.event_prefix = not_empty(r.event_prefix)
      /\ s.min_severity = Severity(not_empty(r.level))
      /\ s.since = parse_dashboard_dt(r.since) /\ s.until = parse_dashboard_dt(r.until)
      /\ s.fts = not_empty(r.q) /\ Plain(s)
  BY QueryFields
<1>. HIDE DEF p, s
<1>4. SqliteMatch(e, p) <=> SqliteMatch(e, s)
  BY <1>1, <1>2, <1>3, SameFields
<1>. QED
  BY <1>4 DEF p, s

\* Keys that say nothing do nothing.
LEMMA NoValueNoEffect ==
    /\ \A v : \A k \in FilterKeys : ~HasValue(k, v) => Effect(k, v) = None
    /\ \A k \in FilterKeys : Effect(k, None) = None
<1>1. ASSUME NEW k \in FilterKeys, NEW v, ~HasValue(k, v) PROVE Effect(k, v) = None
  <2>1. CASE k \in {"since", "until"}
    BY <1>1, <2>1 DEF HasValue, Effect, parse_dashboard_dt
  <2>2. CASE k \notin {"since", "until"}
    <3>1. v = None \/ v = <<>>
      BY <1>1, <2>2 DEF HasValue
    <3>2. DOMAIN <<>> = {}
      OBVIOUS
    <3>. QED
      BY <2>2, <3>1, <3>2 DEF Effect, not_empty
  <2>. QED
    BY <2>1, <2>2
<1>. QED
  BY <1>1 DEF HasValue

\* Links keep the filters ...
LEMMA PairsKeepFilters ==
    ASSUME NEW q, UrlTyped(q)
    PROVE  UrlTyped(current_pairs(q)) /\ SameFilters(current_pairs(q), q)
<1>1. DOMAIN current_pairs(q) = Keys
  BY DEF current_pairs, UrlTyped
<1>2. current_pairs(q).limit = q.limit /\ current_pairs(q).cursor = None
  BY DEF current_pairs, UrlTyped, Keys
<1>3. ASSUME NEW k \in FilterKeys PROVE Effect(k, current_pairs(q)[k]) = Effect(k, q[k])
  <2>1. current_pairs(q)[k] = IF HasValue(k, q[k]) THEN q[k] ELSE None
    BY DEF current_pairs, UrlTyped, Keys, FilterKeys, FormKeys
  <2>. QED
    BY <2>1, NoValueNoEffect
<1>. QED
  BY <1>1, <1>2, <1>3 DEF UrlTyped, SameFilters

\* ... and set the one they are for.
LEMMA OverrideFilters ==
    ASSUME NEW q, UrlTyped(q), NEW key \in FilterKeys, NEW v
    PROVE  /\ UrlTyped(filter_url_override(q, key, v))
           /\ filter_url_override(q, key, v).cursor = None
           /\ filter_url_override(q, key, v)[key] = v
           /\ \A k \in FilterKeys \ {key} :
                 Effect(k, filter_url_override(q, key, v)[k]) = Effect(k, q[k])
<1>. DEFINE c == current_pairs(q)
<1>1. UrlTyped(c) /\ SameFilters(c, q) /\ c.cursor = None
  BY PairsKeepFilters DEF current_pairs, UrlTyped, Keys
<1>2. filter_url_override(q, key, v) = [c EXCEPT ![key] = v]
  BY DEF filter_url_override
<1>. HIDE DEF c
<1>. QED
  BY <1>1, <1>2 DEF UrlTyped, SameFilters, Keys, FilterKeys, FormKeys

\* The form sends its own fields, and the one that was edited.
LEMMA FormFilters ==
    ASSUME NEW q, UrlTyped(q), NEW wish, DOMAIN wish = FilterKeys, SameFilters(q, wish),
           NEW key \in FormKeys, NEW v
    PROVE  /\ UrlTyped(FormUrl(q, key, v)) /\ FormUrl(q, key, v).cursor = None
           /\ SameFilters(FormUrl(q, key, v), [wish EXCEPT !.level = None, ![key] = v])
<1>. DEFINE f == FormUrl(q, key, v)
            w == [wish EXCEPT !.level = None, ![key] = v]
<1>1. DOMAIN f = Keys /\ f.limit = None /\ f.cursor = None
  BY DEF FormUrl, NoQuery, Keys, FormKeys
<1>2. f.level = None
  BY DEF FormUrl, NoQuery, FormKeys
<1>3. f[key] = v
  BY DEF FormUrl, NoQuery, FormKeys
<1>4. ASSUME NEW k \in FormKeys \ {key}
      PROVE  f[k] = IF q[k] = None THEN Empty(k) ELSE q[k]
  BY <1>4 DEF FormUrl, NoQuery, FormKeys
<1>5. w.level = None /\ w[key] = v /\ \A k \in FormKeys \ {key} : w[k] = wish[k]
  BY DEF FilterKeys, FormKeys
<1>. HIDE DEF f, w
<1>6. ASSUME NEW k \in FilterKeys PROVE Effect(k, f[k]) = Effect(k, w[k])
  <2>1. CASE k = "level"
    BY <1>2, <1>5, <2>1
  <2>2. CASE k = key
    BY <1>3, <1>5, <2>2
  <2>3. CASE k \in FormKeys \ {key}
    <3>1. ~HasValue(k, Empty(k))
      BY DEF HasValue, Empty
    <3>2. Effect(k, f[k]) = Effect(k, q[k])
      BY <1>4, <2>3, <3>1, NoValueNoEffect
    <3>. QED
      BY <1>5, <2>3, <3>2 DEF SameFilters
  <2>. QED
    BY <2>1, <2>2, <2>3 DEF FilterKeys
<1>. QED
  BY <1>1, <1>6 DEF UrlTyped, SameFilters, f, w

\* The older link keeps the filters and goes below its cursor.
LEMMA OlderFilters ==
    ASSUME NEW q, UrlTyped(q), NEW cursor \in Int
    PROVE  LET r == build_next_url_with_page(q, cursor)
           IN UrlTyped(r) /\ r.cursor = cursor /\ SameFilters(r, q)
<1>. DEFINE c == current_pairs(q)
            r == build_next_url_with_page(q, cursor)
            n == PageOf(q) + 1
<1>1. UrlTyped(c) /\ SameFilters(c, q)
  BY PairsKeepFilters
<1>2. r = [c EXCEPT !.cursor = cursor, !.page = n]
  BY DEF build_next_url_with_page
<1>. HIDE DEF c, n
<1>3. DOMAIN r = Keys /\ r.limit = c.limit /\ r.cursor = cursor
  BY <1>1, <1>2 DEF UrlTyped, Keys
<1>4. \A k \in FilterKeys : r[k] = c[k]
  BY <1>1, <1>2 DEF UrlTyped, FilterKeys, FormKeys, Keys
<1>. HIDE DEF r
<1>5. UrlTyped(r) /\ r.cursor = cursor /\ SameFilters(r, q)
  BY <1>1, <1>3, <1>4 DEF UrlTyped, SameFilters
<1>. QED
  BY <1>5 DEF r

\* The link to the newest page, and the address of the download, keep them too.
LEMMA FirstPageFilters ==
    ASSUME NEW q, UrlTyped(q)
    PROVE  LET r == reset_to_first_page(q)
           IN /\ UrlTyped(r) /\ r.cursor = None /\ SameFilters(r, q)
              /\ r.limit = q.limit
              /\ \A k \in FilterKeys : r[k] = IF HasValue(k, q[k]) THEN q[k] ELSE None
<1>. DEFINE c == current_pairs(q)
            r == reset_to_first_page(q)
<1>1. /\ UrlTyped(c) /\ SameFilters(c, q) /\ c.cursor = None /\ c.limit = q.limit
      /\ \A k \in FilterKeys : c[k] = IF HasValue(k, q[k]) THEN q[k] ELSE None
  BY PairsKeepFilters DEF current_pairs, UrlTyped, Keys, FilterKeys, FormKeys
<1>2. r = [c EXCEPT !.page = None]
  BY DEF reset_to_first_page
<1>. HIDE DEF c
<1>3. DOMAIN r = Keys /\ r.limit = c.limit /\ r.cursor = None
  BY <1>1, <1>2 DEF UrlTyped, Keys
<1>4. \A k \in FilterKeys : r[k] = c[k]
  BY <1>1, <1>2 DEF UrlTyped, FilterKeys, FormKeys, Keys
<1>. HIDE DEF r
<1>5. /\ UrlTyped(r) /\ r.cursor = None /\ SameFilters(r, q)
      /\ r.limit = q.limit
      /\ \A k \in FilterKeys : r[k] = IF HasValue(k, q[k]) THEN q[k] ELSE None
  BY <1>1, <1>3, <1>4 DEF UrlTyped, SameFilters
<1>. QED
  BY <1>5 DEF r
-----------------------------------------------------------------------------
(***************************************************************************)
(* Walks.                                                                  *)
(***************************************************************************)
Matching(q) == {i \in DOMAIN rows : SqliteMatch(rows[i], QueryParams(q))}

\* Some row of S has the timestamp of row i.
Near(i, S) == \E j \in S : rows[j].ts = rows[i].ts

\* The hot store is part of the feed.
RowsTyped == rows \in Seq({Feed[i] : i \in DOMAIN Feed})

\* The URL does what the user asked for.
FilterInv ==
    OnDashboard =>
        /\ UrlTyped(url)
        /\ DOMAIN wanted = FilterKeys
        /\ SameFilters(url, wanted)

\* Before the page of q: the rows of past pages are above its cursor, and of
\* the rows that matched at first those that are not below tie with one of them.
Ahead(q, past, all) ==
    /\ past \subseteq Matching(q)
    /\ q.cursor = None => past = {}
    /\ q.cursor # None =>
          /\ all \subseteq Matching(q)
          /\ \A i \in past : rows[i].ts >= q.cursor
          /\ \A i \in all : rows[i].ts < q.cursor \/ Near(i, past)

\* What makes the walk's properties inductive: the page lies below the pages
\* before it, and what matched at first is shown, ties with a row shown, or
\* lies below the page.
WalkInv ==
    OnDashboard =>
        /\ Ahead(url, walk, goal)
        /\ page.rows \subseteq SqliteFound(rows, QueryParams(url))
        /\ page.next_cursor # None =>
              /\ page.next_cursor \in Int /\ page.rows # {}
              /\ \A i \in page.rows : rows[i].ts >= page.next_cursor
        /\ goal \subseteq Matching(url)
        /\ \A i \in goal : \/ Near(i, walk \union page.rows)
                           \/ page.next_cursor # None /\ rows[i].ts < page.next_cursor
        /\ url.cursor = None /\ page.next_cursor = None => goal \subseteq page.rows

SessionInv == RowsTyped /\ FilterInv /\ WalkInv

\* Rows of the feed have a place and a time.
LEMMA RowsAreOK ==
    ASSUME RowsTyped
    PROVE  /\ RowsOK(rows) /\ DOMAIN rows = 1 .. Len(rows) /\ Len(rows) \in Nat
           /\ \A i \in DOMAIN rows : rows[i].ts \in Int /\ rows[i].event \in Text
<1>1. DOMAIN rows = 1 .. Len(rows) /\ Len(rows) \in Nat
  BY DEF RowsTyped
<1>2. \A i \in DOMAIN rows : rows[i] \in {Feed[n] : n \in DOMAIN Feed}
  BY DEF RowsTyped
<1>3. \A i \in DOMAIN rows : rows[i].ts \in Int /\ rows[i].event \in Text
  BY <1>2, TextAssumption
<1>4. IsFiniteSet(DOMAIN rows)
  BY <1>1, FS_Interval
<1>. QED
  BY <1>1, <1>3, <1>4 DEF RowsOK

\* The size of a page is at least one row, and as many as the store gives.
LEMMA PageSizeOK ==
    ASSUME NEW q, UrlTyped(q)
    PROVE  PageSize(q.limit) \in Nat \ {0} /\ SqliteLimit(QueryParams(q)) = PageSize(q.limit)
<1>1. PageSize(q.limit) \in Nat /\ 1 <= PageSize(q.limit) /\ PageSize(q.limit) <= 2000
  BY SizesAssumption DEF PageSize, UrlTyped
<1>2. QueryParams(q).limit = PageSize(q.limit)
  BY QueryFields
<1>. QED
  BY <1>1, <1>2 DEF SqliteLimit

\* A page loaded below the pages before it keeps the walk.
LEMMA Loaded ==
    ASSUME SessionInv, NEW q, NEW wish, NEW past, NEW deep,
           GetDashboard(q, wish, past, deep), UNCHANGED rows,
           UrlTyped(q), DOMAIN wish = FilterKeys, SameFilters(q, wish), Ahead(q, past, goal)
    PROVE  SessionInv'
<1>1. CASE ~Authorized(jar)
  <2>1. screen' = "login"
    BY <1>1 DEF GetDashboard, ShowLogin
  <2>. QED
    BY <2>1 DEF SessionInv, RowsTyped, FilterInv, WalkInv, OnDashboard
<1>2. CASE Authorized(jar)
  <2>. DEFINE p == QueryParams(q)
  <2>1. PICK T : /\ T \in Answers(p)
                 /\ page' = Page(rows, T, PageSize(q.limit))
                 /\ goal' = IF q.cursor # None THEN goal ELSE Matching(q)
    BY <1>2 DEF GetDashboard, Load, Matching
  <2>2. url' = q /\ wanted' = wish /\ walk' = past /\ rows' = rows
    BY <1>2 DEF GetDashboard, Load
  <2>3. IsSqliteAnswer(rows, p, T)
    BY <2>1 DEF Answers
  <2>. DEFINE cursor == page'.next_cursor
  <2>4. page'.rows = T /\ cursor = Page(rows, T, SqliteLimit(p)).next_cursor
    BY <2>1, PageSizeOK DEF Page
  <2>5. p.cursor = q.cursor
    BY QueryFields
  <2>6. RowsOK(rows) /\ \A i \in DOMAIN rows : rows[i].ts \in Int
    BY RowsAreOK DEF SessionInv
  <2>7. SqliteLimit(p) \in Nat \ {0} /\ None \notin Int
    BY PageSizeOK, ConstantsAssumption
  <2>. HIDE DEF p, cursor
  <2>8. /\ T \subseteq SqliteFound(rows, p)
        /\ cursor = None => T = SqliteFound(rows, p)
        /\ cursor # None =>
              /\ cursor \in Int
              /\ \E t \in T : rows[t].ts = cursor
              /\ \A t \in T : rows[t].ts >= cursor
              /\ \A i \in SqliteFound(rows, p) \ T : rows[i].ts <= cursor
    BY <2>3, <2>4, <2>6, <2>7, PageSplits
  <2>9. goal' \subseteq Matching(q)
    BY <2>1 DEF Ahead
  <2>10. ASSUME NEW i \in goal', i \notin T, ~Near(i, past)
         PROVE  i \in SqliteFound(rows, p) \ T
    BY <2>1, <2>5, <2>9, <2>10 DEF Ahead, Matching, SqliteFound, Below, p
  <2>11. ASSUME NEW i \in goal'
         PROVE  Near(i, past \union T) \/ (cursor # None /\ rows[i].ts < cursor)
    <3>1. CASE i \in T \/ Near(i, past)
      BY <3>1 DEF Near
    <3>2. CASE i \notin T /\ ~Near(i, past)
      <4>1. i \in SqliteFound(rows, p) \ T
        BY <2>10, <3>2
      <4>2. cursor \in Int /\ cursor # None /\ rows[i].ts <= cursor /\ rows[i].ts \in Int
        BY <2>6, <2>8, <4>1 DEF SqliteFound
      <4>3. rows[i].ts = cursor => Near(i, T)
        BY <2>8, <4>2 DEF Near
      <4>. QED
        BY <4>2, <4>3 DEF Near
    <3>. QED
      BY <3>1, <3>2
  <2>12. q.cursor = None /\ cursor = None => goal' \subseteq T
    <3>1. q.cursor = None => past = {}
      BY DEF Ahead
    <3>. QED
      BY <2>8, <2>10, <3>1 DEF Near
  <2>13. FilterInv'
    BY <2>2 DEF FilterInv, UrlTyped, SameFilters
  <2>14. WalkInv'
    <3>1. Ahead(q, past, goal')
      BY <2>1, <2>9 DEF Ahead
    <3>2. Ahead(url, walk, goal)'
      BY <2>2, <3>1 DEF Ahead, Matching, Near
    <3>. QED
      BY <2>2, <2>4, <2>8, <2>9, <2>11, <2>12, <3>2 DEF WalkInv, Matching, Near, cursor, p
  <2>. QED
    BY <2>2, <2>13, <2>14 DEF SessionInv, RowsTyped
<1>. QED
  BY <1>1, <1>2

\* A walk that begins has nothing behind it.
LEMMA NothingAhead == ASSUME NEW q, q.cursor = None PROVE Ahead(q, {}, goal)
BY DEF Ahead

\* A change of filters begins a walk.
LEMMA Begins ==
    ASSUME SessionInv, NEW q, NEW wish, Refilter(q, wish), UrlTyped(q), q.cursor = None,
           DOMAIN wish = FilterKeys, SameFilters(q, wish)
    PROVE  SessionInv'
BY Loaded, NothingAhead DEF Refilter

\* So does a visit.
LEMMA Visits ==
    ASSUME SessionInv, NEW path, path = Root \/ path \in Paths, GetPath(path), UNCHANGED rows
    PROVE  SessionInv'
<1>1. CASE path = Root
  <2>1. GetDashboard(NoQuery, NoWish, {}, 1)
    BY <1>1 DEF GetPath
  <2>2. UrlTyped(NoQuery) /\ NoQuery.cursor = None
    BY DEF UrlTyped, NoQuery, Keys
  <2>3. DOMAIN NoWish = FilterKeys /\ SameFilters(NoQuery, NoWish)
    BY DEF NoWish, NoQuery, SameFilters, FilterKeys, FormKeys
  <2>. QED
    BY <2>1, <2>2, <2>3, Loaded, NothingAhead
<1>2. CASE path # Root
  <2>1. screen' \in {path[2], "login"}
    BY <1>2 DEF GetPath, GetGated, ShowLogin
  <2>2. ~OnDashboard'
    BY <1>2, <2>1, ConstantsAssumption DEF OnDashboard
  <2>. QED
    BY <2>2 DEF SessionInv, RowsTyped, FilterInv, WalkInv
<1>. QED
  BY <1>1, <1>2

\* A new row leaves the session's rows where they are.
LEMMA Arrives == ASSUME SessionInv, Ingest PROVE SessionInv'
<1>. DEFINE S == {Feed[i] : i \in DOMAIN Feed}
            row == Feed[Len(rows) + 1]
<1>1. RowsTyped'
  <2>1. rows \in Seq(S) /\ Len(rows) \in Nat
    BY DEF SessionInv, RowsTyped
  <2>2. row \in S
    <3>1. DOMAIN Feed = 1 .. Len(Feed) /\ Len(Feed) \in Nat
      BY TextAssumption
    <3>. QED
      BY <2>1, <3>1 DEF Ingest
  <2>3. rows' = Append(rows, row)
    BY DEF Ingest
  <2>. HIDE DEF row, S
  <2>4. rows' \in Seq(S)
    BY <2>1, <2>2, <2>3
  <2>. QED
    BY <2>4 DEF RowsTyped, S
<1>2. DOMAIN rows \subseteq DOMAIN rows' /\ \A i \in DOMAIN rows : rows'[i] = rows[i]
  <2>1. rows \in Seq(S)
    BY DEF SessionInv, RowsTyped
  <2>2. rows' = Append(rows, row)
    BY DEF Ingest
  <2>. HIDE DEF row, S
  <2>. QED
    BY <2>1, <2>2
<1>3. UNCHANGED <<screen, url, page, wanted, walk, goal>>
  BY DEF Ingest, session
<1>4. FilterInv'
  BY <1>3 DEF SessionInv, FilterInv, OnDashboard, UrlTyped, SameFilters
<1>5. WalkInv'
  <2>. SUFFICES ASSUME OnDashboard' PROVE WalkInv'
    BY DEF WalkInv
  <2>1. WalkInv /\ OnDashboard
    BY <1>3 DEF SessionInv, OnDashboard
  <2>2. Matching(url) \subseteq DOMAIN rows /\ SqliteFound(rows, QueryParams(url)) \subseteq DOMAIN rows
    BY DEF Matching, SqliteFound
  <2>3. Matching(url) \subseteq Matching(url)'
    BY <1>2, <1>3 DEF Matching
  <2>4. SqliteFound(rows, QueryParams(url)) \subseteq SqliteFound(rows, QueryParams(url))'
    BY <1>2, <1>3 DEF SqliteFound
  <2>5. ASSUME NEW i \in DOMAIN rows, NEW R \in SUBSET DOMAIN rows, Near(i, R)
        PROVE  Near(i, R)'
    BY <1>2, <2>5 DEF Near
  <2>6. walk \subseteq DOMAIN rows /\ page.rows \subseteq DOMAIN rows /\ goal \subseteq DOMAIN rows
    BY <2>1, <2>2 DEF WalkInv, Ahead
  <2>7. Ahead(url, walk, goal)'
    BY <1>2, <1>3, <2>1, <2>3, <2>5, <2>6 DEF WalkInv, Ahead, Near
  <2>8. page'.next_cursor # None =>
              /\ page'.next_cursor \in Int /\ page'.rows # {}
              /\ \A i \in page'.rows : rows'[i].ts >= page'.next_cursor
    BY <1>2, <1>3, <2>1, <2>6 DEF WalkInv
  <2>9. \A i \in goal' : \/ Near(i, walk \union page.rows)'
                         \/ page'.next_cursor # None /\ rows'[i].ts < page'.next_cursor
    BY <1>2, <1>3, <2>1, <2>6 DEF WalkInv, Near
  <2>10. goal' \subseteq Matching(url)' /\ page'.rows \subseteq SqliteFound(rows, QueryParams(url))'
    BY <1>3, <2>1, <2>3, <2>4 DEF WalkInv
  <2>11. url'.cursor = None /\ page'.next_cursor = None => goal' \subseteq page'.rows
    BY <1>3, <2>1 DEF WalkInv
  <2>. QED
    BY <2>7, <2>8, <2>9, <2>10, <2>11 DEF WalkInv, Near
<1>. QED
  BY <1>1, <1>4, <1>5 DEF SessionInv

\* Every link, request and event keeps the session right.
LEMMA SessionStep == PathsKnown /\ SessionInv /\ [Next]_vars => SessionInv'
<1> SUFFICES ASSUME PathsKnown, SessionInv, [Next]_vars PROVE SessionInv'
  OBVIOUS
<1>1. CASE \E path \in Paths \union {Root} : Visit(path)
  BY <1>1, Visits DEF Visit
<1>2. CASE \E t \in Tokens \ {None} : SubmitToken(t) \/ PasteToken(t, None, Root)
  <2>1. screen' \in {"redirect", "wrong"} /\ rows' = rows
    BY <1>2 DEF SubmitToken, PasteToken, ShowLogin
  <2>. QED
    BY <2>1 DEF SessionInv, RowsTyped, FilterInv, WalkInv, OnDashboard
<1>3. CASE Follow
  BY <1>3, Visits DEF Follow, PathsKnown
<1>4. ASSUME NEW key \in FilterKeys, NEW v,
             Refilter(filter_url_override(url, key, v), [wanted EXCEPT ![key] = v])
      PROVE  SessionInv'
  <2>. DEFINE q == filter_url_override(url, key, v)
              w == [wanted EXCEPT ![key] = v]
  <2>1. UrlTyped(url) /\ DOMAIN wanted = FilterKeys /\ SameFilters(url, wanted)
    BY <1>4 DEF Refilter, SessionInv, FilterInv
  <2>2. /\ UrlTyped(q) /\ q.cursor = None /\ q[key] = v
        /\ \A k \in FilterKeys \ {key} : Effect(k, q[k]) = Effect(k, url[k])
    BY <2>1, OverrideFilters
  <2>3. DOMAIN w = FilterKeys /\ w[key] = v /\ \A k \in FilterKeys \ {key} : w[k] = wanted[k]
    BY <2>1
  <2>4. Refilter(q, w)
    BY <1>4
  <2>. HIDE DEF q, w
  <2>5. SameFilters(q, w)
    BY <2>1, <2>2, <2>3 DEF SameFilters
  <2>. QED
    BY <2>2, <2>3, <2>4, <2>5, Begins
<1>5. ASSUME NEW key \in LinkKeys, Filter(key) \/ RemoveFilter(key) PROVE SessionInv'
  <2>1. key \in FilterKeys
    BY ConstantsAssumption
  <2>2. PICK v : Refilter(filter_url_override(url, key, v), [wanted EXCEPT ![key] = v])
    BY <1>5 DEF Filter, RemoveFilter, filter_url_override, filter_url_remove
  <2>. QED
    BY <1>4, <2>1, <2>2
<1>6. ASSUME NEW n \in PAGE_SIZES, ChangeSize(n) PROVE SessionInv'
  <2>. DEFINE q == filter_url_override(url, "limit", n)
              c == current_pairs(url)
  <2>1. UrlTyped(url) /\ DOMAIN wanted = FilterKeys /\ SameFilters(url, wanted)
    BY <1>6 DEF ChangeSize, Refilter, SessionInv, FilterInv
  <2>2. UrlTyped(c) /\ SameFilters(c, url) /\ c.cursor = None
    BY <2>1, PairsKeepFilters DEF current_pairs, UrlTyped, Keys
  <2>3. q = [c EXCEPT !["limit"] = n]
    BY DEF filter_url_override
  <2>4. n \in Nat
    BY SizesAssumption
  <2>5. Refilter(q, wanted)
    BY <1>6 DEF ChangeSize
  <2>. HIDE DEF c, q
  <2>6. UrlTyped(q) /\ q.cursor = None /\ \A k \in FilterKeys : q[k] = c[k]
    BY <2>2, <2>3, <2>4 DEF UrlTyped, Keys, FilterKeys, FormKeys
  <2>7. SameFilters(q, wanted)
    BY <2>1, <2>2, <2>6 DEF SameFilters
  <2>. QED
    BY <2>1, <2>5, <2>6, <2>7, Begins
<1>7. ASSUME NEW edit \in Edits, Submit(edit.key, edit.value) PROVE SessionInv'
  <2>. DEFINE key == edit.key
              v == edit.value
              q == FormUrl(url, key, v)
              w == [wanted EXCEPT !.level = None, ![key] = v]
  <2>1. UrlTyped(url) /\ DOMAIN wanted = FilterKeys /\ SameFilters(url, wanted)
    BY <1>7 DEF Submit, Refilter, SessionInv, FilterInv
  <2>2. key \in FormKeys
    BY ConstantsAssumption
  <2>3. Refilter(q, w) /\ DOMAIN w = FilterKeys
    BY <1>7, <2>1 DEF Submit
  <2>. HIDE DEF key, v
  <2>4. UrlTyped(q) /\ q.cursor = None /\ SameFilters(q, w)
    BY <2>1, <2>2, FormFilters
  <2>. HIDE DEF q, w
  <2>. QED
    BY <2>3, <2>4, Begins
<1>8. CASE Reset
  <2>1. UrlTyped(NoQuery) /\ NoQuery.cursor = None
    BY DEF UrlTyped, NoQuery, Keys
  <2>2. DOMAIN NoWish = FilterKeys /\ SameFilters(NoQuery, NoWish)
    BY DEF NoWish, NoQuery, SameFilters, FilterKeys, FormKeys
  <2>. QED
    BY <1>8, <2>1, <2>2, Begins DEF Reset
<1>9. CASE Older
  <2>. DEFINE cursor == page.next_cursor
              q == build_next_url_with_page(url, cursor)
              past == walk \union page.rows
  <2>1. UrlTyped(url) /\ DOMAIN wanted = FilterKeys /\ SameFilters(url, wanted)
    BY <1>9 DEF Older, SessionInv, FilterInv
  <2>2. cursor # None /\ cursor \in Int /\ WalkInv /\ OnDashboard
    BY <1>9 DEF Older, SessionInv, WalkInv
  <2>3. GetDashboard(q, wanted, past, depth + 1) /\ rows' = rows
    BY <1>9 DEF Older
  <2>. HIDE DEF cursor
  <2>4. UrlTyped(q) /\ q.cursor = cursor /\ SameFilters(q, url)
    BY <2>1, <2>2, OlderFilters
  <2>. HIDE DEF q
  <2>5. Matching(q) = Matching(url)
    BY <2>4, SameMatch DEF Matching
  <2>6. past \subseteq Matching(q)
    BY <2>2, <2>5 DEF WalkInv, Ahead, SqliteFound, Matching
  <2>7. \A i \in past : rows[i].ts >= cursor
    <3>1. \A i \in page.rows : rows[i].ts >= cursor
      BY <2>2 DEF WalkInv, cursor
    <3>2. ASSUME NEW i \in walk PROVE rows[i].ts >= cursor
      <4>1. url.cursor # None /\ rows[i].ts >= url.cursor /\ url.cursor \in Int
        BY <2>1, <2>2 DEF WalkInv, Ahead, UrlTyped
      <4>2. PICK t \in page.rows : TRUE
        BY <2>2 DEF WalkInv, cursor
      <4>3. rows[t].ts < url.cursor
        BY <2>2, <4>1, QueryFields DEF WalkInv, SqliteFound, Below
      <4>4. t \in DOMAIN rows /\ i \in DOMAIN rows
        BY <2>2 DEF WalkInv, Ahead, SqliteFound, Matching
      <4>5. rows[t].ts \in Int /\ rows[i].ts \in Int
        BY <4>4, RowsAreOK DEF SessionInv
      <4>. QED
        BY <2>2, <3>1, <4>1, <4>3, <4>5
    <3>. QED
      BY <3>1, <3>2
  <2>8. \A i \in goal : rows[i].ts < cursor \/ Near(i, past)
    BY <2>2 DEF WalkInv, cursor
  <2>9. goal \subseteq Matching(q)
    BY <2>2, <2>5 DEF WalkInv
  <2>10. Ahead(q, past, goal)
    BY <2>2, <2>4, <2>6, <2>7, <2>8, <2>9 DEF Ahead
  <2>11. SameFilters(q, wanted)
    BY <2>1, <2>4 DEF SameFilters
  <2>. HIDE DEF past
  <2>. QED
    BY <2>1, <2>3, <2>4, <2>10, <2>11, Loaded
<1>10. CASE Newest
  <2>. DEFINE q == reset_to_first_page(url)
  <2>1. UrlTyped(url) /\ DOMAIN wanted = FilterKeys /\ SameFilters(url, wanted)
    BY <1>10 DEF Newest, SessionInv, FilterInv
  <2>2. GetDashboard(q, wanted, {}, 1) /\ rows' = rows
    BY <1>10 DEF Newest
  <2>3. UrlTyped(q) /\ q.cursor = None /\ SameFilters(q, url)
    BY <2>1, FirstPageFilters
  <2>. HIDE DEF q
  <2>4. SameFilters(q, wanted)
    BY <2>1, <2>3 DEF SameFilters
  <2>. QED
    BY <2>1, <2>2, <2>3, <2>4, Loaded, NothingAhead
<1>11. CASE Refresh
  <2>1. UrlTyped(url) /\ DOMAIN wanted = FilterKeys /\ SameFilters(url, wanted)
    BY <1>11 DEF Refresh, SessionInv, FilterInv
  <2>2. Ahead(url, walk, goal)
    BY <1>11 DEF Refresh, SessionInv, WalkInv
  <2>. QED
    BY <1>11, <2>1, <2>2, Loaded DEF Refresh
<1>12. CASE Ingest
  BY <1>12, Arrives
<1>13. CASE Expire \/ Restart \/ UNCHANGED vars
  <2>1. UNCHANGED <<rows, screen, url, page, wanted, walk, goal>>
    BY <1>13 DEF Expire, Restart, session, vars
  <2>. QED
    BY <2>1 DEF SessionInv, RowsTyped, FilterInv, WalkInv, OnDashboard, Ahead, Matching, Near
<1>. QED
  BY <1>1, <1>2, <1>3, <1>5, <1>6, <1>7, <1>8, <1>9, <1>10, <1>11, <1>12, <1>13 DEF Next

\* The session's invariant.
THEOREM SessionInvariance == Spec => [](PathsKnown /\ SessionInv)
<1>1. Init => PathsKnown /\ SessionInv
  <2>. SUFFICES ASSUME Init PROVE PathsKnown /\ SessionInv
    OBVIOUS
  <2>1. PathsKnown
    BY DEF Init, PathsKnown
  <2>2. RowsTyped
    BY DEF Init, RowsTyped
  <2>3. ~OnDashboard
    BY DEF Init, OnDashboard
  <2>. QED
    BY <2>1, <2>2, <2>3 DEF SessionInv, FilterInv, WalkInv
<1>. QED
  BY <1>1, PathsStep, SessionStep, PTL DEF Spec

\* What the rows have to do with the filters the user set.
LEMMA HoldsIsMatch ==
    ASSUME NEW q, NEW wish, SameFilters(q, wish), NEW e
    PROVE  Holds(e, wish) <=> SqliteMatch(e, QueryParams(q))
<1>. DEFINE r == [k \in DOMAIN NoQuery |-> IF k \in FilterKeys THEN wish[k] ELSE None]
<1>1. DOMAIN NoQuery = Keys /\ FilterKeys \subseteq Keys
  BY DEF NoQuery, Keys, FilterKeys, FormKeys
<1>2. \A k \in FilterKeys : r[k] = wish[k]
  BY <1>1
<1>3. Holds(e, wish) <=> SqliteMatch(e, QueryParams(r))
  BY DEF Holds
<1>. HIDE DEF r
<1>4. SameFilters(q, r)
  BY <1>2 DEF SameFilters
<1>. QED
  BY <1>3, <1>4, SameMatch

\* The page shows what the user asked for, and all of it when it is the only
\* page.
THEOREM WantedIsShown == Spec => []ShownIsWanted
<1>1. ASSUME SessionInv, OnDashboard
      PROVE  /\ \A i \in page.rows : Holds(rows[i], wanted)
             /\ \A i \in goal : Holds(rows[i], wanted)
             /\ url.cursor = None /\ page.next_cursor = None =>
                   \A i \in goal : i \in page.rows
  <2>1. SameFilters(url, wanted) /\ page.rows \subseteq Matching(url) /\ goal \subseteq Matching(url)
    BY <1>1 DEF SessionInv, FilterInv, WalkInv, SqliteFound, Matching
  <2>2. \A i \in Matching(url) : Holds(rows[i], wanted)
    BY <2>1, HoldsIsMatch DEF Matching
  <2>. QED
    BY <1>1, <2>1, <2>2 DEF SessionInv, WalkInv
<1>2. SessionInv => ShownIsWanted
  BY <1>1 DEF ShownIsWanted
<1>. QED
  BY <1>2, SessionInvariance, PTL

\* Following the older pages to the end has shown what matched at first, but
\* for ties.
THEOREM WalksAreWhole == Spec => []WalkComplete
<1>1. SessionInv => WalkComplete
  BY DEF SessionInv, WalkInv, WalkComplete, Near, Shown
<1>. QED
  BY <1>1, SessionInvariance, PTL

\* No row is on two pages of a walk.
LEMMA Apart == ASSUME SessionInv PROVE NoRepeats
<1>1. ASSUME SessionInv, OnDashboard, NEW i \in page.rows, i \in walk PROVE FALSE
  <2>1. url.cursor # None /\ rows[i].ts >= url.cursor /\ url.cursor \in Int
    BY <1>1 DEF SessionInv, FilterInv, WalkInv, Ahead, UrlTyped
  <2>2. rows[i].ts < url.cursor /\ i \in DOMAIN rows
    BY <1>1, <2>1, QueryFields DEF SessionInv, WalkInv, SqliteFound, Below
  <2>3. rows[i].ts \in Int
    BY <1>1, <2>2, RowsAreOK DEF SessionInv
  <2>. QED
    BY <2>1, <2>2, <2>3
<1>. QED
  BY <1>1 DEF NoRepeats

\* No row is on two pages of a walk, whatever arrives meanwhile.
THEOREM PagesAreApart == Spec => []NoRepeats
BY Apart, SessionInvariance, PTL

\* The pages before this one had a row each at least.
WalkIsDeep ==
    OnDashboard => depth \in Nat \ {0} /\ IsFiniteSet(walk) /\ Cardinality(walk) >= depth - 1

\* What a page adds to the walk.
LEMMA PageAdds ==
    ASSUME SessionInv, WalkIsDeep, OnDashboard
    PROVE  /\ IsFiniteSet(Matching(url)) /\ walk \union page.rows \subseteq Matching(url)
           /\ page.next_cursor # None =>
                 /\ IsFiniteSet(walk \union page.rows)
                 /\ Cardinality(walk \union page.rows) >= depth
<1>1. walk \subseteq Matching(url) /\ page.rows \subseteq Matching(url)
  BY DEF SessionInv, WalkInv, Ahead, SqliteFound, Matching
<1>2. IsFiniteSet(Matching(url))
  <2>1. Matching(url) \subseteq DOMAIN rows /\ IsFiniteSet(DOMAIN rows)
    BY RowsAreOK DEF Matching, SessionInv, RowsOK
  <2>. QED
    BY <2>1, FS_Subset
<1>3. ASSUME page.next_cursor # None
      PROVE  IsFiniteSet(walk \union page.rows) /\ Cardinality(walk \union page.rows) >= depth
  <2>1. PICK i \in page.rows : TRUE
    BY <1>3 DEF SessionInv, WalkInv
  <2>2. i \notin walk
    BY <2>1, Apart DEF NoRepeats
  <2>3. IsFiniteSet(walk \union {i}) /\ Cardinality(walk \union {i}) = Cardinality(walk) + 1
    BY <2>2, FS_AddElement DEF WalkIsDeep
  <2>4. IsFiniteSet(walk \union page.rows)
    BY <1>1, <1>2, FS_Subset
  <2>5. Cardinality(walk \union {i}) <= Cardinality(walk \union page.rows)
    BY <2>1, <2>4, FS_Subset
  <2>6. Cardinality(walk) \in Nat /\ Cardinality(walk \union page.rows) \in Nat
    BY <2>4, FS_CardinalityType DEF WalkIsDeep
  <2>. QED
    BY <2>3, <2>4, <2>5, <2>6 DEF WalkIsDeep
<1>. QED
  BY <1>1, <1>2, <1>3

\* An answer of the dashboard counts the pages of its walk.
LEMMA DeepAnswer ==
    ASSUME NEW q, NEW wish, NEW past, NEW deep,
           GetDashboard(q, wish, past, deep),
           deep \in Nat \ {0}, IsFiniteSet(past), Cardinality(past) >= deep - 1
    PROVE  WalkIsDeep'
<1>1. CASE Authorized(jar)
  BY <1>1 DEF GetDashboard, WalkIsDeep
<1>2. CASE ~Authorized(jar)
  BY <1>2 DEF GetDashboard, ShowLogin, WalkIsDeep, OnDashboard
<1>. QED
  BY <1>1, <1>2

\* Every step keeps count.
LEMMA DeepStep == PathsKnown /\ SessionInv /\ WalkIsDeep /\ [Next]_vars => WalkIsDeep'
<1> SUFFICES ASSUME PathsKnown, SessionInv, WalkIsDeep, [Next]_vars PROVE WalkIsDeep'
  OBVIOUS
<1>1. ASSUME NEW q, NEW wish, GetDashboard(q, wish, {}, 1) PROVE WalkIsDeep'
  <2>1. IsFiniteSet({}) /\ Cardinality({}) = 0
    BY FS_EmptySet
  <2>. DEFINE none == {}
  <2>2. GetDashboard(q, wish, none, 1) /\ IsFiniteSet(none) /\ Cardinality(none) >= 1 - 1
    BY <1>1, <2>1
  <2>. HIDE DEF none
  <2>. QED
    BY <2>2, DeepAnswer
<1>2. ASSUME NEW path \in Paths \union {Root}, GetPath(path) PROVE WalkIsDeep'
  <2>1. CASE path = Root
    BY <1>1, <1>2, <2>1 DEF GetPath
  <2>2. CASE path # Root
    BY <1>2, <2>2, ConstantsAssumption DEF GetPath, GetGated, ShowLogin, WalkIsDeep, OnDashboard
  <2>. QED
    BY <2>1, <2>2
<1>3. CASE \E path \in Paths \union {Root} : Visit(path)
  BY <1>2, <1>3 DEF Visit
<1>4. CASE \E t \in Tokens \ {None} : SubmitToken(t) \/ PasteToken(t, None, Root)
  BY <1>4 DEF SubmitToken, PasteToken, ShowLogin, WalkIsDeep, OnDashboard
<1>5. CASE Follow
  BY <1>2, <1>5 DEF Follow, PathsKnown
<1>6. ASSUME NEW q, NEW wish, Refilter(q, wish) PROVE WalkIsDeep'
  BY <1>1, <1>6 DEF Refilter
<1>7. CASE \/ \E key \in LinkKeys : Filter(key) \/ RemoveFilter(key)
           \/ \E n \in PAGE_SIZES : ChangeSize(n)
           \/ \E edit \in Edits : Submit(edit.key, edit.value)
           \/ Reset
  BY <1>6, <1>7 DEF Filter, RemoveFilter, ChangeSize, Submit, Reset
<1>8. CASE Older
  <2>1. /\ OnDashboard /\ page.next_cursor # None
        /\ GetDashboard(build_next_url_with_page(url, page.next_cursor), wanted,
                        walk \union page.rows, depth + 1)
    BY <1>8 DEF Older
  <2>2. /\ depth + 1 \in Nat \ {0} /\ IsFiniteSet(walk \union page.rows)
        /\ Cardinality(walk \union page.rows) >= (depth + 1) - 1
    BY <2>1, PageAdds DEF WalkIsDeep
  <2>. QED
    BY <2>1, <2>2, DeepAnswer
<1>9. CASE Newest
  BY <1>1, <1>9 DEF Newest
<1>10. CASE Refresh
  BY <1>10, DeepAnswer DEF Refresh, WalkIsDeep
<1>11. CASE Ingest \/ Expire \/ Restart \/ UNCHANGED vars
  BY <1>11 DEF Ingest, Expire, Restart, session, vars, WalkIsDeep, OnDashboard
<1>. QED
  BY <1>3, <1>4, <1>5, <1>7, <1>8, <1>9, <1>10, <1>11 DEF Next

\* Whoever follows the link to older pages comes to an end, after at most one
\* page for each row that matches and one more.
THEOREM WalksComeToAnEnd == Spec => []WalkEnds
<1>1. Init => WalkIsDeep
  BY DEF Init, WalkIsDeep, OnDashboard
<1>2. ASSUME SessionInv, WalkIsDeep, OnDashboard
      PROVE  /\ depth <= Cardinality(Matching(url)) + 1
             /\ depth = Cardinality(Matching(url)) + 1 => page.next_cursor = None
  <2>1. Cardinality(walk) <= Cardinality(Matching(url)) /\ Cardinality(walk) \in Nat
    BY <1>2, PageAdds, FS_Subset, FS_CardinalityType DEF WalkIsDeep
  <2>2. Cardinality(Matching(url)) \in Nat
    BY <1>2, PageAdds, FS_CardinalityType
  <2>3. ASSUME page.next_cursor # None PROVE depth <= Cardinality(Matching(url))
    <3>. DEFINE so == walk \union page.rows
    <3>1. IsFiniteSet(so) /\ Cardinality(so) >= depth /\ so \subseteq Matching(url)
      BY <1>2, <2>3, PageAdds
    <3>. HIDE DEF so
    <3>2. Cardinality(so) <= Cardinality(Matching(url)) /\ Cardinality(so) \in Nat
      BY <1>2, <3>1, PageAdds, FS_Subset, FS_CardinalityType
    <3>. QED
      BY <1>2, <2>2, <3>1, <3>2 DEF WalkIsDeep
  <2>. QED
    BY <1>2, <2>1, <2>2, <2>3 DEF WalkIsDeep
<1>3. SessionInv /\ WalkIsDeep => WalkEnds
  BY <1>2 DEF WalkEnds, SqliteCount, Matching
<1>. QED
  BY <1>1, <1>3, SessionInvariance, DeepStep, PTL DEF Spec
-----------------------------------------------------------------------------
(***************************************************************************)
(* The download, and the links of a row.                                   *)
(***************************************************************************)
\* Without blank filters or times, a download's parameters find what the page's do.
LEMMA DownloadMatches ==
    ASSUME NEW q, UrlTyped(q), NEW d, d = download_url(q), d.since = None, d.until = None,
           \A k \in FilterKeys : d[k] # None => not_empty(d[k]) # None, NEW e
    PROVE  SqliteMatch(e, DownloadParams(d)) <=> SqliteMatch(e, QueryParams(q))
<1>1. d = reset_to_first_page(q)
  BY DEF download_url, reset_to_first_page
<1>2. SameFilters(d, q)
  BY <1>1, FirstPageFilters
<1>3. \A v : not_empty(v) # None => not_empty(v) = v
  BY DEF not_empty
<1>4. not_empty(None) = None
  BY DEF not_empty
<1>5. \A k \in FilterKeys : not_empty(d[k]) = d[k]
  BY <1>3, <1>4
<1>6. /\ not_empty(d.request_id) = d.request_id /\ not_empty(d.service) = d.service
      /\ not_empty(d.env) = d.env /\ not_empty(d.event_prefix) = d.event_prefix
      /\ not_empty(d.level) = d.level /\ not_empty(d.q) = d.q
      /\ parse_dashboard_dt(d.since) = None /\ parse_dashboard_dt(d.until) = None
  BY <1>5 DEF FilterKeys, FormKeys, parse_dashboard_dt
<1>. DEFINE p == DownloadParams(d)
            r == QueryParams(d)
<1>7. /\ p.request_id = d.request_id /\ p.service = d.service
      /\ p.env = d.env /\ p.event_prefix = d.event_prefix
      /\ p.min_severity = Severity(d.level)
      /\ p.since = None /\ p.until = None /\ p.fts = d.q /\ Plain(p)
  BY DownloadFields
<1>8. /\ r.request_id = d.request_id /\ r.service = d.service
      /\ r.env = d.env /\ r.event_prefix = d.event_prefix
      /\ r.min_severity = Severity(d.level)
      /\ r.since = None /\ r.until = None /\ r.fts = d.q /\ Plain(r)
  BY <1>6, QueryFields
<1>. HIDE DEF p, r
<1>9. SqliteMatch(e, p) <=> SqliteMatch(e, r)
  BY <1>7, <1>8, SameFields
<1>. QED
  BY <1>2, <1>9, SameMatch DEF p, r

\* A download that holds all that matches holds the walk.
LEMMA DownloadHolds ==
    ASSUME SessionInv, OnDashboard, NEW d, d = download_url(url), d.since = None, d.until = None,
           \A k \in FilterKeys : d[k] # None => not_empty(d[k]) # None,
           SqliteCount(rows, DownloadParams(d)) <= DownloadCap,
           NEW T \in Answers(DownloadParams(d))
    PROVE  Shown \subseteq T
<1>. DEFINE p == DownloadParams(d)
            found == SqliteFound(rows, p)
            limit == SqliteLimit(p)
<1>1. UrlTyped(url)
  BY DEF SessionInv, FilterInv
<1>2. p.cursor = None /\ p.limit = DownloadLimit(d.limit)
  BY DownloadFields
<1>3. d.limit # None => d.limit \in Nat
  <2>1. d = reset_to_first_page(url)
    BY DEF download_url, reset_to_first_page
  <2>2. UrlTyped(d)
    BY <1>1, <2>1, FirstPageFilters
  <2>. QED
    BY <2>2 DEF UrlTyped
<1>4. limit \in Nat /\ DownloadCap <= limit
  <2>1. DownloadLimit(d.limit) \in Nat /\ DownloadCap <= DownloadLimit(d.limit)
    BY <1>3, SizesAssumption DEF DownloadLimit
  <2>. QED
    BY <1>2, <2>1, SizesAssumption DEF SqliteLimit
<1>5. Matching(url) = {i \in DOMAIN rows : SqliteMatch(rows[i], p)}
  BY <1>1, DownloadMatches DEF Matching
<1>6. found = Matching(url)
  BY <1>2, <1>5 DEF SqliteFound, Below
<1>7. IsFiniteSet(found) /\ Cardinality(found) \in Nat
  <2>1. IsFiniteSet(DOMAIN rows)
    BY RowsAreOK DEF SessionInv, RowsOK
  <2>2. found \subseteq DOMAIN rows
    BY <1>6 DEF Matching
  <2>. QED
    BY <2>1, <2>2, FS_Subset, FS_CardinalityType
<1>8. Cardinality(found) <= DownloadCap
  BY <1>5, <1>6 DEF SqliteCount
<1>9. T \subseteq found /\ FillsUpTo(T, limit, found)
  BY DEF Answers, IsSqliteAnswer
<1>10. Shown \subseteq Matching(url)
  BY DEF SessionInv, WalkInv, Ahead, SqliteFound, Matching, Shown
<1>. HIDE DEF p, found, limit
<1>11. Cardinality(T) = Cardinality(found)
  BY <1>4, <1>7, <1>8, <1>9, SizesAssumption DEF FillsUpTo
<1>12. T = found
  BY <1>7, <1>9, <1>11, FS_Subset
<1>. QED
  BY <1>6, <1>10, <1>12

\* A download within its size, without times or blank filters, has the walk.
THEOREM DownloadIsWhole == Spec => []DownloadHasWalk
<1>1. ASSUME SessionInv, OnDashboard, NEW d, d = download_url(url), d.since = None,
             d.until = None, \A k \in FilterKeys : d[k] # None => not_empty(d[k]) # None,
             SqliteCount(rows, DownloadParams(d)) <= DownloadCap
      PROVE  DownloadAnswers(d) /\ \A T \in Answers(DownloadParams(d)) : Shown \subseteq T
  BY <1>1, DownloadHolds DEF DownloadAnswers
<1>2. SessionInv => DownloadHasWalk
  BY <1>1 DEF DownloadHasWalk
<1>. QED
  BY <1>2, SessionInvariance, PTL

\* A severity's own label asks for no more than its number.
LEMMA LabelFinds ==
    ASSUME NEW n, n \in 1 .. 24
    PROVE  level_to_min_severity(severity_label(n)) <= n
<1>1. \A label \in {"trace", "debug", "info", "warn", "error", "fatal"} : Fold(label) = label
  BY TextAssumption DEF Fold
<1>2. CASE n \in 1 .. 4
  <2>1. severity_label(n) = "trace"
    BY <1>2 DEF severity_label
  <2>2. level_to_min_severity("trace") = 1
    BY <1>1 DEF level_to_min_severity
  <2>. QED
    BY <1>2, <2>1, <2>2
<1>3. CASE n \in 5 .. 8
  <2>1. severity_label(n) = "debug"
    BY <1>3 DEF severity_label
  <2>2. level_to_min_severity("debug") = 5
    BY <1>1 DEF level_to_min_severity
  <2>. QED
    BY <1>3, <2>1, <2>2
<1>4. CASE n \in 9 .. 12
  <2>1. severity_label(n) = "info"
    BY <1>4 DEF severity_label
  <2>2. level_to_min_severity("info") = 9
    BY <1>1 DEF level_to_min_severity
  <2>. QED
    BY <1>4, <2>1, <2>2
<1>5. CASE n \in 13 .. 16
  <2>1. severity_label(n) = "warn"
    BY <1>5 DEF severity_label
  <2>2. level_to_min_severity("warn") = 13
    BY <1>1 DEF level_to_min_severity
  <2>. QED
    BY <1>5, <2>1, <2>2
<1>6. CASE n \in 17 .. 20
  <2>1. severity_label(n) = "error"
    BY <1>6 DEF severity_label
  <2>2. level_to_min_severity("error") = 17
    BY <1>1 DEF level_to_min_severity
  <2>. QED
    BY <1>6, <2>1, <2>2
<1>7. CASE n \in 21 .. 24
  <2>1. severity_label(n) = "fatal"
    BY <1>7 DEF severity_label
  <2>2. level_to_min_severity("fatal") = 21
    BY <1>1 DEF level_to_min_severity
  <2>. QED
    BY <1>7, <2>1, <2>2
<1>. QED
  BY <1>2, <1>3, <1>4, <1>5, <1>6, <1>7

\* The link of a row sets one filter, which the row passes; it passed the others.
LEMMA LinkFinds ==
    ASSUME SessionInv, OnDashboard, NEW i \in page.rows,
           NEW key \in {"level", "service", "env", "request_id", "event_prefix"},
           NEW link, link = RowLink(rows[i], key), link # None,
           ~(key = "event_prefix" /\ Dot(rows[i].event) = 0),
           key = "level" => /\ rows[i].severity_number \in 1 .. 24
                            /\ rows[i].severity_text = severity_label(rows[i].severity_number)
    PROVE  SqliteMatch(rows[i], QueryParams(filter_url_override(url, key, link)))
<1>. DEFINE e == rows[i]
            q == filter_url_override(url, key, link)
            p == QueryParams(url)
            r == QueryParams(q)
<1>1. UrlTyped(url) /\ key \in FilterKeys
  BY DEF SessionInv, FilterInv, FilterKeys, FormKeys
<1>2. i \in DOMAIN rows /\ SqliteMatch(e, p) /\ e.event \in Text
  BY RowsAreOK DEF SessionInv, WalkInv, SqliteFound
<1>3. q[key] = link /\ \A k \in FilterKeys \ {key} : Effect(k, q[k]) = Effect(k, url[k])
  BY <1>1, OverrideFilters
<1>4. /\ p.request_id = not_empty(url.request_id) /\ p.service = not_empty(url.service)
      /\ p.env = not_empty(url.env) /\ p.event_prefix = not_empty(url.event_prefix)
      /\ p.min_severity = Severity(not_empty(url.level))
      /\ p.since = parse_dashboard_dt(url.since) /\ p.until = parse_dashboard_dt(url.until)
      /\ p.fts = not_empty(url.q) /\ Plain(p)
  BY QueryFields
<1>5. /\ r.request_id = not_empty(q.request_id) /\ r.service = not_empty(q.service)
      /\ r.env = not_empty(q.env) /\ r.event_prefix = not_empty(q.event_prefix)
      /\ r.min_severity = Severity(not_empty(q.level))
      /\ r.since = parse_dashboard_dt(q.since) /\ r.until = parse_dashboard_dt(q.until)
      /\ r.fts = not_empty(q.q) /\ Plain(r)
  BY QueryFields
<1>6. /\ key # "request_id" => r.request_id = p.request_id
      /\ key # "service" => r.service = p.service
      /\ key # "env" => r.env = p.env
      /\ key # "event_prefix" => r.event_prefix = p.event_prefix
      /\ key # "level" => r.min_severity = p.min_severity
      /\ r.since = p.since /\ r.until = p.until /\ r.fts = p.fts
  <2>1. \A k \in FilterKeys \ {"since", "until"} : \A v : Effect(k, v) = not_empty(v)
    BY DEF Effect
  <2>2. \A k \in {"since", "until"} : \A v : Effect(k, v) = parse_dashboard_dt(v)
    BY DEF Effect
  <2>. HIDE DEF q, p, r
  <2>. QED
    BY <1>3, <1>4, <1>5, <2>1, <2>2 DEF FilterKeys, FormKeys
<1>7. not_empty(link) \in {None, link}
  BY DEF not_empty
<1>8. key = "request_id" => r.request_id \in {None, e.request_id}
  BY <1>3, <1>5, <1>7 DEF RowLink
<1>9. key = "service" => r.service \in {None, e.service}
  BY <1>3, <1>5, <1>7 DEF RowLink
<1>10. key = "env" => r.env \in {None, e.env}
  BY <1>3, <1>5, <1>7 DEF RowLink
<1>11. key = "event_prefix" => (r.event_prefix # None => LikePrefix(r.event_prefix, e.event))
  <2>. SUFFICES ASSUME key = "event_prefix" PROVE LikePrefix(link, e.event)
    BY <1>3, <1>5, <1>7
  <2>1. link = PrefixOf(e.event) /\ Dot(e.event) # 0
    BY DEF RowLink, PrefixOf
  <2>2. IsPrefix(PrefixOf(e.event), e.event) /\ PrefixOf(e.event) \in Text
    BY <1>2, PrefixIsPrefix
  <2>. QED
    BY <1>2, <2>1, <2>2, PrefixIsLike
<1>12. key = "level" => (r.min_severity # None => e.severity_number >= r.min_severity)
  <2>. SUFFICES ASSUME key = "level" PROVE r.min_severity <= e.severity_number
    BY <1>4
  <2>1. link = <<e.severity_text>>
    BY DEF RowLink
  <2>2. e.severity_text \in {"trace", "debug", "info", "warn", "error", "fatal"}
    BY DEF severity_label
  <2>3. not_empty(link) = link
    <3>1. e.severity_text # " "
      BY <2>2
    <3>2. 1 \in DOMAIN link /\ link[1] = e.severity_text
      BY <2>1
    <3>. HIDE DEF e
    <3>. QED
      BY <3>1, <3>2 DEF not_empty
  <2>4. r.min_severity = level_to_min_severity(e.severity_text)
    BY <1>3, <1>5, <2>1, <2>3 DEF Severity
  <2>. QED
    BY <2>4, LabelFinds
<1>. HIDE DEF e, q, p, r
<1>13. SqliteMatch(e, r)
  <2>1. \A c \in Columns : r[c] # None => e[c] = r[c]
    BY <1>2, <1>4, <1>5, <1>6, <1>8, <1>9, <1>10 DEF SqliteMatch, Columns, Plain
  <2>2. r.event_prefix # None => LikePrefix(r.event_prefix, e.event)
    BY <1>2, <1>6, <1>11 DEF SqliteMatch
  <2>3. r.min_severity # None => e.severity_number >= r.min_severity
    BY <1>2, <1>6, <1>12 DEF SqliteMatch
  <2>4. InTime(e, r)
    BY <1>2, <1>6 DEF SqliteMatch, InTime
  <2>5. r.fts \notin {None, <<>>, <<" ">>} => PhraseMatch(e, r.fts)
    BY <1>2, <1>6 DEF SqliteMatch
  <2>. QED
    BY <1>5, <2>1, <2>2, <2>3, <2>4, <2>5 DEF SqliteMatch, Plain
<1>. QED
  BY <1>13 DEF e, q, r

\* The links of a row lead to pages it is on, but for the ones the code gets wrong.
THEOREM RowLinksLeadBack == Spec => []RowLinksFindRow
<1>1. SessionInv => RowLinksFindRow
  BY LinkFinds DEF RowLinksFindRow
<1>. QED
  BY <1>1, SessionInvariance, PTL
=============================================================================
