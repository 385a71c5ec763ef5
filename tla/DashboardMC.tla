---------------------------- MODULE DashboardMC ----------------------------
(* Instances of Dashboard for TLC. *)
EXTENDS Dashboard

MCUpper == [Job |-> "job"]
MCRounded == <<>>

\* a token with a = and one with a ;
MCTokens == {<<"a", "=", "b">>, <<"c", ";", "d">>}
MCPaths == {<<"/", "docs", "?", "from", "=", "nav">>, <<"/", "api", "?", "at", "=", "10", ":", "30">>}

Event(name, text, number, ts, service) ==
    [request_id |-> <<>>, event |-> name, severity_number |-> number, severity_text |-> text,
     ts |-> ts, message |-> None, service |-> service, env |-> None, user_id |-> None,
     session_id |-> None, payload |-> <<>>]

\* a tie, a late arrival, an event without dot and service, and a label that
\* overstates its number
MCFeed == <<
    Event(<<"job", ".", "a">>, "error", 17, 2, <<"web">>),
    Event(<<"boot">>, "info", 0, 2, None),
    Event(<<"job", ".", "b">>, "warn", 13, 3, <<"web">>),
    Event(<<"Job", ".", "c">>, "error", 17, 1, <<"api">>)>>

MCLevels == {<<"warn">>}

MCEdits ==
    {[key |-> "service", value |-> <<" ">>],
     [key |-> "until", value |-> [form |-> "local", ts |-> 2]]}
=============================================================================
