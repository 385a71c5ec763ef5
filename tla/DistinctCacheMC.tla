-------------------------- MODULE DistinctCacheMC --------------------------
(* Instances of DistinctCache for TLC. *)
EXTENDS DistinctCache

MCUpper == [Api |-> "api"]
MCRounded == <<>>

\* One row that comes and goes, of a source without env.  The lists are
\* independent of each other, and a value's history does not depend on which
\* other values there are.
MCRow == 1 :> [service |-> <<"web">>, env |-> None, event |-> <<"job", ".", "done">>]
MCRank == (<<"job", ".">> :> 1) @@ (<<"web">> :> 2)
MCFieldLimit == [service |-> 200, env |-> 50, event_prefix |-> 200]
=============================================================================
