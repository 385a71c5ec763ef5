----------------------------- MODULE DurableLog -----------------------------
(***************************************************************************)
(* What the README's storage diagram promises of an accepted event: it is  *)
(* in the hot tier, then archived, "forever".  Abstractly, a log that only *)
(* grows: an accepted event stays stored in one tier or the other.         *)
(***************************************************************************)
CONSTANT Event

VARIABLE stored    \* the events found in hot or in cold

Init == stored = {}

Accept(e) == stored' = stored \cup {e}

Next == \E e \in Event : Accept(e)

Spec == Init /\ [][Next]_stored
=============================================================================
