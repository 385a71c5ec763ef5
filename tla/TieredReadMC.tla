---------------------------- MODULE TieredReadMC ----------------------------
(* Instances of TieredRead for TLC. *)
EXTENDS TieredRead, TLC

Symmetry == Permutations(Id)

\* a dashboard without a range, one with a range start, one with both ends
MCSinces == {NoSince, 0}
ColdSinces == {0, 1}
MCUntils == {NoUntil, 1}
AnyUntil == {NoUntil}
=============================================================================
