----------------------------- MODULE RotationMC -----------------------------
(* Instances of Rotation for TLC. *)
EXTENDS Rotation, TLC

\* ids and sources are interchangeable
Symmetry == Permutations(Id) \cup Permutations(Source)
=============================================================================
