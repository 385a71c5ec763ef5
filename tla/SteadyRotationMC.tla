-------------------------- MODULE SteadyRotationMC --------------------------
(* Instances of SteadyRotation for TLC. *)
EXTENDS SteadyRotation, TLC

\* ids are interchangeable; sources are not, some being nightly
Symmetry == Permutations(Id)
=============================================================================
