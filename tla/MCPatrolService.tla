-------------------------- MODULE MCPatrolService --------------------------
(***************************************************************************)
(* PatrolService on instances small enough for TLC.                        *)
(***************************************************************************)
EXTENDS PatrolService, TLC

\* Calls and tasks are interchangeable.
Symmetry == Permutations(Procs) \cup Permutations(TaskIds)
=============================================================================
