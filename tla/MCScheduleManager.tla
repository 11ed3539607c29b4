------------------------- MODULE MCScheduleManager -------------------------
(***************************************************************************)
(* Instances of ScheduleManager for TLC.                                   *)
(***************************************************************************)
EXTENDS ScheduleManager, TLC

CONSTANTS w1, w2, i1, i2

\* Workers and ids are interchangeable.
Symmetry == Permutations(Workers) \cup Permutations(Ids)
=============================================================================
