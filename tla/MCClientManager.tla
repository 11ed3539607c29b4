-------------------------- MODULE MCClientManager --------------------------
(***************************************************************************)
(* Instances of ClientManager for TLC.                                     *)
(***************************************************************************)
EXTENDS ClientManager, TLC

CONSTANTS w1, w2, u1, u2

\* Workers and users are interchangeable.
Symmetry == Permutations(Workers) \cup Permutations(Uids)
=============================================================================
