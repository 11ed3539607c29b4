---------------------------- MODULE MCTfUServer ----------------------------
(***************************************************************************)
(* Instances of TfUServer for TLC.                                         *)
(***************************************************************************)
EXTENDS TfUServer, TLC

CONSTANTS g1, g2, p1

\* GET /image requests are interchangeable.
Symmetry == Permutations(Gets)
=============================================================================
