--------------------------- MODULE MCImageManager ---------------------------
(***************************************************************************)
(* Instances of ImageManager for TLC.                                      *)
(***************************************************************************)
EXTENDS ImageManager, TLC

CONSTANTS w1, w2, r1, r2, r3, r4

\* Neither workers nor requests are told apart.  Only invariants and formulas
\* about one step are checked under it.
Symmetry == Permutations(Workers) \cup Permutations(Requests)
=============================================================================
