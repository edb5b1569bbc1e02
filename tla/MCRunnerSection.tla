--------------------------- MODULE MCRunnerSection ---------------------------
(***************************************************************************)
(* RunnerSection for TLC: symmetric commands.                              *)
(***************************************************************************)
EXTENDS RunnerSection, TLC

\* Places the Sleeve did not have before the runner are interchangeable.
PlaceSymmetry == Permutations(Places \ Existing)
=============================================================================
