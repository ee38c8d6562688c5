------------------------- MODULE MCRefreshPositions -------------------------
(***************************************************************************)
(* Instances of RefreshPositions for TLC.                                  *)
(***************************************************************************)
EXTENDS RefreshPositions, TLC

MCSymmetry == Permutations(Refreshers) \cup Permutations(Symbols)

=============================================================================
