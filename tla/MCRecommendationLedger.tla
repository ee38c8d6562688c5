----------------------- MODULE MCRecommendationLedger -----------------------
(***************************************************************************)
(* Small instance of RecommendationLedger.  The amount and the lots put    *)
(* trades on both sides of the 85% boundary and make two of them overshoot *)
(* the 115% one.                                                           *)
(***************************************************************************)
EXTENDS RecommendationLedger, TLC

\* One symbol is held from the start, the other is not.
MCQuantity == ("vti" :> 20) @@ ("schd" :> 0)

\* Transferred shares come with no cost basis.
MCAverageCost == ("vti" :> 2) @@ ("schd" :> 0)

=============================================================================
