------------------------ MODULE MCIngestDisclosures ------------------------
(***************************************************************************)
(* Small instance of IngestDisclosures.  The jobs run the same code; only  *)
(* runs without liveness properties may use the symmetry.                  *)
(***************************************************************************)
EXTENDS IngestDisclosures, TLC

MCSymmetry == Permutations(Jobs)

=============================================================================
