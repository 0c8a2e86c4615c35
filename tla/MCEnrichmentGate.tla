-------------------------- MODULE MCEnrichmentGate --------------------------
(* TLC instance of EnrichmentGate. *)
EXTENDS EnrichmentGate, TLC
=============================================================================
