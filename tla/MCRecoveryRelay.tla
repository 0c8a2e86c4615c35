-------------------------- MODULE MCRecoveryRelay --------------------------
(* TLC instance of RecoveryRelay. *)
EXTENDS RecoveryRelay, TLC
=============================================================================
