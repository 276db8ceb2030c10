----------------------------- MODULE MCObserved ------------------------------
(* TLC instances of Observed; main.go:65 sets maxRetries to 2. *)
EXTENDS Observed
=============================================================================
