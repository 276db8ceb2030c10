---------------------------- MODULE MCStreamRelay ----------------------------
(* TLC instances of StreamRelay: the constants are numbers. *)
EXTENDS StreamRelay
=============================================================================
