----------------------- MODULE MCContinuationTokens -----------------------
(* Two processes and two tokens; the clock may pass MaxAge and come back. *)
EXTENDS ContinuationTokens, TLC

=============================================================================
