--------------------------- MODULE MCUpstreamGet ---------------------------
(* Four calls for two permits: two of them can wait in the queue behind a  *)
(* granted one while a permit is free.  Two attempts that can fail in two  *)
(* different ways tell the last error from the first.  A 4xx and a body    *)
(* that is not JSON end a call at either attempt.                          *)
EXTENDS UpstreamGet
=============================================================================
