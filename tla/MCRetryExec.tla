---------------------------- MODULE MCRetryExec -----------------------------
(* fetchJsonRetry() as fwFlash() calls it through mkPost(): tries = 6 and *)
(* baseDelayMs = 80, against targets failing 0 to 7 times.               *)
EXTENDS RetryExec

=============================================================================
