------------------------------ MODULE RetryExec -----------------------------
(***************************************************************************)
(* fetchJsonRetry(url, opts, tries, baseDelayMs) and sleepMs() of         *)
(* src/web_configurator/www/main.js, with the time it waits. The target   *)
(* is the one the spec's test of the executor describes: it fails its     *)
(* first k attempts (with a reply that is not ok, or a rejected fetch())  *)
(* and succeeds after; k is fixed when the call starts and kept as a      *)
(* history variable. The waits are the delays handed to setTimeout():     *)
(* baseDelayMs * (1 << i), where << acts on the 32-bit pattern of 1 and   *)
(* takes its shift count modulo 32; setTimeout() waits 0 for a negative   *)
(* delay.                                                                  *)
(***************************************************************************)
EXTENDS Integers

CONSTANTS
    Tries,        \* tries
    BaseDelay,    \* baseDelayMs
    MaxFailures   \* bound on k

ASSUME RetryAssumption ==
    /\ Tries \in Nat \ {0}
    /\ BaseDelay \in Nat
    /\ MaxFailures \in Nat

VARIABLES
    k,        \* the number of attempts the target fails (history)
    left,     \* how many more attempts it fails
    i,        \* the loop counter
    phase,    \* where the call is
    lastErr,  \* lastErr
    delay,    \* the last d handed to sleepMs()
    waited    \* the time spent in sleepMs() so far

vars == <<k, left, i, phase, lastErr, delay, waited>>

\* 1 << n in JavaScript: the shift count is taken modulo 32 and the result
\* is the signed 32-bit integer with that bit set (bit 31 is the sign).
JsShl1(n) ==
    LET s == n % 32
    IN  IF s = 31 THEN -(2^30) - 2^30 ELSE 2^s

\* The largest signed 32-bit integer, 2^31 - 1.
Int32Max == 2147483647

\* ToInt32: the signed 32-bit integer congruent to x modulo 2^32. The
\* modulus is only computed outside the 32-bit range, which TLC's own
\* integers cannot reach.
ToInt32(x) ==
    IF -Int32Max - 1 <= x /\ x <= Int32Max
      THEN x
      ELSE ((x + (Int32Max + 1)) % (2 * (Int32Max + 1))) - (Int32Max + 1)

\* setTimeout(r, ms) takes its delay as a WebIDL long: ms is converted by
\* ToInt32, and a negative result waits 0.
TimerWait(ms) == IF ToInt32(ms) < 0 THEN 0 ELSE ToInt32(ms)

-----------------------------------------------------------------------------
Init ==
    /\ k \in 0..MaxFailures
    /\ left = k
    /\ i = 0
    /\ phase = "fetch"
    /\ lastErr = "none"
    /\ delay = 0
    /\ waited = 0

\* Mutant: "i < tries" for "i + 1 < tries".
AttemptOffByOne ==
    /\ phase = "fetch"
    /\ IF left = 0
         THEN /\ phase' = "returned"
              /\ UNCHANGED <<left, lastErr, delay>>
         ELSE \E e \in {"status", "rejected"} :
                 /\ left' = left - 1
                 /\ lastErr' = e
                 /\ IF i < Tries
                      THEN /\ phase' = "sleep"
                           /\ delay' = BaseDelay * JsShl1(i)
                      ELSE /\ phase' = "thrown"
                           /\ UNCHANGED delay
    /\ UNCHANGED <<k, i, waited>>

\* Mutant: the delay without the shift, "baseDelayMs" for
\* "baseDelayMs * (1 << i)".
AttemptFixedDelay ==
    /\ phase = "fetch"
    /\ IF left = 0
         THEN /\ phase' = "returned"
              /\ UNCHANGED <<left, lastErr, delay>>
         ELSE \E e \in {"status", "rejected"} :
                 /\ left' = left - 1
                 /\ lastErr' = e
                 /\ IF i + 1 < Tries
                      THEN /\ phase' = "sleep"
                           /\ delay' = BaseDelay
                      ELSE /\ phase' = "thrown"
                           /\ UNCHANGED delay
    /\ UNCHANGED <<k, i, waited>>

\* One turn of the loop up to its await: fetch(); an ok reply returns r;
\* a reply that is not ok or a rejected fetch() becomes lastErr, then
\* with i + 1 < tries the loop sleeps baseDelayMs * (1 << i), otherwise
\* it throws lastErr.
Attempt ==
    /\ phase = "fetch"
    /\ IF left = 0
         THEN /\ phase' = "returned"
              /\ UNCHANGED <<left, lastErr, delay>>
         ELSE \E e \in {"status", "rejected"} :
                 /\ left' = left - 1
                 /\ lastErr' = e
                 /\ IF i + 1 < Tries
                      THEN /\ phase' = "sleep"
                           /\ delay' = BaseDelay * JsShl1(i)
                      ELSE /\ phase' = "thrown"
                           /\ UNCHANGED delay
    /\ UNCHANGED <<k, i, waited>>

\* sleepMs(d) resolves; the loop goes on with i + 1.
Wake ==
    /\ phase = "sleep"
    /\ waited' = waited + TimerWait(delay)
    /\ i' = i + 1
    /\ phase' = "fetch"
    /\ UNCHANGED <<k, left, lastErr, delay>>

Next == Attempt \/ Wake

Spec == Init /\ [][Next]_vars

-----------------------------------------------------------------------------
(* Properties.                                                             *)

\* The spec's test of the executor: a target failing its first k attempts
\* is returned with k < tries, after waiting baseDelayMs * 2^j for each j
\* in 0..k-1; with k >= tries the call throws after exactly tries
\* attempts, having waited after each of them but the last.
ExecutorMeetsSpec ==
    /\ phase = "returned" =>
          /\ k < Tries
          /\ i = k
          /\ waited = BaseDelay * (2^k - 1)
    /\ phase = "thrown" =>
          /\ k >= Tries
          /\ i = Tries - 1
          /\ waited = BaseDelay * (2^(Tries - 1) - 1)

\* Exponential backoff (spec, section 4.2): each wait is longer than the
\* one before it.
BackoffGrows ==
    [][(phase # "sleep" /\ phase' = "sleep" /\ i > 0) =>
          TimerWait(delay') > TimerWait(delay)]_vars

=============================================================================
