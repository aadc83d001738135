--------------------------- MODULE RetryExecProofs ---------------------------
(***************************************************************************)
(* Proof that fetchJsonRetry() meets the spec's test of the executor      *)
(* (ExecutorMeetsSpec) for every try budget up to 32, every base delay    *)
(* whose sleeps fit setTimeout()'s 32-bit range (SleepsFit) and every     *)
(* number of failures of the target. Up to 32 tries the loop sleeps only  *)
(* with i <= 30, where 1 << i is 2^i; from 33 tries on, 1 << 31 is        *)
(* negative and the property fails (run retry_backoff_wrap). A sleep      *)
(* beyond 2^31 - 1 ms is wrapped by setTimeout() and fails it as well.    *)
(* The inductive invariant RInv says, for each place of the loop, how     *)
(* many attempts were made, how many failures the target has left and    *)
(* how long the loop has slept. BInv adds the delay of the last sleep,    *)
(* from which BackoffCorrect shows each sleep doubles the one before.     *)
(***************************************************************************)
EXTENDS RetryExec, TLAPS

Phases == {"fetch", "sleep", "returned", "thrown"}

RInv ==
    /\ k \in 0..MaxFailures
    /\ i \in Nat
    /\ phase \in Phases
    /\ phase = "fetch" =>
          /\ i < Tries /\ i <= k /\ left = k - i
          /\ waited = BaseDelay * (2^i - 1)
    /\ phase = "sleep" =>
          /\ i + 1 < Tries /\ i + 1 <= k /\ left = k - i - 1
          /\ delay = BaseDelay * JsShl1(i)
          /\ waited = BaseDelay * (2^i - 1)
    /\ phase = "returned" =>
          /\ k < Tries /\ i = k
          /\ waited = BaseDelay * (2^k - 1)
    /\ phase = "thrown" =>
          /\ k >= Tries /\ i = Tries - 1
          /\ waited = BaseDelay * (2^(Tries - 1) - 1)

\* Every delay the loop hands sleepMs() lies within setTimeout()'s 32-bit
\* range: with tries = 6 and baseDelayMs = 80 the largest is 1280 ms.
SleepsFit == \A n \in 0..(Tries - 2) : BaseDelay * 2^n <= Int32Max

-----------------------------------------------------------------------------
\* Doubling, for the exponents the loop meets: the provers evaluate 2^n
\* only for a literal n, so each exponent is a case of its own.
LEMMA PowDouble ==
    ASSUME NEW n \in 0..30
    PROVE  2^n \in Nat /\ 2^n >= 1 /\ 2^(n + 1) = 2 * 2^n
<1>0. n \in {0, 1, 2, 3, 4, 5, 6, 7, 8, 9, 10, 11, 12, 13, 14, 15, 16, 17,
             18, 19, 20, 21, 22, 23, 24, 25, 26, 27, 28, 29, 30}
  OBVIOUS
<1>1. CASE n = 0 BY <1>1, SMT
<1>2. CASE n = 1 BY <1>2, SMT
<1>3. CASE n = 2 BY <1>3, SMT
<1>4. CASE n = 3 BY <1>4, SMT
<1>5. CASE n = 4 BY <1>5, SMT
<1>6. CASE n = 5 BY <1>6, SMT
<1>7. CASE n = 6 BY <1>7, SMT
<1>8. CASE n = 7 BY <1>8, SMT
<1>9. CASE n = 8 BY <1>9, SMT
<1>10. CASE n = 9 BY <1>10, SMT
<1>11. CASE n = 10 BY <1>11, SMT
<1>12. CASE n = 11 BY <1>12, SMT
<1>13. CASE n = 12 BY <1>13, SMT
<1>14. CASE n = 13 BY <1>14, SMT
<1>15. CASE n = 14 BY <1>15, SMT
<1>16. CASE n = 15 BY <1>16, SMT
<1>17. CASE n = 16 BY <1>17, SMT
<1>18. CASE n = 17 BY <1>18, SMT
<1>19. CASE n = 18 BY <1>19, SMT
<1>20. CASE n = 19 BY <1>20, SMT
<1>21. CASE n = 20 BY <1>21, SMT
<1>22. CASE n = 21 BY <1>22, SMT
<1>23. CASE n = 22 BY <1>23, SMT
<1>24. CASE n = 23 BY <1>24, SMT
<1>25. CASE n = 24 BY <1>25, SMT
<1>26. CASE n = 25 BY <1>26, SMT
<1>27. CASE n = 26 BY <1>27, SMT
<1>28. CASE n = 27 BY <1>28, SMT
<1>29. CASE n = 28 BY <1>29, SMT
<1>30. CASE n = 29 BY <1>30, SMT
<1>31. CASE n = 30 BY <1>31, SMT
<1>32. QED
  BY <1>0, <1>1, <1>2, <1>3, <1>4, <1>5, <1>6, <1>7, <1>8, <1>9, <1>10,
     <1>11, <1>12, <1>13, <1>14, <1>15, <1>16, <1>17, <1>18, <1>19, <1>20,
     <1>21, <1>22, <1>23, <1>24, <1>25, <1>26, <1>27, <1>28, <1>29, <1>30,
     <1>31

\* Below 31, 1 << n is 2^n, and setTimeout() waits a delay it is given
\* within its 32-bit range.
LEMMA ShiftIsPower ==
    ASSUME NEW n \in 0..30, BaseDelay * 2^n <= Int32Max
    PROVE  /\ JsShl1(n) = 2^n
           /\ TimerWait(BaseDelay * JsShl1(n)) = BaseDelay * 2^n
<1>1. n % 32 = n
  BY SMT
<1>2. JsShl1(n) = 2^n
  BY <1>1 DEF JsShl1
<1>3. 2^n \in Nat
  BY PowDouble
<1>4. BaseDelay * 2^n \in Nat
  BY <1>3, RetryAssumption, SMT
<1>5. TimerWait(BaseDelay * 2^n) = BaseDelay * 2^n
  <2>a. Int32Max \in Nat
    BY SMT DEF Int32Max
  <2>b. \A ms \in 0..Int32Max : -Int32Max - 1 <= ms /\ ms <= Int32Max
    BY <2>a, SMT
  <2>0. \A ms \in 0..Int32Max : ToInt32(ms) = ms
    BY <2>b, Zenon DEF ToInt32
  <2>1. \A ms \in 0..Int32Max : TimerWait(ms) = ms
    BY <2>0, <2>a, SMT DEF TimerWait
  <2>2. QED
    BY <1>4, <2>1
<1>6. QED
  BY <1>2, <1>5

\* A sleep the loop takes, with i + 1 < tries, is within setTimeout()'s
\* range.
LEMMA SleepFits ==
    ASSUME SleepsFit, NEW n \in Nat, n + 1 < Tries
    PROVE  BaseDelay * 2^n <= Int32Max
<1>1. n \in 0..(Tries - 2)
  BY RetryAssumption
<1>2. QED
  BY <1>1 DEF SleepsFit

-----------------------------------------------------------------------------
LEMMA InitRInv == Init => RInv
<1> SUFFICES ASSUME Init PROVE RInv
  OBVIOUS
<1>1. 2^0 = 1
  BY SMT
<1>2. QED
  BY <1>1, RetryAssumption DEF Init, RInv, Phases

LEMMA NextRInv ==
    ASSUME Tries <= 32, SleepsFit, RInv, [Next]_vars
    PROVE  RInv'
<1>1. CASE Attempt /\ left = 0
  \* The target succeeds: the call returns r after i failed attempts.
  BY <1>1, RetryAssumption DEF Attempt, RInv, Phases
<1>2. CASE Attempt /\ left # 0
  <2>1. phase = "fetch" /\ i < k /\ i < Tries
    BY <1>2 DEF Attempt, RInv
  <2>2. PICK e \in {"status", "rejected"} :
          /\ left' = left - 1
          /\ lastErr' = e
          /\ IF i + 1 < Tries
               THEN /\ phase' = "sleep"
                    /\ delay' = BaseDelay * JsShl1(i)
               ELSE /\ phase' = "thrown"
                    /\ UNCHANGED delay
    BY <1>2 DEF Attempt
  <2>3. CASE i + 1 < Tries
    \* Another try is left: the loop sleeps.
    BY <1>2, <2>1, <2>2, <2>3, RetryAssumption DEF Attempt, RInv, Phases
  <2>4. CASE ~(i + 1 < Tries)
    \* The last try failed: lastErr is thrown, i = tries - 1.
    BY <1>2, <2>1, <2>2, <2>4, RetryAssumption DEF Attempt, RInv, Phases
  <2>5. QED
    BY <2>3, <2>4
<1>3. CASE Wake
  \* The sleep of baseDelayMs * 2^i ends; the total becomes
  \* baseDelayMs * (2^(i+1) - 1).
  <2>1. phase = "sleep" /\ i \in 0..30 /\ i + 1 < Tries
    BY <1>3, RetryAssumption DEF Wake, RInv
  <2>5. BaseDelay * 2^i <= Int32Max
    BY <2>1, SleepFits
  <2>2. /\ 2^i \in Nat /\ 2^(i + 1) = 2 * 2^i
        /\ TimerWait(delay) = BaseDelay * 2^i
    BY <2>1, <2>5, PowDouble, ShiftIsPower DEF RInv
  <2>3. waited' = BaseDelay * (2^(i + 1) - 1)
    BY <1>3, <2>1, <2>2, RetryAssumption DEF Wake, RInv
  <2>4. QED
    BY <1>3, <2>1, <2>3 DEF Wake, RInv, Phases
<1>4. CASE UNCHANGED vars
  BY <1>4 DEF vars, RInv
<1>5. QED
  BY <1>1, <1>2, <1>3, <1>4 DEF Next

-----------------------------------------------------------------------------
\* fetchJsonRetry() does what the spec's test of the executor asks, for
\* every try budget up to 32 and every base delay whose sleeps stay within
\* setTimeout()'s 32-bit range (mkPost() uses 6 tries and 80 ms, whose
\* largest sleep is 1280 ms), and every target: a target failing k < tries times is returned after exactly the
\* waits baseDelayMs * 2^j, j < k; one failing tries times or more makes
\* the call throw after tries attempts and tries - 1 waits.
THEOREM ExecutorCorrect ==
    ASSUME Tries <= 32, SleepsFit
    PROVE  Spec => []ExecutorMeetsSpec
<1>1. Init => RInv
  BY InitRInv
<1>2. RInv /\ [Next]_vars => RInv'
  BY NextRInv
<1>3. RInv => ExecutorMeetsSpec
  BY DEF RInv, ExecutorMeetsSpec
<1>4. QED
  BY <1>1, <1>2, <1>3, PTL DEF Spec


-----------------------------------------------------------------------------
(* Exponential backoff. While the loop is at its fetch after a sleep, the  *)
(* delay of that sleep is still in d: baseDelayMs * (1 << (i - 1)).       *)

BInv == (phase = "fetch" /\ i > 0) => delay = BaseDelay * JsShl1(i - 1)

LEMMA InitBInv == Init => BInv
  BY DEF Init, BInv

LEMMA NextBInv ==
    ASSUME RInv, BInv, [Next]_vars
    PROVE  BInv'
<1>1. CASE Attempt
  \* The loop leaves its fetch.
  BY <1>1 DEF Attempt, BInv
<1>2. CASE Wake
  \* The sleep of baseDelayMs * (1 << i) ends and i becomes i + 1.
  <2>1. i \in Nat /\ (i + 1) - 1 = i
    BY DEF RInv
  <2>2. QED
    BY <1>2, <2>1 DEF Wake, RInv, BInv
<1>3. CASE UNCHANGED vars
  BY <1>3 DEF vars, BInv
<1>4. QED
  BY <1>1, <1>2, <1>3 DEF Next

\* The step that starts a sleep after the first one hands sleepMs() twice
\* the delay of the sleep before it, when the base delay is positive.
LEMMA NextBackoff ==
    ASSUME Tries <= 32, BaseDelay > 0, SleepsFit, RInv, BInv, [Next]_vars,
           phase # "sleep", phase' = "sleep", i > 0
    PROVE  TimerWait(delay') > TimerWait(delay)
<1>1. Attempt /\ left # 0 /\ i + 1 < Tries /\ delay' = BaseDelay * JsShl1(i)
  BY DEF Next, Wake, vars, Attempt
<1>2. phase = "fetch" /\ i \in 1..30
  BY <1>1, RetryAssumption DEF Attempt, RInv
<1>3. delay = BaseDelay * JsShl1(i - 1)
  BY <1>2 DEF BInv
<1>4. i - 1 \in 0..30 /\ (i - 1) + 1 = i
  BY <1>2
<1>5. /\ 2^(i - 1) \in Nat /\ 2^(i - 1) >= 1 /\ 2^i = 2 * 2^(i - 1)
  BY <1>4, PowDouble
<1>6. TimerWait(delay') = BaseDelay * 2^i
  <2>1. i \in 0..30
    BY <1>2
  <2>4. BaseDelay * 2^i <= Int32Max
    BY <1>1, <1>2, SleepFits
  <2>2. TimerWait(BaseDelay * JsShl1(i)) = BaseDelay * 2^i
    BY <2>1, <2>4, ShiftIsPower
  <2>3. QED
    BY <1>1, <2>2
<1>7. TimerWait(delay) = BaseDelay * 2^(i - 1)
  <2>0. i + 1 < Tries /\ i \in 1..30
    BY <1>1, <1>2
  <2>1. (i - 1) \in Nat /\ (i - 1) + 1 < Tries
    BY <2>0, RetryAssumption, SMT
  <2>2. BaseDelay * 2^(i - 1) <= Int32Max
    BY <2>1, SleepFits
  <2>3. QED
    BY <1>3, <1>4, <2>2, ShiftIsPower
<1>8. \A b, x \in Nat : (b > 0 /\ x >= 1) => b * (2 * x) > b * x
  BY SMT
<1>9. QED
  BY <1>5, <1>6, <1>7, <1>8, RetryAssumption

\* Exponential backoff (spec, section 4.2), for every try budget up to 32
\* and every positive base delay whose sleeps stay within setTimeout()'s
\* 32-bit range (mkPost() uses 6 tries and 80 ms): each sleep of
\* fetchJsonRetry() after the first waits longer than the one before it.
\* With a budget of 33 or more the shift 1 << 31 wraps and the property
\* fails (run retry_backoff_wrap); a sleep beyond 2^31 - 1 ms wraps in
\* setTimeout() (with 80 ms, from i = 25 on); with a base of 0 no sleep
\* waits.
THEOREM BackoffCorrect ==
    ASSUME Tries <= 32, BaseDelay > 0, SleepsFit
    PROVE  Spec => BackoffGrows
<1>1. Init => RInv /\ BInv
  BY InitRInv, InitBInv
<1>2. RInv /\ BInv /\ [Next]_vars => RInv' /\ BInv'
  BY NextRInv, NextBInv
<1>3. RInv /\ BInv /\ [Next]_vars =>
        [(phase # "sleep" /\ phase' = "sleep" /\ i > 0) =>
            TimerWait(delay') > TimerWait(delay)]_vars
  BY NextBackoff
<1>4. QED
  BY <1>1, <1>2, <1>3, PTL DEF Spec, BackoffGrows

=============================================================================
