------------------------------ MODULE StatsPoll -----------------------------
(***************************************************************************)
(* The statistics polling of src/web_configurator/www/main.js:            *)
(*   - DOMContentLoaded calls updateStats() once and then                 *)
(*     setInterval(updateStats, 1000): a new call every second, whether  *)
(*     or not the earlier ones have finished;                             *)
(*   - updateStats(): fetch('/api/get_stat'); a reply that is not ok      *)
(*     returns; otherwise res.json() and setText() of every counter of   *)
(*     the reply; a rejected fetch() or res.json() is ignored;            *)
(*   - the device, whose counters (uptime, rx/tx bytes and packets) only *)
(*     grow, and which answers get_stat with their value at that time.    *)
(* The counters of one reply are written together, so one counter stands *)
(* for them. Each call in progress occupies one of the slots Polls; the   *)
(* timer waits for a free slot (the bound on overlapping calls).          *)
(***************************************************************************)
EXTENDS Naturals

CONSTANTS
    Polls,     \* slots for the updateStats() calls in progress
    MaxCount,  \* bound on the device's counter
    NoValue    \* the dashboard before any reply: the page's placeholder

ASSUME StatsAssumption == Polls # {} /\ MaxCount \in Nat /\ NoValue \notin Nat

VARIABLES
    counter,  \* the device's counter
    shown,    \* the counter's text on the dashboard
    poll,     \* where each call is
    val       \* the counter a call's reply carries

vars == <<counter, shown, poll, val>>

PollStates == {"idle", "fetching", "answered", "rejected"}
\* "fetching": awaiting fetch(); "answered": an ok reply, awaiting
\* res.json(); "rejected": a reply that is not ok.

-----------------------------------------------------------------------------
\* DOMContentLoaded: updateStats() has called fetch() once.
Init ==
    /\ counter = 0
    /\ shown = NoValue
    /\ \E p \in Polls :
          poll = [q \in Polls |-> IF q = p THEN "fetching" ELSE "idle"]
    /\ val = [q \in Polls |-> 0]

\* The interval timer fires: a new updateStats() call posts get_stat.
TimerFires ==
    \E p \in Polls :
        /\ poll[p] = "idle"
        /\ poll' = [poll EXCEPT ![p] = "fetching"]
        /\ UNCHANGED <<counter, shown, val>>

\* Time passes on the device: its counters grow.
DeviceTick ==
    /\ counter < MaxCount
    /\ counter' = counter + 1
    /\ UNCHANGED <<shown, poll, val>>

\* The device handles get_stat, with the counter it has now; the reply is
\* ok, or carries another status.
DeviceStat(p, ok) ==
    /\ poll[p] = "fetching"
    /\ poll' = [poll EXCEPT ![p] = IF ok THEN "answered" ELSE "rejected"]
    /\ val' = [val EXCEPT ![p] = counter]
    /\ UNCHANGED <<counter, shown>>

\* fetch() rejects (the request or its reply is lost): the catch ignores it.
FetchFailed(p) ==
    /\ poll[p] = "fetching"
    /\ poll' = [poll EXCEPT ![p] = "idle"]
    /\ UNCHANGED <<counter, shown, val>>

\* if (!res.ok) return;
NotOk(p) ==
    /\ poll[p] = "rejected"
    /\ poll' = [poll EXCEPT ![p] = "idle"]
    /\ UNCHANGED <<counter, shown, val>>

\* res.json() rejects: the catch ignores it.
JsonFailed(p) ==
    /\ poll[p] = "answered"
    /\ poll' = [poll EXCEPT ![p] = "idle"]
    /\ UNCHANGED <<counter, shown, val>>

\* Mutant: the counters are looked up under a key the reply does not
\* have, so the if (r) block is skipped.
ApplyWrongKey(p) ==
    /\ poll[p] = "answered"
    /\ poll' = [poll EXCEPT ![p] = "idle"]
    /\ UNCHANGED <<counter, shown, val>>

\* res.json() resolves: setText() writes the reply's counters.
Apply(p) ==
    /\ poll[p] = "answered"
    /\ shown' = val[p]
    /\ poll' = [poll EXCEPT ![p] = "idle"]
    /\ UNCHANGED <<counter, val>>

-----------------------------------------------------------------------------
Next ==
    \/ TimerFires
    \/ DeviceTick
    \/ \E p \in Polls :
          \/ \E ok \in BOOLEAN : DeviceStat(p, ok)
          \/ FetchFailed(p)
          \/ NotOk(p)
          \/ JsonFailed(p)
          \/ Apply(p)

\* The interval timer keeps firing, the browser runs every continuation,
\* every fetch() settles, and the device answers ok with a body that
\* parses infinitely often if it is asked infinitely often (strong
\* fairness: it may fail any finite number of times in a row).
Fairness ==
    /\ WF_vars(TimerFires)
    /\ \A p \in Polls :
          /\ WF_vars(\E ok \in BOOLEAN : DeviceStat(p, ok) \/ FetchFailed(p))
          /\ WF_vars(NotOk(p) \/ JsonFailed(p) \/ Apply(p))
          /\ SF_vars(DeviceStat(p, TRUE))
          /\ SF_vars(Apply(p))

Spec == Init /\ [][Next]_vars

FairSpec == Spec /\ Fairness

-----------------------------------------------------------------------------
(* Properties.                                                             *)

\* Once the device's counters stop changing, the dashboard ends up showing
\* them and keeps showing them: replies of calls started before the last
\* change, applied late, do not leave a stale value behind for good.
EventuallyFresh == <>[](shown = counter)

\* "Live statistics": the dashboard never goes back to a smaller counter
\* than it showed before (uptime and byte counts only grow on the device).
DisplayNeverRegresses ==
    [][(shown \in Nat /\ shown' \in Nat) => shown' >= shown]_vars

=============================================================================
