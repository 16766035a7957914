--------------------------- MODULE BackoffSchedule ---------------------------
(* A row that keeps failing, and a worker that keeps finding nothing, with the *)
(* delays of Backoff checked against a schedule that doubles and saturates.    *)
EXTENDS Backoff

CONSTANT MaxCount   \* bound: failures and empty polls

VARIABLES base, ceiling, count

\* b, doubled n times.
Doubled(b, n) == LET double[i \in Nat] == IF i = 0 THEN b ELSE 2 * double[i - 1] IN double[n]

\* applyDefaults leaves no interval and no ceiling at zero, and bounds none.
Init ==
  /\ base \in 1..MaxDuration
  /\ ceiling \in 1..MaxDuration
  /\ count = 0

Next == count < MaxCount /\ count' = count + 1 /\ UNCHANGED <<base, ceiling>>

Spec == Init /\ [][Next]_<<base, ceiling, count>>

\* Reference: doubled for every count after the first, up to the ceiling.
Saturating(maxShift) ==
  LET delay[i \in Nat] == AtMost(IF i = 0 THEN base ELSE 2 * delay[i - 1], ceiling)
  IN delay[AtMost(count - 1, maxShift)]

\* The shift has lost nothing but the sign: base << shift is below twice the
\* number of durations.  For a retry every base up to 17 s fits at every count.
Fits(maxShift) == Doubled(base, AtMost(count - 1, maxShift)) <= 2 * MaxDuration + 1

\* backoffFor returns no negative delay and none above the ceiling, whatever the
\* shift loses; and as long as it fits, the delay is in the upper half of the
\* doubled interval for every jitter, so an overflow is read as the ceiling.
BackoffDoubles ==
  count > 0 =>
    LET half == Saturating(BackoffMaxShift) \div 2
    IN /\ backoffFor(base, count, ceiling) \subseteq 0..ceiling
       /\ Fits(BackoffMaxShift) =>
            backoffFor(base, count, ceiling) = IF half = 0 THEN {0} ELSE half .. 2 * half - 1

\* emptyPollDelay is the interval itself when busy; for an idle worker it is
\* within the ceiling and, as long as the shift fits, the doubled interval.
PollDoubles ==
  /\ count = 0 => emptyPollDelay(base, count, ceiling) = base
  /\ count > 0 => /\ emptyPollDelay(base, count, ceiling) \in 1..ceiling
                  /\ Fits(PollMaxShift) =>
                       emptyPollDelay(base, count, ceiling) = Saturating(PollMaxShift)

=============================================================================
