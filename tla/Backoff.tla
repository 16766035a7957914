------------------------------- MODULE Backoff -------------------------------
(***************************************************************************)
(* The delay arithmetic of outbox/dispatch.go.  A time.Duration is a signed *)
(* integer (of 64 bits in Go), and << drops what overflows.                 *)
(***************************************************************************)
EXTENDS Integers

CONSTANTS
  MaxDuration,      \* the greatest time.Duration
  BackoffMaxShift,  \* maxShift of backoffFor, 30
  PollMaxShift      \* maxShift of emptyPollDelay, 10

ASSUME BackoffConstants ==
  /\ MaxDuration \in Nat \ {0}
  /\ BackoffMaxShift \in Nat
  /\ PollMaxShift \in Nat /\ PollMaxShift <= BackoffMaxShift

\* What is left of d in a time.Duration.
Wrapped(d) == ((d + MaxDuration + 1) % (2 * (MaxDuration + 1))) - (MaxDuration + 1)

\* base << n, a bit at a time.
Shifted(base, n) ==
  LET shift[i \in Nat] == IF i = 0 THEN base ELSE Wrapped(2 * shift[i - 1]) IN shift[n]

AtMost(n, bound) == IF n > bound THEN bound ELSE n

\* Mutant: an overflow is not noticed.
IntervalOverflowed(base, count, ceiling, maxShift) ==
  LET interval == Shifted(base, AtMost(count - 1, maxShift))
  IN IF ceiling > 0 /\ interval > ceiling THEN ceiling ELSE interval

\* The interval both functions compute: doubled per count, and the ceiling
\* when the shift overflowed or went past it.
Interval(base, count, ceiling, maxShift) ==
  LET interval == Shifted(base, AtMost(count - 1, maxShift))
  IN IF interval <= 0 \/ (ceiling > 0 /\ interval > ceiling) THEN ceiling ELSE interval

\* backoffFor, for every jitter in [0,1): half the interval, plus a share of
\* the other half that is rounded down.
backoffFor(base, attempts, ceiling) ==
  LET half == Interval(base, IF attempts < 1 THEN 1 ELSE attempts, ceiling,
                       BackoffMaxShift) \div 2
  IN IF base <= 0 THEN {0}
     ELSE IF half = 0 THEN {0} ELSE half .. (2 * half - 1)

emptyPollDelay(interval, consecutiveEmpty, ceiling) ==
  IF interval <= 0 THEN 0
  ELSE IF consecutiveEmpty < 1 THEN interval
  ELSE Interval(interval, consecutiveEmpty, ceiling, PollMaxShift)

=============================================================================
