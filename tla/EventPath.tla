------------------------------ MODULE EventPath ------------------------------
(***************************************************************************)
(* What travels with an event, its envelope and the correlation of the     *)
(* work it belongs to, and the delays it is retried with.  They share no   *)
(* state.                                                                  *)
(***************************************************************************)
EXTENDS Integers

CONSTANTS
  LastYear, MaxYear, MaxPosition, NoEnvelope,   \* Envelope
  MaxIds, Operator,                             \* Correlation
  MaxDuration, BackoffMaxShift, PollMaxShift, MaxCount   \* BackoffSchedule

VARIABLES
  event, position, row, letter, sent, received, refusedBy,
  place, ids, ctx, metadata, header, origin,
  base, ceiling, count

Env   == INSTANCE Envelope WITH None <- NoEnvelope
Corr  == INSTANCE Correlation
Retry == INSTANCE BackoffSchedule

\* An operator's correlation is none of the identifiers made.
ASSUME EventConstants ==
  /\ LastYear \in Nat \ {0} /\ MaxYear \in Nat /\ MaxPosition \in Nat
  /\ MaxIds \in Nat \ {0} /\ Operator \in Nat /\ Operator > MaxIds
  /\ MaxDuration \in Nat \ {0}
  /\ PollMaxShift \in Nat /\ BackoffMaxShift \in Nat /\ PollMaxShift <= BackoffMaxShift

envVars   == <<event, position, row, letter, sent, received, refusedBy>>
corrVars  == <<place, ids, ctx, metadata, header, origin>>
retryVars == <<base, ceiling, count>>

\* The consumer reads the event the producer built, at the position of its row,
\* and the dispatcher refuses no event that Append accepted, also when it comes
\* back from a dead letter; the work it causes keeps the correlation of the
\* request it came from.
EventsCarried ==
  Env!DeliveredAsBuilt /\ Env!PositionOfRow /\ Env!AcceptedIsSendable /\ Corr!OneCorrelation

\* backoffFor and emptyPollDelay stay between zero and their ceiling for every
\* base, and double up to it as long as the shift loses nothing but the sign.
DelaysSaturate == Retry!BackoffDoubles /\ Retry!PollDoubles

=============================================================================
