----------------------------- MODULE Correlation -----------------------------
(***************************************************************************)
(* The correlation and causation identifiers of a chain of work that       *)
(* crosses services: a request or a job, the metadata of the event it      *)
(* emits, the header of the delivery, the consumer's context, the event    *)
(* the consumer emits in turn (observability, httpapi and httpdelivery).   *)
(*                                                                         *)
(* Identifiers are numbers; 0 is the nil one, and stands for an absent     *)
(* value where the code has none.                                          *)
(***************************************************************************)
EXTENDS Integers

CONSTANTS
    MaxIds,    \* bound: identifiers made
    Operator   \* the correlation an operator publishes under, beyond MaxIds

VARIABLES
    place,     \* "outside", "context", "payload", "wire", "handler", "refused"
    ids,       \* identifiers made so far
    ctx,       \* identifiers in the context of the service at work
    metadata,  \* Metadata in the payload of the newest event
    header,    \* X-Correlation-Id of the delivery under way
    origin     \* the correlation the chain began with, 0 for a job without one

vars == <<place, ids, ctx, metadata, header, origin>>

Nil       == 0
Malformed == -1
Empty     == [correlation |-> Nil, causation |-> Nil]

-----------------------------------------------------------------------------
(* Package observability. *)

WithCorrelationID(c, i) == IF i = Nil THEN c ELSE [c EXCEPT !.correlation = i]
WithCausationID(c, i)   == IF i = Nil THEN c ELSE [c EXCEPT !.causation = i]

\* A malformed or missing inbound value is replaced by a new identifier.
EnsureCorrelation(c, inbound) ==
    LET made == inbound \in {Nil, Malformed} IN
    /\ ids < MaxIds \/ ~made
    /\ ids' = IF made THEN ids + 1 ELSE ids
    /\ ctx' = WithCorrelationID(c, IF made THEN ids + 1 ELSE inbound)

MetadataFromContext(c) ==
    [correlation |-> c.correlation,
     causation |-> IF c.causation = Nil THEN c.correlation ELSE c.causation]

\* Mutant: what the context has already is kept.
ContextKept(c, m) ==
    [correlation |-> IF c.correlation # Nil THEN c.correlation ELSE m.correlation,
     causation |-> IF c.causation # Nil THEN c.causation ELSE m.causation]

ContextWithMetadata(c, m) ==
    WithCausationID(WithCorrelationID(c, m.correlation), m.causation)

\* The nil identifier is written as text like any other and refused when read.
Decodes(m) == m.correlation # Nil /\ m.causation # Nil

\* correlationOf: the context's identifier wins over the payload's.
CorrelationOf(own, m) == IF own # Nil THEN own ELSE m.correlation

-----------------------------------------------------------------------------
Init ==
    /\ place = "outside" /\ ids = 1
    /\ ctx = Empty /\ metadata = Empty
    /\ header = Nil /\ origin = Nil

\* A request comes in, with identifier 1, with none or with a malformed one, ...
Request ==
    /\ place = "outside"
    /\ \E inbound \in {1, Nil, Malformed} : EnsureCorrelation(Empty, inbound)
    /\ origin' = ctx'.correlation
    /\ place' = "context"
    /\ UNCHANGED <<metadata, header>>

\* ... or a job starts in a context that has no identifier.
Job ==
    /\ place = "outside"
    /\ place' = "context"
    /\ UNCHANGED <<ids, ctx, metadata, header, origin>>

\* The service appends an event with the metadata of its context.
Emit ==
    /\ place = "context"
    /\ metadata' = MetadataFromContext(ctx)
    /\ place' = "payload"
    /\ UNCHANGED <<ids, ctx, header, origin>>

\* Publish on the dispatcher's context, which has no identifier, or on that of
\* an operator.
Publish ==
    /\ place = "payload"
    /\ \E own \in {Nil, Operator} : header' = CorrelationOf(own, metadata)
    /\ place' = "wire"
    /\ UNCHANGED <<ids, ctx, metadata, origin>>

\* The consumer's chain takes the header, ...
Deliver ==
    /\ place = "wire"
    /\ EnsureCorrelation(Empty, header)
    /\ place' = "handler"
    /\ UNCHANGED <<metadata, header, origin>>

\* ... its handler decodes the payload and restores the metadata, and may name
\* the event as the cause of its own work, ...
Restore ==
    /\ place = "handler"
    /\ Decodes(metadata)
    /\ \/ ctx' = ContextWithMetadata(ctx, metadata) /\ UNCHANGED ids
       \/ /\ ids < MaxIds
          /\ ids' = ids + 1
          /\ ctx' = WithCausationID(ContextWithMetadata(ctx, metadata), ids + 1)
    /\ place' = "context"
    /\ UNCHANGED <<metadata, header, origin>>

\* ... or it refuses what it cannot decode.
Refuse ==
    /\ place = "handler"
    /\ ~Decodes(metadata)
    /\ place' = "refused"
    /\ UNCHANGED <<ids, ctx, metadata, header, origin>>

Next == Request \/ Job \/ Emit \/ Publish \/ Deliver \/ Restore \/ Refuse

Spec == Init /\ [][Next]_vars

-----------------------------------------------------------------------------
(* Properties *)

\* Work on whose behalf a request came in keeps that request's correlation in
\* every service and every event of the chain, whatever header an operator set,
\* and every event names a cause.
OneCorrelation ==
    origin # Nil =>
        /\ place = "context" => ctx.correlation = origin
        /\ place \in {"payload", "wire", "handler"} =>
             metadata.correlation = origin /\ metadata.causation # Nil
        /\ place = "wire" => header \in {origin, Operator}
        /\ place # "refused"

\* A consumer can decode the metadata of any event.  Not so for one emitted in a
\* context without identifiers: Metadata is written as the nil identifier, which
\* Parse refuses.
MetadataDecodes == place # "refused"

=============================================================================
