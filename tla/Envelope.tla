------------------------------ MODULE Envelope ------------------------------
(***************************************************************************)
(* The event envelope on its way (event/envelope.go): built by a producer, *)
(* appended to the outbox, decoded and sent by the dispatcher, read by the *)
(* consumer, kept in a dead letter and appended again from it by a replay. *)
(* One event and one consumer are followed; other events take positions of *)
(* the same sequence.                                                      *)
(*                                                                         *)
(* An envelope is a function from its members to their values; its JSON    *)
(* form lacks the members that are omitted.  A time is a number for its    *)
(* year, 0 for the zero time.  Leases and attempts are Dispatcher's.       *)
(***************************************************************************)
EXTENDS Integers

CONSTANTS
    LastYear,      \* the last year RFC 3339 can write
    MaxYear,       \* bound: years of an event
    MaxPosition,   \* bound: positions taken from platform.outbox_sequence
    None

VARIABLES
    event,      \* what the producer holds, or None
    position,   \* the last value of platform.outbox_sequence
    row,        \* the event's newest outbox row, still owed, or None
    letter,     \* the envelope of the consumer's dead letter, or None
    sent,       \* the body on its way to the consumer, or None
    received,   \* what the consumer has decoded, or None
    refusedBy   \* whose refusals have been recorded: the dispatcher's, the consumer's

vars == <<event, position, row, letter, sent, received, refusedBy>>

SpecVersion     == "1.0"
ContentTypeJSON == "application/json"

Zero == [specversion |-> "", id |-> "nil", source |-> <<>>, type |-> "", time |-> 0,
         datacontenttype |-> "", dataschema |-> "", streamposition |-> 0, data |-> ""]
Members == DOMAIN Zero

\* Inputs of a producer.  Source and Type are string types: a conversion makes
\* one that no parser has seen.
Sources == UNION {[1..n -> {"/", " ", "s"}] : n \in 0..2}
Types   == {"", "unparsable", "com.scnehaux"}
Years   == 0..MaxYear
Data    == {"", "invalid", "spaced", "compact"}
Schemas == {"", "uri"}

-----------------------------------------------------------------------------
(* The package. *)

ParseSource(s) == s # <<>> /\ s[1] = "/" /\ \A i \in DOMAIN s : s[i] # " "
ParseType(t)   == t = "com.scnehaux"

\* json.Marshal compacts the text of a json.RawMessage, and fails on invalid JSON.
Compact(d) == IF d = "spaced" THEN "compact" ELSE d
IsJSON(d)  == d \in {"spaced", "compact"}

NewAccepts(s, t, at, d) == s # <<>> /\ t # "" /\ at # 0 /\ IsJSON(d)

New(s, t, at, d) ==
    [Zero EXCEPT !.specversion = SpecVersion, !.id = "new", !.source = s, !.type = t, !.time = at,
                 !.datacontenttype = ContentTypeJSON, !.data = Compact(d)]

WithSchema(e, uri) == [e EXCEPT !.dataschema = uri]

WithStreamPosition(e, p) == [e EXCEPT !.streamposition = p]

Validate(e) ==
    /\ e.specversion = SpecVersion
    /\ e.id # "nil"
    /\ ParseSource(e.source)
    /\ ParseType(e.type)
    /\ e.time # 0
    /\ e.datacontenttype = ContentTypeJSON
    /\ e.data # ""
    /\ e.streamposition >= 0

ValidatePublished(e) == Validate(e) /\ e.streamposition # 0

Omitted(e) == {f \in {"dataschema", "streamposition"} : e[f] = Zero[f]}

Marshals(e) == Validate(e) /\ IsJSON(e.data)

MarshalJSON(e) ==
    [f \in Members \ Omitted(e) |-> IF f = "data" THEN Compact(e.data) ELSE e[f]]

\* A member that is missing keeps its zero value.
Decoded(w) == [f \in Members |-> IF f \in DOMAIN w THEN w[f] ELSE Zero[f]]

\* time.Parse reads a year of four digits; Format writes as many as it takes.
Unmarshals(w) == w.time <= LastYear /\ Validate(Decoded(w))

UnmarshalJSON(w) == Decoded(w)

-----------------------------------------------------------------------------
(* The way of an event. *)

Init ==
    /\ event = None /\ row = None /\ letter = None /\ sent = None /\ received = None
    /\ position = 0
    /\ refusedBy = {}

\* The producer calls New, and WithSchema or not, ...
Construct ==
    /\ event = None
    /\ \E s \in Sources, t \in Types, at \in Years, d \in Data, uri \in Schemas :
         /\ NewAccepts(s, t, at, d)
         /\ event' = WithSchema(New(s, t, at, d), uri)
    /\ UNCHANGED <<position, row, letter, sent, received, refusedBy>>

\* ... or fills an Envelope itself: a member left out, a position it does not
\* own, data that nobody has encoded.
Fill ==
    /\ event = None
    /\ LET e == New(<<"/", "s">>, "com.scnehaux", LastYear, "compact") IN
       \/ \E f \in Members : event' = [e EXCEPT ![f] = Zero[f]]
       \/ \E p \in {-1, 2} : event' = WithStreamPosition(e, p)
       \/ \E d \in Data : event' = [e EXCEPT !.data = d]
    /\ UNCHANGED <<position, row, letter, sent, received, refusedBy>>

\* Mutant: the position of the row does not replace one the envelope carries.
PositionedOnce(w, p) == [f \in DOMAIN w \cup {"streamposition"} |->
                           IF f \in DOMAIN w THEN w[f] ELSE p]

\* appendStatement: jsonb_set writes the position of the row over any other.
Positioned(w, p) == [f \in DOMAIN w \cup {"streamposition"} |->
                       IF f = "streamposition" THEN p ELSE w[f]]

Appended(e) ==
    /\ position < MaxPosition
    /\ Validate(e) /\ Marshals(e)
    /\ position' = position + 1
    /\ row' = [sequence |-> position + 1, envelope |-> Positioned(MarshalJSON(e), position + 1)]

\* Append in the transaction of the change.  Refused, it leaves the event to the
\* producer.
Append ==
    /\ event # None /\ row = None /\ letter = None /\ received = None
    /\ Appended(event)
    /\ UNCHANGED <<event, letter, sent, received, refusedBy>>

\* Another event, or an append that is rolled back, takes a position.
Skip ==
    /\ position < MaxPosition
    /\ position' = position + 1
    /\ UNCHANGED <<event, row, letter, sent, received, refusedBy>>

\* fail: the first refusal writes the dead letter, later ones find it.
Refused(by) ==
    /\ letter' = IF letter = None THEN row.envelope ELSE letter
    /\ row' = None
    /\ refusedBy' = refusedBy \cup {by}

\* settle: whether the dispatcher finds the stored envelope fit to send.
Publishable ==
    /\ Unmarshals(row.envelope)
    /\ UnmarshalJSON(row.envelope).streamposition \in {0, row.sequence}
    /\ ValidatePublished(WithStreamPosition(UnmarshalJSON(row.envelope), row.sequence))

\* settle up to the request, the marshalling in Publish included.
Settle ==
    /\ row # None /\ sent = None
    /\ LET e == WithStreamPosition(UnmarshalJSON(row.envelope), row.sequence) IN
       IF Publishable /\ Marshals(e)
       THEN sent' = MarshalJSON(e) /\ UNCHANGED <<row, letter, refusedBy>>
       ELSE Refused("dispatcher") /\ UNCHANGED sent
    /\ UNCHANGED <<event, position, received>>

\* The consumer decodes the body and applies it, or refuses it for good.
Receive ==
    /\ sent # None
    /\ sent' = None
    /\ \/ /\ Unmarshals(sent) /\ ValidatePublished(UnmarshalJSON(sent))
          /\ received' = UnmarshalJSON(sent)
          /\ row' = None
          /\ UNCHANGED <<letter, refusedBy>>
       \/ Refused("consumer") /\ UNCHANGED received
    /\ UNCHANGED <<event, position>>

\* The request or its answer is lost: the row is published again.
Lose ==
    /\ sent # None
    /\ sent' = None
    /\ \/ UNCHANGED received
       \/ /\ Unmarshals(sent) /\ ValidatePublished(UnmarshalJSON(sent))
          /\ received' = UnmarshalJSON(sent)
    /\ UNCHANGED <<event, position, row, letter, refusedBy>>

\* A replay appends what the dead letter keeps, when it can be decoded.
Replay ==
    /\ letter # None /\ row = None
    /\ Unmarshals(letter)
    /\ Appended(UnmarshalJSON(letter))
    /\ UNCHANGED <<event, letter, sent, received, refusedBy>>

Next ==
    \/ Construct \/ Fill \/ Append \/ Skip \/ Settle \/ Receive \/ Lose \/ Replay

Spec == Init /\ [][Next]_vars

-----------------------------------------------------------------------------
(* Properties *)

\* The event the producer built, with its data as JSON reads it, apart from the
\* position.
Same(e) ==
    WithStreamPosition(e, 0) = WithStreamPosition([event EXCEPT !.data = Compact(@)], 0)

\* The consumer reads the event that was built, unchanged by two encodings, the
\* stored form and any number of replays, at a position of the sequence.
DeliveredAsBuilt ==
    received # None => Same(received) /\ received.streamposition \in 1..position

\* The row and its envelope cannot disagree: an appended event is sent with the
\* position of its own row, a replayed one with that of the newest.
PositionOfRow ==
    /\ row # None => row.envelope.streamposition = row.sequence
    /\ sent # None => row # None /\ sent.streamposition = row.sequence

\* The dispatcher itself refuses nothing that Append has accepted, first or
\* replayed, and a dead letter can be decoded for a replay, unless the event's
\* time has a year that RFC 3339 cannot write.
AcceptedIsSendable ==
    "dispatcher" \in refusedBy \/ (letter # None /\ ~Unmarshals(letter)) => event.time > LastYear

\* "a producing system cannot emit a shape that does not conform": whatever
\* Append accepts can be sent.  Not so for a year beyond the last.
AppendedIsSendable == "dispatcher" \notin refusedBy

\* Validate "runs on construction": what New returns is valid.  Not so for a
\* Source or a Type that was converted from a string.
NewIsValid ==
    \A s \in Sources, t \in Types, at \in Years, d \in Data :
        NewAccepts(s, t, at, d) => Validate(New(s, t, at, d))

=============================================================================
