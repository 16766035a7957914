---------------------------- MODULE EventPathProofs ----------------------------
(***************************************************************************)
(* What becomes of an event: if it is refused, disposal and pruning leave  *)
(* what its incident needs, for any number of events and boundaries; it    *)
(* arrives as it was built for any number of positions and replays; its    *)
(* correlation is kept for any number of identifiers and hops; its delays  *)
(* saturate for integers of any size.                                      *)
(*                                                                         *)
(* No property is inductive alone.  Disposal only touches what was closed  *)
(* or waived (ReplayInv).  A prune that found victims saw no incident open *)
(* without a waiver, so an incident outside raced was closed when its      *)
(* snapshot was taken and its receipt is no victim (ReceiptInv).  A row, a *)
(* dead letter and a body each hold a JSON form of the event, which reads  *)
(* as the event at some position; a context and an event's metadata have   *)
(* the correlation of the request.                                         *)
(*                                                                         *)
(* A shift is a recursive function.  That it exists is proved (Iteration), *)
(* and what it computes follows by induction over a set of numbers         *)
(* (NumbersByInduction).                                                   *)
(***************************************************************************)
EXTENDS EventPath, DeadLetters, Sequences, WellFoundedInduction, TLAPS

-----------------------------------------------------------------------------
(* What is kept of an event that was refused, and of its delivery. *)

\* An incident that was never settled was neither closed nor waived.
ClosedIsSettled ==
  \A e \in Events \ settled : resolved_at[e] = 0 /\ waived_at[e] = 0

\* So disposal leaves it its payload.
ReplayInv == ClosedIsSettled /\ (incident \ settled) \subseteq payload

\* A prune that has victims began when every open incident was waived; an incident
\* that was open then, or opened since, is in raced.
SnapshotHolds ==
  /\ ~pruning => victims = {}
  /\ victims # {} => Unresolved \subseteq raced

\* Only a closure cites a receipt, and what an incident outside raced cites is
\* recorded and not about to be pruned.
ReceiptInv ==
  /\ \A e \in Events : resolved_at[e] = 0 => cites[e] = NoEvent
  /\ SnapshotHolds
  /\ \A e \in incident \ raced :
       cites[e] # NoEvent => recorded_at[cites[e]] # 0 /\ cites[e] \notin victims

\* The type of the variables.
LEMMA LettersTypeStep == TypeOK /\ [Next]_vars => TypeOK'
<1> SUFFICES ASSUME TypeOK, [Next]_vars PROVE TypeOK'
  OBVIOUS
<1> USE DeadLettersConstants DEF TypeOK, Times, letters, prune
<1>1. ASSUME NEW e \in Events, AppendEvent(e) PROVE TypeOK'
  BY <1>1 DEF AppendEvent
<1>2. ASSUME NEW e \in Events, Deliver(e) PROVE TypeOK'
  BY <1>2 DEF Deliver
<1>3. ASSUME NEW e \in Events, DeadLetter(e) PROVE TypeOK'
  BY <1>3 DEF DeadLetter
<1>4. ASSUME NEW e \in Events, Reopen(e) PROVE TypeOK'
  BY <1>4 DEF Reopen, Unresolved
<1>5. ASSUME NEW e \in Events, NEW r \in Events \cup {NoEvent}, Resolve(e, r)
      PROVE  TypeOK'
  BY <1>5 DEF Resolve, Unresolved
<1>6. ASSUME NEW e \in Events, NEW until \in 1..MaxTime + 1, Waive(e, until)
      PROVE  TypeOK'
  BY <1>6 DEF Waive, Unresolved
<1>7. ASSUME NEW before \in 1..now, DisposeResolvedDeadLetters(before)
      PROVE  TypeOK'
  BY <1>7 DEF DisposeResolvedDeadLetters
<1>8. ASSUME NEW before \in 1..now, PruneDeliveryReceipts(before)
      PROVE  TypeOK'
  BY <1>8 DEF PruneDeliveryReceipts, Unresolved
<1>9. CASE PruneCommit
  <2>1. recorded_at' \in [Events -> Times]
    <3>1. recorded_at' = [r \in Events |-> IF r \in victims THEN 0 ELSE recorded_at[r]]
      BY <1>9 DEF PruneCommit
    <3>2. ASSUME NEW r \in Events
          PROVE  (IF r \in victims THEN 0 ELSE recorded_at[r]) \in Times
      OBVIOUS
    <3> QED
      BY <3>1, <3>2
  <2> QED
    BY <1>9, <2>1, Zenon DEF PruneCommit
<1>10. CASE Tick
  BY <1>10 DEF Tick
<1>11. CASE UNCHANGED vars
  BY <1>11, Zenon DEF vars
<1> QED
  BY <1>1, <1>2, <1>3, <1>4, <1>5, <1>6, <1>7, <1>8, <1>9, <1>10, <1>11,
     Zenon DEF Next

\* Disposal reaches only what was closed or waived.
LEMMA ReplayStep == TypeOK /\ ReplayInv /\ [Next]_vars => ReplayInv'
<1> SUFFICES ASSUME TypeOK, ReplayInv, [Next]_vars PROVE ReplayInv'
  OBVIOUS
<1> USE DEF TypeOK, ReplayInv, ClosedIsSettled, letters, prune
<1>1. ASSUME NEW e \in Events, AppendEvent(e) PROVE ReplayInv'
  BY <1>1 DEF AppendEvent
<1>2. ASSUME NEW e \in Events, Deliver(e) PROVE ReplayInv'
  BY <1>2 DEF Deliver
<1>3. ASSUME NEW e \in Events, DeadLetter(e) PROVE ReplayInv'
  BY <1>3 DEF DeadLetter
<1>4. ASSUME NEW e \in Events, Reopen(e) PROVE ReplayInv'
  BY <1>4 DEF Reopen
<1>5. ASSUME NEW e \in Events, NEW r \in Events \cup {NoEvent}, Resolve(e, r)
      PROVE  ReplayInv'
  BY <1>5 DEF Resolve
<1>6. ASSUME NEW e \in Events, NEW until \in 1..MaxTime + 1, Waive(e, until)
      PROVE  ReplayInv'
  BY <1>6 DEF Waive
<1>7. ASSUME NEW before \in 1..now, DisposeResolvedDeadLetters(before)
      PROVE  ReplayInv'
  BY <1>7 DEF DisposeResolvedDeadLetters, Disposable
<1>8. ASSUME NEW before \in 1..now, PruneDeliveryReceipts(before) PROVE ReplayInv'
  BY <1>8 DEF PruneDeliveryReceipts
<1>9. CASE PruneCommit
  BY <1>9 DEF PruneCommit
<1>10. CASE Tick
  BY <1>10 DEF Tick
<1>11. CASE UNCHANGED vars
  BY <1>11, Zenon DEF vars
<1> QED
  BY <1>1, <1>2, <1>3, <1>4, <1>5, <1>6, <1>7, <1>8, <1>9, <1>10, <1>11,
     Zenon DEF Next

\* No step, and no other transaction beside a prune, breaks what its snapshot saw.
LEMMA ReceiptStep ==
  TypeOK /\ ReplayInv /\ ReceiptInv /\ [Next]_vars => ReceiptInv'
<1> SUFFICES ASSUME TypeOK, ReplayInv, ReceiptInv, [Next]_vars PROVE ReceiptInv'
  OBVIOUS
<1> USE DeadLettersConstants DEF TypeOK, ReceiptInv, SnapshotHolds, Unresolved,
            letters, prune, Times
<1>1. ASSUME NEW e \in Events, AppendEvent(e) PROVE ReceiptInv'
  BY <1>1 DEF AppendEvent
<1>2. ASSUME NEW e \in Events, Deliver(e) PROVE ReceiptInv'
  BY <1>2 DEF Deliver
<1>3. ASSUME NEW e \in Events, DeadLetter(e) PROVE ReceiptInv'
  BY <1>3 DEF DeadLetter, ReplayInv, ClosedIsSettled
<1>4. ASSUME NEW e \in Events, Reopen(e) PROVE ReceiptInv'
  BY <1>4 DEF Reopen
<1>5. ASSUME NEW e \in Events, NEW r \in Events \cup {NoEvent}, Resolve(e, r)
      PROVE  ReceiptInv'
  BY <1>5 DEF Resolve
<1>6. ASSUME NEW e \in Events, NEW until \in 1..MaxTime + 1, Waive(e, until)
      PROVE  ReceiptInv'
  BY <1>6 DEF Waive
<1>7. ASSUME NEW before \in 1..now, DisposeResolvedDeadLetters(before)
      PROVE  ReceiptInv'
  BY <1>7 DEF DisposeResolvedDeadLetters
<1>8. ASSUME NEW before \in 1..now, PruneDeliveryReceipts(before) PROVE ReceiptInv'
  BY <1>8 DEF PruneDeliveryReceipts, Prunable
<1>9. CASE PruneCommit
  BY <1>9 DEF PruneCommit
<1>10. CASE Tick
  BY <1>10 DEF Tick
<1>11. CASE UNCHANGED vars
  BY <1>11, Zenon DEF vars
<1> QED
  BY <1>1, <1>2, <1>3, <1>4, <1>5, <1>6, <1>7, <1>8, <1>9, <1>10, <1>11,
     Zenon DEF Next

\* Hence all of it holds in every state.
LEMMA LettersInvariant == Spec => [](TypeOK /\ ReplayInv /\ ReceiptInv)
<1>1. Init => TypeOK /\ ReplayInv /\ ReceiptInv
  <2> USE DeadLettersConstants
  <2> SUFFICES ASSUME Init PROVE TypeOK /\ ReplayInv /\ ReceiptInv
    OBVIOUS
  <2>1. TypeOK
    <3>1. 0 \in Times /\ 0 \in 0..MaxTime + 1 /\ 1 \in Times \ {0}
      BY DEF Times
    <3> QED
      BY <3>1, Zenon DEF Init, TypeOK
  <2>2. ReplayInv
    BY DEF Init, ReplayInv, ClosedIsSettled
  <2>3. ReceiptInv
    BY DEF Init, ReceiptInv, SnapshotHolds, Unresolved
  <2> QED
    BY <2>1, <2>2, <2>3
<1> QED
  BY <1>1, LettersTypeStep, ReceiptStep, ReplayStep, PTL DEF Spec

\* For any number of events, and whatever boundaries it is run with,
\* DisposeResolvedDeadLetters leaves an incident that was neither closed nor waived
\* the payload it is replayed from.
THEOREM OpenIncidentsReplay == Spec => []OpenIsReplayable
<1>1. TypeOK /\ ReplayInv => OpenIsReplayable
  BY DEF ReplayInv, OpenIsReplayable
<1> QED
  BY <1>1, LettersInvariant, PTL

\* For any number of events, PruneDeliveryReceipts keeps the receipt a closure cites
\* if the incident was open, and not waived, when the prune's statement began,
\* whatever commits between the statement's snapshot and its end.
THEOREM HeldClosuresKeepTheirReceipt == Spec => []HeldClosureKeepsReceipt
<1>1. ReceiptInv => HeldClosureKeepsReceipt
  BY DEF ReceiptInv, HeldClosureKeepsReceipt
<1> QED
  BY <1>1, LettersInvariant, PTL

-----------------------------------------------------------------------------
(* An event's envelope. *)

\* e has the members of an envelope and no other.
IsEnvelope(e) == e = [f \in Env!Members |-> e[f]]

\* What a reader of e at position p decodes.
ReadAt(e, p) ==
  [f \in Env!Members |-> IF f = "data" THEN Env!Compact(e.data)
                         ELSE IF f = "streamposition" THEN p ELSE e[f]]

\* The members of an envelope.
LEMMA MemberNames ==
  Env!Members = {"specversion", "id", "source", "type", "time", "datacontenttype", "dataschema",
                 "streamposition", "data"}
BY Zenon DEF Env!Members, Env!Zero

\* Reading changes the data's white space and the position, nothing else.
LEMMA ReadMembers ==
  ASSUME NEW e, NEW p
  PROVE  /\ IsEnvelope(ReadAt(e, p))
         /\ ReadAt(e, p).specversion = e.specversion /\ ReadAt(e, p).id = e.id
         /\ ReadAt(e, p).source = e.source /\ ReadAt(e, p).type = e.type
         /\ ReadAt(e, p).time = e.time
         /\ ReadAt(e, p).datacontenttype = e.datacontenttype
         /\ ReadAt(e, p).data = Env!Compact(e.data) /\ ReadAt(e, p).streamposition = p
BY MemberNames DEF ReadAt, IsEnvelope

\* Compacting twice is compacting once, and keeps JSON JSON.
LEMMA Compacted ==
  ASSUME NEW d
  PROVE  /\ Env!Compact(Env!Compact(d)) = Env!Compact(d)
         /\ Env!IsJSON(d) => Env!IsJSON(Env!Compact(d)) /\ Env!Compact(d) # ""
BY Zenon DEF Env!Compact, Env!IsJSON

\* An envelope that was read can be encoded and read again.
LEMMA ReadAgain ==
  ASSUME NEW e, NEW p, NEW q
  PROVE  /\ ReadAt(ReadAt(e, p), q) = ReadAt(e, q)
         /\ Env!WithStreamPosition(ReadAt(e, p), q) = ReadAt(e, q)
<1>1. \A f \in Env!Members : ReadAt(e, p)[f] = IF f = "data" THEN Env!Compact(e.data)
                         ELSE IF f = "streamposition" THEN p ELSE e[f]
  BY Zenon DEF ReadAt
<1>2. ReadAt(e, p).data = Env!Compact(e.data)
  BY ReadMembers
<1>3. ReadAt(ReadAt(e, p), q) = ReadAt(e, q)
  <2> SUFFICES ASSUME NEW f \in Env!Members
               PROVE  (IF f = "data" THEN Env!Compact(ReadAt(e, p).data)
                         ELSE IF f = "streamposition" THEN q ELSE ReadAt(e, p)[f]) =
                      (IF f = "data" THEN Env!Compact(e.data)
                         ELSE IF f = "streamposition" THEN q ELSE e[f])
    BY DEF ReadAt
  <2> QED
    BY <1>1, <1>2, Compacted, Zenon
<1>4. Env!WithStreamPosition(ReadAt(e, p), q) = ReadAt(e, q)
  BY MemberNames, Zenon DEF Env!WithStreamPosition, ReadAt
<1> QED
  BY <1>3, <1>4

\* What Append accepts is valid when it is read back.
LEMMA ReadValid ==
  ASSUME NEW e, Env!Validate(e), Env!IsJSON(e.data), NEW p \in Nat \ {0}
  PROVE  /\ Env!ValidatePublished(ReadAt(e, p)) /\ Env!Validate(ReadAt(e, p))
         /\ Env!Marshals(ReadAt(e, p))
<1>1. p >= 0 /\ p # 0
  OBVIOUS
<1> DEFINE a == ReadAt(e, p)
<1>2. /\ a.specversion = e.specversion /\ a.id = e.id /\ a.source = e.source /\ a.type = e.type
      /\ a.time = e.time /\ a.datacontenttype = e.datacontenttype
      /\ a.data = Env!Compact(e.data) /\ a.streamposition = p
  BY ReadMembers
<1>3. Env!IsJSON(Env!Compact(e.data)) /\ Env!Compact(e.data) # ""
  BY Compacted, Zenon
<1> HIDE DEF a
<1>4. a.data # "" /\ a.streamposition >= 0 /\ a.streamposition # 0 /\ Env!IsJSON(a.data)
  BY <1>1, <1>2, <1>3, Zenon
<1>5. Env!Validate(a)
  BY <1>2, <1>4, Zenon DEF Env!Validate
<1> QED
  BY <1>4, <1>5, Zenon DEF Env!ValidatePublished, Env!Marshals, a

\* MarshalJSON and back: omitted members come back as the zero they were.
LEMMA RoundTrip ==
  ASSUME NEW e, IsEnvelope(e)
  PROVE  /\ Env!Decoded(Env!MarshalJSON(e)) = ReadAt(e, e.streamposition)
         /\ Env!MarshalJSON(e).time = e.time
         /\ e.streamposition # 0 => Env!MarshalJSON(e).streamposition = e.streamposition
<1> DEFINE w == Env!MarshalJSON(e)
<1>1. /\ Env!Omitted(e) \subseteq {"dataschema", "streamposition"}
      /\ \A f \in Env!Omitted(e) : e[f] = Env!Zero[f]
  BY DEF Env!Omitted
<1>2. DOMAIN w = Env!Members \ Env!Omitted(e)
  BY DEF Env!MarshalJSON
<1>3. \A f \in Env!Members \ Env!Omitted(e) : w[f] = IF f = "data" THEN Env!Compact(e.data) ELSE e[f]
  BY DEF Env!MarshalJSON
<1>4. e.streamposition # 0 => "streamposition" \notin Env!Omitted(e)
  BY Zenon DEF Env!Omitted, Env!Zero
<1> HIDE DEF w
<1>5. ASSUME NEW f \in Env!Members
      PROVE  (IF f \in DOMAIN w THEN w[f] ELSE Env!Zero[f]) =
             (IF f = "data" THEN Env!Compact(e.data)
              ELSE IF f = "streamposition" THEN e.streamposition ELSE e[f])
  BY <1>1, <1>2, <1>3
<1>6. Env!Decoded(w) = ReadAt(e, e.streamposition)
  BY <1>5, Zenon DEF Env!Decoded, ReadAt
<1> QED
  BY <1>1, <1>3, <1>4, <1>6, MemberNames DEF w

\* The same through jsonb_set, with the position of the row.
LEMMA PositionedForm ==
  ASSUME NEW e, IsEnvelope(e), NEW p
  PROVE  LET w == Env!Positioned(Env!MarshalJSON(e), p) IN
         Env!Decoded(w) = ReadAt(e, p) /\ w.time = e.time /\ w.streamposition = p
<1> DEFINE v == Env!MarshalJSON(e)
           w == Env!Positioned(v, p)
<1>1. /\ Env!Omitted(e) \subseteq {"dataschema", "streamposition"}
      /\ \A f \in Env!Omitted(e) : e[f] = Env!Zero[f]
  BY DEF Env!Omitted
<1>2. DOMAIN v = Env!Members \ Env!Omitted(e)
  BY DEF Env!MarshalJSON
<1>3. \A f \in Env!Members \ Env!Omitted(e) : v[f] = IF f = "data" THEN Env!Compact(e.data) ELSE e[f]
  BY DEF Env!MarshalJSON
<1> HIDE DEF v
<1>4. DOMAIN w = DOMAIN v \cup {"streamposition"}
  BY DEF Env!Positioned
<1>5. w["streamposition"] = p /\ \A f \in DOMAIN v : f # "streamposition" => w[f] = v[f]
  BY DEF Env!Positioned
<1> HIDE DEF w
<1>6. ASSUME NEW f \in Env!Members
      PROVE  (IF f \in DOMAIN w THEN w[f] ELSE Env!Zero[f]) =
             (IF f = "data" THEN Env!Compact(e.data) ELSE IF f = "streamposition" THEN p ELSE e[f])
  BY <1>1, <1>2, <1>3, <1>4, <1>5
<1>7. Env!Decoded(w) = ReadAt(e, p)
  BY <1>6, Zenon DEF Env!Decoded, ReadAt
<1>8. w.time = e.time /\ w.streamposition = p
  BY <1>1, <1>2, <1>3, <1>5, MemberNames
<1> QED
  BY <1>7, <1>8 DEF v, w

\* w is a JSON form of the event e at position p, of those up to n.
Stored(e, n, w, p) ==
  /\ p \in 1..n
  /\ Env!Validate(e) /\ Env!IsJSON(e.data)
  /\ Env!Decoded(w) = ReadAt(e, p) /\ w.time = e.time /\ w.streamposition = p

\* The inductive invariant of an event's way.
EnvInv ==
  /\ position \in Nat
  /\ event # NoEnvelope => IsEnvelope(event) /\ event.time \in Int
  /\ event = NoEnvelope => row = NoEnvelope /\ letter = NoEnvelope /\ sent = NoEnvelope /\ received = NoEnvelope /\ refusedBy = {}
  /\ row # NoEnvelope => Stored(event, position, row.envelope, row.sequence)
  /\ letter # NoEnvelope => \E p \in 1..position : Stored(event, position, letter, p)
  /\ sent # NoEnvelope => row # NoEnvelope /\ Stored(event, position, sent, row.sequence)
  /\ received # NoEnvelope => \E p \in 1..position : received = ReadAt(event, p)
  /\ "dispatcher" \in refusedBy => event.time > LastYear

\* A stored form stays one when the sequence advances.
LEMMA StoredLater ==
  ASSUME NEW n \in Nat, NEW e
  PROVE  /\ 1..n \subseteq 1..(n + 1)
         /\ \A w, p : Stored(e, n, w, p) => Stored(e, n + 1, w, p)
<1>1. 1..n \subseteq 1..(n + 1)
  OBVIOUS
<1> QED
  BY <1>1, Zenon DEF Stored

\* A stored form can be decoded, unless its year cannot be written.
LEMMA StoredReads ==
  ASSUME NEW e, e.time \in Int, NEW n \in Nat, NEW w, NEW p, Stored(e, n, w, p)
  PROVE  /\ Env!Validate(Env!Decoded(w)) /\ Env!ValidatePublished(Env!Decoded(w))
         /\ Env!Unmarshals(w) \/ e.time > LastYear
<1>1. p \in Nat \ {0} /\ Env!Validate(e) /\ Env!IsJSON(e.data)
  BY DEF Stored
<1>2. Env!Decoded(w) = ReadAt(e, p) /\ w.time = e.time
  BY Zenon DEF Stored
<1>3. Env!Validate(ReadAt(e, p)) /\ Env!ValidatePublished(ReadAt(e, p))
  BY <1>1, ReadValid
<1>4. (w.time <= LastYear) <=> ~(e.time > LastYear)
  BY <1>2, EventConstants
<1> QED
  BY <1>2, <1>3, <1>4, Zenon DEF Env!Unmarshals

\* Setting a member of an envelope leaves it an envelope.
LEMMA NewEvents ==
  ASSUME NEW e, IsEnvelope(e), NEW f \in Env!Members, NEW v
  PROVE  /\ IsEnvelope([e EXCEPT ![f] = v])
         /\ [e EXCEPT ![f] = v].time = IF f = "time" THEN v ELSE e.time
BY MemberNames DEF IsEnvelope

\* New makes an envelope with the time it is given.
LEMMA NewIsEnvelope ==
  ASSUME NEW s, NEW t, NEW at, NEW d
  PROVE  IsEnvelope(Env!New(s, t, at, d)) /\ Env!New(s, t, at, d).time = at
BY MemberNames, Zenon DEF IsEnvelope, Env!New, Env!Zero

\* The producer's event is the first thing there is.
LEMMA EventMade ==
  ASSUME EnvInv, event = NoEnvelope, UNCHANGED <<position, row, letter, sent, received, refusedBy>>,
         IsEnvelope(event'), event'.time \in Int
  PROVE  EnvInv'
BY DEF EnvInv

\* One lemma per step of the way: the producer builds the event, ...
LEMMA ConstructKeeps == ASSUME EnvInv, Env!Construct PROVE EnvInv'
<1>1. PICK s \in Env!Sources, t \in Env!Types, at \in Env!Years, d \in Env!Data, uri \in Env!Schemas :
         event' = Env!WithSchema(Env!New(s, t, at, d), uri)
  BY Zenon DEF Env!Construct
<1>2. at \in Int
  BY DEF Env!Years
<1>3. event' = [Env!New(s, t, at, d) EXCEPT !["dataschema"] = uri]
  BY <1>1 DEF Env!WithSchema
<1>4. IsEnvelope(event') /\ event'.time = at
  <2> DEFINE e == Env!New(s, t, at, d)
  <2>1. IsEnvelope(e) /\ e.time = at
    BY NewIsEnvelope
  <2>2. PICK f \in Env!Members : event' = [e EXCEPT ![f] = uri] /\ f # "time"
    BY <1>3, MemberNames
  <2> HIDE DEF e
  <2> QED
    BY <2>1, <2>2, NewEvents, Zenon
<1> QED
  BY <1>2, <1>4, EventMade, Zenon DEF Env!Construct

\* ... or fills it in itself, ...
LEMMA FillKeeps == ASSUME EnvInv, Env!Fill PROVE EnvInv'
<1>1. PICK s, t, c :
        LET e == Env!New(s, t, LastYear, c) IN
        \/ \E f \in Env!Members : event' = [e EXCEPT ![f] = Env!Zero[f]]
        \/ \E p \in {-1, 2} : event' = Env!WithStreamPosition(e, p)
        \/ \E d \in Env!Data : event' = [e EXCEPT !.data = d]
  BY Zenon DEF Env!Fill
<1> DEFINE e == Env!New(s, t, LastYear, c)
<1>2. IsEnvelope(e) /\ e.time = LastYear
  BY NewIsEnvelope
<1> HIDE DEF e
<1>3. Env!Zero.time = 0
  BY DEF Env!Zero
<1>4. \E f, v : f \in Env!Members /\ event' = [e EXCEPT ![f] = v] /\ (f = "time" => v = 0)
  BY <1>1, <1>3, MemberNames DEF e, Env!WithStreamPosition
<1>5. IsEnvelope(event') /\ event'.time \in Int
  <2>1. PICK f, v : f \in Env!Members /\ event' = [e EXCEPT ![f] = v] /\ (f = "time" => v = 0)
    BY <1>4, Zenon
  <2>2. IsEnvelope(event') /\ event'.time = IF f = "time" THEN v ELSE e.time
    BY <1>2, <2>1, NewEvents, Zenon
  <2> QED
    BY <1>2, <2>1, <2>2, EventConstants
<1> QED
  BY <1>5, EventMade, Zenon DEF Env!Fill

\* ... its row is appended, from the event or from what was read of it, ...
LEMMA AppendedKeeps ==
  ASSUME EnvInv, event # NoEnvelope, row = NoEnvelope, NEW e, IsEnvelope(e), Env!Appended(e),
         e.time = event.time, \A p : ReadAt(e, p) = ReadAt(event, p),
         Env!Validate(event), Env!IsJSON(event.data),
         UNCHANGED <<event, letter, sent, received, refusedBy>>
  PROVE  EnvInv'
<1> DEFINE n == position + 1
           w == Env!Positioned(Env!MarshalJSON(e), n)
<1>1. position \in Nat /\ n \in 1..n /\ n \in Nat /\ 1..position \subseteq 1..n
  BY DEF EnvInv
<1>2. position' = n /\ row' = [sequence |-> n, envelope |-> w]
  BY Zenon DEF Env!Appended
<1>3. Env!Decoded(w) = ReadAt(event, n) /\ w.time = event.time /\ w.streamposition = n
  BY PositionedForm, Zenon
<1> HIDE DEF w
<1>4. row'.sequence = n /\ row'.envelope = w
  BY <1>2
<1>5. Stored(event, n, row'.envelope, row'.sequence)
  BY <1>1, <1>3, <1>4, Zenon DEF Stored
<1>6. \A v, p : Stored(event, position, v, p) => Stored(event, n, v, p)
  BY <1>1, StoredLater
<1>7. sent = NoEnvelope
  BY DEF EnvInv
<1> HIDE DEF n
<1> QED
  BY <1>1, <1>2, <1>5, <1>6, <1>7, Zenon DEF EnvInv

\* ... the first time ...
LEMMA AppendKeeps == ASSUME EnvInv, Env!Append PROVE EnvInv'
<1>1. /\ Env!Validate(event) /\ Env!IsJSON(event.data) /\ Env!Appended(event) /\ event # NoEnvelope
      /\ row = NoEnvelope
  BY Zenon DEF Env!Append, Env!Appended, Env!Marshals
<1>2. IsEnvelope(event)
  BY <1>1 DEF EnvInv
<1>3. UNCHANGED <<event, letter, sent, received, refusedBy>>
  BY Zenon DEF Env!Append
<1> QED
  BY <1>1, <1>2, <1>3, AppendedKeeps, Zenon

\* ... or from the dead letter, ...
LEMMA ReplayKeeps == ASSUME EnvInv, Env!Replay PROVE EnvInv'
<1>1. /\ letter # NoEnvelope /\ row = NoEnvelope /\ Env!Appended(Env!Decoded(letter))
      /\ UNCHANGED <<event, letter, sent, received, refusedBy>>
  BY Zenon DEF Env!Replay, Env!UnmarshalJSON
<1>2. event # NoEnvelope
  BY <1>1 DEF EnvInv
<1>3. PICK q : Stored(event, position, letter, q)
  BY <1>1, Zenon DEF EnvInv
<1>4. Env!Validate(event) /\ Env!IsJSON(event.data) /\ Env!Decoded(letter) = ReadAt(event, q)
  BY <1>3, Zenon DEF Stored
<1>5. /\ IsEnvelope(ReadAt(event, q)) /\ ReadAt(event, q).time = event.time
      /\ \A p : ReadAt(ReadAt(event, q), p) = ReadAt(event, p)
  BY ReadMembers, ReadAgain
<1>6. Env!Appended(ReadAt(event, q))
  BY <1>1, <1>4, Zenon
<1> QED
  BY <1>1, <1>2, <1>4, <1>5, <1>6, AppendedKeeps, Zenon

\* ... others take positions, ...
LEMMA SkipKeeps == ASSUME EnvInv, Env!Skip PROVE EnvInv'
<1>1. /\ position \in Nat /\ position' = position + 1 /\ position + 1 \in Nat
      /\ UNCHANGED <<event, row, letter, sent, received, refusedBy>>
  BY DEF EnvInv, Env!Skip
<1>2. /\ 1..position \subseteq 1..(position + 1)
      /\ \A v, p : Stored(event, position, v, p) => Stored(event, position + 1, v, p)
  BY <1>1, StoredLater, Zenon
<1> QED
  BY <1>1, <1>2, Zenon DEF EnvInv

\* The row is taken away and a refusal recorded.
LEMMA RefusedKeeps ==
  ASSUME EnvInv, row # NoEnvelope, NEW by, Env!Refused(by), by = "dispatcher" => event.time > LastYear,
         sent' = NoEnvelope, UNCHANGED <<event, position, received>>
  PROVE  EnvInv'
<1>1. Stored(event, position, row.envelope, row.sequence) /\ event # NoEnvelope
  BY DEF EnvInv
<1>2. row.sequence \in 1..position
  BY <1>1, Zenon DEF Stored
<1>3. letter' # NoEnvelope => \E p \in 1..position : Stored(event, position, letter', p)
  BY <1>1, <1>2, Zenon DEF EnvInv, Env!Refused
<1>4. row' = NoEnvelope /\ refusedBy' = refusedBy \cup {by}
  BY Zenon DEF Env!Refused
<1>5. "dispatcher" \in refusedBy' => event.time > LastYear
  BY <1>4 DEF EnvInv
<1> QED
  BY <1>1, <1>3, <1>4, <1>5, Zenon DEF EnvInv

\* ... the dispatcher sends it, or refuses a year it cannot read, ...
LEMMA SettleKeeps == ASSUME EnvInv, Env!Settle PROVE EnvInv'
<1> DEFINE p == row.sequence
           a == ReadAt(event, p)
<1>1. row # NoEnvelope /\ sent = NoEnvelope /\ event # NoEnvelope /\ Stored(event, position, row.envelope, p)
  BY DEF EnvInv, Env!Settle
<1>2. IsEnvelope(event) /\ event.time \in Int /\ position \in Nat
  BY <1>1 DEF EnvInv
<1>3. /\ Env!Decoded(row.envelope) = a /\ Env!Validate(event) /\ Env!IsJSON(event.data)
      /\ p \in 1..position
  BY <1>1, Zenon DEF Stored
<1>4. /\ Env!WithStreamPosition(a, p) = a /\ a.streamposition = p /\ a.time = event.time
      /\ IsEnvelope(a)
  BY ReadAgain, ReadMembers
<1>5. p \in Nat \ {0}
  BY <1>2, <1>3
<1>6. Env!ValidatePublished(a) /\ Env!Validate(a) /\ Env!Marshals(a)
  BY <1>3, <1>5, ReadValid
<1>7. Env!Unmarshals(row.envelope) \/ event.time > LastYear
  BY <1>1, <1>2, StoredReads
<1>8. \/ sent' = Env!MarshalJSON(a) /\ UNCHANGED <<row, letter, refusedBy>>
      \/ Env!Refused("dispatcher") /\ UNCHANGED sent /\ event.time > LastYear
  <2> HIDE DEF a, p
  <2>1. p \in {0, p}
    OBVIOUS
  <2> QED
    BY <1>3, <1>4, <1>6, <1>7, <2>1, Zenon DEF Env!Settle, Env!Publishable, Env!UnmarshalJSON, p
<1>9. UNCHANGED <<event, position, received>>
  BY Zenon DEF Env!Settle
<1>10. CASE sent' = Env!MarshalJSON(a) /\ UNCHANGED <<row, letter, refusedBy>>
  <2>1. Env!Decoded(sent') = ReadAt(a, p) /\ sent'.time = event.time /\ sent'.streamposition = p
    BY <1>4, <1>5, <1>10, RoundTrip
  <2>2. ReadAt(a, p) = ReadAt(event, p)
    BY ReadAgain
  <2>3. Stored(event, position, sent', p)
    BY <1>3, <2>1, <2>2, Zenon DEF Stored
  <2> QED
    BY <1>1, <1>9, <1>10, <2>3, Zenon DEF EnvInv
<1>11. CASE Env!Refused("dispatcher") /\ UNCHANGED sent /\ event.time > LastYear
  BY <1>1, <1>9, <1>11, RefusedKeeps
<1> QED
  BY <1>8, <1>10, <1>11, Zenon

\* ... the consumer takes it or refuses it, ...
LEMMA ReceiveKeeps == ASSUME EnvInv, Env!Receive PROVE EnvInv'
<1>1. sent # NoEnvelope /\ sent' = NoEnvelope /\ UNCHANGED <<event, position>>
  BY Zenon DEF Env!Receive
<1>2. row # NoEnvelope /\ Stored(event, position, sent, row.sequence)
  BY <1>1, Zenon DEF EnvInv
<1>3. Env!Decoded(sent) = ReadAt(event, row.sequence) /\ row.sequence \in 1..position
  BY <1>2, Zenon DEF Stored
<1>4. \/ received' = Env!Decoded(sent) /\ row' = NoEnvelope /\ UNCHANGED <<letter, refusedBy>>
      \/ Env!Refused("consumer") /\ UNCHANGED received
  BY Zenon DEF Env!Receive, Env!UnmarshalJSON
<1>5. CASE received' = Env!Decoded(sent) /\ row' = NoEnvelope /\ UNCHANGED <<letter, refusedBy>>
  BY <1>1, <1>2, <1>3, <1>5, Zenon DEF EnvInv
<1>6. CASE Env!Refused("consumer") /\ UNCHANGED received
  BY <1>1, <1>2, <1>6, RefusedKeeps
<1> QED
  BY <1>4, <1>5, <1>6, Zenon

\* ... and a request or its answer is lost.
LEMMA LoseKeeps == ASSUME EnvInv, Env!Lose PROVE EnvInv'
<1>1. sent # NoEnvelope /\ sent' = NoEnvelope /\ UNCHANGED <<event, position, row, letter, refusedBy>>
  BY Zenon DEF Env!Lose
<1>2. row # NoEnvelope /\ Stored(event, position, sent, row.sequence)
  BY <1>1, Zenon DEF EnvInv
<1>3. Env!Decoded(sent) = ReadAt(event, row.sequence) /\ row.sequence \in 1..position
  BY <1>2, Zenon DEF Stored
<1>4. received' = received \/ received' = Env!Decoded(sent)
  BY Zenon DEF Env!Lose, Env!UnmarshalJSON
<1> QED
  BY <1>1, <1>2, <1>3, <1>4, Zenon DEF EnvInv

\* Every step preserves the invariant.
LEMMA EnvStep == EnvInv /\ [Env!Next]_Env!vars => EnvInv'
<1>1. ASSUME EnvInv, UNCHANGED Env!vars
      PROVE  EnvInv'
  BY <1>1, Zenon DEF EnvInv, Env!vars
<1> QED
  BY <1>1, ConstructKeeps, FillKeeps, AppendKeeps, SkipKeeps, SettleKeeps, ReceiveKeeps,
     LoseKeeps, ReplayKeeps,
     Zenon DEF Env!Next

\* The invariant gives what the run checks.
LEMMA EnvConcludes == EnvInv => Env!DeliveredAsBuilt /\ Env!PositionOfRow /\ Env!AcceptedIsSendable
<1> SUFFICES ASSUME EnvInv
             PROVE  Env!DeliveredAsBuilt /\ Env!PositionOfRow /\ Env!AcceptedIsSendable
  OBVIOUS
<1>1. ASSUME received # NoEnvelope
      PROVE  Env!Same(received) /\ received.streamposition \in 1..position
  <2>1. PICK p \in 1..position : received = ReadAt(event, p)
    BY <1>1, Zenon DEF EnvInv
  <2>2. IsEnvelope(event)
    BY <1>1, Zenon DEF EnvInv
  <2>3. Env!WithStreamPosition(received, 0) = ReadAt(event, 0)
    BY <2>1, ReadAgain
  <2>4. Env!WithStreamPosition([event EXCEPT !.data = Env!Compact(@)], 0) = ReadAt(event, 0)
    BY <2>2, MemberNames, Zenon DEF IsEnvelope, Env!WithStreamPosition, ReadAt
  <2>5. received.streamposition = p
    BY <2>1, ReadMembers
  <2> QED
    BY <2>3, <2>4, <2>5, Zenon DEF Env!Same
<1>2. Env!PositionOfRow
  BY Zenon DEF EnvInv, Stored, Env!PositionOfRow
<1>3. ASSUME letter # NoEnvelope, ~Env!Unmarshals(letter)
      PROVE  event.time > LastYear
  <2>1. PICK p : Stored(event, position, letter, p)
    BY <1>3, Zenon DEF EnvInv
  <2>2. event.time \in Int /\ position \in Nat
    BY <1>3, Zenon DEF EnvInv
  <2> QED
    BY <1>3, <2>1, <2>2, StoredReads
<1>4. Env!AcceptedIsSendable
  BY <1>3, Zenon DEF EnvInv, Env!AcceptedIsSendable
<1> QED
  BY <1>1, <1>2, <1>4, Zenon DEF Env!DeliveredAsBuilt

\* The invariant holds at the start.
LEMMA EnvStart == Env!Init => EnvInv
BY DEF Env!Init, EnvInv

-----------------------------------------------------------------------------
(* The correlation of a chain of work. *)

\* The identifiers of a context and of metadata.
Identifiers == [correlation : Int, causation : Int]

\* The inductive invariant of a chain of work.
CorrInv ==
  /\ ids \in Nat
  /\ ctx \in Identifiers /\ metadata \in Identifiers
  /\ header \in Int /\ origin \in Int
  /\ place = "outside" => origin = Corr!Nil
  /\ Corr!OneCorrelation

\* Restoring metadata that decodes gives the context its correlation, whatever cause is
\* named.
LEMMA Restored ==
  ASSUME NEW c \in Identifiers, NEW m \in Identifiers, Corr!Decodes(m), NEW i \in Int
  PROVE  /\ Corr!ContextWithMetadata(c, m) \in Identifiers
         /\ Corr!ContextWithMetadata(c, m).correlation = m.correlation
         /\ Corr!WithCausationID(Corr!ContextWithMetadata(c, m), i) \in Identifiers
         /\ Corr!WithCausationID(Corr!ContextWithMetadata(c, m), i).correlation = m.correlation
<1>1. ASSUME NEW d \in Identifiers, NEW j \in Int
      PROVE  /\ Corr!WithCausationID(d, j) \in Identifiers
             /\ Corr!WithCausationID(d, j).correlation = d.correlation
  BY DEF Corr!WithCausationID, Identifiers
<1>2. /\ Corr!WithCorrelationID(c, m.correlation) \in Identifiers
      /\ Corr!WithCorrelationID(c, m.correlation).correlation = m.correlation
  BY DEF Corr!WithCorrelationID, Identifiers, Corr!Decodes
<1>3. m.causation \in Int
  BY DEF Identifiers
<1> QED
  BY <1>1, <1>2, <1>3 DEF Corr!ContextWithMetadata

\* So a handler's context has the correlation of the event.
LEMMA RestoredContext ==
  ASSUME CorrInv, Corr!Restore
  PROVE  ctx' \in Identifiers /\ ctx'.correlation = metadata.correlation
<1>1. ids + 1 \in Int /\ ctx \in Identifiers /\ metadata \in Identifiers /\ Corr!Decodes(metadata)
  BY DEF CorrInv, Corr!Restore
<1>2. /\ Corr!ContextWithMetadata(ctx, metadata) \in Identifiers
      /\ Corr!ContextWithMetadata(ctx, metadata).correlation = metadata.correlation
      /\ Corr!WithCausationID(Corr!ContextWithMetadata(ctx, metadata), ids + 1) \in Identifiers
      /\ Corr!WithCausationID(Corr!ContextWithMetadata(ctx, metadata), ids + 1).correlation = metadata.correlation
  BY <1>1, Restored
<1>3. \/ ctx' = Corr!ContextWithMetadata(ctx, metadata)
      \/ ctx' = Corr!WithCausationID(Corr!ContextWithMetadata(ctx, metadata), ids + 1)
  BY Zenon DEF Corr!Restore
<1> QED
  BY <1>2, <1>3, Zenon

\* Every step preserves the invariant.
LEMMA CorrStep == CorrInv /\ [Corr!Next]_Corr!vars => CorrInv'
<1> SUFFICES ASSUME CorrInv, [Corr!Next]_Corr!vars
             PROVE  CorrInv'
  OBVIOUS
<1> USE EventConstants DEF CorrInv, Identifiers, Corr!OneCorrelation, Corr!Nil, Corr!Empty
<1>1. CASE Corr!Request
  BY <1>1 DEF Corr!Request, Corr!EnsureCorrelation, Corr!WithCorrelationID, Corr!Malformed
<1>2. CASE Corr!Job
  BY <1>2 DEF Corr!Job
<1>3. CASE Corr!Emit
  BY <1>3 DEF Corr!Emit, Corr!MetadataFromContext
<1>4. CASE Corr!Publish
  BY <1>4 DEF Corr!Publish, Corr!CorrelationOf
<1>5. CASE Corr!Deliver
  BY <1>5 DEF Corr!Deliver, Corr!EnsureCorrelation, Corr!WithCorrelationID, Corr!Malformed
<1>6. CASE Corr!Restore
  BY <1>6, RestoredContext DEF Corr!Restore
<1>7. CASE Corr!Refuse
  BY <1>7 DEF Corr!Refuse, Corr!Decodes
<1>8. CASE UNCHANGED Corr!vars
  BY <1>8 DEF Corr!vars
<1> QED
  BY <1>1, <1>2, <1>3, <1>4, <1>5, <1>6, <1>7, <1>8, Zenon DEF Corr!Next

\* The invariant holds at the start.
LEMMA CorrStart == Corr!Init => CorrInv
BY EventConstants DEF Corr!Init, CorrInv, Identifiers, Corr!OneCorrelation, Corr!Nil, Corr!Empty

\* For any number of positions, replays and hops: the consumer reads the event that was
\* built at the position of its row, the dispatcher refuses nothing Append accepted, and
\* the work it causes keeps its correlation.
THEOREM EventsKept == Env!Spec /\ Corr!Spec => []EventsCarried
<1>1. EnvInv /\ CorrInv => EventsCarried
  BY EnvConcludes, Zenon DEF CorrInv, EventsCarried
<1> QED
  BY <1>1, EnvStart, EnvStep, CorrStart, CorrStep, PTL DEF Env!Spec, Corr!Spec

-----------------------------------------------------------------------------
(* Recursive functions *)

\* A set that holds zero, and with a number its successor, holds every number.
LEMMA NumbersByInduction ==
  ASSUME NEW T, 0 \in T, \A n \in Nat : n \in T => n + 1 \in T
  PROVE  Nat \subseteq T
<1>. SUFFICES ASSUME NEW k \in Nat \ T PROVE FALSE
  OBVIOUS
<1>1. PICK n \in Nat \ T : \A y \in Nat \ T : ~(<<y, n>> \in OpToRel(<, Nat))
  BY WFMin, NatLessThanWellFounded, Zenon
<1>2. \A y \in Nat \ T : ~(y < n)
  BY <1>1, Zenon DEF OpToRel
<1>3. n # 0
  OBVIOUS
<1>4. n - 1 \in Nat /\ n - 1 < n /\ (n - 1) + 1 = n
  BY <1>3
<1> QED
  BY <1>2, <1>4, Zenon

\* g iterates a step on S, from x.
Iterates(g, S, x, step) ==
  /\ g \in [Nat -> S]
  /\ g[0] = x
  /\ \A n \in Nat : g[n + 1] = step[g[n]]

\* A step that stays in a set can be iterated: the recursive function that does
\* so exists.
LEMMA Iteration ==
  ASSUME NEW S, NEW x \in S, NEW step \in [S -> S]
  PROVE  \E g : Iterates(g, S, x, step)
<1>. DEFINE Orbit(h, n) == /\ h \in [0..n -> S]
                           /\ h[0] = x
                           /\ \A i \in 1..n : h[i] = step[h[i - 1]]
            g == [n \in Nat |-> (CHOOSE h : Orbit(h, n))[n]]
<1>1. \A n \in Nat : \E h : Orbit(h, n)
  <2>. DEFINE T == {n \in Nat : \E h : Orbit(h, n)}
  <2>1. 0 \in T
    <3>1. Orbit([i \in 0..0 |-> x], 0)
      OBVIOUS
    <3> QED
      BY <3>1, Zenon
  <2>2. ASSUME NEW n \in Nat, NEW h, Orbit(h, n)
        PROVE  Orbit([i \in 0..(n + 1) |-> IF i = n + 1 THEN step[h[n]] ELSE h[i]], n + 1)
    BY <2>2
  <2>. HIDE DEF Orbit
  <2>3. \A n \in Nat : n \in T => n + 1 \in T
    <3>. SUFFICES ASSUME NEW n \in Nat, n \in T PROVE n + 1 \in T
      BY Zenon
    <3>1. PICK h : Orbit(h, n)
      BY Zenon
    <3>2. \E k : Orbit(k, n + 1)
      BY <3>1, <2>2, Zenon
    <3>3. n + 1 \in Nat
      OBVIOUS
    <3> QED
      BY <3>2, <3>3, Zenon
  <2>. HIDE DEF T
  <2>4. Nat \subseteq T
    BY <2>1, <2>3, NumbersByInduction, Zenon
  <2> QED
    BY <2>4, Zenon DEF T
<1>2. ASSUME NEW m \in Nat, NEW h, NEW k, Orbit(h, m), Orbit(k, m + 1)
      PROVE  h[m] = k[m]
  <2>. DEFINE T == {i \in Nat : i <= m => h[i] = k[i]}
  <2>1. 0 \in T
    BY <1>2
  <2>2. \A n \in Nat : n \in T => n + 1 \in T
    BY <1>2
  <2>. HIDE DEF T
  <2>3. Nat \subseteq T
    BY <2>1, <2>2, NumbersByInduction, Zenon
  <2> QED
    BY <2>3 DEF T
<1>. HIDE DEF Orbit
<1>3. \A n \in Nat : Orbit(CHOOSE h : Orbit(h, n), n)
  BY <1>1, Zenon
<1>4. g \in [Nat -> S]
  <2>1. \A n \in Nat : n \in 0..n
    OBVIOUS
  <2> QED
    BY <1>3, <2>1, Zenon DEF Orbit
<1>5. g[0] = x
  BY <1>3, Zenon DEF Orbit
<1>6. ASSUME NEW n \in Nat PROVE g[n + 1] = step[g[n]]
  <2>. DEFINE h == CHOOSE h : Orbit(h, n)
              k == CHOOSE k : Orbit(k, n + 1)
  <2>1. Orbit(h, n) /\ Orbit(k, n + 1)
    BY <1>3
  <2>2. h[n] = k[n]
    BY <2>1, <1>2, Zenon
  <2>3. k[n + 1] = step[k[n]]
    <3>. HIDE DEF h, k
    <3> QED
      BY <2>1 DEF Orbit
  <2>4. g[n] = h[n] /\ g[n + 1] = k[n + 1]
    <3>1. n + 1 \in Nat
      OBVIOUS
    <3> QED
      BY <3>1, Zenon
  <2> QED
    BY <2>2, <2>3, <2>4, Zenon
<1>. HIDE DEF g
<1> QED
  BY <1>4, <1>5, <1>6, Zenon DEF Iterates

-----------------------------------------------------------------------------
(* The delays of a retry and of an empty poll *)

\* A number doubled again and again.
LEMMA Doubling ==
  ASSUME NEW b \in Int
  PROVE  /\ Retry!Doubled(b, 0) = b
         /\ \A n \in Nat : /\ Retry!Doubled(b, n) \in Int
                           /\ Retry!Doubled(b, n + 1) = 2 * Retry!Doubled(b, n)
<1>. DEFINE double == CHOOSE double : double = [i \in Nat |-> IF i = 0 THEN b ELSE 2 * double[i - 1]]
            step == [d \in Int |-> 2 * d]
<1>1. step \in [Int -> Int]
  OBVIOUS
<1>2. \A d \in Int : step[d] = 2 * d
  OBVIOUS
<1>. HIDE DEF step
<1>3. PICK g : Iterates(g, Int, b, step)
  BY <1>1, Iteration, Zenon
<1>4. g = [i \in Nat |-> IF i = 0 THEN b ELSE 2 * g[i - 1]]
  <2>1. ASSUME NEW i \in Nat, i # 0 PROVE g[i] = 2 * g[i - 1]
    <3>1. i - 1 \in Nat /\ (i - 1) + 1 = i
      BY <2>1
    <3>2. g[(i - 1) + 1] = step[g[i - 1]] /\ g[i - 1] \in Int
      BY <1>3, <3>1, Zenon DEF Iterates
    <3> QED
      BY <1>2, <3>1, <3>2, Zenon
  <2>2. \A i \in Nat : g[i] = IF i = 0 THEN b ELSE 2 * g[i - 1]
    BY <1>3, <2>1, Zenon DEF Iterates
  <2> QED
    BY <1>3, <2>2 DEF Iterates
<1>5. double = [i \in Nat |-> IF i = 0 THEN b ELSE 2 * double[i - 1]]
  BY <1>4, Zenon
<1>6. \A n : Retry!Doubled(b, n) = double[n]
  BY Zenon DEF Retry!Doubled
<1>. HIDE DEF double
<1>7. double[0] = b /\ \A n \in Nat : double[n + 1] = 2 * double[n]
  BY <1>5
<1>8. \A n \in Nat : double[n] \in Int
  <2>. DEFINE T == {n \in Nat : double[n] \in Int}
  <2>1. 0 \in T /\ \A n \in Nat : n \in T => n + 1 \in T
    BY <1>7
  <2>. HIDE DEF T
  <2>2. Nat \subseteq T
    BY <2>1, NumbersByInduction, Zenon
  <2> QED
    BY <2>2 DEF T
<1> QED
  BY <1>6, <1>7, <1>8

\* What shifting by one more bit does.
LEMMA Shifting ==
  ASSUME NEW b \in Int
  PROVE  /\ Retry!Shifted(b, 0) = b
         /\ \A n \in Nat : Retry!Shifted(b, n + 1) = Retry!Wrapped(2 * Retry!Shifted(b, n))
<1>. DEFINE shift == CHOOSE shift : shift = [i \in Nat |-> IF i = 0 THEN b ELSE Retry!Wrapped(2 * shift[i - 1])]
            step == [d \in Int |-> Retry!Wrapped(2 * d)]
<1>1. step \in [Int -> Int]
  BY EventConstants DEF Retry!Wrapped
<1>2. \A d \in Int : step[d] = Retry!Wrapped(2 * d)
  OBVIOUS
<1>. HIDE DEF step
<1>3. PICK g : Iterates(g, Int, b, step)
  BY <1>1, Iteration, Zenon
<1>4. g = [i \in Nat |-> IF i = 0 THEN b ELSE Retry!Wrapped(2 * g[i - 1])]
  <2>1. ASSUME NEW i \in Nat, i # 0 PROVE g[i] = Retry!Wrapped(2 * g[i - 1])
    <3>1. i - 1 \in Nat /\ (i - 1) + 1 = i
      BY <2>1
    <3>2. g[(i - 1) + 1] = step[g[i - 1]] /\ g[i - 1] \in Int
      BY <1>3, <3>1, Zenon DEF Iterates
    <3> QED
      BY <1>2, <3>1, <3>2, Zenon
  <2>2. \A i \in Nat : g[i] = IF i = 0 THEN b ELSE Retry!Wrapped(2 * g[i - 1])
    BY <1>3, <2>1, Zenon DEF Iterates
  <2> QED
    BY <1>3, <2>2 DEF Iterates
<1>5. shift = [i \in Nat |-> IF i = 0 THEN b ELSE Retry!Wrapped(2 * shift[i - 1])]
  BY <1>4, Zenon
<1>6. \A n : Retry!Shifted(b, n) = shift[n]
  BY Zenon DEF Retry!Shifted
<1>. HIDE DEF shift
<1>7. shift[0] = b /\ \A n \in Nat : shift[n + 1] = Retry!Wrapped(2 * shift[n])
  <2>1. \A n \in Nat : n + 1 \in Nat /\ n + 1 # 0 /\ (n + 1) - 1 = n
    OBVIOUS
  <2> QED
    BY <1>5, <2>1
<1> QED
  BY <1>6, <1>7, Zenon

\* The schedule the delays are compared with is the doubled interval, up to the
\* ceiling.
LEMMA SaturatingDoubles ==
  ASSUME base \in Nat, ceiling \in Nat, count \in Nat \ {0}, NEW m \in Nat
  PROVE  Retry!Saturating(m) =
           Retry!AtMost(Retry!Doubled(base, Retry!AtMost(count - 1, m)), ceiling)
<1>. DEFINE delay == CHOOSE delay :
              delay = [i \in Nat |-> Retry!AtMost(IF i = 0 THEN base ELSE 2 * delay[i - 1], ceiling)]
            g == [i \in Nat |-> Retry!AtMost(Retry!Doubled(base, i), ceiling)]
<1>1. /\ Retry!Doubled(base, 0) = base
      /\ \A n \in Nat : /\ Retry!Doubled(base, n) \in Int
                        /\ Retry!Doubled(base, n + 1) = 2 * Retry!Doubled(base, n)
  BY Doubling
<1>2. ASSUME NEW i \in Nat
      PROVE  g[i] = Retry!AtMost(IF i = 0 THEN base ELSE 2 * g[i - 1], ceiling)
  <2>1. CASE i = 0
    BY <1>1, <2>1
  <2>2. CASE i # 0
    <3>1. i - 1 \in Nat /\ (i - 1) + 1 = i
      BY <2>2
    <3>2. g[i] = Retry!AtMost(Retry!Doubled(base, i), ceiling)
      BY Zenon
    <3>3. g[i - 1] = Retry!AtMost(Retry!Doubled(base, i - 1), ceiling)
      BY <3>1, Zenon
    <3>4. /\ Retry!Doubled(base, i - 1) \in Int
          /\ Retry!Doubled(base, i) = 2 * Retry!Doubled(base, i - 1)
      BY <1>1, <3>1
    <3>. HIDE DEF g
    <3> QED
      BY <2>2, <3>2, <3>3, <3>4 DEF Retry!AtMost
  <2> QED
    BY <2>1, <2>2, Zenon
<1>3. \A f : f = [i \in Nat |-> Retry!AtMost(IF i = 0 THEN base ELSE 2 * f[i - 1], ceiling)] => f = g
  <2>. SUFFICES ASSUME NEW f,
                       f = [i \in Nat |-> Retry!AtMost(IF i = 0 THEN base ELSE 2 * f[i - 1], ceiling)]
                PROVE  f = g
    BY Zenon
  <2>. DEFINE T == {i \in Nat : f[i] = g[i]}
  <2>. HIDE DEF g
  <2>1. \A i \in Nat : f[i] = Retry!AtMost(IF i = 0 THEN base ELSE 2 * f[i - 1], ceiling)
    BY Zenon
  <2>2. 0 \in T
    BY <1>2, <2>1
  <2>3. \A n \in Nat : n \in T => n + 1 \in T
    <3>1. \A n \in Nat : n + 1 \in Nat /\ n + 1 # 0 /\ (n + 1) - 1 = n
      OBVIOUS
    <3>2. \A n \in Nat : /\ f[n + 1] = Retry!AtMost(2 * f[n], ceiling)
                        /\ g[n + 1] = Retry!AtMost(2 * g[n], ceiling)
      BY <1>2, <2>1, <3>1
    <3> QED
      BY <3>1, <3>2, Zenon
  <2>. HIDE DEF T
  <2>4. Nat \subseteq T
    BY <2>2, <2>3, NumbersByInduction, Zenon
  <2>5. \A i \in Nat : f[i] = g[i]
    BY <2>4, Zenon DEF T
  <2>6. f = [i \in Nat |-> f[i]] /\ g = [i \in Nat |-> g[i]]
    BY Zenon DEF g
  <2> QED
    BY <2>5, <2>6
<1>4. g = [i \in Nat |-> Retry!AtMost(IF i = 0 THEN base ELSE 2 * g[i - 1], ceiling)]
  <2>1. g = [i \in Nat |-> g[i]]
    BY Zenon
  <2>. HIDE DEF g
  <2> QED
    BY <1>2, <2>1, Zenon
<1>5. delay = [i \in Nat |-> Retry!AtMost(IF i = 0 THEN base ELSE 2 * delay[i - 1], ceiling)]
  <2>. HIDE DEF g
  <2> QED
    BY <1>4, Zenon
<1>6. delay = g
  <2>. HIDE DEF delay, g
  <2> QED
    BY <1>3, <1>5, Zenon
<1>7. Retry!Saturating(m) = delay[Retry!AtMost(count - 1, m)]
  BY Zenon DEF Retry!Saturating
<1>8. Retry!AtMost(count - 1, m) \in Nat
  BY DEF Retry!AtMost
<1>. HIDE DEF delay
<1> QED
  BY <1>6, <1>7, <1>8

\* What is left of a number that is less than two divisors.
LEMMA ModuloAbove == \A p \in Nat, x \in Nat : p <= x /\ x < 2 * p => x % p = x - p
OBVIOUS

\* A shifted interval is a number.
LEMMA ShiftedIsNumber ==
  ASSUME NEW b \in 1..MaxDuration, NEW k \in Nat
  PROVE  Retry!Shifted(b, k) \in Int
<1>. DEFINE S(n) == Retry!Shifted(b, n)
<1>1. S(0) = b /\ \A n \in Nat : S(n + 1) = Retry!Wrapped(2 * S(n))
  BY Shifting, EventConstants
<1>. HIDE DEF S
<1>2. \A d \in Int : Retry!Wrapped(d) \in Int
  BY EventConstants DEF Retry!Wrapped
<1>. DEFINE T == {n \in Nat : S(n) \in Int}
<1>3. 0 \in T /\ \A n \in Nat : n \in T => n + 1 \in T
  <2>1. 0 \in T
    BY <1>1
  <2>2. \A n \in Nat : n \in T => 2 * S(n) \in Int /\ n + 1 \in Nat
    OBVIOUS
  <2> QED
    BY <1>1, <1>2, <2>1, <2>2, Zenon
<1>. HIDE DEF T
<1>4. Nat \subseteq T
  BY <1>3, NumbersByInduction, Zenon
<1> QED
  BY <1>4, Zenon DEF T, S

\* As long as the shift loses no more than the sign, the shifted interval is the
\* doubled one, or is negative.
LEMMA ShiftDoublesOrOverflows ==
  ASSUME NEW b \in 1..MaxDuration, NEW k \in Nat, Retry!Doubled(b, k) <= 2 * MaxDuration + 1
  PROVE  /\ Retry!Doubled(b, k) \in 1..(2 * MaxDuration + 1)
         /\ Retry!Shifted(b, k) = IF Retry!Doubled(b, k) <= MaxDuration THEN Retry!Doubled(b, k)
                                  ELSE Retry!Doubled(b, k) - 2 * (MaxDuration + 1)
<1>. DEFINE D(n) == Retry!Doubled(b, n)
            S(n) == Retry!Shifted(b, n)
            H == MaxDuration + 1
            Seen(d) == IF d < H THEN d ELSE d - 2 * H
<1>1. b \in Int /\ b >= 1 /\ b < H /\ D(k) < 2 * H /\ H \in Nat /\ H > 0
  <2>1. b \in Int
    BY EventConstants
  <2>2. D(k) \in Int
    BY <2>1, Doubling, Zenon
  <2> QED
    BY <2>2, EventConstants
<1>2. D(0) = b /\ \A n \in Nat : D(n) \in Int /\ D(n + 1) = 2 * D(n)
  BY <1>1, Doubling, Zenon
<1>3. S(0) = b /\ \A n \in Nat : S(n + 1) = Retry!Wrapped(2 * S(n))
  BY <1>1, Shifting
<1>. HIDE DEF D, S, H
<1>4. \A n \in Nat : D(n) >= 1
  <2>. DEFINE T == {n \in Nat : D(n) >= 1}
  <2>1. 0 \in T /\ \A n \in Nat : n \in T => n + 1 \in T
    BY <1>1, <1>2
  <2>. HIDE DEF T
  <2>2. Nat \subseteq T
    BY <2>1, NumbersByInduction, Zenon
  <2> QED
    BY <2>2 DEF T
<1>5. ASSUME NEW j \in Nat PROVE \A n \in Nat : j <= n => D(j) <= D(n)
  <2>. DEFINE T == {n \in Nat : j <= n => D(j) <= D(n)}
  <2>1. 0 \in T
    BY <1>2
  <2>2. ASSUME NEW n \in Nat, n \in T PROVE n + 1 \in T
    <3>1. CASE j = n + 1
      BY <3>1, <1>2
    <3>2. CASE j # n + 1
      BY <2>2, <3>2, <1>2, <1>4
    <3> QED
      BY <3>1, <3>2, Zenon
  <2>. HIDE DEF T
  <2>3. Nat \subseteq T
    BY <2>1, <2>2, NumbersByInduction, Zenon
  <2> QED
    BY <2>3 DEF T
<1>6. \A n \in Nat : n <= k => D(n) < 2 * H
  BY <1>1, <1>2, <1>5
<1>7. \A d \in Int : d >= 0 /\ d < 2 * H => Retry!Wrapped(d) = Seen(d)
  <2>. SUFFICES ASSUME NEW d \in Int, d >= 0, d < 2 * H PROVE Retry!Wrapped(d) = Seen(d)
    BY Zenon
  <2>1. Retry!Wrapped(d) = ((d + H) % (2 * H)) - H
    BY EventConstants DEF H, Retry!Wrapped
  <2>2. CASE d < H
    <3>1. (d + H) % (2 * H) = d + H
      BY <1>1, <2>2
    <3> QED
      BY <1>1, <2>1, <2>2, <3>1
  <2>3. CASE ~(d < H)
    <3>1. 2 * H \in Nat /\ d + H \in Nat /\ 2 * H <= d + H /\ d + H < 2 * (2 * H)
      BY <1>1, <2>3
    <3>2. (d + H) % (2 * H) = (d + H) - 2 * H
      BY <3>1, ModuloAbove, Zenon
    <3> QED
      BY <1>1, <2>1, <2>3, <3>2
  <2> QED
    BY <2>2, <2>3, Zenon
<1>8. \A n \in Nat : n <= k => S(n) = Seen(D(n))
  <2>. DEFINE T == {n \in Nat : n <= k => S(n) = Seen(D(n))}
  <2>1. 0 \in T
    BY <1>1, <1>2, <1>3
  <2>2. ASSUME NEW n \in Nat, n \in T PROVE n + 1 \in T
    <3>. SUFFICES ASSUME n + 1 <= k PROVE S(n + 1) = Seen(D(n + 1))
      OBVIOUS
    <3>1. D(n) \in Int /\ D(n) >= 1 /\ D(n + 1) = 2 * D(n) /\ D(n + 1) < 2 * H
      BY <1>2, <1>4, <1>6
    <3>2. S(n) = D(n)
      <4>1. n <= k /\ D(n) < H
        BY <1>1, <3>1
      <4> QED
        BY <2>2, <4>1, Zenon
    <3>3. S(n + 1) = Retry!Wrapped(2 * D(n))
      BY <1>3, <3>2
    <3>4. Retry!Wrapped(2 * D(n)) = Seen(2 * D(n))
      <4>. HIDE DEF Seen
      <4> QED
        BY <1>7, <3>1
    <3> QED
      BY <3>1, <3>3, <3>4, Zenon
  <2>. HIDE DEF T, Seen
  <2>3. Nat \subseteq T
    BY <2>1, <2>2, NumbersByInduction, Zenon
  <2> QED
    BY <2>3 DEF T
<1>9. D(k) \in Int /\ D(k) >= 1 /\ S(k) = Seen(D(k))
  BY <1>2, <1>4, <1>8
<1> QED
  BY <1>1, <1>9, EventConstants DEF D, S, H

\* As long as the shift fits, the interval of backoffFor and of emptyPollDelay
\* is the schedule's.
LEMMA IntervalSaturates ==
  ASSUME NEW m \in Nat, base \in 1..MaxDuration, ceiling \in 1..MaxDuration, count \in Nat \ {0},
         Retry!Fits(m)
  PROVE  Retry!Interval(base, count, ceiling, m) = Retry!Saturating(m)
<1>. DEFINE k == Retry!AtMost(count - 1, m)
            d == Retry!Doubled(base, k)
<1>1. k \in Nat
  BY DEF Retry!AtMost
<1>2. base \in Nat /\ ceiling \in Nat
  BY EventConstants
<1>3. Retry!Saturating(m) = Retry!AtMost(d, ceiling)
  BY <1>2, SaturatingDoubles
<1>4. d <= 2 * MaxDuration + 1
  BY Zenon DEF Retry!Fits
<1>5. /\ d \in 1..(2 * MaxDuration + 1)
      /\ Retry!Shifted(base, k) = IF d <= MaxDuration THEN d ELSE d - 2 * (MaxDuration + 1)
  BY <1>1, <1>4, ShiftDoublesOrOverflows
<1>. HIDE DEF d, k
<1>6. Retry!Interval(base, count, ceiling, m) =
        IF Retry!Shifted(base, k) <= 0 \/ (ceiling > 0 /\ Retry!Shifted(base, k) > ceiling)
        THEN ceiling ELSE Retry!Shifted(base, k)
  BY Zenon DEF Retry!Interval, k
<1> QED
  BY <1>2, <1>3, <1>5, <1>6, EventConstants DEF Retry!AtMost

\* Whatever the shift loses, the interval is positive and within the ceiling.
LEMMA IntervalWithinCeiling ==
  ASSUME NEW m \in Nat, base \in 1..MaxDuration, ceiling \in 1..MaxDuration, count \in Nat \ {0}
  PROVE  Retry!Interval(base, count, ceiling, m) \in 1..ceiling
<1>. DEFINE k == Retry!AtMost(count - 1, m)
<1>1. k \in Nat
  BY DEF Retry!AtMost
<1>2. Retry!Shifted(base, k) \in Int
  BY <1>1, ShiftedIsNumber
<1>. HIDE DEF k
<1>3. Retry!Interval(base, count, ceiling, m) =
        IF Retry!Shifted(base, k) <= 0 \/ (ceiling > 0 /\ Retry!Shifted(base, k) > ceiling)
        THEN ceiling ELSE Retry!Shifted(base, k)
  BY Zenon DEF Retry!Interval, k
<1> QED
  BY <1>2, <1>3, EventConstants

\* The schedule's parameters, durations, and a count.
RetryInv ==
  /\ base \in 1..MaxDuration
  /\ ceiling \in 1..MaxDuration
  /\ count \in Nat

\* What RetryInv says of the delays.
LEMMA RetryConcludes == RetryInv => DelaysSaturate
<1>. SUFFICES ASSUME RetryInv PROVE Retry!BackoffDoubles /\ Retry!PollDoubles
  BY Zenon DEF DelaysSaturate
<1>. DEFINE B == Retry!Interval(base, count, ceiling, BackoffMaxShift)
            P == Retry!Interval(base, count, ceiling, PollMaxShift)
<1>1. base \in Nat /\ ~(base <= 0) /\ ceiling \in Nat
  BY EventConstants DEF RetryInv
<1>2. BackoffMaxShift \in Nat /\ PollMaxShift \in Nat
  BY EventConstants
<1>3. ASSUME count > 0
      PROVE  /\ B \in 1..ceiling /\ P \in 1..ceiling
             /\ Retry!Fits(BackoffMaxShift) => B = Retry!Saturating(BackoffMaxShift)
             /\ Retry!Fits(PollMaxShift) => P = Retry!Saturating(PollMaxShift)
  <2>1. count \in Nat \ {0}
    BY <1>3 DEF RetryInv
  <2> QED
    BY <1>2, <2>1, IntervalSaturates, IntervalWithinCeiling, Zenon DEF RetryInv
<1>. HIDE DEF B, P
<1>4. Retry!BackoffDoubles
  <2>. SUFFICES ASSUME count > 0 PROVE Retry!BackoffDoubles
    BY Zenon DEF Retry!BackoffDoubles
  <2>1. ~(count < 1)
    BY DEF RetryInv
  <2>2. Retry!backoffFor(base, count, ceiling) =
          IF B \div 2 = 0 THEN {0} ELSE B \div 2 .. 2 * (B \div 2) - 1
    BY <1>1, <2>1, Zenon DEF Retry!backoffFor, B
  <2>3. Retry!backoffFor(base, count, ceiling) \subseteq 0..ceiling
    <3>1. B \in Int /\ B >= 1 /\ B <= ceiling
      BY <1>1, <1>3
    <3>2. B \div 2 \in Int /\ B \div 2 >= 0 /\ 2 * (B \div 2) <= B
      BY <3>1
    <3> QED
      BY <1>1, <2>2, <3>1, <3>2
  <2> QED
    BY <1>3, <2>2, <2>3, Zenon DEF Retry!BackoffDoubles
<1>5. Retry!PollDoubles
  <2>1. (count < 1 <=> count = 0) /\ (count > 0 <=> count # 0)
    BY DEF RetryInv
  <2>2. count > 0 => Retry!emptyPollDelay(base, count, ceiling) = P
    BY <1>1, <2>1, Zenon DEF Retry!emptyPollDelay, P
  <2>3. count = 0 => Retry!emptyPollDelay(base, count, ceiling) = base
    BY <1>1, <2>1, Zenon DEF Retry!emptyPollDelay
  <2> QED
    BY <1>3, <2>2, <2>3, Zenon DEF Retry!PollDoubles
<1> QED
  BY <1>4, <1>5

\* backoffFor and emptyPollDelay return a delay between zero and the ceiling for
\* every base a duration holds, and double it with every failure or empty poll
\* as long as the shift fits; for every width of a duration and any count.
THEOREM DelaysKept == Retry!Spec => []DelaysSaturate
<1>1. Retry!Init => RetryInv
  BY DEF Retry!Init, RetryInv
<1>2. RetryInv /\ [Retry!Next]_<<base, ceiling, count>> => RetryInv'
  <2>. SUFFICES ASSUME RetryInv, [Retry!Next]_<<base, ceiling, count>> PROVE RetryInv'
    OBVIOUS
  <2>1. /\ base' = base /\ ceiling' = ceiling
        /\ count' \in {count, count + 1}
    BY DEF Retry!Next
  <2>2. count' \in Nat
    BY <2>1 DEF RetryInv
  <2> QED
    BY <2>1, <2>2, Zenon DEF RetryInv
<1> QED
  BY <1>1, <1>2, RetryConcludes, PTL DEF Retry!Spec

================================================================================
