------------------------- MODULE DispatcherProofs ---------------------------
(***************************************************************************)
(* The theorems about Dispatcher.  First type correctness and what its     *)
(* steps leave alone; then the invariant of DispatcherInvariants, one part *)
(* at a time: the columns of a row and the consumer, the leases (what the  *)
(* workers remember of the rows they leased, the answers they hold, the    *)
(* deadlines, the leases nobody holds, the batches), the records; then the *)
(* theorems, and the proof that it implements the ledger of deliveries.    *)
(***************************************************************************)
EXTENDS DispatcherInvariants, TLAPS

\* Most leaves are first-order and go to Zenon; those that need arithmetic or
\* the update of a function cite SMT.
USE ZenonT(60)

-----------------------------------------------------------------------------
(* Type correctness *)

LEMMA InitTypeOK == Init => TypeOK
  BY SMT DEF Init, TypeOK, FailureClasses, Evidence, Answers, Steps

LEMMA OutcomeType ==
  ASSUME TypeOK, NEW w \in Workers, NEW r \in Rows, answer[w] \in Answers, Outcome(w, r)
  PROVE  /\ published' \subseteq Rows
         /\ published_at' \subseteq Rows
         /\ attempts' \in [Rows -> Nat]
         /\ failure_class' \in [Rows -> FailureClasses]
         /\ next_attempt_at' \in [Rows -> Nat]
         /\ lease_id' \in [Rows -> Leases \cup {NoLease}]
         /\ leased_until' \in [Rows -> Nat]
         /\ receipt' \in [Events -> Evidence \cup {"none"}]
         /\ dead_letter' \in [Events -> Nat]
<1> DEFINE n == seen[w][r] + 1
<1>1. n \in Nat /\ EventOf[r] \in Events
  BY ConstantsAssumption, SMT DEF TypeOK
<1>. HIDE DEF n
<1>2. CASE answer[w] \in Evidence
  <2>1. MarkPublished(r, answer[w])
    BY <1>2 DEF Outcome
  <2>2. receipt' \in [Events -> Evidence \cup {"none"}]
    BY <1>1, <1>2, <2>1 DEF MarkPublished, TypeOK
  <2>. QED BY <1>1, <2>1, <2>2 DEF MarkPublished, Unlease, TypeOK, FailureClasses
<1>3. CASE answer[w] \notin Evidence
  <2>1. answer[w] \in {"poison", "unavailable"}
    BY <1>3 DEF Answers, Evidence
  <2>2. CASE DeadLetter(r, answer[w], n)
    BY <1>1, <2>1, <2>2 DEF DeadLetter, Unlease, TypeOK, FailureClasses
  <2>3. CASE RecordFailure(r, answer[w], n)
    BY <1>1, <2>1, <2>3, ConstantsAssumption, SMT
    DEF RecordFailure, Unlease, TypeOK, FailureClasses, incidents
  <2>. QED BY <1>3, <2>2, <2>3 DEF Outcome, Fail, n
<1>. QED BY <1>2, <1>3

LEMMA StepTypeOK == TypeOK /\ AnswerInv /\ [Next]_vars => TypeOK'
<1>. SUFFICES ASSUME TypeOK, AnswerInv, [Next]_vars PROVE TypeOK'
  OBVIOUS
<1>. USE ConstantsAssumption
     DEF TypeOK, columns, incidents, database, consumer, batch, locals, history, bounds, others
<1>1. CASE UNCHANGED vars
  BY <1>1 DEF vars
<1>2. ASSUME NEW r \in Rows, Append(r) PROVE TypeOK'
  BY <1>2 DEF Append
<1>3. CASE Subscribe \/ Unsubscribe
  BY <1>3 DEF Subscribe, Unsubscribe
<1>4. CASE Abandon
  BY <1>4 DEF Abandon, Update, FailureClasses
<1>5. ASSUME NEW h \in Handlers, HandlerStep(h) PROVE TypeOK'
  <2>. USE DEF unconsumed
  <2>1. ASSUME NEW e \in Events, Handle(h, e) PROVE TypeOK'
    BY <2>1 DEF Handle
  <2>2. CASE Apply(h)
    <3>1. handling[h] \in Events
      BY <2>2 DEF Apply
    <3>2. handling' \in [Handlers -> Events \cup {NoEvent}] /\ processed' \subseteq Events
      BY <2>2, <3>1 DEF Apply
    <3>3. effects' \in [Events -> Nat]
      BY <2>2, <3>1, SMT DEF Apply
    <3>. QED BY <2>2, <3>2, <3>3 DEF Apply
  <2>3. CASE GiveUp(h)
    BY <2>3 DEF GiveUp
  <2>. QED BY <1>5, <2>1, <2>2, <2>3 DEF HandlerStep
<1>6. ASSUME NEW w \in Workers, WorkerStep(w) PROVE TypeOK'
  <2>. USE DEF Steps
  <2>1. CASE Claim(w)
    <3>1. PICK S \in SUBSET owed, l \in Leases :
            /\ LeaseRows(w, S, l)
            /\ at' = [at EXCEPT ![w] = "claimed"]
            /\ lease' = [lease EXCEPT ![w] = l]
            /\ todo' = [todo EXCEPT ![w] = S]
            /\ seen' = [seen EXCEPT ![w] = [r \in Rows |-> IF r \in S THEN attempts[r] ELSE 0]]
            /\ stranded' = stranded \ S
            /\ UNCHANGED <<deadline, answer, faults>>
      BY <2>1 DEF Claim
    <3>2. seen' \in [Workers -> [Rows -> Nat]]
      BY <3>1
    <3>. QED BY <3>1, <3>2 DEF LeaseRows, Update
  <2>2. CASE ClaimUncertain(w)
    <3>1. PICK S \in SUBSET owed, l \in Leases :
            /\ LeaseRows(w, S, l)
            /\ stranded' = stranded \cup S
            /\ faults' = faults + 1
            /\ UNCHANGED locals
      BY <2>2 DEF ClaimUncertain
    <3>2. /\ lease_id' \in [Rows -> Leases \cup {NoLease}]
          /\ leased_until' \in [Rows -> Nat]
          /\ stranded' \subseteq Rows
      BY <3>1 DEF LeaseRows, Update
    <3>3. UNCHANGED <<subscribed, owed, published, published_at, attempts, failure_class,
                      next_attempt_at, incidents, consumer, cancelled, locals,
                      failures, refused, slow>>
      BY <3>1 DEF LeaseRows
    <3>4. faults' \in Nat
      BY <3>1, SMT
    <3>. QED BY <3>2, <3>3, <3>4
  <2>3. CASE StartBatch(w)
    BY <2>3, SMT DEF StartBatch
  <2>4. CASE EndBatch(w)
    BY <2>4 DEF EndBatch, Return
  <2>5. CASE Stopped(w)
    BY <2>5 DEF Stopped
  <2>6. CASE Release(w)
    BY <2>6 DEF Release, Return, Update
  <2>7. CASE ReleaseError(w)
    <3>1. stranded' \subseteq Rows
      <4>1. todo[w] \subseteq Rows
        OBVIOUS
      <4>. QED BY <2>7, <4>1 DEF ReleaseError
    <3>. QED BY <2>7, <3>1, SMT DEF ReleaseError, Return
  <2>8. CASE Stop(w)
    BY <2>8 DEF Stop
  <2>9. ASSUME NEW r \in Rows, RejectEnvelope(w, r) PROVE TypeOK'
    BY <2>9, SMT DEF RejectEnvelope, Answered, Noted, Answers
  <2>10. ASSUME NEW r \in Rows, StartPublish(w, r) PROVE TypeOK'
    BY <2>10 DEF StartPublish
  <2>11. ASSUME NEW r \in Rows, Send(w, r) PROVE TypeOK'
    BY <2>11 DEF Send
  <2>12. ASSUME NEW r \in Rows, NEW evidence \in Evidence, Acknowledged(w, r, evidence)
         PROVE  TypeOK'
    BY <2>12 DEF Acknowledged, Answered, Answers, Evidence
  <2>13. ASSUME NEW r \in Rows, NEW class \in {"poison", "unavailable"}, Failed(w, r, class)
         PROVE  TypeOK'
    BY <2>13, SMT DEF Failed, Answered, Noted, Answers
  <2>14. ASSUME NEW r \in Rows, Record(w, r) \/ RecordError(w, r) PROVE TypeOK'
    <3>1. answer[w] \in Answers
      BY <2>14 DEF Record, RecordError, AnswerInv, AnswerOK
    <3>2. \/ Outcome(w, r)
          \/ UNCHANGED <<columns, incidents>>
      BY <2>14 DEF Record, RecordError
    <3>3. /\ published' \subseteq Rows
          /\ published_at' \subseteq Rows
          /\ attempts' \in [Rows -> Nat]
          /\ failure_class' \in [Rows -> FailureClasses]
          /\ next_attempt_at' \in [Rows -> Nat]
          /\ lease_id' \in [Rows -> Leases \cup {NoLease}]
          /\ leased_until' \in [Rows -> Nat]
          /\ receipt' \in [Events -> Evidence \cup {"none"}]
          /\ dead_letter' \in [Events -> Nat]
      BY <3>1, <3>2, OutcomeType
    <3>4. /\ at' \in [Workers -> Steps]
          /\ answer' \in [Workers -> Answers \cup {"none"}]
      BY <2>14 DEF Record, RecordError
    <3>5. UNCHANGED <<subscribed, owed, consumer, cancelled, lease, seen, deadline,
                      failures, refused, slow>>
      BY <2>14 DEF Record, RecordError
    <3>6. todo' \in [Workers -> SUBSET Rows]
      <4>1. todo[w] \subseteq Rows /\ todo[w] \ {r} \subseteq Rows
        OBVIOUS
      <4>2. \/ todo' = [todo EXCEPT ![w] = todo[w]]
            \/ todo' = [todo EXCEPT ![w] = todo[w] \ {r}]
        BY <2>14 DEF Record, RecordError
      <4>. QED BY <4>1, <4>2
    <3>7. stranded' \subseteq Rows /\ faults' \in Nat
      <4>1. CASE Record(w, r)
        BY <4>1 DEF Record
      <4>2. CASE RecordError(w, r)
        <5>1. stranded' \in {stranded, stranded \cup {r}} /\ faults' = faults + 1
          BY <4>2 DEF RecordError
        <5>. QED BY <5>1, SMT
      <4>. QED BY <2>14, <4>1, <4>2
    <3>. QED BY <3>3, <3>4, <3>5, <3>6, <3>7
  <2>. QED BY <1>6, <2>1, <2>2, <2>3, <2>4, <2>5, <2>6, <2>7, <2>8, <2>9, <2>10,
              <2>11, <2>12, <2>13, <2>14 DEF WorkerStep, Progress
<1>7. ASSUME NEW p \in Processes, Run(p) \/ Cancel(p) \/ Crash(p) PROVE TypeOK'
  <2>1. CASE Run(p)
    BY <2>1 DEF Run, Reset, Steps
  <2>2. CASE Cancel(p)
    BY <2>2, SMT DEF Cancel
  <2>3. CASE Crash(p)
    <3>1. \A w \in WorkersOf(p) : todo[w] \subseteq Rows
      BY DEF WorkersOf
    <3>2. UNION {todo[w] : w \in WorkersOf(p)} \subseteq Rows
      BY <3>1, SMT
    <3>3. stranded' \subseteq Rows
      BY <2>3, <3>2 DEF Crash
    <3>. QED BY <2>3, <3>3, SMT DEF Crash, Reset, Steps
  <2>. QED BY <1>7, <2>1, <2>2, <2>3
<1>8. CASE Tick
  <2>1. \A n \in Nat : Elapsed(n) \in Nat
    BY SMT DEF Elapsed
  <2>2. leased_until' \in [Rows -> Nat] /\ next_attempt_at' \in [Rows -> Nat]
    BY <1>8, <2>1 DEF Tick
  <2>3. deadline' \in [Workers -> Nat]
    BY <1>8, <2>1 DEF Tick
  <2>4. slow' \in Nat
    BY <1>8, SMT DEF Tick
  <2>. QED BY <1>8, <2>2, <2>3, <2>4 DEF Tick
<1>. QED BY <1>1, <1>2, <1>3, <1>4, <1>5, <1>6, <1>7, <1>8 DEF Next

-----------------------------------------------------------------------------
(* What the steps leave alone *)

\* Only these steps write the tables of the outbox.
LEMMA TableSteps ==
  ASSUME [Next]_vars
  PROVE  \/ UNCHANGED <<owed, columns, incidents>>
         \/ \E r \in Rows : Append(r)
         \/ Abandon
         \/ Tick
         \/ \E w \in Workers : Claim(w) \/ ClaimUncertain(w) \/ Release(w)
         \/ \E w \in Workers, r \in Rows : Record(w, r) \/ RecordError(w, r)
<1>. USE DEF database, others
<1>1. CASE UNCHANGED vars
  BY <1>1 DEF vars
<1>2. CASE Subscribe \/ Unsubscribe
  BY <1>2 DEF Subscribe, Unsubscribe
<1>3. ASSUME NEW h \in Handlers, HandlerStep(h) PROVE UNCHANGED <<owed, columns, incidents>>
  BY <1>3 DEF HandlerStep, Handle, Apply, GiveUp, unconsumed
<1>4. ASSUME NEW p \in Processes, Run(p) \/ Cancel(p) \/ Crash(p)
      PROVE  UNCHANGED <<owed, columns, incidents>>
  BY <1>4 DEF Run, Cancel, Crash
<1>5. ASSUME NEW w \in Workers,
             StartBatch(w) \/ EndBatch(w) \/ Stopped(w) \/ Stop(w) \/ ReleaseError(w)
      PROVE  UNCHANGED <<owed, columns, incidents>>
  BY <1>5 DEF StartBatch, EndBatch, Stopped, Stop, ReleaseError
<1>6. ASSUME NEW w \in Workers, NEW r \in Rows,
             \/ RejectEnvelope(w, r) \/ StartPublish(w, r) \/ Send(w, r)
             \/ \E evidence \in Evidence : Acknowledged(w, r, evidence)
             \/ \E class \in {"poison", "unavailable"} : Failed(w, r, class)
      PROVE  UNCHANGED <<owed, columns, incidents>>
  BY <1>6 DEF RejectEnvelope, StartPublish, Send, Acknowledged, Failed, Answered
<1>. QED BY <1>1, <1>2, <1>3, <1>4, <1>5, <1>6 DEF Next, WorkerStep, Progress

\* An outcome writes one row and takes its lease away.
LEMMA OutcomeFrame ==
  ASSUME TypeOK, NEW w \in Workers, NEW r \in Rows, answer[w] \in Answers, Outcome(w, r)
  PROVE  /\ lease_id' = [lease_id EXCEPT ![r] = NoLease]
         /\ leased_until' = [leased_until EXCEPT ![r] = 0]
         /\ attempts'[r] \in {attempts[r], seen[w][r] + 1}
         /\ answer[w] \in Evidence => attempts' = attempts
         /\ \/ UNCHANGED <<published, published_at>>
            \/ /\ published' = published \cup {r}
               /\ next_attempt_at'[r] = 0
               /\ published_at' \in {published_at, published_at \cup {r}}
         /\ \A s \in Rows \ {r} :
              /\ attempts'[s] = attempts[s]
              /\ failure_class'[s] = failure_class[s]
              /\ next_attempt_at'[s] = next_attempt_at[s]
<1>. DEFINE n == seen[w][r] + 1
<1>1. n \in Nat
  BY SMT DEF TypeOK
<1>. HIDE DEF n
<1>2. CASE MarkPublished(r, answer[w])
  BY <1>2 DEF MarkPublished, Unlease, TypeOK
<1>3. CASE answer[w] \notin Evidence /\ DeadLetter(r, answer[w], n)
  BY <1>1, <1>3 DEF DeadLetter, Unlease, TypeOK, n
<1>4. CASE answer[w] \notin Evidence /\ RecordFailure(r, answer[w], n)
  BY <1>1, <1>4, ConstantsAssumption DEF RecordFailure, Unlease, TypeOK, n
<1>. QED BY <1>2, <1>3, <1>4 DEF Outcome, Fail, n

-----------------------------------------------------------------------------
(* The columns of a row *)

LEMMA StepRowInv ==
  ASSUME TypeOK, RowInv, LeaseInv, AnswerInv, [Next]_vars PROVE RowInv'
<1>. USE DEF columns, incidents
<1>0. /\ owed \subseteq Rows /\ published \subseteq Rows
      /\ lease_id \in [Rows -> Leases \cup {NoLease}]
      /\ leased_until \in [Rows -> Nat] /\ next_attempt_at \in [Rows -> Nat]
      /\ LeaseDuration \in Nat /\ NoLease \notin Leases
  BY ConstantsAssumption DEF TypeOK
<1>1. CASE UNCHANGED <<owed, columns, incidents>>
  BY <1>1 DEF RowInv
<1>2. ASSUME NEW r \in Rows, Append(r) PROVE RowInv'
  BY <1>2 DEF Append, RowInv
<1>3. CASE Abandon
  BY <1>0, <1>3, SMT DEF Abandon, Update, RowInv
<1>4. CASE Tick
  BY <1>0, <1>4, SMT DEF Tick, Elapsed, RowInv
<1>5. ASSUME NEW w \in Workers, NEW S \in SUBSET owed, NEW l \in Leases, LeaseRows(w, S, l)
      PROVE  RowInv'
  <2>1. \A r \in S : r \notin published
    BY <1>5 DEF LeaseRows, Limit, Claimable
  <2>2. /\ lease_id' = Update(lease_id, S, l)
        /\ leased_until' = Update(leased_until, S, LeaseDuration)
        /\ UNCHANGED <<owed, published, published_at, next_attempt_at>>
    BY <1>5 DEF LeaseRows
  <2>. QED BY <1>0, <2>1, <2>2, SMT DEF Update, RowInv
<1>6. ASSUME NEW w \in Workers, Release(w) PROVE RowInv'
  BY <1>0, <1>6, SMT DEF Release, Update, RowInv
<1>7. ASSUME NEW w \in Workers, NEW r \in Rows, Record(w, r) \/ RecordError(w, r) PROVE RowInv'
  <2>1. UNCHANGED owed /\ r \in owed /\ answer[w] \in Answers
    BY <1>7 DEF Record, RecordError, Current, LeaseInv, AnswerInv, AnswerOK
  <2>2. CASE UNCHANGED <<columns, incidents>>
    BY <2>1, <2>2 DEF RowInv
  <2>3. CASE Fence(w, r) /\ Outcome(w, r)
    <3>1. /\ lease_id' = [lease_id EXCEPT ![r] = NoLease]
          /\ leased_until' = [leased_until EXCEPT ![r] = 0]
          /\ \/ UNCHANGED <<published, published_at>>
             \/ /\ published' = published \cup {r}
                /\ next_attempt_at'[r] = 0
                /\ published_at' \in {published_at, published_at \cup {r}}
          /\ \A s \in Rows \ {r} : next_attempt_at'[s] = next_attempt_at[s]
      BY <2>1, <2>3, OutcomeFrame
    <3>2. r \notin published
      BY <2>3 DEF Fence
    <3>. QED BY <1>0, <2>1, <3>1, <3>2, SMT DEF RowInv
  <2>. QED BY <1>7, <2>2, <2>3 DEF Record, RecordError
<1>. QED BY <1>1, <1>2, <1>3, <1>4, <1>5, <1>6, <1>7, TableSteps DEF Claim, ClaimUncertain

-----------------------------------------------------------------------------
(* The consumer *)

LEMMA StepConsumerInv ==
  ASSUME TypeOK, LeaseInv, ConsumerInv, [Next]_vars PROVE ConsumerInv'
<1>. USE DEF columns, incidents, database, consumer, others
<1>1. ASSUME NEW h \in Handlers, HandlerStep(h) PROVE ConsumerInv'
  <2>0. NoEvent \notin Events /\ handling \in [Handlers -> Events \cup {NoEvent}]
        /\ effects \in [Events -> Nat]
    BY ConstantsAssumption DEF TypeOK
  <2>1. UNCHANGED <<owed, requests>> /\ \A g \in Handlers \ {h} : handling'[g] = handling[g]
    BY <1>1, <2>0 DEF HandlerStep, Handle, Apply, GiveUp, unconsumed
  <2>2. ASSUME NEW e \in Events, Handle(h, e) PROVE ConsumerInv'
    <3>1. e \in requests \ processed /\ handling'[h] = e /\ \A g \in Handlers : handling[g] # e
      BY <2>0, <2>2 DEF Handle, Guard
    <3>2. UNCHANGED <<processed, effects>>
      BY <2>2 DEF Handle
    <3>. QED BY <2>0, <2>1, <3>1, <3>2 DEF ConsumerInv
  <2>3. CASE Apply(h)
    <3>1. /\ handling[h] \in requests \ processed /\ handling[h] \in Events
          /\ handling'[h] = NoEvent /\ processed' = processed \cup {handling[h]}
          /\ \A g \in Handlers \ {h} : handling[g] # handling[h]
      BY <2>0, <2>3 DEF Apply, ConsumerInv
    <3>2. \A e \in Events : effects'[e] = IF e \in processed' THEN 1 ELSE 0
      BY <2>0, <2>3, <3>1, SMT DEF Apply, ConsumerInv
    <3>3. \A g \in Handlers : handling'[g] \in (requests' \ processed') \cup {NoEvent}
      BY <2>1, <3>1 DEF ConsumerInv
    <3>4. ASSUME NEW f \in Handlers, NEW g \in Handlers, f # g, handling'[f] = handling'[g]
          PROVE  handling'[f] = NoEvent
      <4>1. CASE f = h \/ g = h
        BY <3>1, <3>4, <4>1
      <4>2. CASE f # h /\ g # h
        <5>1. handling'[f] = handling[f] /\ handling'[g] = handling[g]
          BY <2>1, <4>2
        <5>. QED BY <3>4, <5>1 DEF ConsumerInv
      <4>. QED BY <4>1, <4>2
    <3>5. processed' \subseteq requests' /\ \A e \in requests' : \E q \in owed' : EventOf[q] = e
      BY <2>1, <3>1 DEF ConsumerInv
    <3>. QED BY <3>2, <3>3, <3>4, <3>5 DEF ConsumerInv
  <2>4. CASE GiveUp(h)
    <3>1. handling'[h] = NoEvent /\ UNCHANGED <<processed, effects>>
      BY <2>0, <2>4 DEF GiveUp
    <3>. QED BY <2>1, <3>1 DEF ConsumerInv
  <2>. QED BY <1>1, <2>2, <2>3, <2>4 DEF HandlerStep
<1>2. ASSUME NEW w \in Workers, NEW r \in Rows, Send(w, r) PROVE ConsumerInv'
  BY <1>2 DEF Send, Current, LeaseInv, ConsumerInv
<1>3. CASE UNCHANGED consumer /\ owed \subseteq owed'
  BY <1>3 DEF ConsumerInv
<1>4. \/ \E h \in Handlers : HandlerStep(h)
      \/ \E w \in Workers, r \in Rows : Send(w, r)
      \/ UNCHANGED consumer /\ owed \subseteq owed'
  <2>1. CASE UNCHANGED vars
    BY <2>1 DEF vars
  <2>2. ASSUME NEW r \in Rows, Append(r) PROVE UNCHANGED consumer /\ owed \subseteq owed'
    BY <2>2 DEF Append
  <2>3. CASE Subscribe \/ Unsubscribe \/ Abandon
    BY <2>3 DEF Subscribe, Unsubscribe, Abandon
  <2>4. ASSUME NEW p \in Processes, Run(p) \/ Cancel(p) \/ Crash(p)
        PROVE  UNCHANGED consumer /\ owed \subseteq owed'
    BY <2>4 DEF Run, Cancel, Crash
  <2>5. CASE Tick
    BY <2>5 DEF Tick
  <2>6. ASSUME NEW w \in Workers, Claim(w) \/ ClaimUncertain(w) \/ Release(w)
        PROVE  UNCHANGED consumer /\ owed \subseteq owed'
    BY <2>6 DEF Claim, ClaimUncertain, LeaseRows, Release
  <2>7. ASSUME NEW w \in Workers,
               StartBatch(w) \/ EndBatch(w) \/ Stopped(w) \/ Stop(w) \/ ReleaseError(w)
        PROVE  UNCHANGED consumer /\ owed \subseteq owed'
    BY <2>7 DEF StartBatch, EndBatch, Stopped, Stop, ReleaseError
  <2>8. ASSUME NEW w \in Workers, NEW r \in Rows,
               \/ RejectEnvelope(w, r) \/ StartPublish(w, r) \/ Record(w, r) \/ RecordError(w, r)
               \/ \E evidence \in Evidence : Acknowledged(w, r, evidence)
               \/ \E class \in {"poison", "unavailable"} : Failed(w, r, class)
        PROVE  UNCHANGED consumer /\ owed \subseteq owed'
    BY <2>8 DEF RejectEnvelope, StartPublish, Record, RecordError, Acknowledged, Failed, Answered
  <2>. QED BY <2>1, <2>2, <2>3, <2>4, <2>5, <2>6, <2>7, <2>8 DEF Next, WorkerStep, Progress
<1>. QED BY <1>1, <1>2, <1>3, <1>4

-----------------------------------------------------------------------------
(* Leases and the memory of the workers *)

Resting(w) == at[w] \in {"idle", "stopped"}

\* A step that neither ends nor fills a batch, and writes no lease.
Quiet ==
  /\ UNCHANGED <<lease, todo, seen, deadline, lease_id, leased_until, attempts, stranded, slow>>
  /\ owed \subseteq owed' /\ UNCHANGED published
  /\ \A w \in Workers : /\ Resting(w)' => Resting(w)
                        /\ at'[w] = "claimed" <=> at[w] = "claimed"
                        /\ Held(w)' \subseteq Held(w)

LEMMA LocalSteps ==
  ASSUME TypeOK, LeaseInv, [Next]_vars
  PROVE  \/ Quiet
         \/ Abandon
         \/ Tick
         \/ \E p \in Processes : Crash(p)
         \/ \E w \in Workers : Claim(w) \/ ClaimUncertain(w) \/ StartBatch(w)
         \/ \E w \in Workers : EndBatch(w) \/ Release(w) \/ ReleaseError(w)
         \/ \E w \in Workers, r \in Rows : Record(w, r) \/ RecordError(w, r)
<1>. USE DEF Quiet, Resting, Held, columns, database, batch, locals, history, bounds, others
<1>0. at \in [Workers -> Steps]
  BY DEF TypeOK
<1>1. CASE UNCHANGED vars
  BY <1>1 DEF vars
<1>2. ASSUME NEW r \in Rows, Append(r) PROVE Quiet
  BY <1>2 DEF Append
<1>3. CASE Subscribe \/ Unsubscribe
  BY <1>3 DEF Subscribe, Unsubscribe
<1>4. ASSUME NEW h \in Handlers, HandlerStep(h) PROVE Quiet
  BY <1>4 DEF HandlerStep, Handle, Apply, GiveUp, unconsumed
<1>5. ASSUME NEW p \in Processes, Run(p) \/ Cancel(p) PROVE Quiet
  <2>1. CASE Run(p)
    <3>1. \A w \in WorkersOf(p) : todo[w] = {}
      BY <2>1 DEF Run, WorkersOf, LeaseInv
    <3>. QED BY <1>0, <2>1, <3>1 DEF Run, Reset, WorkersOf
  <2>2. CASE Cancel(p)
    BY <2>2 DEF Cancel
  <2>. QED BY <1>5, <2>1, <2>2
<1>6. ASSUME NEW w \in Workers, Stopped(w) \/ Stop(w) PROVE Quiet
  BY <1>0, <1>6 DEF Stopped, Stop
<1>7. ASSUME NEW w \in Workers, NEW r \in Rows, StartPublish(w, r) \/ Send(w, r) PROVE Quiet
  BY <1>0, <1>7 DEF StartPublish, Settling, Send
<1>8. ASSUME NEW w \in Workers, NEW r \in Rows,
             \/ RejectEnvelope(w, r)
             \/ \E evidence \in Evidence : Acknowledged(w, r, evidence)
             \/ \E class \in {"poison", "unavailable"} : Failed(w, r, class)
      PROVE  Quiet
  <2>1. at[w] \in {"batch", "publishing", "sent"} /\ \E a \in Answers : Answered(w, a)
    BY <1>8 DEF RejectEnvelope, Settling, Acknowledged, Failed, Answers, Evidence
  <2>. QED BY <1>0, <2>1 DEF Answered
<1>. QED BY <1>1, <1>2, <1>3, <1>4, <1>5, <1>6, <1>7, <1>8 DEF Next, WorkerStep, Progress

LEMMA StepLeaseInv ==
  ASSUME TypeOK, RowInv, LeaseInv, AnswerInv, [Next]_vars PROVE LeaseInv'
<1>0. /\ at \in [Workers -> Steps]
      /\ lease \in [Workers -> Leases \cup {NoLease}]
      /\ todo \in [Workers -> SUBSET Rows]
      /\ seen \in [Workers -> [Rows -> Nat]]
      /\ lease_id \in [Rows -> Leases \cup {NoLease}]
      /\ attempts \in [Rows -> Nat]
      /\ owed \subseteq Rows
      /\ NoLease \notin Leases
  BY ConstantsAssumption DEF TypeOK
<1>1. CASE Quiet
  BY <1>1 DEF Quiet, Resting, LeaseInv
<1>2. CASE Abandon
  BY <1>0, <1>2 DEF Abandon, Update, LeaseInv, others, locals, batch
<1>3. ASSUME NEW p \in Processes, Crash(p) PROVE LeaseInv'
  BY <1>0, <1>3 DEF Crash, Reset, LeaseInv, database, columns
<1>4. CASE Tick \/ \E w \in Workers : StartBatch(w)
  BY <1>0, <1>4, SMT DEF Tick, StartBatch, LeaseInv, database, columns
<1>5. ASSUME NEW w \in Workers, NEW S \in SUBSET owed, NEW l \in Leases, LeaseRows(w, S, l)
      PROVE  /\ \A v \in Workers : lease[v] # l
             /\ S \subseteq owed
             /\ lease_id' = Update(lease_id, S, l)
             /\ UNCHANGED <<owed, attempts>>
             /\ at[w] = "idle"
  BY <1>5 DEF LeaseRows, LeasesInUse
<1>6. ASSUME NEW w \in Workers, Claim(w) PROVE LeaseInv'
  <2>1. PICK S \in SUBSET owed, l \in Leases :
          /\ LeaseRows(w, S, l)
          /\ at' = [at EXCEPT ![w] = "claimed"]
          /\ lease' = [lease EXCEPT ![w] = l]
          /\ todo' = [todo EXCEPT ![w] = S]
          /\ seen' = [seen EXCEPT ![w] = [r \in Rows |-> IF r \in S THEN attempts[r] ELSE 0]]
    BY <1>6 DEF Claim
  <2>2. /\ \A v \in Workers : lease[v] # l
        /\ lease_id' = Update(lease_id, S, l)
        /\ UNCHANGED <<owed, attempts>>
    BY <1>5, <2>1
  <2>. QED BY <1>0, <2>1, <2>2 DEF Update, LeaseInv
<1>7. ASSUME NEW w \in Workers, ClaimUncertain(w) PROVE LeaseInv'
  <2>1. PICK S \in SUBSET owed, l \in Leases :
          LeaseRows(w, S, l) /\ UNCHANGED <<at, lease, todo, seen>>
    BY <1>7 DEF ClaimUncertain, locals, batch
  <2>2. /\ \A v \in Workers : lease[v] # l
        /\ lease_id' = Update(lease_id, S, l)
        /\ UNCHANGED <<owed, attempts>>
    BY <1>5, <2>1
  <2>. QED BY <1>0, <2>1, <2>2 DEF Update, LeaseInv
<1>8. ASSUME NEW w \in Workers, EndBatch(w) \/ Release(w) \/ ReleaseError(w) PROVE LeaseInv'
  <2>1. Return(w) /\ UNCHANGED <<owed, attempts>>
    BY <1>8 DEF EndBatch, Release, ReleaseError, database, columns
  <2>2. \A r \in Rows : lease_id'[r] \in {lease_id[r], NoLease}
    BY <1>0, <1>8 DEF EndBatch, Release, ReleaseError, Update, database, columns
  <2>. QED BY <1>0, <2>1, <2>2, SMT DEF Return, LeaseInv
<1>9. ASSUME NEW w \in Workers, NEW r \in Rows, Record(w, r) \/ RecordError(w, r) PROVE LeaseInv'
  <2>1. /\ UNCHANGED <<owed, lease, seen>>
        /\ at'[w] \in {"batch", "releasing"}
        /\ \A v \in Workers \ {w} : at'[v] = at[v] /\ todo'[v] = todo[v]
        /\ todo'[w] \subseteq todo[w]
        /\ r \in todo[w] /\ answer[w] \in Answers
    BY <1>0, <1>9, SMT DEF Record, RecordError, Current, AnswerInv, AnswerOK
  <2>2. CASE UNCHANGED <<columns, incidents>>
    BY <1>0, <2>1, <2>2 DEF LeaseInv, columns
  <2>3. CASE Fence(w, r) /\ Outcome(w, r)
    <3>1. /\ lease_id' = [lease_id EXCEPT ![r] = NoLease]
          /\ \A s \in Rows \ {r} : attempts'[s] = attempts[s]
      BY <2>1, <2>3, OutcomeFrame
    <3>. QED BY <1>0, <2>1, <3>1 DEF LeaseInv
  <2>. QED BY <1>9, <2>2, <2>3 DEF Record, RecordError
<1>. QED BY <1>1, <1>2, <1>3, <1>6, <1>7, <1>8, <1>9, <1>4, LocalSteps

-----------------------------------------------------------------------------
(* Answers *)

LEMMA CurrentUnique ==
  ASSUME NEW w \in Workers, NEW r \in Rows, NEW s \in Rows, Current(w, r), Current(w, s)
  PROVE  r = s
<1>1. SUFFICES ASSUME r # s PROVE FALSE
  OBVIOUS
<1>2. Before(r, s) /\ Before(s, r)
  BY <1>1 DEF Current
<1>. QED BY <1>2, ConstantsAssumption, SMT DEF Before, PriorityHigh, PriorityStandard

\* What keeps a worker's answer valid while others take steps.
LEMMA AnswerFrame ==
  ASSUME NEW w \in Workers, AnswerOK(w),
         at'[w] = "recording" =>
           at[w] = "recording" /\ answer'[w] = answer[w] /\ todo'[w] = todo[w],
         processed \subseteq processed', refused \subseteq refused',
         failures \in [Rows -> Nat], failures' \in [Rows -> Nat], attempts \in [Rows -> Nat],
         \A r \in Rows : failures[r] <= failures'[r],
         \A r \in todo[w] : Fence(w, r)' => Fence(w, r) /\ attempts'[r] = attempts[r]
  PROVE  AnswerOK(w)'
BY SMT DEF AnswerOK, Current

\* A step by which no answer arrives and none is used.
Mute ==
  /\ UNCHANGED <<todo, lease, lease_id, published, attempts, failures, refused>>
  /\ processed \subseteq processed'
  /\ \A w \in Workers : at'[w] = "recording" => at[w] = "recording" /\ answer'[w] = answer[w]

LEMMA AnswerSteps ==
  ASSUME TypeOK, [Next]_vars
  PROVE  \/ Mute
         \/ Abandon
         \/ \E p \in Processes : Crash(p)
         \/ \E w \in Workers : Claim(w) \/ ClaimUncertain(w)
         \/ \E w \in Workers : EndBatch(w) \/ Release(w) \/ ReleaseError(w)
         \/ \E w \in Workers, r \in Rows :
              \/ RejectEnvelope(w, r)
              \/ \E evidence \in Evidence : Acknowledged(w, r, evidence)
              \/ \E class \in {"poison", "unavailable"} : Failed(w, r, class)
              \/ Record(w, r) \/ RecordError(w, r)
<1>. USE DEF Mute, columns, database, consumer, batch, locals, history, others
<1>0. at \in [Workers -> Steps]
  BY DEF TypeOK
<1>1. CASE UNCHANGED vars
  BY <1>1 DEF vars
<1>2. ASSUME NEW r \in Rows, Append(r) PROVE Mute
  BY <1>2 DEF Append
<1>3. CASE Subscribe \/ Unsubscribe
  BY <1>3 DEF Subscribe, Unsubscribe
<1>4. ASSUME NEW h \in Handlers, HandlerStep(h) PROVE Mute
  BY <1>4 DEF HandlerStep, Handle, Apply, GiveUp, unconsumed
<1>5. ASSUME NEW p \in Processes, Run(p) \/ Cancel(p) PROVE Mute
  BY <1>0, <1>5 DEF Run, Cancel, Reset
<1>6. CASE Tick
  BY <1>6 DEF Tick
<1>7. ASSUME NEW w \in Workers, StartBatch(w) \/ Stopped(w) \/ Stop(w) PROVE Mute
  BY <1>0, <1>7 DEF StartBatch, Stopped, Stop
<1>8. ASSUME NEW w \in Workers, NEW r \in Rows, StartPublish(w, r) \/ Send(w, r) PROVE Mute
  BY <1>0, <1>8 DEF StartPublish, Send
<1>. QED BY <1>1, <1>2, <1>3, <1>4, <1>5, <1>6, <1>7, <1>8 DEF Next, WorkerStep, Progress

LEMMA StepAnswerInv ==
  ASSUME TypeOK, TypeOK', LeaseInv, AnswerInv, AttemptsNotOvercounted, [Next]_vars
  PROVE  AnswerInv'
<1>0. /\ at \in [Workers -> Steps]
      /\ lease \in [Workers -> Leases \cup {NoLease}]
      /\ todo \in [Workers -> SUBSET Rows]
      /\ answer \in [Workers -> Answers \cup {"none"}]
      /\ lease_id \in [Rows -> Leases \cup {NoLease}]
      /\ failures \in [Rows -> Nat] /\ failures' \in [Rows -> Nat]
      /\ attempts \in [Rows -> Nat]
  BY DEF TypeOK
<1>1. CASE Mute
  <2>. SUFFICES ASSUME NEW w \in Workers PROVE AnswerOK(w)'
    BY DEF AnswerInv
  <2>1. AnswerOK(w)
    BY DEF AnswerInv
  <2>. QED BY <1>0, <1>1, <2>1, AnswerFrame, SMT DEF Mute, Fence
<1>. DEFINE Frame(w) == /\ at'[w] = at[w] /\ answer'[w] = answer[w] /\ todo'[w] = todo[w]
                        /\ lease'[w] = lease[w]
\* A row that is still fenced was not written.
<1>2. ASSUME NEW w \in Workers, Frame(w), UNCHANGED processed, refused \subseteq refused',
             \A r \in Rows : failures[r] <= failures'[r],
             \A r \in Rows : \/ lease_id'[r] = NoLease
                             \/ lease_id'[r] # lease[w]
                             \/ /\ lease_id'[r] = lease_id[r] /\ attempts'[r] = attempts[r]
                                /\ r \in published' <=> r \in published
      PROVE  AnswerOK(w)'
  <2>1. \A r \in todo[w] : Fence(w, r)' => Fence(w, r) /\ attempts'[r] = attempts[r]
    BY <1>0, <1>2 DEF Fence, LeaseInv
  <2>2. AnswerOK(w)
    BY DEF AnswerInv
  <2>3. at'[w] = "recording" =>
           at[w] = "recording" /\ answer'[w] = answer[w] /\ todo'[w] = todo[w]
    BY <1>2
  <2>. QED BY <1>0, <1>2, <2>1, <2>2, <2>3, AnswerFrame
<1>3. CASE Abandon
  <2>. SUFFICES ASSUME NEW w \in Workers PROVE AnswerOK(w)'
    BY DEF AnswerInv
  <2>1. Frame(w) /\ UNCHANGED <<processed, refused, failures, attempts>>
    BY <1>3 DEF Abandon, others, consumer, locals, batch, history
  <2>2. \A r \in Rows : \/ lease_id'[r] = NoLease
                        \/ lease_id'[r] = lease_id[r] /\ (r \in published' <=> r \in published)
    BY <1>0, <1>3 DEF Abandon, Update
  <2>. QED BY <1>0, <1>2, <2>1, <2>2, SMT
<1>4. ASSUME NEW p \in Processes, Crash(p) PROVE AnswerInv'
  <2>. SUFFICES ASSUME NEW w \in Workers PROVE AnswerOK(w)'
    BY DEF AnswerInv
  <2>1. CASE ProcessOf[w] = p
    BY <1>4, <2>1 DEF Crash, Reset, WorkersOf, AnswerOK
  <2>2. CASE ProcessOf[w] # p
    BY <1>0, <1>2, <1>4, <2>2, SMT DEF Crash, Reset, WorkersOf, database, columns, consumer
  <2>. QED BY <2>1, <2>2
<1>5. ASSUME NEW w \in Workers, Claim(w) \/ ClaimUncertain(w) PROVE AnswerInv'
  <2>1. PICK S \in SUBSET owed, l \in Leases :
          /\ LeaseRows(w, S, l)
          /\ \A v \in Workers \ {w} : Frame(v)
          /\ at'[w] # "recording"
    <3>1. at[w] = "idle"
      BY <1>5 DEF Claim, ClaimUncertain, LeaseRows
    <3>. QED BY <1>0, <1>5, <3>1 DEF Claim, ClaimUncertain, locals, batch
  <2>2. /\ \A v \in Workers : lease[v] # l
        /\ lease_id' = Update(lease_id, S, l)
        /\ UNCHANGED <<processed, refused, failures, attempts, published>>
    BY <2>1 DEF LeaseRows, LeasesInUse, consumer
  <2>3. ASSUME NEW v \in Workers \ {w} PROVE AnswerOK(v)'
    BY <1>0, <1>2, <2>1, <2>2, <2>3, SMT DEF Update
  <2>4. AnswerOK(w)'
    BY <2>1 DEF AnswerOK
  <2>. QED BY <2>3, <2>4 DEF AnswerInv
<1>6. ASSUME NEW w \in Workers, EndBatch(w) \/ Release(w) \/ ReleaseError(w) PROVE AnswerInv'
  <2>1. Return(w) /\ UNCHANGED <<processed, refused, failures, attempts, published>>
    BY <1>6 DEF EndBatch, Release, ReleaseError, database, columns, consumer, history
  <2>2. \A r \in Rows : lease_id'[r] \in {lease_id[r], NoLease}
    BY <1>0, <1>6 DEF EndBatch, Release, ReleaseError, Update, database, columns
  <2>3. ASSUME NEW v \in Workers \ {w} PROVE AnswerOK(v)'
    BY <1>0, <1>2, <2>1, <2>2, <2>3, SMT DEF Return
  <2>4. AnswerOK(w)'
    BY <1>0, <2>1 DEF AnswerOK, Return
  <2>. QED BY <2>3, <2>4 DEF AnswerInv
<1>7. ASSUME NEW w \in Workers, NEW r \in Rows, Record(w, r) \/ RecordError(w, r) PROVE AnswerInv'
  <2>1. /\ at'[w] # "recording"
        /\ \A v \in Workers \ {w} : Frame(v)
        /\ UNCHANGED <<processed, refused, failures>>
        /\ answer[w] \in Answers
    BY <1>0, <1>7 DEF Record, RecordError, AnswerInv, AnswerOK, consumer, history
  <2>2. \A s \in Rows : \/ lease_id'[s] = NoLease
                        \/ /\ lease_id'[s] = lease_id[s] /\ attempts'[s] = attempts[s]
                           /\ s \in published' <=> s \in published
    <3>1. CASE UNCHANGED <<columns, incidents>>
      BY <3>1 DEF columns
    <3>2. CASE Outcome(w, r)
      <4>1. /\ lease_id' = [lease_id EXCEPT ![r] = NoLease]
            /\ \A s \in Rows \ {r} : attempts'[s] = attempts[s]
            /\ published' \in {published, published \cup {r}}
        BY <2>1, <3>2, OutcomeFrame
      <4>. QED BY <1>0, <4>1
    <3>. QED BY <1>7, <3>1, <3>2 DEF Record, RecordError
  <2>3. ASSUME NEW v \in Workers \ {w} PROVE AnswerOK(v)'
    BY <1>0, <1>2, <2>1, <2>2, <2>3, SMT
  <2>4. AnswerOK(w)'
    BY <2>1 DEF AnswerOK
  <2>. QED BY <2>3, <2>4 DEF AnswerInv
<1>8. ASSUME NEW w \in Workers, NEW r \in Rows, NEW a \in Answers, Current(w, r), Answered(w, a),
             a = "consumer_applied" => EventOf[r] \in processed,
             a \in Evidence => UNCHANGED <<failures, refused>>,
             a \notin Evidence => Noted(r, a)
      PROVE  AnswerInv'
  <2>1. /\ \A v \in Workers \ {w} : Frame(v)
        /\ at'[w] = "recording" /\ answer'[w] = a
        /\ UNCHANGED <<processed, lease_id, lease, todo, attempts, published>>
    BY <1>0, <1>8 DEF Answered, database, columns, consumer, batch
  <2>2. /\ refused \subseteq refused'
        /\ \A s \in Rows : failures[s] <= failures'[s]
        /\ a = "poison" => r \in refused'
        /\ a \notin Evidence => failures'[r] = failures[r] + 1
    BY <1>0, <1>8, SMT DEF Noted, Evidence
  <2>3. ASSUME NEW v \in Workers \ {w} PROVE AnswerOK(v)'
    BY <1>2, <2>1, <2>2, <2>3
  <2>4. AnswerOK(w)'
    <3>1. \A s \in Rows : Current(w, s)' => s = r
      BY <1>8, <2>1, CurrentUnique DEF Current
    <3>2. attempts[r] <= failures[r]
      BY DEF AttemptsNotOvercounted
    <3>3. a \notin Evidence => attempts'[r] < failures'[r]
      BY <1>0, <2>1, <2>2, <3>2, SMT
    <3>4. a = "consumer_applied" => EventOf[r] \in processed'
      BY <1>8, <2>1
    <3>. QED BY <1>8, <2>1, <2>2, <3>1, <3>3, <3>4 DEF AnswerOK
  <2>. QED BY <2>3, <2>4 DEF AnswerInv
<1>9. ASSUME NEW w \in Workers, NEW r \in Rows,
             \/ RejectEnvelope(w, r)
             \/ \E evidence \in Evidence : Acknowledged(w, r, evidence)
             \/ \E class \in {"poison", "unavailable"} : Failed(w, r, class)
      PROVE AnswerInv'
  <2>1. CASE RejectEnvelope(w, r)
    BY <1>8, <2>1 DEF RejectEnvelope, Settling, Answers, Evidence
  <2>2. ASSUME NEW evidence \in Evidence, Acknowledged(w, r, evidence) PROVE AnswerInv'
    BY <1>8, <2>2 DEF Acknowledged, Answers, Evidence
  <2>3. ASSUME NEW class \in {"poison", "unavailable"}, Failed(w, r, class) PROVE AnswerInv'
    BY <1>8, <2>3 DEF Failed, Answers, Evidence
  <2>. QED BY <1>9, <2>1, <2>2, <2>3
<1>. QED BY <1>1, <1>3, <1>4, <1>5, <1>6, <1>7, <1>9, AnswerSteps

-----------------------------------------------------------------------------
(* Deadlines and stranded leases *)

\* What a claim does, whether its worker hears of it or not.
LEMMA LeaseRowsFacts ==
  ASSUME TypeOK, NEW w \in Workers, NEW S \in SUBSET owed, NEW l \in Leases, LeaseRows(w, S, l)
  PROVE  /\ at[w] = "idle"
         /\ \A v \in Workers : lease[v] # l
         /\ lease_id' = [r \in Rows |-> IF r \in S THEN l ELSE lease_id[r]]
         /\ leased_until' = [r \in Rows |-> IF r \in S THEN LeaseDuration ELSE leased_until[r]]
         /\ UNCHANGED <<published, slow>>
BY DEF LeaseRows, LeasesInUse, Update

\* The outcome of a row, seen from the leases.
LEMMA RecordLeases ==
  ASSUME TypeOK, AnswerInv, NEW w \in Workers, NEW r \in Rows, Record(w, r) \/ RecordError(w, r)
  PROVE  /\ at[w] = "recording" /\ at'[w] \in {"batch", "releasing"}
         /\ \A v \in Workers \ {w} : at'[v] = at[v] /\ todo'[v] = todo[v]
         /\ r \in todo[w] /\ todo'[w] \in {todo[w], todo[w] \ {r}}
         /\ UNCHANGED <<owed, lease, deadline, slow>>
         /\ stranded \subseteq stranded'
         /\ published \subseteq published'
         /\ \/ UNCHANGED <<lease_id, leased_until>>
            \/ /\ Fence(w, r)
               /\ lease_id' = [lease_id EXCEPT ![r] = NoLease]
               /\ leased_until' = [leased_until EXCEPT ![r] = 0]
         /\ Record(w, r) => \/ ~Fence(w, r)
                            \/ leased_until' = [leased_until EXCEPT ![r] = 0]
         /\ Record(w, r) => at'[w] = "batch" /\ todo'[w] = todo[w] \ {r}
         /\ RecordError(w, r) => at'[w] = "releasing" /\ (r \in stranded' \/ todo'[w] = todo[w])
<1>0. /\ at \in [Workers -> Steps]
      /\ todo \in [Workers -> SUBSET Rows]
      /\ answer[w] \in Answers
  BY DEF TypeOK, Record, RecordError, AnswerInv, AnswerOK
<1>1. Outcome(w, r) => /\ lease_id' = [lease_id EXCEPT ![r] = NoLease]
                       /\ leased_until' = [leased_until EXCEPT ![r] = 0]
                       /\ published \subseteq published'
  BY <1>0, OutcomeFrame
<1>2. CASE Record(w, r)
  BY <1>0, <1>1, <1>2 DEF Record, RecordError, Current, columns, history, bounds
<1>3. CASE RecordError(w, r)
  BY <1>0, <1>1, <1>3 DEF Record, RecordError, Current, columns
<1>. QED BY <1>2, <1>3

LEMMA StepDeadlineInv ==
  ASSUME TypeOK, RowInv, RowInv', LeaseInv, AnswerInv, DeadlineInv, [Next]_vars
  PROVE  DeadlineInv'
<1>0. /\ at \in [Workers -> Steps]
      /\ lease \in [Workers -> Leases \cup {NoLease}]
      /\ deadline \in [Workers -> Nat]
      /\ lease_id \in [Rows -> Leases \cup {NoLease}]
      /\ leased_until \in [Rows -> Nat]
      /\ LeaseDuration \in Nat /\ NoLease \notin Leases
  BY ConstantsAssumption DEF TypeOK
<1>1. CASE Quiet
  BY <1>1 DEF Quiet, DeadlineInv
<1>2. CASE Abandon
  BY <1>0, <1>2, SMT DEF Abandon, Update, DeadlineInv, RowInv, others, locals, batch
<1>3. CASE Tick
  <2>1. \A m, n \in Nat : m <= n => Elapsed(m) <= Elapsed(n)
    BY SMT DEF Elapsed
  <2>2. /\ leased_until' = [r \in Rows |-> Elapsed(leased_until[r])]
        /\ deadline' = [w \in Workers |-> Elapsed(deadline[w])]
        /\ UNCHANGED <<at, lease, lease_id>>
    BY <1>3 DEF Tick
  <2>. QED BY <1>0, <2>1, <2>2 DEF DeadlineInv
<1>4. ASSUME NEW p \in Processes, Crash(p) PROVE DeadlineInv'
  <2>. SUFFICES ASSUME NEW w \in Workers, NEW r \in Rows, at'[w] # "claimed", lease_id'[r] = lease'[w]
                PROVE  leased_until'[r] <= deadline'[w]
    BY DEF DeadlineInv
  <2>1. UNCHANGED <<lease_id, leased_until>>
    BY <1>4 DEF Crash, database, columns
  <2>2. CASE ProcessOf[w] = p
    BY <1>0, <1>4, <2>1, <2>2, SMT DEF Crash, Reset, WorkersOf, RowInv
  <2>3. CASE ProcessOf[w] # p
    BY <1>0, <1>4, <2>1, <2>3 DEF Crash, Reset, WorkersOf, DeadlineInv
  <2>. QED BY <2>2, <2>3
<1>5. ASSUME NEW w \in Workers, Claim(w) PROVE DeadlineInv'
  <2>1. PICK S \in SUBSET owed, l \in Leases :
          /\ LeaseRows(w, S, l)
          /\ at' = [at EXCEPT ![w] = "claimed"]
          /\ lease' = [lease EXCEPT ![w] = l]
          /\ UNCHANGED deadline
    BY <1>5 DEF Claim
  <2>2. /\ \A v \in Workers : lease[v] # l
        /\ lease_id' = [r \in Rows |-> IF r \in S THEN l ELSE lease_id[r]]
        /\ leased_until' = [r \in Rows |-> IF r \in S THEN LeaseDuration ELSE leased_until[r]]
    BY <2>1, LeaseRowsFacts, SMT
  <2>. QED BY <1>0, <2>1, <2>2 DEF DeadlineInv
<1>6. ASSUME NEW w \in Workers, ClaimUncertain(w) PROVE DeadlineInv'
  <2>1. PICK S \in SUBSET owed, l \in Leases :
          LeaseRows(w, S, l) /\ UNCHANGED <<at, lease, deadline>>
    BY <1>6 DEF ClaimUncertain, locals, batch
  <2>2. /\ \A v \in Workers : lease[v] # l
        /\ lease_id' = [r \in Rows |-> IF r \in S THEN l ELSE lease_id[r]]
        /\ leased_until' = [r \in Rows |-> IF r \in S THEN LeaseDuration ELSE leased_until[r]]
    BY <2>1, LeaseRowsFacts, SMT
  <2>. QED BY <1>0, <2>1, <2>2 DEF DeadlineInv
<1>7. ASSUME NEW w \in Workers, StartBatch(w) PROVE DeadlineInv'
  BY <1>0, <1>7, SMT DEF StartBatch, DeadlineInv, RowInv, database, columns
<1>8. ASSUME NEW w \in Workers, EndBatch(w) \/ Release(w) \/ ReleaseError(w) PROVE DeadlineInv'
  <2>1. Return(w)
    BY <1>8 DEF EndBatch, Release, ReleaseError
  <2>2. \A r \in Rows : \/ lease_id'[r] = lease_id[r] /\ leased_until'[r] = leased_until[r]
                        \/ lease_id'[r] = NoLease
    BY <1>0, <1>8 DEF EndBatch, Release, ReleaseError, Update, database, columns
  <2>3. \A r \in Rows : lease_id'[r] = NoLease => leased_until'[r] = 0
    BY DEF RowInv
  <2>. QED BY <1>0, <2>1, <2>2, <2>3, SMT DEF Return, DeadlineInv
<1>9. ASSUME NEW w \in Workers, NEW r \in Rows, Record(w, r) \/ RecordError(w, r) PROVE DeadlineInv'
  <2>1. /\ at[w] = "recording"
        /\ \A v \in Workers \ {w} : at'[v] = at[v]
        /\ UNCHANGED <<lease, deadline>>
        /\ \/ UNCHANGED <<lease_id, leased_until>>
           \/ /\ lease_id' = [lease_id EXCEPT ![r] = NoLease]
              /\ leased_until' = [leased_until EXCEPT ![r] = 0]
    BY <1>9, RecordLeases
  <2>. QED BY <1>0, <2>1, SMT DEF DeadlineInv
<1>. QED BY <1>1, <1>2, <1>3, <1>4, <1>5, <1>6, <1>7, <1>8, <1>9, LocalSteps

LEMMA StepNoStrandedLease ==
  ASSUME TypeOK, RowInv, RowInv', LeaseInv, AnswerInv, DeadlineInv, NoStrandedLease, [Next]_vars
  PROVE  NoStrandedLease'
<1>0. /\ at \in [Workers -> Steps]
      /\ lease \in [Workers -> Leases \cup {NoLease}]
      /\ todo \in [Workers -> SUBSET Rows]
      /\ deadline \in [Workers -> Nat]
      /\ lease_id \in [Rows -> Leases \cup {NoLease}]
      /\ leased_until \in [Rows -> Nat]
      /\ owed \subseteq Rows
      /\ LeaseDuration \in Nat /\ NoLease \notin Leases
  BY ConstantsAssumption DEF TypeOK
<1>1. CASE Quiet
  BY <1>1 DEF Quiet, NoStrandedLease
<1>2. CASE Abandon
  BY <1>0, <1>2, SMT DEF Abandon, Update, NoStrandedLease, others, locals, batch, history
<1>3. CASE Tick
  <2>1. /\ \A r \in Rows : leased_until'[r] > 0 => leased_until[r] > 0
        /\ UNCHANGED <<todo, lease, lease_id, stranded>>
    BY <1>0, <1>3, SMT DEF Tick, Elapsed, history
  <2>. QED BY <2>1 DEF NoStrandedLease
<1>4. ASSUME NEW p \in Processes, Crash(p) PROVE NoStrandedLease'
  <2>1. /\ UNCHANGED <<lease_id, leased_until>>
        /\ stranded' = stranded \cup UNION {todo[w] : w \in WorkersOf(p)}
        /\ \A w \in Workers \ WorkersOf(p) : todo'[w] = todo[w] /\ lease'[w] = lease[w]
    BY <1>4 DEF Crash, Reset, database, columns
  <2>2. \A w \in WorkersOf(p) : todo[w] \subseteq stranded'
    BY <2>1
  <2>. QED BY <2>1, <2>2 DEF NoStrandedLease
<1>5. ASSUME NEW w \in Workers, Claim(w) PROVE NoStrandedLease'
  <2>1. PICK S \in SUBSET owed, l \in Leases :
          /\ LeaseRows(w, S, l)
          /\ lease' = [lease EXCEPT ![w] = l]
          /\ todo' = [todo EXCEPT ![w] = S]
          /\ stranded' = stranded \ S
    BY <1>5 DEF Claim
  <2>2. /\ at[w] = "idle"
        /\ lease_id' = [r \in Rows |-> IF r \in S THEN l ELSE lease_id[r]]
        /\ leased_until' = [r \in Rows |-> IF r \in S THEN LeaseDuration ELSE leased_until[r]]
    BY <2>1, LeaseRowsFacts, SMT
  <2>3. todo[w] = {}
    BY <2>2 DEF LeaseInv
  <2>. QED BY <1>0, <2>1, <2>2, <2>3, SMT DEF NoStrandedLease
<1>6. ASSUME NEW w \in Workers, ClaimUncertain(w) PROVE NoStrandedLease'
  <2>1. PICK S \in SUBSET owed, l \in Leases :
          LeaseRows(w, S, l) /\ UNCHANGED <<lease, todo>> /\ stranded' = stranded \cup S
    BY <1>6 DEF ClaimUncertain, locals, batch
  <2>2. /\ lease_id' = [r \in Rows |-> IF r \in S THEN l ELSE lease_id[r]]
        /\ leased_until' = [r \in Rows |-> IF r \in S THEN LeaseDuration ELSE leased_until[r]]
    BY <2>1, LeaseRowsFacts, SMT
  <2>. QED BY <1>0, <2>1, <2>2 DEF NoStrandedLease
<1>7. ASSUME NEW w \in Workers, StartBatch(w) PROVE NoStrandedLease'
  BY <1>7 DEF StartBatch, NoStrandedLease, database, columns, history
<1>8. ASSUME NEW w \in Workers, EndBatch(w) \/ Release(w) \/ ReleaseError(w) PROVE NoStrandedLease'
  <2>1. /\ \A v \in Workers \ {w} : todo'[v] = todo[v] /\ lease'[v] = lease[v]
        /\ stranded \subseteq stranded'
    <3>1. Return(w) /\ (stranded' = stranded \/ stranded' = stranded \cup todo[w])
      BY <1>8 DEF EndBatch, Release, ReleaseError, history
    <3>. QED BY <1>0, <3>1 DEF Return
  \* Whatever w held is free, released or reported.
  <2>2. \A r \in todo[w] : lease_id[r] = lease[w] => leased_until'[r] = 0 \/ r \in stranded'
    <3>1. CASE EndBatch(w)
      BY <1>0, <3>1, SMT DEF EndBatch, DeadlineInv, database, columns
    <3>2. CASE Release(w)
      BY <1>0, <3>2 DEF Release, Fence, Update, RowInv
    <3>3. CASE ReleaseError(w)
      BY <3>3 DEF ReleaseError
    <3>. QED BY <1>8, <3>1, <3>2, <3>3
  <2>3. \A r \in Rows : \/ lease_id'[r] = lease_id[r] /\ leased_until'[r] = leased_until[r]
                        \/ leased_until'[r] = 0
    BY <1>0, <1>8 DEF EndBatch, Release, ReleaseError, Update, database, columns
  <2>. QED BY <1>0, <2>1, <2>2, <2>3, SMT DEF NoStrandedLease
<1>9. ASSUME NEW w \in Workers, NEW r \in Rows, Record(w, r) \/ RecordError(w, r)
      PROVE  NoStrandedLease'
  <2>1. /\ UNCHANGED lease
        /\ \A v \in Workers \ {w} : todo'[v] = todo[v]
        /\ todo'[w] \in {todo[w], todo[w] \ {r}}
        /\ stranded \subseteq stranded'
        /\ \/ UNCHANGED <<lease_id, leased_until>>
           \/ /\ lease_id' = [lease_id EXCEPT ![r] = NoLease]
              /\ leased_until' = [leased_until EXCEPT ![r] = 0]
    BY <1>9, RecordLeases
  <2>2. lease_id[r] = lease[w] =>
          leased_until'[r] = 0 \/ r \in stranded' \/ todo'[w] = todo[w]
    <3>1. CASE Record(w, r)
      <4>1. ~Fence(w, r) \/ leased_until' = [leased_until EXCEPT ![r] = 0]
        BY <3>1, RecordLeases
      <4>2. r \in published => leased_until[r] = 0
        BY DEF RowInv
      <4>. QED BY <1>0, <2>1, <4>1, <4>2 DEF Fence
    <3>2. CASE RecordError(w, r)
      BY <3>2, RecordLeases
    <3>. QED BY <1>9, <3>1, <3>2
  <2>. QED BY <1>0, <2>1, <2>2, SMT DEF NoStrandedLease
<1>. QED BY <1>1, <1>2, <1>3, <1>4, <1>5, <1>6, <1>7, <1>8, <1>9, LocalSteps

-----------------------------------------------------------------------------
(* Batches *)

LEMMA StepHeldInv ==
  ASSUME TypeOK, TypeOK', RowInv, LeaseInv, AnswerInv, HeldInv, [Next]_vars
  PROVE  HeldInv'
<1>0. /\ at \in [Workers -> Steps]
      /\ lease \in [Workers -> Leases \cup {NoLease}]
      /\ todo \in [Workers -> SUBSET Rows]
      /\ lease_id \in [Rows -> Leases \cup {NoLease}]
      /\ leased_until \in [Rows -> Nat]
      /\ owed \subseteq Rows
      /\ slow \in Nat /\ slow' \in Nat
      /\ LeaseDuration \in Nat /\ NoLease \notin Leases
  BY ConstantsAssumption DEF TypeOK
<1>. DEFINE Safe(w, r) == \/ r \in published
                          \/ lease_id[r] = lease[w] /\ leased_until[r] + slow >= LeaseDuration
\* It is enough that slow does not fall, that batches only shrink, and that
\* what is left of them stays safe.
<1>1. ASSUME slow <= slow',
             \A w \in Workers : Held(w)' \subseteq Held(w),
             \A w \in Workers, r \in Rows :
               slow < LeaseDuration /\ r \in Held(w)' /\ Safe(w, r) => Safe(w, r)'
      PROVE  HeldInv'
  <2>1. slow' < LeaseDuration => slow < LeaseDuration
    BY <1>0, <1>1, SMT
  <2>2. BatchesDisjoint'
    BY <1>1, <2>1 DEF HeldInv, BatchesDisjoint
  <2>. QED BY <1>1, <2>1, <2>2 DEF HeldInv
<1>2. \A w \in Workers : Held(w) \subseteq todo[w]
  BY DEF Held
<1>3. CASE Quiet
  <2>1. \A w \in Workers, r \in Rows : Safe(w, r) => Safe(w, r)'
    BY <1>3 DEF Quiet
  <2>. QED BY <1>0, <1>1, <1>3, <2>1, SMT DEF Quiet
<1>4. CASE Abandon
  <2>1. /\ published' = published \cup (owed \ published)
        /\ UNCHANGED <<at, todo, slow>>
    BY <1>4 DEF Abandon, others, locals, batch, bounds
  <2>2. \A w \in Workers : Held(w)' = Held(w)
    BY <2>1 DEF Held
  <2>3. \A w \in Workers, r \in Rows : r \in Held(w) => Safe(w, r)'
    BY <1>2, <2>1 DEF LeaseInv
  <2>. QED BY <1>0, <1>1, <2>1, <2>2, <2>3, SMT
<1>5. CASE Tick
  <2>1. /\ leased_until' = [r \in Rows |-> Elapsed(leased_until[r])]
        /\ UNCHANGED <<at, todo, lease, lease_id, published>>
        /\ slow' = IF (slow < MaxSlow \/ slow < LeaseDuration) /\ \E w \in Workers : AtWork(w)
                   THEN slow + 1 ELSE slow
    BY <1>5 DEF Tick
  <2>2. \A w \in Workers : Held(w)' = Held(w)
    BY <2>1 DEF Held
  <2>3. \A w \in Workers, r \in Rows :
          r \in Held(w) /\ slow < LeaseDuration => slow' = slow + 1
    BY <1>2, <2>1 DEF AtWork, LeaseInv
  <2>4. \A r \in Rows : leased_until'[r] \in Nat /\ leased_until'[r] + 1 >= leased_until[r]
    BY <1>0, <2>1, SMT DEF Elapsed
  <2>5. \A w \in Workers, r \in Rows :
          r \in Held(w) /\ slow < LeaseDuration /\ Safe(w, r) => Safe(w, r)'
    BY <1>0, <2>1, <2>3, <2>4, SMT
  <2>. QED BY <1>0, <1>1, <2>1, <2>2, <2>5, SMT
<1>6. ASSUME NEW p \in Processes, Crash(p) PROVE HeldInv'
  <2>1. UNCHANGED <<lease_id, leased_until, published, slow>>
    BY <1>6 DEF Crash, database, columns
  <2>2. \A w \in Workers : \/ Held(w)' = {}
                           \/ Held(w)' = Held(w) /\ lease'[w] = lease[w]
    BY <1>0, <1>6 DEF Crash, Reset, WorkersOf, Held
  <2>. QED BY <1>0, <1>1, <2>1, <2>2, SMT
\* A claim takes no row that a worker still holds.
<1>7. ASSUME NEW w \in Workers, NEW S \in SUBSET owed, NEW l \in Leases, LeaseRows(w, S, l),
             slow < LeaseDuration
      PROVE  /\ \A v \in Workers : Held(v) \cap S = {}
             /\ \A v \in Workers, r \in Rows :
                  r \in Held(v) => Safe(v, r) /\ leased_until'[r] = leased_until[r]
                                              /\ lease_id'[r] = lease_id[r]
             /\ \A r \in S : lease_id'[r] = l /\ leased_until'[r] = LeaseDuration
             /\ UNCHANGED <<published, slow>>
             /\ at[w] = "idle"
  <2>1. \A r \in S : r \notin published /\ leased_until[r] = 0
    BY <1>7 DEF LeaseRows, Limit, Claimable
  <2>2. /\ at[w] = "idle" /\ UNCHANGED <<published, slow>>
        /\ lease_id' = [r \in Rows |-> IF r \in S THEN l ELSE lease_id[r]]
        /\ leased_until' = [r \in Rows |-> IF r \in S THEN LeaseDuration ELSE leased_until[r]]
    BY <1>7, LeaseRowsFacts, SMT
  <2>3. \A v \in Workers, r \in Rows : r \in Held(v) => Safe(v, r)
    BY <1>7 DEF HeldInv
  <2>4. \A v \in Workers : Held(v) \cap S = {}
    BY <1>0, <1>7, <2>1, <2>3, SMT
  <2>. QED BY <1>0, <2>1, <2>2, <2>3, <2>4
<1>8. ASSUME NEW w \in Workers, Claim(w) PROVE HeldInv'
  <2>1. PICK S \in SUBSET owed, l \in Leases :
          /\ LeaseRows(w, S, l)
          /\ at' = [at EXCEPT ![w] = "claimed"]
          /\ lease' = [lease EXCEPT ![w] = l]
          /\ todo' = [todo EXCEPT ![w] = S]
    BY <1>8 DEF Claim
  <2>2. UNCHANGED slow
    BY <2>1, LeaseRowsFacts
  <2>. SUFFICES ASSUME slow < LeaseDuration PROVE HeldInv'
    BY <2>2 DEF HeldInv, BatchesDisjoint
  <2>3. /\ \A v \in Workers : Held(v) \cap S = {}
        /\ \A v \in Workers, r \in Rows :
             r \in Held(v) => Safe(v, r) /\ leased_until'[r] = leased_until[r]
                                         /\ lease_id'[r] = lease_id[r]
        /\ \A r \in S : lease_id'[r] = l /\ leased_until'[r] = LeaseDuration
        /\ UNCHANGED <<published, slow>>
    BY <1>7, <2>1
  <2>4. Held(w)' = S /\ lease'[w] = l
    BY <1>0, <2>1 DEF Held
  <2>5. \A v \in Workers \ {w} : Held(v)' = Held(v) /\ lease'[v] = lease[v]
    BY <1>0, <2>1 DEF Held
  <2>6. \A v \in Workers, r \in Rows : r \in Held(v)' => Safe(v, r)'
    <3>1. \A r \in Rows : r \in S => Safe(w, r)'
      BY <1>0, <2>3, <2>4, SMT
    <3>2. \A v \in Workers \ {w}, r \in Rows : r \in Held(v) => Safe(v, r)'
      BY <1>0, <2>3, <2>5, SMT
    <3>. QED BY <2>4, <2>5, <3>1, <3>2, SMT
  <2>7. BatchesDisjoint'
    BY <2>3, <2>4, <2>5, SMT DEF HeldInv, BatchesDisjoint
  <2>. QED BY <2>6, <2>7 DEF HeldInv
<1>9. ASSUME NEW w \in Workers, ClaimUncertain(w) PROVE HeldInv'
  <2>1. PICK S \in SUBSET owed, l \in Leases :
          LeaseRows(w, S, l) /\ UNCHANGED <<at, lease, todo>>
    BY <1>9 DEF ClaimUncertain, locals, batch
  <2>2. UNCHANGED slow
    BY <2>1, LeaseRowsFacts
  <2>3. \A v \in Workers : Held(v)' = Held(v)
    BY <2>1 DEF Held
  <2>4. ASSUME slow < LeaseDuration PROVE \A v \in Workers, r \in Rows : r \in Held(v) => Safe(v, r)'
    <3>1. /\ \A v \in Workers, r \in Rows :
               r \in Held(v) => Safe(v, r) /\ leased_until'[r] = leased_until[r]
                                           /\ lease_id'[r] = lease_id[r]
          /\ UNCHANGED <<published, slow>>
      BY <1>7, <2>1, <2>4
    <3>. QED BY <2>1, <3>1
  <2>. QED BY <1>0, <1>1, <2>2, <2>3, <2>4, SMT
<1>10. ASSUME NEW w \in Workers, StartBatch(w) PROVE HeldInv'
  <2>1. UNCHANGED <<todo, lease, lease_id, leased_until, published, slow>>
    BY <1>10 DEF StartBatch, database, columns, bounds
  <2>2. \A v \in Workers : Held(v)' = Held(v)
    BY <1>0, <1>10 DEF StartBatch, Held
  <2>. QED BY <1>0, <1>1, <2>1, <2>2, SMT
<1>11. ASSUME NEW w \in Workers, EndBatch(w) \/ Release(w) \/ ReleaseError(w) PROVE HeldInv'
  <2>1. Return(w) /\ UNCHANGED <<published, slow>>
    BY <1>11 DEF EndBatch, Release, ReleaseError, database, columns, bounds
  <2>2. Held(w)' = {} /\ \A v \in Workers \ {w} : Held(v)' = Held(v) /\ lease'[v] = lease[v]
    BY <1>0, <2>1 DEF Return, Held
  <2>3. \A r \in Rows : \/ lease_id'[r] = lease_id[r] /\ leased_until'[r] = leased_until[r]
                        \/ r \in todo[w] /\ lease_id[r] = lease[w]
    BY <1>0, <1>11 DEF EndBatch, Release, ReleaseError, Fence, Update, database, columns
  <2>4. \A v \in Workers \ {w} : \A r \in Rows :
          r \in todo[w] /\ lease_id[r] = lease[w] => lease_id[r] # lease[v]
    BY <1>0 DEF LeaseInv
  <2>5. \A v \in Workers \ {w}, r \in Rows : Safe(v, r) => Safe(v, r)'
    BY <1>0, <2>1, <2>2, <2>3, <2>4
  <2>. QED BY <1>0, <1>1, <2>1, <2>2, <2>5, SMT
<1>12. ASSUME NEW w \in Workers, NEW r \in Rows, Record(w, r) \/ RecordError(w, r) PROVE HeldInv'
  <2>1. /\ at[w] = "recording" /\ at'[w] \in {"batch", "releasing"}
        /\ \A v \in Workers \ {w} : at'[v] = at[v] /\ todo'[v] = todo[v]
        /\ r \in todo[w]
        /\ UNCHANGED <<lease, slow>>
        /\ published \subseteq published'
        /\ \/ UNCHANGED <<lease_id, leased_until>>
           \/ /\ lease_id' = [lease_id EXCEPT ![r] = NoLease]
              /\ leased_until' = [leased_until EXCEPT ![r] = 0]
    BY <1>12, RecordLeases
  <2>2. Held(w)' \subseteq Held(w) \ {r}
    <3>1. \/ at'[w] = "batch" /\ todo'[w] = todo[w] \ {r}
          \/ at'[w] = "releasing"
      BY <1>12, RecordLeases
    <3>. QED BY <2>1, <3>1 DEF Held
  <2>3. \A v \in Workers \ {w} : Held(v)' = Held(v)
    BY <2>1 DEF Held
  <2>4. r \in Held(w)
    BY <2>1 DEF Held
  <2>5. \A v \in Workers : slow < LeaseDuration => r \notin Held(v)'
    BY <2>2, <2>3, <2>4 DEF HeldInv, BatchesDisjoint
  <2>6. \A v \in Workers, s \in Rows \ {r} : Safe(v, s) => Safe(v, s)'
    BY <1>0, <2>1
  <2>. QED BY <1>0, <1>1, <2>1, <2>2, <2>3, <2>5, <2>6, SMT
<1>. QED BY <1>3, <1>4, <1>5, <1>6, <1>8, <1>9, <1>10, <1>11, <1>12, LocalSteps

-----------------------------------------------------------------------------
(* The records *)

\* The consumer's memory and the history only grow.
LEMMA Monotone ==
  ASSUME TypeOK, [Next]_vars
  PROVE  /\ processed \subseteq processed'
         /\ refused \subseteq refused'
         /\ \A r \in Rows : failures[r] <= failures'[r]
<1>. USE DEF consumer, history, others
<1>0. failures \in [Rows -> Nat]
  BY DEF TypeOK
<1>1. CASE Mute
  BY <1>0, <1>1, SMT DEF Mute
<1>2. CASE Abandon
  BY <1>0, <1>2, SMT DEF Abandon
<1>3. ASSUME NEW p \in Processes, Crash(p)
      PROVE  UNCHANGED <<processed, refused, failures>>
  BY <1>3 DEF Crash
<1>4. ASSUME NEW w \in Workers,
             \/ Claim(w) \/ ClaimUncertain(w)
             \/ EndBatch(w) \/ Release(w) \/ ReleaseError(w)
      PROVE  UNCHANGED <<processed, refused, failures>>
  BY <1>4 DEF Claim, ClaimUncertain, LeaseRows, EndBatch, Release, ReleaseError
<1>5. ASSUME NEW w \in Workers, NEW r \in Rows, Record(w, r) \/ RecordError(w, r)
      PROVE  UNCHANGED <<processed, refused, failures>>
  BY <1>5 DEF Record, RecordError
<1>6. ASSUME NEW w \in Workers, NEW r \in Rows, NEW evidence \in Evidence,
             Acknowledged(w, r, evidence)
      PROVE  UNCHANGED <<processed, refused, failures>>
  BY <1>6 DEF Acknowledged, Answered
<1>7. ASSUME NEW w \in Workers, NEW r \in Rows,
             \/ RejectEnvelope(w, r)
             \/ \E class \in {"poison", "unavailable"} : Failed(w, r, class)
      PROVE  /\ UNCHANGED processed
             /\ \E class \in {"poison", "unavailable"} : Noted(r, class)
  BY <1>7 DEF RejectEnvelope, Failed, Answered
<1>8. ASSUME NEW r \in Rows, NEW class \in {"poison", "unavailable"}, Noted(r, class)
      PROVE  refused \subseteq refused' /\ \A s \in Rows : failures[s] <= failures'[s]
  BY <1>0, <1>8, SMT DEF Noted
<1>. QED BY <1>0, <1>1, <1>2, <1>3, <1>4, <1>5, <1>6, <1>7, <1>8, AnswerSteps, SMT

\* The records only change with an outcome or an abandonment.
LEMMA RecordSteps ==
  ASSUME [Next]_vars
  PROVE  \/ UNCHANGED <<published, published_at, attempts, failure_class, receipt, dead_letter>>
         \/ Abandon
         \/ \E w \in Workers, r \in Rows :
              (Record(w, r) \/ RecordError(w, r)) /\ Fence(w, r) /\ Outcome(w, r)
<1>. USE DEF columns, incidents
<1>1. ASSUME NEW w \in Workers, NEW r \in Rows, Record(w, r) \/ RecordError(w, r)
      PROVE  \/ UNCHANGED <<columns, incidents>>
             \/ Fence(w, r) /\ Outcome(w, r)
  BY <1>1 DEF Record, RecordError
<1>2. ASSUME NEW r \in Rows, Append(r)
      PROVE  UNCHANGED <<published, published_at, attempts, failure_class, receipt, dead_letter>>
  BY <1>2 DEF Append
<1>3. CASE Tick
  BY <1>3 DEF Tick
<1>4. ASSUME NEW w \in Workers, Claim(w) \/ ClaimUncertain(w) \/ Release(w)
      PROVE  UNCHANGED <<published, published_at, attempts, failure_class, receipt, dead_letter>>
  BY <1>4 DEF Claim, ClaimUncertain, LeaseRows, Release
<1>. QED BY <1>1, <1>2, <1>3, <1>4, TableSteps

LEMMA StepRecordInv ==
  ASSUME TypeOK, TypeOK', RowInv, LeaseInv, AnswerInv, RecordInv, [Next]_vars
  PROVE  RecordInv'
<1>0. /\ processed \subseteq processed'
      /\ refused \subseteq refused'
      /\ \A r \in Rows : failures[r] <= failures'[r]
  BY Monotone
<1>1. /\ attempts \in [Rows -> Nat]
      /\ failures \in [Rows -> Nat] /\ failures' \in [Rows -> Nat]
      /\ failure_class \in [Rows -> FailureClasses]
      /\ receipt \in [Events -> Evidence \cup {"none"}]
      /\ dead_letter \in [Events -> Nat]
      /\ published \subseteq Rows /\ published_at \subseteq published
      /\ owed \subseteq Rows
      /\ EventOf \in [Rows -> Events]
      /\ seen \in [Workers -> [Rows -> Nat]]
  BY ConstantsAssumption DEF TypeOK, RowInv
<1>2. ASSUME NEW r \in Rows
      PROVE  /\ attempts[r] <= failures'[r]
             /\ attempts[r] < failures[r] => attempts[r] + 1 <= failures'[r]
  <2>1. attempts[r] <= failures[r] /\ failures[r] <= failures'[r]
    BY <1>0 DEF RecordInv, AttemptsNotOvercounted
  <2>2. attempts[r] \in Nat /\ failures[r] \in Nat /\ failures'[r] \in Nat
    BY <1>1
  <2>. QED BY <2>1, <2>2, SMT
\* What is known of the consumer and of the history outlives every step.
<1>3. /\ UNCHANGED attempts => AttemptsNotOvercounted'
      /\ UNCHANGED receipt => AppliedEvidenceIsTrue'
      /\ UNCHANGED <<receipt, published_at>> => ReceiptsMatchDeliveries'
  <2>1. UNCHANGED attempts => AttemptsNotOvercounted'
    <3>. SUFFICES ASSUME UNCHANGED attempts, NEW r \in Rows PROVE attempts'[r] <= failures'[r]
      BY DEF AttemptsNotOvercounted
    <3>. QED BY <1>2
  <2>2. UNCHANGED receipt => AppliedEvidenceIsTrue'
    BY <1>0 DEF RecordInv, AppliedEvidenceIsTrue
  <2>3. UNCHANGED <<receipt, published_at>> => ReceiptsMatchDeliveries'
    BY DEF RecordInv, ReceiptsMatchDeliveries
  <2>. QED BY <2>1, <2>2, <2>3
<1>4. CASE UNCHANGED <<published, published_at, attempts, failure_class, receipt, dead_letter>>
  <2>1. ClosedIsAccounted'
    BY <1>4 DEF RecordInv, ClosedIsAccounted
  <2>2. DeadLetterMeansRefused'
    BY <1>0, <1>4 DEF RecordInv, DeadLetterMeansRefused
  <2>. QED BY <1>4, <1>3, <2>1, <2>2 DEF RecordInv
<1>5. CASE Abandon
  <2>1. /\ published' = published \cup (owed \ published)
        /\ failure_class' = Update(failure_class, owed \ published, "abandoned")
        /\ UNCHANGED <<published_at, attempts, receipt, dead_letter>>
    BY <1>5 DEF Abandon, incidents
  <2>2. ClosedIsAccounted'
    BY <1>1, <2>1 DEF RecordInv, ClosedIsAccounted, Update
  <2>3. DeadLetterMeansRefused'
    BY <1>0, <1>1, <2>1 DEF RecordInv, DeadLetterMeansRefused, Update
  <2>. QED BY <1>3, <2>1, <2>2, <2>3 DEF RecordInv
<1>6. ASSUME NEW w \in Workers, NEW r \in Rows,
             Record(w, r) \/ RecordError(w, r), Fence(w, r), Outcome(w, r)
      PROVE  RecordInv'
  <2>. DEFINE e == EventOf[r]
              n == seen[w][r] + 1
  <2>1. /\ answer[w] \in Answers
        /\ answer[w] = "consumer_applied" => e \in processed
        /\ answer[w] = "poison" => r \in refused
        /\ answer[w] \notin Evidence => attempts[r] < failures[r]
        /\ r \notin published /\ seen[w][r] = attempts[r]
    <3>1. at[w] = "recording" /\ Current(w, r)
      BY <1>6 DEF Record, RecordError
    <3>2. AnswerOK(w)
      BY DEF AnswerInv
    <3>. QED BY <1>6, <3>1, <3>2 DEF AnswerOK, Fence, Current, LeaseInv
  <2>2. e \in Events /\ n \in Nat /\ n # 0
    BY <1>1, SMT
  <2>3. n = attempts[r] + 1
    BY <2>1
  <2>. HIDE DEF e, n
  <2>4. CASE answer[w] \in Evidence /\ MarkPublished(r, answer[w])
    <3>1. /\ published' = published \cup {r} /\ published_at' = published_at \cup {r}
          /\ failure_class' = [failure_class EXCEPT ![r] = "none"]
          /\ receipt' = [receipt EXCEPT ![e] = IF @ = "none" THEN answer[w] ELSE @]
          /\ UNCHANGED <<attempts, dead_letter>>
      BY <2>4 DEF MarkPublished, e
    <3>2. receipt'[e] # "none" /\ \A f \in Events \ {e} : receipt'[f] = receipt[f]
      BY <1>1, <2>2, <2>4, <3>1 DEF Evidence
    <3>3. ReceiptsMatchDeliveries'
      BY <1>1, <2>2, <3>1, <3>2 DEF RecordInv, ReceiptsMatchDeliveries, e
    <3>4. ClosedIsAccounted'
      BY <1>1, <2>1, <2>2, <3>1, <3>2, SMT DEF RecordInv, ClosedIsAccounted, e
    <3>5. AppliedEvidenceIsTrue'
      BY <1>0, <1>1, <2>1, <2>2, <3>1 DEF RecordInv, AppliedEvidenceIsTrue
    <3>6. DeadLetterMeansRefused'
      BY <1>0, <1>1, <2>1, <3>1, SMT DEF RecordInv, DeadLetterMeansRefused
    <3>. QED BY <1>3, <3>1, <3>3, <3>4, <3>5, <3>6 DEF RecordInv
  <2>5. CASE answer[w] = "poison" /\ DeadLetter(r, answer[w], n)
    <3>1. /\ published' = published \cup {r}
          /\ attempts' = [attempts EXCEPT ![r] = n]
          /\ failure_class' = [failure_class EXCEPT ![r] = "poison"]
          /\ dead_letter' = [dead_letter EXCEPT ![e] = IF @ = 0 THEN n ELSE @]
          /\ UNCHANGED <<published_at, receipt>>
      BY <2>5 DEF DeadLetter, e
    <3>2. dead_letter'[e] # 0 /\ \A f \in Events \ {e} : dead_letter'[f] = dead_letter[f]
      BY <1>1, <2>2, <3>1
    <3>3. ClosedIsAccounted'
      BY <1>1, <2>1, <2>2, <3>1, <3>2, SMT DEF RecordInv, ClosedIsAccounted, e
    <3>4. DeadLetterMeansRefused'
      BY <1>0, <1>1, <2>1, <2>2, <2>5, <3>1, <3>2, SMT DEF RecordInv, DeadLetterMeansRefused, e
    <3>5. n <= failures'[r]
      <4>1. attempts[r] < failures[r]
        BY <2>1, <2>5 DEF Evidence
      <4>. QED BY <1>2, <2>3, <4>1
    <3>6. AttemptsNotOvercounted'
      <4>. SUFFICES ASSUME NEW s \in Rows PROVE attempts'[s] <= failures'[s]
        BY DEF AttemptsNotOvercounted
      <4>1. attempts'[s] = IF s = r THEN n ELSE attempts[s]
        BY <1>1, <3>1
      <4>. QED BY <1>2, <3>5, <4>1
    <3>. QED BY <1>3, <3>1, <3>3, <3>4, <3>6 DEF RecordInv
  <2>6. CASE answer[w] \notin Evidence /\ RecordFailure(r, answer[w], n)
    <3>1. /\ attempts' = [attempts EXCEPT ![r] = n]
          /\ failure_class' = [failure_class EXCEPT ![r] = answer[w]]
          /\ UNCHANGED <<published, published_at, receipt, dead_letter>>
      BY <2>6 DEF RecordFailure, incidents
    <3>2. ClosedIsAccounted'
      BY <1>1, <2>1, <3>1 DEF RecordInv, ClosedIsAccounted
    <3>3. DeadLetterMeansRefused'
      BY <1>0, <1>1, <2>1, <3>1 DEF RecordInv, DeadLetterMeansRefused
    <3>4. n <= failures'[r]
      <4>1. attempts[r] < failures[r]
        BY <2>1, <2>6
      <4>. QED BY <1>2, <2>3, <4>1
    <3>5. AttemptsNotOvercounted'
      <4>. SUFFICES ASSUME NEW s \in Rows PROVE attempts'[s] <= failures'[s]
        BY DEF AttemptsNotOvercounted
      <4>1. attempts'[s] = IF s = r THEN n ELSE attempts[s]
        BY <1>1, <3>1
      <4>. QED BY <1>2, <3>4, <4>1
    <3>. QED BY <1>3, <3>1, <3>2, <3>3, <3>5 DEF RecordInv
  <2>. QED BY <1>6, <2>1, <2>4, <2>5, <2>6 DEF Outcome, Fail, Decide, Answers, Evidence, n
<1>. QED BY <1>4, <1>5, <1>6, RecordSteps

-----------------------------------------------------------------------------
(* The theorems *)

LEMMA InitIInv == Init => IInv
<1>. SUFFICES ASSUME Init PROVE IInv
  OBVIOUS
<1>1. TypeOK
  BY InitTypeOK
<1>2. RowInv /\ LeaseInv /\ AnswerInv /\ DeadlineInv
  BY ConstantsAssumption, SMT DEF Init, RowInv, LeaseInv, AnswerInv, AnswerOK, DeadlineInv
<1>3. NoStrandedLease /\ HeldInv
  BY SMT DEF Init, NoStrandedLease, HeldInv, BatchesDisjoint, Held
<1>4. ConsumerInv
  BY DEF Init, ConsumerInv
<1>5. RecordInv
  BY SMT DEF Init, RecordInv, ReceiptsMatchDeliveries, ClosedIsAccounted, AppliedEvidenceIsTrue,
         DeadLetterMeansRefused, AttemptsNotOvercounted
<1>. QED BY <1>1, <1>2, <1>3, <1>4, <1>5 DEF IInv

LEMMA StepIInv == IInv /\ [Next]_vars => IInv'
<1>. SUFFICES ASSUME IInv, [Next]_vars PROVE IInv'
  OBVIOUS
<1>0. /\ TypeOK /\ RowInv /\ LeaseInv /\ AnswerInv /\ DeadlineInv /\ NoStrandedLease
      /\ HeldInv /\ ConsumerInv /\ RecordInv /\ AttemptsNotOvercounted
  BY DEF IInv, RecordInv
<1>1. TypeOK'
  BY <1>0, StepTypeOK
<1>2. RowInv'
  BY <1>0, StepRowInv
<1>3. LeaseInv'
  BY <1>0, StepLeaseInv
<1>4. AnswerInv'
  BY <1>0, <1>1, StepAnswerInv
<1>5. DeadlineInv'
  BY <1>0, <1>2, StepDeadlineInv
<1>6. NoStrandedLease'
  BY <1>0, <1>2, StepNoStrandedLease
<1>7. HeldInv'
  BY <1>0, <1>1, StepHeldInv
<1>8. ConsumerInv'
  BY <1>0, StepConsumerInv
<1>9. RecordInv'
  BY <1>0, <1>1, StepRecordInv
<1>. QED BY <1>1, <1>2, <1>3, <1>4, <1>5, <1>6, <1>7, <1>8, <1>9 DEF IInv

\* The columns of the rows, the leases and what the workers remember of them
\* fit together after any number of steps of any number of processes.
THEOREM Invariance == Spec => []IInv
  BY InitIInv, StepIInv, PTL DEF Spec

\* The variables keep their types.
THEOREM TypeCorrect == Spec => []TypeOK
<1>1. IInv => TypeOK
  BY DEF IInv
<1>. QED BY <1>1, Invariance, PTL

\* What markPublished and fail leave in the tables is true, for any number of
\* events, rows, workers and failures: a receipt for exactly the delivered
\* events, consumer_applied only for what was applied, and a dead letter only
\* for what was refused.
THEOREM TrueRecords ==
  Spec => [](ReceiptsMatchDeliveries /\ AppliedEvidenceIsTrue /\ DeadLetterMeansRefused)
<1>1. IInv => ReceiptsMatchDeliveries /\ AppliedEvidenceIsTrue /\ DeadLetterMeansRefused
  BY DEF IInv, RecordInv
<1>. QED BY <1>1, Invariance, PTL

\* Every row that markPublished, fail and Abandon closed is accounted for, in one
\* way: no row is lost, through crashes, lost leases and uncertain commits.
THEOREM RowsAccounted == Spec => []ClosedIsAccounted
<1>1. IInv => ClosedIsAccounted
  BY DEF IInv, RecordInv
<1>. QED BY <1>1, Invariance, PTL

\* No shutdown, crash, lost lease or failed transaction spends an attempt.
THEOREM AttemptsCounted == Spec => []AttemptsNotOvercounted
<1>1. IInv => AttemptsNotOvercounted
  BY DEF IInv, RecordInv
<1>. QED BY <1>1, Invariance, PTL

\* The inbox guard keeps the effect of an event to one application, however
\* often it is delivered and by however many handlers at once, and an event is
\* recorded as applied only when it was.
THEOREM AppliedOnce == Spec => []EffectOnce
<1>1. IInv => EffectOnce
  <2>1. ASSUME IInv, NEW e \in Events
        PROVE  effects[e] <= 1 /\ (receipt[e] = "consumer_applied" => effects[e] = 1)
    <3>1. effects[e] = IF e \in processed THEN 1 ELSE 0
      BY <2>1 DEF IInv, ConsumerInv
    <3>2. receipt[e] = "consumer_applied" => e \in processed
      BY <2>1 DEF IInv, RecordInv, AppliedEvidenceIsTrue
    <3>. QED BY <3>1, <3>2, SMT
  <2>. QED BY <2>1 DEF EffectOnce
<1>. QED BY <1>1, Invariance, PTL

\* Two workers never publish the same row while batches take less than
\* LeaseDuration.
THEOREM Exclusive == Spec => []BatchesDisjoint
<1>1. IInv => BatchesDisjoint
  BY DEF IInv, HeldInv
<1>. QED BY <1>1, Invariance, PTL

\* A live lease is somebody's work, unless its holder crashed or failed to
\* write.
THEOREM LeasesHeld == Spec => []NoStrandedLease
<1>1. IInv => NoStrandedLease
  BY DEF IInv
<1>. QED BY <1>1, Invariance, PTL

\* A count is never written from a stale copy: the fence only matches while
\* the copy read by the claim is current.
THEOREM AttemptsStepwise == Spec => AttemptsGrowByOne
<1>1. IInv /\ [Next]_vars => [\A r \in Rows : attempts'[r] \in {attempts[r], attempts[r] + 1}]_vars
  <2>. SUFFICES ASSUME IInv, [Next]_vars, NEW s \in Rows
                PROVE  attempts'[s] \in {attempts[s], attempts[s] + 1}
    OBVIOUS
  <2>0. TypeOK /\ AnswerInv /\ LeaseInv
    BY DEF IInv
  <2>1. CASE Abandon
    BY <2>1 DEF Abandon
  <2>2. ASSUME NEW w \in Workers, NEW r \in Rows,
               Record(w, r) \/ RecordError(w, r), Fence(w, r), Outcome(w, r)
        PROVE  attempts'[s] \in {attempts[s], attempts[s] + 1}
    <3>1. answer[w] \in Answers /\ seen[w][r] = attempts[r]
      BY <2>0, <2>2 DEF Record, RecordError, AnswerInv, AnswerOK, LeaseInv, Current, Fence
    <3>2. /\ attempts'[r] \in {attempts[r], seen[w][r] + 1}
          /\ \A t \in Rows \ {r} : attempts'[t] = attempts[t]
      BY <2>0, <2>2, <3>1, OutcomeFrame
    <3>. QED BY <3>1, <3>2
  <2>. QED BY <2>1, <2>2, RecordSteps
<1>. QED BY <1>1, Invariance, PTL DEF Spec, AttemptsGrowByOne

\* An outcome that arrives after its row was closed, by another worker or by
\* Abandon, changes nothing in it.
THEOREM ClosedForGood == Spec => ClosedStaysClosed
<1>. DEFINE Kept(r) == /\ r \in published' /\ (r \in published_at' <=> r \in published_at)
                       /\ attempts'[r] = attempts[r] /\ failure_class'[r] = failure_class[r]
                       /\ lease_id'[r] = lease_id[r] /\ leased_until'[r] = leased_until[r]
<1>1. IInv /\ [Next]_vars => [\A r \in published : Kept(r)]_vars
  <2>. SUFFICES ASSUME IInv, [Next]_vars, NEW s \in published PROVE Kept(s)
    OBVIOUS
  <2>0. /\ TypeOK /\ AnswerInv /\ s \in Rows /\ leased_until[s] = 0
        /\ lease_id \in [Rows -> Leases \cup {NoLease}] /\ leased_until \in [Rows -> Nat]
    BY DEF IInv, TypeOK, RowInv
  <2>. USE DEF columns, incidents
  <2>1. CASE UNCHANGED <<owed, columns, incidents>>
    BY <2>1
  <2>2. ASSUME NEW r \in Rows, Append(r) PROVE Kept(s)
    BY <2>2 DEF Append
  <2>3. CASE Abandon
    BY <2>0, <2>3 DEF Abandon, Update
  <2>4. CASE Tick
    BY <2>0, <2>4 DEF Tick, Elapsed
  <2>5. ASSUME NEW w \in Workers, NEW S \in SUBSET owed, NEW l \in Leases, LeaseRows(w, S, l)
        PROVE  Kept(s)
    <3>1. s \notin S
      BY <2>5 DEF LeaseRows, Limit, Claimable
    <3>. QED BY <2>0, <2>5, <3>1 DEF LeaseRows, Update
  <2>6. ASSUME NEW w \in Workers, Release(w) PROVE Kept(s)
    BY <2>0, <2>6 DEF Release, Fence, Update
  <2>7. ASSUME NEW w \in Workers, NEW r \in Rows, Record(w, r) \/ RecordError(w, r) PROVE Kept(s)
    <3>1. CASE UNCHANGED <<columns, incidents>>
      BY <3>1
    <3>2. CASE Fence(w, r) /\ Outcome(w, r)
      <4>1. r # s /\ answer[w] \in Answers
        BY <2>0, <2>7, <3>2 DEF Fence, Record, RecordError, AnswerInv, AnswerOK
      <4>2. /\ lease_id' = [lease_id EXCEPT ![r] = NoLease]
            /\ leased_until' = [leased_until EXCEPT ![r] = 0]
            /\ \/ UNCHANGED <<published, published_at>>
               \/ /\ published' = published \cup {r}
                  /\ published_at' \in {published_at, published_at \cup {r}}
            /\ \A t \in Rows \ {r} : /\ attempts'[t] = attempts[t]
                                     /\ failure_class'[t] = failure_class[t]
        BY <2>0, <3>2, <4>1, OutcomeFrame
      <4>. QED BY <2>0, <4>1, <4>2
    <3>. QED BY <2>7, <3>1, <3>2 DEF Record, RecordError
  <2>. QED BY <2>1, <2>2, <2>3, <2>4, <2>5, <2>6, <2>7, TableSteps DEF Claim, ClaimUncertain
<1>. QED BY <1>1, Invariance, PTL DEF Spec, ClosedStaysClosed

-----------------------------------------------------------------------------
(* Refinement *)

\* A step that changes nothing the ledger shows.
LEMMA LedgerStutter ==
  ASSUME UNCHANGED <<owed, receipt, dead_letter, processed>>,
         \A r \in Rows : StatusOf(r)' = StatusOf(r)
  PROVE  UNCHANGED Ledger!ledger
BY DEF Ledger!ledger

LEMMA LedgerSteps ==
  ASSUME IInv, [Next]_vars
  PROVE  Ledger!LedgerNext \/ UNCHANGED Ledger!ledger
<1>0. /\ TypeOK /\ AnswerInv /\ LeaseInv
      /\ EventOf \in [Rows -> Events] /\ owed \subseteq Rows /\ published \subseteq owed
      /\ failure_class \in [Rows -> FailureClasses]
      /\ receipt \in [Events -> Evidence \cup {"none"}]
      /\ dead_letter \in [Events -> Nat]
  BY ConstantsAssumption DEF IInv, TypeOK, RowInv
<1>1. ASSUME NEW r \in Rows, Append(r) PROVE Ledger!Owe(r)
  <2>1. /\ r \notin owed /\ owed' = owed \cup {r}
        /\ UNCHANGED <<published, failure_class, receipt, dead_letter, processed>>
        /\ (\E s \in owed : EventOf[s] = EventOf[r]) => dead_letter[EventOf[r]] # 0
    BY <1>1 DEF Append, columns, incidents, others, consumer
  <2>2. \A s \in Rows : StatusOf(s) # "absent" <=> s \in owed
    BY DEF StatusOf
  <2>3. StatusOf(r) = "absent" /\ EventOf[r] \in Events
    BY <1>0, <2>1 DEF StatusOf
  <2>4. [s \in Rows |-> StatusOf(s)]' = [[s \in Rows |-> StatusOf(s)] EXCEPT ![r] = "owed"]
    BY <1>0, <2>1 DEF StatusOf
  <2>. QED BY <1>0, <2>1, <2>2, <2>3, <2>4 DEF Ledger!Owe
<1>2. ASSUME NEW h \in Handlers, Apply(h) PROVE \E e \in Events : Ledger!Apply(e)
  <2>. DEFINE e == handling[h]
  <2>0. e \in Events /\ e \in requests \ processed
    BY <1>2 DEF Apply, TypeOK, IInv, ConsumerInv
  <2>1. /\ e \notin processed /\ processed' = processed \cup {e}
        /\ UNCHANGED <<owed, published, failure_class, receipt, dead_letter>>
    BY <1>2, <2>0 DEF Apply, unconsumed, database, columns, incidents
  <2>2. PICK r \in owed : EventOf[r] = e
    BY <2>0 DEF IInv, ConsumerInv
  <2>. HIDE DEF e
  <2>3. StatusOf(r) # "absent" /\ \A s \in Rows : StatusOf(s)' = StatusOf(s)
    BY <2>1 DEF StatusOf
  <2>. QED BY <1>0, <2>0, <2>1, <2>2, <2>3 DEF Ledger!Apply
<1>3. CASE Abandon
  <2>1. /\ published' = published \cup (owed \ published)
        /\ failure_class' = Update(failure_class, owed \ published, "abandoned")
        /\ UNCHANGED <<owed, receipt, dead_letter, processed>>
    BY <1>3 DEF Abandon, incidents, others, consumer
  <2>2. \A r \in Rows : StatusOf(r)' = IF StatusOf(r) = "owed" THEN "abandoned" ELSE StatusOf(r)
    BY <1>0, <2>1 DEF StatusOf, Update
  <2>3. Ledger!AbandonOwed
    BY <2>1, <2>2 DEF Ledger!AbandonOwed
  <2>. QED BY <2>3 DEF Ledger!LedgerNext
<1>4. ASSUME NEW w \in Workers, NEW r \in Rows,
             Record(w, r) \/ RecordError(w, r), Fence(w, r), Outcome(w, r)
      PROVE  \/ \E class \in Evidence : Ledger!Deliver(r, class)
             \/ Ledger!Refuse(r)
             \/ UNCHANGED Ledger!ledger
  <2>. DEFINE n == seen[w][r] + 1
  <2>1. /\ answer[w] \in Answers /\ r \in owed /\ r \notin published
        /\ answer[w] = "consumer_applied" => EventOf[r] \in processed
        /\ UNCHANGED <<owed, processed>>
    <3>1. at[w] = "recording" /\ Current(w, r) /\ UNCHANGED <<owed, processed>>
      BY <1>4 DEF Record, RecordError, consumer
    <3>2. AnswerOK(w)
      BY <1>0 DEF AnswerInv
    <3>. QED BY <1>0, <1>4, <3>1, <3>2 DEF AnswerOK, Fence, Current, LeaseInv
  <2>2. n \in Nat /\ n # 0 /\ EventOf[r] \in Events
    BY <1>0, SMT DEF TypeOK
  <2>. HIDE DEF n
  <2>3. CASE answer[w] \in Evidence /\ MarkPublished(r, answer[w])
    <3>1. /\ published' = published \cup {r}
          /\ failure_class' = [failure_class EXCEPT ![r] = "none"]
          /\ receipt' = [receipt EXCEPT ![EventOf[r]] = IF @ = "none" THEN answer[w] ELSE @]
          /\ UNCHANGED dead_letter
      BY <2>3 DEF MarkPublished
    <3>2. StatusOf(r) = "owed" /\ StatusOf(r)' = "delivered"
          /\ \A s \in Rows \ {r} : StatusOf(s)' = StatusOf(s)
      BY <1>0, <2>1, <3>1 DEF StatusOf
    <3>3. Ledger!Deliver(r, answer[w])
      BY <1>0, <2>1, <2>2, <3>1, <3>2 DEF Ledger!Deliver
    <3>. QED BY <2>3, <3>3
  <2>4. CASE answer[w] = "poison" /\ DeadLetter(r, answer[w], n)
    <3>1. /\ published' = published \cup {r}
          /\ failure_class' = [failure_class EXCEPT ![r] = "poison"]
          /\ dead_letter' = [dead_letter EXCEPT ![EventOf[r]] = IF @ = 0 THEN n ELSE @]
          /\ UNCHANGED receipt
      BY <2>4 DEF DeadLetter
    <3>2. StatusOf(r) = "owed" /\ StatusOf(r)' = "refused"
          /\ \A s \in Rows \ {r} : StatusOf(s)' = StatusOf(s)
      BY <1>0, <2>1, <3>1 DEF StatusOf
    <3>3. {e \in Events : dead_letter'[e] # 0}
            = {e \in Events : dead_letter[e] # 0} \cup {EventOf[r]}
      BY <1>0, <2>2, <3>1
    <3>4. Ledger!Refuse(r)
      BY <1>0, <2>1, <3>1, <3>2, <3>3 DEF Ledger!Refuse
    <3>. QED BY <3>4
  <2>5. CASE RecordFailure(r, answer[w], n)
    <3>1. /\ UNCHANGED <<published, receipt, dead_letter>>
          /\ failure_class' = [failure_class EXCEPT ![r] = answer[w]]
      BY <2>5 DEF RecordFailure, incidents
    <3>2. \A s \in Rows : StatusOf(s)' = StatusOf(s)
      BY <1>0, <2>1, <3>1 DEF StatusOf
    <3>. QED BY <2>1, <3>1, <3>2, LedgerStutter
  <2>. QED BY <1>4, <2>1, <2>3, <2>4, <2>5 DEF Outcome, Fail, Decide, Answers, Evidence, n
<1>5. CASE /\ UNCHANGED <<published, published_at, attempts, failure_class, receipt, dead_letter>>
           /\ UNCHANGED <<owed, processed>>
  <2>1. \A s \in Rows : StatusOf(s)' = StatusOf(s)
    BY <1>5 DEF StatusOf
  <2>. QED BY <1>5, <2>1, LedgerStutter
<1>6. \/ \E r \in Rows : Append(r)
      \/ \E h \in Handlers : Apply(h)
      \/ Abandon
      \/ \E w \in Workers, r \in Rows :
           (Record(w, r) \/ RecordError(w, r)) /\ Fence(w, r) /\ Outcome(w, r)
      \/ /\ UNCHANGED <<published, published_at, attempts, failure_class, receipt, dead_letter>>
         /\ UNCHANGED <<owed, processed>>
  <2>. USE DEF database, consumer, others
  <2>1. CASE UNCHANGED vars
    BY <2>1, RecordSteps DEF vars
  <2>2. CASE Subscribe \/ Unsubscribe
    BY <2>2, RecordSteps DEF Subscribe, Unsubscribe
  <2>3. ASSUME NEW p \in Processes, Run(p) \/ Cancel(p) \/ Crash(p)
        PROVE  UNCHANGED <<owed, processed>>
    BY <2>3 DEF Run, Cancel, Crash
  <2>4. CASE Tick \/ \E h \in Handlers : GiveUp(h) \/ \E e \in Events : Handle(h, e)
    BY <2>4, RecordSteps DEF Tick, GiveUp, Handle, unconsumed
  <2>5. ASSUME NEW w \in Workers, WorkerStep(w) PROVE UNCHANGED <<owed, processed>>
    <3>1. ASSUME Claim(w) \/ ClaimUncertain(w) \/ Release(w) PROVE UNCHANGED <<owed, processed>>
      BY <3>1 DEF Claim, ClaimUncertain, LeaseRows, Release
    <3>2. ASSUME StartBatch(w) \/ EndBatch(w) \/ Stopped(w) \/ Stop(w) \/ ReleaseError(w)
          PROVE  UNCHANGED <<owed, processed>>
      BY <3>2 DEF StartBatch, EndBatch, Stopped, Stop, ReleaseError
    <3>3. ASSUME NEW r \in Rows,
                 \/ RejectEnvelope(w, r) \/ StartPublish(w, r) \/ Send(w, r)
                 \/ Record(w, r) \/ RecordError(w, r)
                 \/ \E evidence \in Evidence : Acknowledged(w, r, evidence)
                 \/ \E class \in {"poison", "unavailable"} : Failed(w, r, class)
          PROVE  UNCHANGED <<owed, processed>>
      BY <3>3 DEF RejectEnvelope, StartPublish, Send, Record, RecordError, Acknowledged,
                  Failed, Answered
    <3>. QED BY <2>5, <3>1, <3>2, <3>3 DEF WorkerStep, Progress
  <2>. QED BY <2>1, <2>2, <2>3, <2>4, <2>5, RecordSteps DEF Next, HandlerStep
<1>. QED BY <1>1, <1>2, <1>3, <1>4, <1>5, <1>6 DEF Ledger!LedgerNext, Evidence

\* The dispatcher implements the ledger: every step it takes on the tables is
\* one of the ledger's, or invisible in it.
THEOREM Refinement == Spec => ImplementsLedger
<1>1. Init => Ledger!LedgerInit
  BY SMT DEF Init, StatusOf, Ledger!LedgerInit
<1>2. IInv /\ [Next]_vars => [Ledger!LedgerNext]_Ledger!ledger
  BY LedgerSteps
<1>. QED BY <1>1, <1>2, Invariance, PTL DEF Spec, ImplementsLedger, Ledger!LedgerSpec

=============================================================================
