----------------------------- MODULE Dispatcher -----------------------------
(***************************************************************************)
(* The outbox dispatcher of one consumer (outbox/dispatcher.go): processes *)
(* whose workers lease a batch of the consumer's rows in                   *)
(* platform.outbox_delivery, publish every row outside any transaction and *)
(* record each outcome in a transaction of its own, fenced on the lease.   *)
(* The consumer's inbox guard, the delivery receipts and the dead letters  *)
(* are part of the state, and so are shutdown, crashes, failed and         *)
(* uncertain commits, lost answers and late requests.                      *)
(*                                                                         *)
(* An instant column is kept as the time left until it: leased_until and   *)
(* next_attempt_at are 0 once now() has reached them, or when NULL.        *)
(***************************************************************************)
EXTENDS Integers, FiniteSets, Backoff

CONSTANTS
  Rows,            \* stream positions of the consumer's delivery rows
  Events,          \* event identifiers
  EventOf,         \* the event a row delivers; a replay is a second row of its event
  Priority,        \* the lane of a row: PriorityHigh or PriorityStandard
  Publishable,     \* rows whose stored envelope decodes, agrees and validates
  Workers,         \* worker goroutines
  PriorityWorkers, \* those reserved for the priority lane
  SlowWorkers,     \* those whose publications may take any time
  Processes,       \* dispatcher processes
  ProcessOf,       \* the process a worker belongs to
  Leases,          \* lease identifiers
  NoLease,         \* SQL NULL in lease_id
  Handlers,        \* the consumer's goroutines
  NoEvent,         \* nothing being handled
  BatchSize, LeaseDuration, MaxAttempts, BackoffBase, BackoffMax,
  MaxFailures,     \* bound: failed publications per row
  MaxFaults,       \* bound: shutdowns, crashes and database failures
  MaxSlow          \* bound: instants that pass while a worker is at work

PriorityHigh     == 0
PriorityStandard == 100

ASSUME ConstantsAssumption ==
  /\ Rows \subseteq Nat
  /\ EventOf \in [Rows -> Events]
  /\ Priority \in [Rows -> {PriorityHigh, PriorityStandard}]
  /\ Publishable \subseteq Rows
  /\ PriorityWorkers \subseteq Workers /\ SlowWorkers \subseteq Workers
  /\ ProcessOf \in [Workers -> Processes]
  /\ NoLease \notin Leases /\ NoEvent \notin Events
  /\ BatchSize \in Nat \ {0}
  /\ LeaseDuration \in Nat \ {0}
  /\ MaxAttempts \in Nat \ {0}
  /\ BackoffBase \in Nat \ {0}
  /\ BackoffMax \in Nat \ {0}
  /\ MaxFailures \in Nat /\ MaxFaults \in Nat /\ MaxSlow \in Nat

VARIABLES
  subscribed,      \* the consumer has an active platform.subscription
  owed,            \* rows that exist in platform.outbox_delivery
  \* columns of platform.outbox_delivery
  published,       \* rows with published = TRUE
  published_at,    \* rows with a published_at
  attempts, failure_class, next_attempt_at, lease_id, leased_until,
  receipt,         \* platform.delivery_receipt of an event, for this consumer
  dead_letter,     \* platform.dead_letter of an event: its attempts, 0 for none
  \* the consumer
  requests,        \* events of which a delivery reached the network
  handling,        \* the event a handler's open transaction has inserted
  processed,       \* its platform.processed_event, as committed
  effects,         \* how often it applied an event
  \* dispatcher processes and the locals of dispatchOnce
  cancelled,       \* processes whose context is done
  at,              \* where a worker is
  lease,           \* the lease of its batch
  todo,            \* the rows of the batch it has not settled
  seen,            \* the attempts its claim returned
  deadline,        \* instants left until time.Now() is after the local deadline
  answer,          \* what Publish returned, while it is being recorded
  \* history and bounds
  failures,        \* publications of a row that failed
  refused,         \* rows that were refused as poison
  stranded,        \* rows whose leaseholder crashed, or failed to write
  faults, slow     \* used up parts of MaxFaults and MaxSlow

columns  == <<published, published_at, attempts, failure_class, next_attempt_at,
              lease_id, leased_until>>
incidents == <<receipt, dead_letter>>
database == <<subscribed, owed, columns, incidents>>
consumer == <<requests, handling, processed, effects>>
batch    == <<lease, todo, seen, deadline>>
locals   == <<at, answer, batch>>
history  == <<failures, refused, stranded>>
bounds   == <<faults, slow>>
vars     == <<database, consumer, cancelled, locals, history, bounds>>

-----------------------------------------------------------------------------
(* Types *)

FailureClasses == {"none", "poison", "unavailable", "abandoned"}
Evidence       == {"consumer_applied", "transport_accepted"}
Answers        == {"consumer_applied", "transport_accepted", "poison", "unavailable"}
Steps          == {"stopped", "idle", "claimed", "batch", "publishing", "sent",
                   "recording", "releasing"}

TypeOK ==
  /\ subscribed \in BOOLEAN
  /\ owed \subseteq Rows
  /\ published \subseteq Rows
  /\ published_at \subseteq Rows
  /\ attempts \in [Rows -> Nat]
  /\ failure_class \in [Rows -> FailureClasses]
  /\ next_attempt_at \in [Rows -> Nat]
  /\ lease_id \in [Rows -> Leases \cup {NoLease}]
  /\ leased_until \in [Rows -> Nat]
  /\ receipt \in [Events -> Evidence \cup {"none"}]
  /\ dead_letter \in [Events -> Nat]
  /\ requests \subseteq Events
  /\ handling \in [Handlers -> Events \cup {NoEvent}]
  /\ processed \subseteq Events
  /\ effects \in [Events -> Nat]
  /\ cancelled \subseteq Processes
  /\ at \in [Workers -> Steps]
  /\ lease \in [Workers -> Leases \cup {NoLease}]
  /\ todo \in [Workers -> SUBSET Rows]
  /\ seen \in [Workers -> [Rows -> Nat]]
  /\ deadline \in [Workers -> Nat]
  /\ answer \in [Workers -> Answers \cup {"none"}]
  /\ failures \in [Rows -> Nat]
  /\ refused \subseteq Rows
  /\ stranded \subseteq Rows
  /\ faults \in Nat
  /\ slow \in Nat

Init ==
  /\ subscribed = TRUE
  /\ owed = {}
  /\ published = {}
  /\ published_at = {}
  /\ attempts = [r \in Rows |-> 0]
  /\ failure_class = [r \in Rows |-> "none"]
  /\ next_attempt_at = [r \in Rows |-> 0]
  /\ lease_id = [r \in Rows |-> NoLease]
  /\ leased_until = [r \in Rows |-> 0]
  /\ receipt = [e \in Events |-> "none"]
  /\ dead_letter = [e \in Events |-> 0]
  /\ requests = {}
  /\ handling = [h \in Handlers |-> NoEvent]
  /\ processed = {}
  /\ effects = [e \in Events |-> 0]
  /\ cancelled = {}
  /\ at = [w \in Workers |-> "stopped"]
  /\ lease = [w \in Workers |-> NoLease]
  /\ todo = [w \in Workers |-> {}]
  /\ seen = [w \in Workers |-> [r \in Rows |-> 0]]
  /\ deadline = [w \in Workers |-> 0]
  /\ answer = [w \in Workers |-> "none"]
  /\ failures = [r \in Rows |-> 0]
  /\ refused = {}
  /\ stranded = {}
  /\ faults = 0
  /\ slow = 0

-----------------------------------------------------------------------------
(* The producer: what Append, Subscribe, Unsubscribe and Abandon do to the  *)
(* rows of this consumer.  Their ordering against each other is the subject *)
(* of module Subscriptions; here each is the instant it commits.            *)

others == <<consumer, cancelled, locals, history, bounds>>

Append(r) ==
  /\ subscribed
  /\ r \notin owed
  \* A second row of an event is the replay of a dead letter.
  /\ (\E s \in owed : EventOf[s] = EventOf[r]) => dead_letter[EventOf[r]] # 0
  /\ owed' = owed \cup {r}
  /\ UNCHANGED <<subscribed, columns, incidents, others>>

Subscribe ==
  /\ ~subscribed
  /\ subscribed' = TRUE
  /\ UNCHANGED <<owed, columns, incidents, others>>

Unsubscribe ==
  /\ subscribed
  /\ subscribed' = FALSE
  /\ UNCHANGED <<owed, columns, incidents, others>>

\* f with the rows of S set to x.
Update(f, S, x) == [r \in Rows |-> IF r \in S THEN x ELSE f[r]]

\* abandonStatement.
Abandon ==
  LET open == owed \ published
  IN /\ ~subscribed
     /\ open # {}
     /\ published' = published \cup open
     /\ failure_class' = Update(failure_class, open, "abandoned")
     /\ next_attempt_at' = Update(next_attempt_at, open, 0)
     /\ lease_id' = Update(lease_id, open, NoLease)
     /\ leased_until' = Update(leased_until, open, 0)
     /\ UNCHANGED <<subscribed, owed, published_at, attempts, incidents, others>>

-----------------------------------------------------------------------------
(* The consumer *)

unconsumed == <<database, requests, cancelled, locals, history, bounds>>

\* Mutant: the guard looks for a committed row instead of inserting one.
GuardCommitted(e) == e \notin processed

\* inbox.Guard reports the first delivery: its INSERT ... ON CONFLICT DO NOTHING
\* waits while another open transaction has inserted the event, and inserts
\* nothing when one has committed it.
Guard(e) == e \notin processed /\ \A h \in Handlers : handling[h] # e

\* A request that reached the network may be handled at any later time, and
\* again, also while another handler is at it.  Of one that is not the first
\* nothing remains.
Handle(h, e) ==
  /\ handling[h] = NoEvent
  /\ e \in requests
  /\ Guard(e)
  /\ handling' = [handling EXCEPT ![h] = e]
  /\ UNCHANGED <<unconsumed, processed, effects>>

\* The effect commits in the transaction of the guard.
Apply(h) ==
  /\ handling[h] # NoEvent
  /\ handling' = [handling EXCEPT ![h] = NoEvent]
  /\ processed' = processed \cup {handling[h]}
  /\ effects' = [effects EXCEPT ![handling[h]] = @ + 1]
  /\ UNCHANGED unconsumed

\* The effect fails, or the consumer dies: the guard's row goes with it.
GiveUp(h) ==
  /\ handling[h] # NoEvent
  /\ handling' = [handling EXCEPT ![h] = NoEvent]
  /\ UNCHANGED <<unconsumed, processed, effects>>

HandlerStep(h) == Apply(h) \/ GiveUp(h) \/ \E e \in Events : Handle(h, e)

-----------------------------------------------------------------------------
(* Claiming a batch *)

Cancelled(w) == ProcessOf[w] \in cancelled

\* The order of the claim and of the sorted batch.
Before(r, s) == \/ Priority[r] < Priority[s]
                \/ Priority[r] = Priority[s] /\ r < s

\* The row of the batch the worker settles next.
Current(w, r) == r \in todo[w] /\ \A s \in todo[w] \ {r} : Before(r, s)

\* Mutant: the claim does not look at leased_until.
ClaimableLeased(w, r) ==
  /\ r \notin published
  /\ next_attempt_at[r] = 0
  /\ w \in PriorityWorkers => Priority[r] = PriorityHigh

\* Mutant: the priority lane is not reserved.
ClaimableAnyLane(w, r) == r \notin published /\ next_attempt_at[r] = 0 /\ leased_until[r] = 0

\* Mutant: only a released lease makes a row claimable, an expired one does not.
ClaimableReleased(w, r) == ClaimableLeased(w, r) /\ lease_id[r] = NoLease

Claimable(w, r) ==
  /\ r \notin published
  /\ next_attempt_at[r] = 0
  /\ leased_until[r] = 0
  /\ w \in PriorityWorkers => Priority[r] = PriorityHigh

\* Rows that a transaction in progress may have locked.
MayBeLocked == {r \in owed : \E w \in Workers :
                  \/ at[w] = "recording" /\ Current(w, r)
                  \/ at[w] = "releasing" /\ r \in todo[w]}

\* ORDER BY priority, sequence LIMIT BatchSize.
Limit(S) == {r \in S : Cardinality({s \in S : Before(s, r)}) < BatchSize}

LeasesInUse == {lease_id[r] : r \in Rows} \cup {lease[w] : w \in Workers}

\* claimStatement with a fresh lease: SKIP LOCKED may pass over rows that are
\* being written.
LeaseRows(w, S, l) ==
  /\ at[w] = "idle"
  /\ ~Cancelled(w)
  /\ l \notin LeasesInUse
  /\ \E skipped \in SUBSET MayBeLocked : S = Limit({r \in owed \ skipped : Claimable(w, r)})
  /\ S # {}
  /\ lease_id' = Update(lease_id, S, l)
  /\ leased_until' = Update(leased_until, S, LeaseDuration)
  /\ UNCHANGED <<subscribed, owed, published, published_at, attempts, failure_class,
                 next_attempt_at, incidents, consumer, cancelled, failures, refused, slow>>

Claim(w) ==
  \E S \in SUBSET owed, l \in Leases :
    /\ LeaseRows(w, S, l)
    /\ at' = [at EXCEPT ![w] = "claimed"]
    /\ lease' = [lease EXCEPT ![w] = l]
    /\ todo' = [todo EXCEPT ![w] = S]
    /\ seen' = [seen EXCEPT ![w] = [r \in Rows |-> IF r \in S THEN attempts[r] ELSE 0]]
    /\ stranded' = stranded \ S
    /\ UNCHANGED <<deadline, answer, faults>>

\* The claim committed but its commit was reported as an error: the rows stay
\* leased and nobody works on them.
ClaimUncertain(w) ==
  \E S \in SUBSET owed, l \in Leases :
    /\ LeaseRows(w, S, l)
    /\ faults < MaxFaults
    /\ stranded' = stranded \cup S
    /\ faults' = faults + 1
    /\ UNCHANGED locals

\* The local deadline starts once the claim has committed, and it has passed
\* only after LeaseDuration.
StartBatch(w) ==
  /\ at[w] = "claimed"
  /\ at' = [at EXCEPT ![w] = "batch"]
  /\ deadline' = [deadline EXCEPT ![w] = LeaseDuration + 1]
  /\ UNCHANGED <<database, consumer, cancelled, lease, todo, seen, answer, history, bounds>>

\* dispatchOnce returns and its locals are gone.
Return(w) ==
  /\ at' = [at EXCEPT ![w] = "idle"]
  /\ lease' = [lease EXCEPT ![w] = NoLease]
  /\ todo' = [todo EXCEPT ![w] = {}]
  /\ seen' = [seen EXCEPT ![w] = [r \in Rows |-> 0]]
  /\ deadline' = [deadline EXCEPT ![w] = 0]
  /\ UNCHANGED answer

\* The batch is settled, or the local deadline has passed and the rest of it
\* is left to whoever claims it.
EndBatch(w) ==
  /\ at[w] = "batch"
  /\ todo[w] = {} \/ deadline[w] = 0
  /\ Return(w)
  /\ UNCHANGED <<database, consumer, cancelled, history, bounds>>

-----------------------------------------------------------------------------
(* settle: publish one row *)

Settling(w, r) == at[w] = "batch" /\ deadline[w] > 0 /\ Current(w, r)

\* Publish has returned.
Answered(w, a) ==
  /\ at' = [at EXCEPT ![w] = "recording"]
  /\ answer' = [answer EXCEPT ![w] = a]
  /\ UNCHANGED <<database, consumer, cancelled, batch, stranded, bounds>>

\* A failure is counted and a refusal remembered.
Noted(r, class) ==
  /\ failures' = [failures EXCEPT ![r] = @ + 1]
  /\ refused' = IF class = "poison" THEN refused \cup {r} ELSE refused

\* A stored envelope that cannot be published is poison without being sent.
RejectEnvelope(w, r) ==
  /\ Settling(w, r)
  /\ r \notin Publishable
  /\ Noted(r, "poison")
  /\ Answered(w, "poison")

StartPublish(w, r) ==
  /\ Settling(w, r)
  /\ r \in Publishable
  /\ at' = [at EXCEPT ![w] = "publishing"]
  /\ UNCHANGED <<database, consumer, cancelled, answer, batch, history, bounds>>

\* The request leaves the process, unless the context is already done.
Send(w, r) ==
  /\ at[w] = "publishing"
  /\ Current(w, r)
  /\ ~Cancelled(w)
  /\ requests' = requests \cup {EventOf[r]}
  /\ at' = [at EXCEPT ![w] = "sent"]
  /\ UNCHANGED <<database, handling, processed, effects, cancelled, answer, batch, history,
                 bounds>>

\* Mutant: every 2xx is taken for an application.
AcknowledgedAny(w, r, evidence) ==
  at[w] = "sent" /\ Current(w, r) /\ Answered(w, evidence) /\ UNCHANGED <<failures, refused>>

\* A 2xx answer: the class of evidence is the consumer's marker.
Acknowledged(w, r, evidence) ==
  /\ at[w] = "sent"
  /\ Current(w, r)
  /\ evidence = "consumer_applied" => EventOf[r] \in processed
  /\ Answered(w, evidence)
  /\ UNCHANGED <<failures, refused>>

\* 400, 409 or 422 is poison; everything else, a missing token, a transport
\* error or a timeout included, is unavailable.  A timeout says nothing about
\* what the consumer did.
Failed(w, r, class) ==
  /\ at[w] = "sent" \/ (at[w] = "publishing" /\ class = "unavailable")
  /\ Current(w, r)
  /\ ~Cancelled(w)
  /\ failures[r] < MaxFailures
  /\ Noted(r, class)
  /\ Answered(w, class)

\* Mutant: a publication cut short by shutdown counts as a failure.
StoppedCounted(w) ==
  /\ at[w] \in {"publishing", "sent"}
  /\ Cancelled(w)
  /\ Answered(w, "unavailable")
  /\ UNCHANGED <<failures, refused>>

\* Mutant: shutdown does not release the rest of the batch.
StoppedWithoutRelease(w) ==
  /\ at[w] \in {"publishing", "sent"}
  /\ Cancelled(w)
  /\ Return(w)
  /\ UNCHANGED <<database, consumer, cancelled, history, bounds>>

\* errStopped: an error while the context is done counts for nothing, and the
\* row goes back with the rest of the batch.
Stopped(w) ==
  /\ at[w] \in {"publishing", "sent"}
  /\ Cancelled(w)
  /\ at' = [at EXCEPT ![w] = "releasing"]
  /\ UNCHANGED <<database, consumer, cancelled, answer, batch, history, bounds>>

-----------------------------------------------------------------------------
(* record: the outcome's transaction *)

\* Mutant: outcomes are not fenced.
Unfenced(w, r) == TRUE

Fence(w, r) == lease_id[r] = lease[w] /\ r \notin published

Unlease(r) ==
  /\ lease_id' = [lease_id EXCEPT ![r] = NoLease]
  /\ leased_until' = [leased_until EXCEPT ![r] = 0]

\* Mutant: the receipt is left out of the transaction.
MarkPublishedOnly(r, evidence) ==
  /\ published' = published \cup {r}
  /\ published_at' = published_at \cup {r}
  /\ failure_class' = [failure_class EXCEPT ![r] = "none"]
  /\ next_attempt_at' = [next_attempt_at EXCEPT ![r] = 0]
  /\ Unlease(r)
  /\ UNCHANGED <<attempts, receipt, dead_letter>>

\* Mutant: failure_class is not reset.
MarkPublishedUnclassed(r, evidence) ==
  /\ published' = published \cup {r}
  /\ published_at' = published_at \cup {r}
  /\ next_attempt_at' = [next_attempt_at EXCEPT ![r] = 0]
  /\ Unlease(r)
  /\ receipt' = [receipt EXCEPT ![EventOf[r]] = IF @ = "none" THEN evidence ELSE @]
  /\ UNCHANGED <<attempts, failure_class, dead_letter>>

\* markPublishedStatement, and recordReceiptStatement with its DO NOTHING.
MarkPublished(r, evidence) ==
  /\ published' = published \cup {r}
  /\ published_at' = published_at \cup {r}
  /\ failure_class' = [failure_class EXCEPT ![r] = "none"]
  /\ next_attempt_at' = [next_attempt_at EXCEPT ![r] = 0]
  /\ Unlease(r)
  /\ receipt' = [receipt EXCEPT ![EventOf[r]] = IF @ = "none" THEN evidence ELSE @]
  /\ UNCHANGED <<attempts, dead_letter>>

\* recordFailureStatement.
RecordFailure(r, class, n) ==
  /\ attempts' = [attempts EXCEPT ![r] = n]
  /\ failure_class' = [failure_class EXCEPT ![r] = class]
  /\ \E delay \in 0..BackoffMax : /\ delay \in backoffFor(BackoffBase, n, BackoffMax)
                                  /\ next_attempt_at' = [next_attempt_at EXCEPT ![r] = delay]
  /\ Unlease(r)
  /\ UNCHANGED <<published, published_at, incidents>>

\* stopRedeliveryStatement, and deadLetterStatement with its DO NOTHING.
DeadLetter(r, class, n) ==
  /\ published' = published \cup {r}
  /\ attempts' = [attempts EXCEPT ![r] = n]
  /\ failure_class' = [failure_class EXCEPT ![r] = class]
  /\ next_attempt_at' = [next_attempt_at EXCEPT ![r] = 0]
  /\ Unlease(r)
  /\ dead_letter' = [dead_letter EXCEPT ![EventOf[r]] = IF @ = 0 THEN n ELSE @]
  /\ UNCHANGED <<published_at, receipt>>

Decide(class, n) ==
  IF class = "poison" THEN "dead-letter" ELSE IF n < MaxAttempts THEN "retry" ELSE "release"

Fail(r, class, n) == IF Decide(class, n) = "dead-letter" THEN DeadLetter(r, class, n)
                                                         ELSE RecordFailure(r, class, n)

Outcome(w, r) == IF answer[w] \in Evidence THEN MarkPublished(r, answer[w])
                                           ELSE Fail(r, answer[w], seen[w][r] + 1)

\* The transaction commits: the outcome when the fence matches, and nothing
\* (errLeaseLost) when it does not.  The worker goes on with the next row.
Record(w, r) ==
  /\ at[w] = "recording"
  /\ Current(w, r)
  /\ IF Fence(w, r) THEN Outcome(w, r) ELSE UNCHANGED <<columns, incidents>>
  /\ at' = [at EXCEPT ![w] = "batch"]
  /\ answer' = [answer EXCEPT ![w] = "none"]
  /\ todo' = [todo EXCEPT ![w] = @ \ {r}]
  /\ UNCHANGED <<subscribed, owed, consumer, cancelled, lease, seen, deadline, history, bounds>>

\* The transaction fails, after a rollback or after a commit nobody heard of:
\* the rest of the batch is released, this row too when the context is done.
RecordError(w, r) ==
  /\ at[w] = "recording"
  /\ Current(w, r)
  /\ faults < MaxFaults
  /\ (Fence(w, r) /\ Outcome(w, r)) \/ UNCHANGED <<columns, incidents>>
  /\ at' = [at EXCEPT ![w] = "releasing"]
  /\ answer' = [answer EXCEPT ![w] = "none"]
  /\ todo' = [todo EXCEPT ![w] = IF Cancelled(w) THEN @ ELSE @ \ {r}]
  /\ stranded' = IF Cancelled(w) THEN stranded ELSE stranded \cup {r}
  /\ faults' = faults + 1
  /\ UNCHANGED <<subscribed, owed, consumer, cancelled, lease, seen, deadline,
                 failures, refused, slow>>

\* releaseStatement for every row left, in one transaction.
Release(w) ==
  LET mine == {r \in todo[w] : Fence(w, r)}
  IN /\ at[w] = "releasing"
     /\ lease_id' = Update(lease_id, mine, NoLease)
     /\ leased_until' = Update(leased_until, mine, 0)
     /\ Return(w)
     /\ UNCHANGED <<subscribed, owed, published, published_at, attempts, failure_class,
                    next_attempt_at, incidents, consumer, cancelled, history, bounds>>

ReleaseError(w) ==
  /\ at[w] = "releasing"
  /\ todo[w] # {}
  /\ faults < MaxFaults
  /\ Return(w)
  /\ stranded' = stranded \cup todo[w]
  /\ faults' = faults + 1
  /\ UNCHANGED <<database, consumer, cancelled, failures, refused, slow>>

-----------------------------------------------------------------------------
(* Processes and time *)

WorkersOf(p) == {w \in Workers : ProcessOf[w] = p}

\* f with the workers of p set to x.
Reset(f, p, x) == [w \in Workers |-> IF w \in WorkersOf(p) THEN x ELSE f[w]]

\* Run starts the workers; a process that stopped may be run again.
Run(p) ==
  /\ \A w \in WorkersOf(p) : at[w] = "stopped"
  /\ at' = Reset(at, p, "idle")
  /\ cancelled' = cancelled \ {p}
  /\ UNCHANGED <<database, consumer, answer, batch, history, bounds>>

Cancel(p) ==
  /\ p \notin cancelled
  /\ \E w \in WorkersOf(p) : at[w] # "stopped"
  /\ faults < MaxFaults
  /\ cancelled' = cancelled \cup {p}
  /\ faults' = faults + 1
  /\ UNCHANGED <<database, consumer, locals, history, slow>>

\* Mutant: the poll loop only ends when nothing is left to claim.
StopDrained(w) ==
  /\ at[w] = "idle"
  /\ Cancelled(w)
  /\ \A r \in owed : ~Claimable(w, r)
  /\ at' = [at EXCEPT ![w] = "stopped"]
  /\ UNCHANGED <<database, consumer, cancelled, answer, batch, history, bounds>>

\* The poll loop ends once the context is done.
Stop(w) ==
  /\ at[w] = "idle"
  /\ Cancelled(w)
  /\ at' = [at EXCEPT ![w] = "stopped"]
  /\ UNCHANGED <<database, consumer, cancelled, answer, batch, history, bounds>>

\* The process dies and its memory is lost.
Crash(p) ==
  /\ \E w \in WorkersOf(p) : at[w] # "stopped"
  /\ faults < MaxFaults
  /\ at' = Reset(at, p, "stopped")
  /\ lease' = Reset(lease, p, NoLease)
  /\ todo' = Reset(todo, p, {})
  /\ seen' = Reset(seen, p, [r \in Rows |-> 0])
  /\ deadline' = Reset(deadline, p, 0)
  /\ answer' = Reset(answer, p, "none")
  /\ stranded' = stranded \cup UNION {todo[w] : w \in WorkersOf(p)}
  /\ cancelled' = cancelled \ {p}
  /\ faults' = faults + 1
  /\ UNCHANGED <<database, consumer, failures, refused, slow>>

AtWork(w)     == at[w] \notin {"stopped", "idle"}
Publishing(w) == at[w] \in {"publishing", "sent"}

Elapsed(n) == IF n = 0 THEN 0 ELSE n - 1

\* An instant passes.  LeaseDuration "must exceed the time to publish a whole
\* batch": instants that pass while a worker is at work are counted by slow, and
\* bounded unless they pass in the publications of slow workers.
Tick ==
  /\ \/ \E r \in Rows : leased_until[r] > 0 \/ next_attempt_at[r] > 0
     \/ \E w \in Workers : deadline[w] > 0
  /\ slow < MaxSlow \/ \A w \in Workers : AtWork(w) => w \in SlowWorkers /\ Publishing(w)
  /\ slow' = IF (slow < MaxSlow \/ slow < LeaseDuration) /\ \E w \in Workers : AtWork(w)
             THEN slow + 1 ELSE slow
  /\ leased_until' = [r \in Rows |-> Elapsed(leased_until[r])]
  /\ next_attempt_at' = [r \in Rows |-> Elapsed(next_attempt_at[r])]
  /\ deadline' = [w \in Workers |-> Elapsed(deadline[w])]
  /\ UNCHANGED <<subscribed, owed, published, published_at, attempts, failure_class,
                 lease_id, incidents, consumer, cancelled, at, lease, todo, seen,
                 answer, history, faults>>

-----------------------------------------------------------------------------

\* The steps of a worker that its goroutine takes by itself: every call it
\* waits on is bounded by a timeout.
Progress(w) ==
  \/ Claim(w) \/ StartBatch(w) \/ EndBatch(w) \/ Stopped(w) \/ Release(w) \/ Stop(w)
  \/ \E r \in Rows : RejectEnvelope(w, r) \/ StartPublish(w, r) \/ Send(w, r) \/ Record(w, r)
  \/ \E r \in Rows, evidence \in Evidence : Acknowledged(w, r, evidence)
  \/ \E r \in Rows, class \in {"poison", "unavailable"} : Failed(w, r, class)

WorkerStep(w) ==
  \/ Progress(w) \/ ClaimUncertain(w) \/ ReleaseError(w)
  \/ \E r \in Rows : RecordError(w, r)

Next ==
  \/ \E r \in Rows : Append(r)
  \/ Subscribe \/ Unsubscribe \/ Abandon
  \/ \E h \in Handlers : HandlerStep(h)
  \/ \E w \in Workers : WorkerStep(w)
  \/ \E p \in Processes : Run(p) \/ Cancel(p) \/ Crash(p)
  \/ Tick

Spec == Init /\ [][Next]_vars

\* Goroutines are scheduled and the clock advances.
FairSpec == Spec /\ WF_vars(Tick) /\ \A w \in Workers : WF_vars(Progress(w))

\* A worker that waits for a publication, unless a reserved one for a priority
\* row's: of the time it takes nothing is known.
Occupied(w) ==
  Publishing(w) /\ (w \in PriorityWorkers => \E r \in todo[w] : Priority[r] # PriorityHigh)

\* An occupied worker may be so for good.
LaneSpec ==
  Spec /\ WF_vars(Tick) /\ \A w \in Workers : WF_vars(~Occupied(w) /\ Progress(w))

-----------------------------------------------------------------------------
(* Properties *)

\* A receipt exists exactly for the events one of whose rows was marked
\* published with published_at: markPublished writes both in one transaction,
\* behind the fence, so neither a crash, a failed commit nor a lost lease
\* leaves one without the other.
ReceiptsMatchDeliveries ==
  \A e \in Events : receipt[e] # "none" <=>
    \E r \in published_at : EventOf[r] = e

\* A closed row is accounted for in exactly one way: delivered with a receipt,
\* dead-lettered with an incident, or abandoned.
ClosedIsAccounted ==
  \A r \in published :
    \/ /\ r \in published_at
       /\ failure_class[r] = "none"
       /\ receipt[EventOf[r]] # "none"
    \/ /\ r \notin published_at
       /\ \/ failure_class[r] = "poison" /\ dead_letter[EventOf[r]] # 0
          \/ failure_class[r] = "abandoned"

\* consumer_applied evidence is never recorded for an event the consumer has
\* not applied, whatever is retried, replayed or answered late.
AppliedEvidenceIsTrue ==
  \A e \in Events : receipt[e] = "consumer_applied" => e \in processed

\* Lost answers, lost leases and replays deliver an event again, also while the
\* consumer is still at an earlier delivery, and the inbox guard keeps its effect
\* to one application; what is recorded as applied has been.
EffectOnce ==
  \A e \in Events : effects[e] <= 1 /\ (receipt[e] = "consumer_applied" => effects[e] = 1)

\* No event is dead-lettered for unavailability: behind every incident and
\* every row closed as poison there is a refusal.
DeadLetterMeansRefused ==
  /\ \A e \in Events : dead_letter[e] # 0 => \E r \in refused : EventOf[r] = e
  /\ \A r \in published : failure_class[r] = "poison" => r \in refused

\* The attempt count never exceeds the failed publications: a shutdown, a
\* crash, a lost lease or a database error spends no attempt.
AttemptsNotOvercounted == \A r \in Rows : attempts[r] <= failures[r]

\* "The closed row and its dead-letter row must agree."  Not so for a replay that
\* is refused after other attempts than the first delivery was.
DeadLetterAgrees ==
  \A r \in published : failure_class[r] = "poison" => dead_letter[EventOf[r]] = attempts[r]

\* The count read by the claim is not stale when the outcome adds one to it:
\* the attempts of a row grow by one at a time and never fall back.
AttemptsGrowByOne ==
  [][\A r \in Rows : attempts'[r] \in {attempts[r], attempts[r] + 1}]_vars

\* A row that was closed is never opened, leased, counted or reclassified again
\* by an outcome that arrives late.
ClosedStaysClosed ==
  [][\A r \in published :
       /\ r \in published' /\ (r \in published_at' <=> r \in published_at)
       /\ attempts'[r] = attempts[r] /\ failure_class'[r] = failure_class[r]
       /\ lease_id'[r] = lease_id[r] /\ leased_until'[r] = leased_until[r]]_vars

\* The rows a worker may still publish.
Held(w) == IF at[w] = "releasing" THEN {} ELSE todo[w]

\* As long as the instants spent at work stay below LeaseDuration, two workers
\* never hold the same row, so no row is being published by two.
BatchesDisjoint ==
  slow < LeaseDuration =>
    \A w, v \in Workers : w # v => Held(w) \cap Held(v) = {}

\* A live lease is always somebody's work, unless its holder crashed or failed
\* to write: neither a shutdown nor a batch that ran out of time leaves a row
\* waiting for a lease to expire.
NoStrandedLease ==
  \A r \in Rows : leased_until[r] > 0 =>
    \/ r \in stranded
    \/ \E w \in Workers : r \in todo[w] /\ lease_id[r] = lease[w]

\* Nobody is running that claims this row.
Unserved(r) ==
  \A w \in Workers : \/ at[w] = "stopped"
                     \/ w \in PriorityWorkers /\ Priority[r] # PriorityHigh

\* Every owed row is closed in the end, or no worker is left to serve it: no
\* crash, lost lease, failed commit or backoff strands a row.
EveryRowSettles == \A r \in Rows : r \in owed ~> r \in published \/ Unserved(r)

\* The reserved lane: a priority row is closed in the end although every other
\* worker is stuck in a publication, be it of a backlog or of the priority row
\* itself, and a reserved worker that took on the backlog would be stuck too.
PriorityNotDelayed ==
  \A r \in {s \in Rows : Priority[s] = PriorityHigh} :
    r \in owed ~> r \in published \/ \A w \in PriorityWorkers : at[w] = "stopped"

\* Run returns: once its context is done every worker of a process stops.
ShutdownCompletes ==
  \A p \in Processes : p \in cancelled ~>
    p \notin cancelled \/ \A w \in Workers : ProcessOf[w] = p => at[w] = "stopped"

-----------------------------------------------------------------------------
(* Refinement *)

StatusOf(r) ==
  IF r \notin owed THEN "absent"
  ELSE IF r \notin published THEN "owed"
  ELSE IF failure_class[r] = "poison" THEN "refused"
  ELSE IF failure_class[r] = "abandoned" THEN "abandoned"
  ELSE "delivered"

Ledger == INSTANCE DeliveryLedger WITH
            status   <- [r \in Rows |-> StatusOf(r)],
            evidence <- receipt,
            incident <- {e \in Events : dead_letter[e] # 0},
            applied  <- processed

\* The tables the dispatcher leaves behind are a ledger: with all its retries,
\* takeovers and lost commits every row is closed once, first evidence stands,
\* and consumer_applied is only ever recorded after the application.
ImplementsLedger == Ledger!LedgerSpec

=============================================================================
