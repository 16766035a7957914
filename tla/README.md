# foundation-platform: TLA+ specifications

`foundation-platform` is the Go library two control planes share: a
transactional outbox with a dispatcher, the inbox that makes consumption
idempotent, idempotency keys for commands, a transaction pool, a token verifier,
an HTTP publisher with client credentials, an HTTP middleware chain, UUIDv7
identifiers, event types, event envelopes and the correlation of a chain of work.
This directory models the parts of it whose correctness depends on
interleavings, crashes, retries or boundary values, checks them with TLC, and
proves their safety with TLAPS.

    cd tla
    tlc -config MCDispatcherFaults.cfg MCDispatcher     # one run
    tlapm DispatcherProofs.tla                          # one module of proofs

## 1. The system and its parts

| Part | State | Operations | What makes it hard |
|---|---|---|---|
| Append, subscriptions (`outbox/outbox.go`, `subscription.go`) | `platform.outbox`, `outbox_delivery`, `subscription`, an advisory lock | `Append` with and without `To`, `Subscribe`, `Unsubscribe`, `Abandon` | READ COMMITTED statements of concurrent transactions, lock upgrades |
| Dispatcher (`outbox/dispatcher.go`, `dispatch.go`) | delivery columns, leases, the workers' memory | claim, publish, settle, record, release, stop | competing processes, leases that expire under a slow publication, crashes, uncertain commits, shutdown |
| Inbox (`inbox/inbox.go`) | `processed_event` | `Guard` | the same event delivered again, also while it is being handled |
| Dead letters, receipts (`outbox/maintenance.go`, migrations 0003-0007) | `dead_letter`, `delivery_receipt` | open, replay, resolve, reopen, waive, dispose, prune | a prune decides by a snapshot; waivers expire |
| Partitions (`migrations/maintenance.go`, migrations 0002, 0009) | children of two tables, a registry | ensure, drop | transactions across midnight, table locks, deadlocks |
| Idempotency (`idempotency/*.go`) | `idempotency_key` | `Claim`, `Complete`, `CompleteWithheld`, `PurgeCompleted` | retries that race, claims that outlive their process |
| Pool (`db/db.go`) | connections, `p.src` | `InTx`, `Close` | errors and panics at every step, nested calls, close during use |
| Verifier (`verify/*.go`) | JWKS cache, last fetch | `Verify`, `Key`, `Refetch` | key rotation under concurrent verifications |
| Publisher (`outbox/httpdelivery/publisher.go`, `clientauth/tokens.go`) | cached access token, mutex | `Publish`, `Token`, `Invalidate` | one token shared by all workers, expiry, revocation |
| HTTP chain (`httpapi/httpapi.go`, `problem.go`) | in-flight counter, buffered response | correlation, shedding, policies, recovery, log | panics at every layer, races at the limit |
| Identifiers (`id/uuidv7.go`) | last millisecond, counter | `NewV7` | a clock that goes back, an exhausted counter |
| Event types (`event/type.go`) | none | `ParseType`, `Base`, `MajorVersion` | several spellings of one number |
| Envelope (`event/envelope.go`) | an event, its row, its dead letter | `New`, `Validate`, append, settle, publish, decode, replay | each hop converts and validates again |
| Correlation (`observability/observability.go`, `correlationOf`) | identifiers in contexts, metadata and headers | `EnsureCorrelation`, `MetadataFromContext`, `ContextWithMetadata` | contexts without identifiers, work caused by work |
| JSON pointers (`idempotency/withhold.go`) | none | `removeMember`, `arrayIndex` | escapes, array indices |
| Retry delays (`outbox/dispatch.go`) | none | `backoffFor`, `emptyPollDelay` | shifts that overflow |

The parts meet at the database. A service appends in its own `InTx` transaction;
the dispatcher of each consumer claims that consumer's delivery rows, publishes
them through the publisher and records the outcome as a closed row with a
receipt, a later attempt, or a dead letter; the consumer runs `Guard` in the
transaction of its effect. Maintenance disposes of payloads, prunes receipts and
drops partitions behind them.

## 2. Modules

| Module | Models | Checked by |
|---|---|---|
| `Dispatcher` | one consumer's delivery rows, its dispatcher processes and workers, and the consumer with its inbox | `MCDispatcher*` |
| `DeliveryLedger` | abstract: what the outbox promises about deliveries, without workers, leases or time | refined by `Dispatcher` |
| `DispatcherInvariants` | the inductive invariant `IInv` | `MCDispatcherFaults` |
| `DispatcherProofs` | `IInv` step by step: types, leases and deadlines, then the rest; the theorems about `Dispatcher` | TLAPS |
| `Backoff`, `BackoffSchedule` | the two delays, and a reference schedule they are compared with | `MCInProcess`; `EventPathProofs` |
| `Subscriptions` | appends and subscription changes as statements of concurrent transactions | `MCSubscriptions`; `SubscriptionsProofs` |
| `SubscriptionLedger` | abstract: each such transaction in one step, without locks, statements or uncommitted writes | refined by `Subscriptions` |
| `DeadLetters` | the life of incidents and receipts | `MCDeadLetters*`; `EventPathProofs` |
| `Partitions` | the two partitioned tables and their maintenance | `MCPartitions`; `PartitionsProofs` |
| `Idempotency` | attempts at commands under one key | `MCIdempotency`; `IdempotencyProofs` |
| `CommandLedger` | abstract: a command is executed at most once while its key is kept, and repeated answers are the kept one | refined by `Idempotency` |
| `Verifier` | verifications over the JWKS cache | `MCVerifier`; `VerifierProofs` |
| `Publisher` | workers sharing a publisher and its token | `MCPublisher`; `PublisherProofs` |
| `IdGenerator` | goroutines that make identifiers | `MCInProcess`; `ServiceCoreProofs` |
| `Pool`, `HttpChain` | transactions on the connection pool; requests through the middleware | `MCInProcess`; `ServiceCoreProofs` |
| `ServiceCore` | the three side by side, with what `Pool` and `HttpChain` promise as a whole | `MCInProcess`; `ServiceCoreProofs` |
| `Envelope` | one event from the producer to the consumer, through row, wire, dead letter and replay | `MCInProcess`; `EventPathProofs` |
| `Correlation` | the identifiers of one chain of requests, jobs, events and deliveries | `MCInProcess`; `EventPathProofs` |
| `EventPath` | `Envelope`, `Correlation` and `BackoffSchedule` side by side, with what an event carries | `MCInProcess`; `EventPathProofs` |
| `EventType` | the grammar of type names | `MCInProcess`; `IdempotencyProofs` |
| `Withhold` | responses, JSON pointers and what they remove, beside the pointers RFC 6901 writes | `MCInProcess`; `IdempotencyProofs` |
| `Decimals` | numerals, as both of these read them | with them |

Variables carry the names of the columns and fields they stand for, and actions
those of the functions or statements, so that a module can be read beside its
source; `PROJECT.json` maps every definition to its lines. Instants are small
numbers, 0 where SQL has NULL. Definitions introduced by "Mutant:", or that
stand directly before the definition whose name theirs extends, are variants
with a plausible mistake. Each property is known to fail for one of them.

**Dispatcher.** Rows and their columns are the database; `at`, `todo`, `lease`,
`seen`, `deadline` and `answer` are the locals of `dispatchOnce`. A claim leases
up to `BatchSize` claimable rows, possibly fewer because SKIP LOCKED passes over
rows that another statement holds. A batch is then settled row by row: the local
deadline is compared, the envelope decoded, the request sent, an answer arrives
or does not, and the outcome is recorded behind the fence
`lease_id = $lease AND NOT published`. Processes may be cancelled or
crash, claims and records may fail, and a commit may succeed while its answer is
an error. The consumer is external and handles a request in a transaction of
several steps: `Handle` begins it and registers the event by `Guard`, which
waits for a handler that has registered the same event and not ended; `Apply`
commits registration and effect together; `GiveUp` loses both. A request stays
for ever, so that it can be delivered again at any time, and the answer the
dispatcher sees may come before, after or without the commit. Time is relative:
`leased_until`, `next_attempt_at` and `deadline` count down, and `slow` counts
the instants that pass while a worker is at work. At most `MaxSlow` of them do,
unless they pass in the publications of `SlowWorkers`, which may take any time.
Jitter is not modelled here; the delay is in `Backoff`.

**Subscriptions.** Every call is the lock request, then one statement; the lock
is kept to the end of the transaction. The wait queue is first come first served,
holders overtake waiters, and of two transactions that upgrade against each
other PostgreSQL aborts one.

**DeadLetters.** A statement is atomic, except the prune: its DELETE chooses
receipts by the snapshot it starts with and removes them later. Which evidence a
host accepts to resolve an incident is external; the tables' constraints are not.

**Partitions.** The drop and the ensure functions are followed statement by
statement with the table locks they take; an append holds its row locks to its
commit. The creation moves the rows of its days out of the default partitions
by what its statement sees, and the child is then refused if a row it could not
see is there. An append takes the locks of both tables in one step, so a drop
and an append cannot deadlock here; `DropAbort` stands for the outcome.

**Idempotency.** `Claim` inserts the row, or meets a committed one and reads it
in a second statement, or waits for the transaction that inserted it. A command
either claims in the transaction of its effect or commits its claim first. What a
response contains and what the pointers name are any sets of `Members`.

**Publisher, Verifier, Pool, HttpChain, IdGenerator.** One control variable per
goroutine; critical sections are single steps and what happens between them
interleaves. The token endpoint, the issuer and the consumer are external and
answer, fail or stay silent.

**Envelope, Correlation.** Each hop of an event is one action with the checks and
conversions it makes: what `New` and a literal fill in, what `Append` and the
decoder validate, which timestamps RFC 3339 can write, what a context without
identifiers becomes in metadata and headers. Contents are told apart only by
whether they are valid, decodable or equal. A context is the pair of identifiers
it carries, and `MaxIds` bounds how many a chain makes.

**Withhold.** A string is the sequence of its characters, a decoded document the
function from the path of each of its values to whether that is an object, an
array or neither. `Found` follows the code (split, refuse a bad escape, unescape
in order, walk, look for the member) and `RemoveMember` deletes what it finds.
`Written` goes the other way: it writes the pointer of a value as RFC 6901
does, and `RemovesTheNamed` compares the two. `Grow` builds each pointer
character by character, so that every pointer of a length is tried. That Atoi
fails beyond the greatest int is left out: no array is that long.

**Backoff.** A duration is an integer that wraps beyond `MaxDuration`, and a shift
is repeated doubling of it. Every base and every ceiling is tried: `applyDefaults`
bounds neither.

**MCInProcess** runs the components that share nothing with each other, those of
`ServiceCore` and `EventPath` and the pure algorithms, in one instance: a
behaviour picks one of them and follows it alone, so the state space is the sum
of theirs.

## 3. What the runs check

Every run finishes without error except `dead_letters_citation`, which is meant
to find its violation. Deadlock is checked except where the system may stop for
good: callers, attempts, requests, transactions or verifications that are all
done, or bounds that are used up.

| Run | Instance | Shows |
|---|---|---|
| `dispatcher_faults` | one row, two processes of one worker, two failures, two faults, lease of one instant, one slow instant, two handlers at the consumer | every closed row is accounted for; an effect is applied once, by whichever handler, and was applied when the receipt says so; attempts are never overcounted; closed rows stay closed; no lease is stranded; `IInv`, and with it that `consumer_applied` is true and that dead letters mean a refusal |
| `dispatcher_replay` | three rows, two lanes, two events, one row unpublishable and replayed, batches of two, two workers of one process, a lease of two instants | receipts exist exactly for delivered events; within its lease a row is in one worker's hands (`BatchesDisjoint`); the dispatcher implements `DeliveryLedger` |
| `dispatcher_liveness` | one row, two processes, one failure, one fault; the consumer's answer is all that matters, so no handlers | every owed row is closed; a cancelled process stops |
| `dispatcher_lane` | a standard and a priority row, one standard and one reserved worker of one process; a publication may take for ever unless the reserved worker makes it for the priority row | the priority row is closed although the standard worker is stuck, with the backlog or with the priority row's lease; it would not be if the reserved worker took standard rows |
| `subscriptions` | three transactions of up to two calls, one consumer, one type | no gap between snapshot and deliveries; what a transaction read under the lock still holds, and a retired consumer is owed nothing (`SubscriptionInv`); transactions take effect one at a time: an event is owed to the subscribers at its commit and an abandonment spares them (`ImplementsLedger`); no call waits for the lock for ever |
| `dead_letters_retention` | two events, two instants | an incident that was neither closed nor waived keeps its payload; a closure no prune raced with keeps the receipt it cites |
| `dead_letters_citation` | the same | violated: "A receipt a closure cites is never pruned" (section 6) |
| `partitions_retained` | two events, four days, transactions over one midnight, boundary one day back | the two tables stay in step; an event is stored with its delivery; the creation is never refused a child because of a row its move did not see (`AttachNotRefused`); nothing unpublished is dropped |
| `idempotency` | three attempts at one key, one with another request, retention of two instants | a command is executed once per key; replays are true, effects have their response and work is claimed (`KeyInv`); the keys implement `CommandLedger`; every attempt that began is answered, also one that waits for another's transaction (`EveryAttemptAnswered`) |
| `verifier` | three verifications, two rotations, an interval and a timeout of two instants, tokens that expire, are not yet valid, are signed by another key or malformed | one fetch per interval, and the cache is one published key set (`CacheInv`); it goes back to an older one only after a fetch was stored an interval or more after its stamp (`OlderOnlyWhenLate`); a rotation is adopted; what is accepted is valid at that instant |
| `publisher` | two workers, one restart of the kernel, one fault, lifetimes 2 and unstated, leeway 1 | a cached token has its leeway left; a refused token never returns; only unreadable envelopes are poison (in `PublisherInv`); every delivery is settled |
| `in_process` | three goroutines each for `IdGenerator` (counter of two values, three milliseconds), `Pool` (two connections), `HttpChain` (room for two); type names of up to two segments of up to three characters; one event with its replays and positions up to four, in years that can and cannot be written; chains of up to four identifiers; JSON pointers of up to six characters, removed one after the other, into a response whose keys need escapes, are empty or read as an index; all bases, ceilings and counts of a seven-bit duration | identifiers are returned in order (`CreationOrder`); no connection leaks, no unbound work, `InTx` reports the truth, `Close` leaves nothing open (`TransactionsSound`); the in-flight limit holds and slots return, responses are whole, correlated and logged as sent (`RequestsSound`); an event arrives as it was built, at its row's position, and work keeps the correlation of its request (`EventsCarried`); a type's base and version form an accepted name (`NamesAgree`); a pointer removes the member it names and nothing else (`RemovesTheNamed`); delays are within the ceiling, double, and saturate as long as the shift loses no more than the sign (`DelaysSaturate`) |

Type invariants are not invariants of their own in the runs: `IInv` contains that
of `Dispatcher`, and in every other module one of the invariants (`KeyInv`,
`CacheInv`, `InStep`, ...) begins with `TypeOK`. The type invariant of
`IdGenerator`, and that its identifiers are distinct, are proved (section 4).

**Bounds.** Two workers, in two processes or in one that stops and crashes as a
whole, are enough for every race on a row: a row has one lease, and a third worker can only repeat what the second does. Two
failures reach `MaxAttempts = 2` and with it the last attempt; two faults allow a
crash and an uncertain commit, or a shutdown during recovery. A lease of one
instant with one slow instant makes every lease expire under its holder; a lease
of two with one slow instant is the opposite case, in which `BatchesDisjoint`
must hold. Two handlers suffice for every race in the inbox, which knows a
registration of one transaction and those that wait for it; `dispatcher_replay`
has one, since it does not ask about the inbox. Three transactions are needed for a queue behind a waiting writer,
two calls for a lock upgrade. One consumer and one type suffice there because
the join of `appendStatement` treats consumers independently; `To` with several
consumers is outside the instance. Three verifications are needed for a refused
refetch between two others, three requests to shed one at a limit of two. Four
positions let an event be appended, overtaken and replayed; year 1 stands for the
years RFC 3339 can write and year 2 for those it cannot. Four identifiers are a
request, its event, the work that causes and the event that work emits. Six
characters are enough for two levels with an escape in each, or for an index
behind an escaped key.
Symmetry is used on lease identifiers, handlers, goroutines, verifications and
events, and never where liveness is checked. The bounds on clocks,
failures and faults (`MaxTime`, `MaxFailures`, `MaxFaults`, `MaxSlow`, ...) are
named as such where they are declared.

**Fairness.** `Dispatcher!FairSpec` assumes a clock and, for every worker, weak
fairness of the steps its goroutine takes by itself: each call it waits for is
bounded by a timeout or answers cancellation. Appends, shutdowns, crashes and
faults are never forced. `LaneSpec` assumes less: nothing of the time a
publication takes, except that of a priority row by a reserved worker. The
publisher's request has a timeout, so this is the worst case of a slow consumer,
not of a hanging one.
`Idempotency!FairSpec`: PostgreSQL answers a statement that waits for nobody, the
command's function returns, and `InTx` ends the transaction. Nothing is assumed
of a statement that waits for another transaction, and no attempt has to begin.
`Subscriptions!FairSpec`: PostgreSQL grants locks and resolves deadlocks,
statements return, and `InTx` ends every transaction it begins.
`Publisher!FairSpec`: requests end at the client's timeout; strong fairness of
taking the mutex stands for Go's mutex, which hands over to a waiter that has
waited for a millisecond.

## 4. What is proved

Every theorem holds for all values of the constants that the named assumptions
of its module allow: any sets of rows, events, workers, transactions, attempts,
verifications or goroutines, and any bounds.

**Dispatcher** (`ConstantsAssumption`: positive batch size, lease, attempts and
delays; functions of the right type). `DispatcherProofs` proves of
`Dispatcher!Spec`:

- `TypeCorrect`, `Invariance`: `[]TypeOK` and `[]IInv`;
- `TrueRecords`, `RowsAccounted`, `AttemptsCounted`, `AppliedOnce`, `Exclusive`,
  `LeasesHeld`: the safety invariants of `dispatcher_faults`,
  `ReceiptsMatchDeliveries` and `BatchesDisjoint`; `AppliedOnce` holds for any
  number of handlers that work at the same time;
- `AttemptsStepwise`, `ClosedForGood`: the action properties;
- `Refinement`: `Dispatcher` implements `DeliveryLedger`.

The safety invariants are not inductive. That a late outcome cannot rewrite a
row depends on the fence, and the fence protects only because a lease identifies
one claim and because, while it stands in the row, the worker's copy of
`attempts` is current (`LeaseInv`). That attempts are not overcounted needs to
know that a failure about to be recorded has not been counted yet, and that the
evidence about to be recorded is backed by the consumer (`AnswerInv`).
`NoStrandedLease` needs the local deadline to be no earlier than the lease
(`DeadlineInv`), or a worker could give up a batch whose lease still runs.
`BatchesDisjoint` needs the lease to have at least as many instants left as were
not spent at work (`HeldInv`). `EffectOnce` needs that no two handlers are at
the same event and none at one that is processed (`ConsumerInv`), and that the
receipt of an applied event rests on its registration. `IInv` is the conjunction of these with the
properties themselves. Each conjunct has a lemma that the next-state relation
preserves it; lemmas such as `TableSteps` and `OutcomeFrame` first reduce the
actions to the few ways in which they touch what the conjunct speaks of. The
refinement maps a row's columns to its status in the ledger; every step is shown
to be a step of the ledger or a stutter under `IInv`.

**Subscriptions** (`SubscriptionsProofs`). `LockProtects`: `[]SubscriptionInv`;
from it `SubscribersMissNothing` (`NoGap`) and `SubscriptionsImplementLedger`, the
refinement of `SubscriptionLedger`. The invariant says that who holds the lock
exclusively holds it alone, that a call past its lock request holds the mode it
needs, and hence that what an open transaction has read of the subscriptions is
still so when it commits. The refinement keeps what is committed: every step but
a commit is a stutter, and a commit is one step of the ledger because the
subscribers its append read, under the lock, are those at the commit.

**Idempotency** (`IdempotencyProofs`). `KeysKept`: `[]KeyInv`; from it
`CommandExecutedOnce` and `KeysImplementLedger`, the refinement of
`CommandLedger`. `ExecutedOnce` is not inductive: a purge removes the row that
prevents a second execution. `WorkIsClaimed` adds that an attempt at work holds
the key's row, inserted or committed, and that the retention of every earlier
effect under the key was over when it claimed.

**Withhold** (`IdempotencyProofs`; `PointerConstants`: the alphabet has `/`, `~`
and the digits). `PointersKept` is `[]RemovesTheNamed`, for any response, alphabet,
and pointers of any number and length. Its core is that reading undoes writing
and writing undoes reading: `EscapedReadsBack`, that an escaped key passes the
check of escapes and unescapes to itself, because no `~1` can arise from two
characters of a key; `TokenIsEscaped`, that a token that passes is the escape of
what it is read as; `WrittenParts`, that a written pointer splits into the
escapes of its path; and `CanonicalNumeral`, that digits without a leading zero
are the numeral of their number. `FindsTheNamed` follows: the code finds exactly the
members written as the pointer, and there is one at most. `PointerInv` adds that
what is stored stays a document, so that removing one member leaves the names of
the others alone.

**EventType** (`IdempotencyProofs`; `TypeConstants`). `NamesKept` is
`[]NamesAgree`, for any greatest int, any number of segments and any length of
names: the same facts about numerals show that the version an accepted segment
is read as, written again, is accepted and read as the same.

**Backoff** (`EventPathProofs`; `EventConstants`). `DelaysKept` is
`[]DelaysSaturate`, for any greatest duration, base, ceiling and count. The delay
is never negative nor above the ceiling. That it is the doubled interval, capped,
is stated as long as the shift `Fits`: below twice the number of durations an
overflow shows as a negative number, which the code's comparison with zero
reads as the ceiling. Beyond that it need not show (section 6).

**Verifier** (`VerifierProofs`; `VerifierConstants`). `CacheKept`: `[]CacheInv`;
`OnlyValidAccepted`; `NoOlderKeySet`: an older key set replaces a newer one only
when some fetch was `late`, that is stored an interval or more after its stamp;
and `RotationSeen`: as long as no fetch failed or was late, a key published an
interval before a verification began is rejected as unknown only while the fetch
of the last stamp is under way. Nothing is assumed of the timeout: it bounds the
request, not the time until the answer is stored, and a goroutine may be
suspended in between. The induction carries that the stamp of the last fetch is
taken before the request, so that two fetches begin an interval apart, and that
an answer on its way is no older than the cache unless a fetch was late, or this
one would be. `RotationSeen` adds two invariants: `Stamps`, that a second lookup
follows a stamp of less than an interval before its verification began, and
`Sight`, that everything published before the last stamp is in the answer to it
and, once that fetch is over and did not fail, in the cache.

**Publisher** (`PublisherProofs`; `PublisherConstants`, `NoTokenIsNone`).
`PublisherKept`: `[]PublisherInv`, with it that no readable envelope is poison;
`LeewayLeft` and `RefusedStaysDropped`. The properties speak of what is handed
out; the invariant adds why: a cached token expires no later than it dies
because the clock was read before the request; a refused token is dead, so that
no token issued later is the same; and while a response is on its way the mutex
is held, so that no token is dropped between its issue and its entry into the
cache.

**Partitions** (`PartitionsProofs`; `PartitionsConstants`).
`TablesInStep`, `AttachSucceeds` and, when the retention is not shorter than
the longest transaction (`MaxTxDays <= Retention`), `DropsOnlyPublished`. Section 6
shows what happens without that hypothesis. The invariant `StorageInv` says where
every row is: an open transaction is recent, a day that lost its child lies beyond
the reach of any transaction still open, and a child stands for as long as the
registry tracks it. `CheckedInv` says that what the drop has read of a day still
holds when it has the lock, which the retention guarantees and the lock does not:
no transaction of that day can still be open.

**DeadLetters** (`EventPathProofs`; `DeadLettersConstants`). `OpenIncidentsReplay` and
`HeldClosuresKeepTheirReceipt`. The second needs what a prune's snapshot promises
(`SnapshotHolds`): a prune that has victims began when every open incident was
waived, so that whoever closes and cites meanwhile is among `raced`.

**Envelope, Correlation** (`EventPathProofs`; `EventConstants`). `EventsKept` is
`[]EventsCarried`: the lemmas on `MarshalJSON` and `UnmarshalJSON` show that an
envelope that passes `Validate`, with a year that can be written, is read back
unchanged but for its position, and `EnvInv` says that the row, the dead letter
and the bytes under way are all forms of the event that was built. For
`Correlation` the property is inductive once typed (`CorrInv`): the lemmas show
that restoring metadata that decodes gives a context the correlation it carries.

**IdGenerator** (`ServiceCoreProofs`; `ConstantsAssumption`). `Ordered` and `Distinct`
hold for any number of goroutines, counter width and clock. `IdInvariant` adds
that the generator's position is not before any identifier made or returned, and
that what a goroutine was last given is at most that position.

**Pool, HttpChain** (`ServiceCoreProofs`; `PoolConstants`, `HttpConstants`: at
least one connection, room for at least one request, finitely many requests).
`TransactionsKept` and `RequestsKept`. `CallInv` ties where a call stands to what
the database holds for it (connection, binding, effect, outcome), and `DrainInv`
says that a closed pool has no open transaction. `HttpInv` does the same for
a request's buffer, log and response; `SlotInv` counts: the shedder's counter is
the number of requests past it and not yet out, and those being served are at
most the limit, although the counter itself exceeds it while a request is shed.

**Recursive functions.** Splitting, replacing, numerals and shifts are recursive
functions. That one exists, and satisfies its own equation, is itself proved:
`Iteration` for a step that is repeated and `SequenceRecursion` for a function of
a sequence in terms of its value for the sequence without its last element. What it
computes follows from `NumbersByInduction` and `SequencesByInduction`, which
take the set of arguments with the property in question instead of a predicate,
and rest on well-founded minimal elements.

Most leaves are first-order and go to Zenon; arithmetic and function updates go
to the SMT solver, in steps of their own.

## 5. What is only model-checked, and what is not modelled

Liveness under fairness (`EveryRowSettles`, `ShutdownCompletes`,
`PriorityNotDelayed`, `LockIsGranted`, `EveryDeliverySettles`,
`EveryAttemptAnswered`) and everything that needs ENABLED are out of the prover's reach and stay with TLC. Every invariant,
action property and refinement of a passing run is stated by a theorem.

Not modelled: the dispatcher's preflight (it compares the catalog with a fixed
list before any worker starts), key parsing and signing, the migration loader,
metrics, spans and log attributes, redaction, build tools and test support; of
modelled parts, the hexadecimal form of identifiers, JSON decoding and encoding
themselves, the server's timeouts and `Shutdown` (they configure `net/http`), and
the one-off conversion of rows in migration 0009. The components of
`PROJECT.json` give the reason for each.

## 6. Where code and documentation disagree

`dead_letters_citation` shows that a closure can cite a receipt that a
concurrent prune deletes: the prune's snapshot saw neither the citation nor an
incident that holds pruning. "A receipt a closure names in resolution_reference
is kept permanently" (`src/outbox/maintenance.go:82`).

The following statements are definitions of the modules that TLC refutes when
they are given as invariants of the instance named; they are not among the runs.

| Definition | Instance | What happens |
|---|---|---|
| `Verifier!RotationRejectsNoValidToken` | `MCVerifier.cfg` with two calls, `MaxTime = 5` | verifications that meet a new key while another one fetches it are rejected with ErrUnknownKey; `verify_test.go:233` says "a rotation does not reject valid tokens" |
| `Pool!WaitIsBounded` | `MaxWait = 2` | `InTx` does not use `AcquireTimeout`, which by `db.go:112` "bounds the wait for a connection" |
| `Pool!ClosedIsReported` | that of `in_process` | a call that Close overtakes between its check of `p.src` and its use calls Begin on a nil source and panics, where `db.go:73` says ErrClosed reports it; `CloseDrains` shows that it then holds and has changed nothing |
| `Dispatcher!DeadLetterAgrees` | three rows of one event, one worker, two failures | a replay refused again leaves its attempts in the row and the first refusal's in the incident; "The closed row and its dead-letter row must agree" (`dispatcher.go:546`) |
| `DeadLetters!RefusalIsOpen` | that of `dead_letters_retention` | a replay refused after its incident was resolved leaves no open incident (`dispatch.go:193`: "is alerted at any occurrence") |
| `Partitions!OnlyPublishedDropped` | `Retention = 0` | the drop checks for unpublished rows before it holds the lock; a transaction that commits in between loses its delivery (`migrations/maintenance.go:41`); any boundary older than the longest transaction hides it |
| `EventType!OneSpelling` | that of `in_process` | `v02` and `v+2` are accepted beside `v2` (`event/type.go:89`) |
| `Envelope!AppendedIsSendable` | that of `in_process` | an event whose time has a year beyond 9999 is appended, since Format writes five digits, and refused by the dispatcher, since Parse does not read them |
| `Envelope!NewIsValid` | that of `in_process` | `New` checks that source and type are not empty; one converted from a string is not parsed, although Validate's comment says it "runs on construction" |
| `Correlation!MetadataDecodes` | that of `in_process` | metadata taken from a context without identifiers is written as the nil identifier, which Parse refuses, so a consumer that decodes it refuses the event |

The retry delay is documented as "from `BackoffBase` doubling per attempt up to
`BackoffMax`" (`docs/designs/TDD-foundation-platform-001-outbox-and-event-envelope.md:989`), and the comment at `dispatch.go:228` says that the limit on the
shift keeps it from overflowing. No base is refused, and for one above 2^34 ns,
some 17 s, the shift can lose whole multiples of 2^64 and leave a short positive
delay: 2^34 + 1 ns shifted by 30 is 2^30 ns. It takes that many attempts at one
row, and the delay is then still within the ceiling.

A fetch of the key set that is stored an interval or more after its stamp may put
an older set over a newer one (`OlderOnlyWhenLate` in section 3); the next fetch
that succeeds corrects it. `CompleteWithheld` stores the response without exactly the members
that are named: one that the service moved and no pointer names any more is stored.

`subscription.go:116` also says that a retired consumer's dispatcher refuses to
start; nothing in `Run` or the preflight looks at the subscription, and
`Dispatcher` models one that goes on.

## 7. Plan

1. An abstract specification that `Partitions` and `DeadLetters` implement, such
   as a store from which nothing owed is lost.
2. An abstract key set register that `Verifier` implements.
3. Compositions: `Dispatcher` with `Publisher` (the status mapping feeding
   attempts and dead letters) and with `DeadLetters` (replay and resolution
   against the dispatcher's records); `HttpChain` with `Idempotency` and `Pool`
   (a retried command from request to response).
4. Further parts: server shutdown, several consumers and types in
   `Subscriptions`, liveness of `Pool`.
