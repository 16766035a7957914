---------------------------- MODULE Subscriptions ----------------------------
(***************************************************************************)
(* Appending events and changing subscriptions (outbox/outbox.go and       *)
(* outbox/subscription.go) in concurrent transactions of the callers.      *)
(* Append holds an advisory lock shared, Subscribe, Unsubscribe and        *)
(* Abandon hold it exclusive, all of them until their transaction ends.    *)
(*                                                                         *)
(* Transactions are READ COMMITTED, the default db.InTx begins them with:  *)
(* a statement sees what is committed when it starts, and its own          *)
(* transaction's writes.  A transaction appends at most one event, which   *)
(* bears its name.                                                         *)
(***************************************************************************)
EXTENDS Naturals, Sequences, FiniteSets

CONSTANTS Txs, Consumers, Types,
          NoConsumer,   \* an append without To
          NoType,       \* no event was appended
          MaxCalls      \* bound: calls a transaction makes

ASSUME SubscriptionsConstants ==
  NoConsumer \notin Consumers /\ NoType \notin Types /\ MaxCalls \in Nat

VARIABLES
  \* committed
  subscription,  \* event_types of a consumer's active subscription, {} for none
  outbox,        \* events in platform.outbox
  delivery,      \* rows of platform.outbox_delivery: event and consumer
  closed,        \* those with published = TRUE
  snapshot,      \* what the consumer's bootstrap snapshot held
  retired,       \* consumers that were abandoned and not subscribed since
  \* the call a transaction is in
  at, want, who, what,
  \* the advisory lock
  shared, exclusive, waiting,
  \* uncommitted writes
  event_type, target,  \* of the appended event
  pending,             \* consumers it is owed to
  changed, mine,       \* consumers whose subscription changed, and to what
  closing,             \* rows that Abandon closed
  gaveUp,              \* consumers that were abandoned
  calls

committed == <<subscription, outbox, delivery, closed, snapshot, retired>>
call      == <<at, want, who, what>>
lock      == <<shared, exclusive, waiting>>
writes    == <<event_type, target, pending, changed, mine, closing, gaveUp>>
vars      == <<committed, call, lock, writes, calls>>

Steps == {"new", "open", "waiting", "locked", "failed", "done"}
Wants == {"append", "subscribe", "unsubscribe", "abandon"}

TypeOK ==
  /\ subscription \in [Consumers -> SUBSET Types]
  /\ outbox \subseteq Txs
  /\ delivery \subseteq Txs \X Consumers
  /\ closed \subseteq delivery
  /\ snapshot \in [Consumers -> SUBSET outbox]
  /\ retired \subseteq Consumers
  /\ at \in [Txs -> Steps]
  /\ want \in [Txs -> Wants \cup {"none"}]
  /\ who \in [Txs -> Consumers \cup {NoConsumer}]
  /\ what \in [Txs -> SUBSET Types]
  /\ shared \subseteq Txs
  /\ exclusive \subseteq Txs
  /\ waiting \in Seq(Txs)
  /\ event_type \in [Txs -> Types \cup {NoType}]
  /\ target \in [Txs -> Consumers \cup {NoConsumer}]
  /\ pending \in [Txs -> SUBSET Consumers]
  /\ changed \in [Txs -> SUBSET Consumers]
  /\ mine \in [Txs -> [Consumers -> SUBSET Types]]
  /\ closing \in [Txs -> SUBSET (Txs \X Consumers)]
  /\ gaveUp \in [Txs -> SUBSET Consumers]
  /\ calls \in [Txs -> 0..MaxCalls]

Init ==
  /\ subscription \in [Consumers -> SUBSET Types]
  /\ outbox = {}
  /\ delivery = {}
  /\ closed = {}
  /\ snapshot = [c \in Consumers |-> {}]
  /\ retired = {}
  /\ at = [t \in Txs |-> "new"]
  /\ want = [t \in Txs |-> "none"]
  /\ who = [t \in Txs |-> NoConsumer]
  /\ what = [t \in Txs |-> {}]
  /\ shared = {}
  /\ exclusive = {}
  /\ waiting = <<>>
  /\ event_type = [t \in Txs |-> NoType]
  /\ target = [t \in Txs |-> NoConsumer]
  /\ pending = [t \in Txs |-> {}]
  /\ changed = [t \in Txs |-> {}]
  /\ mine = [t \in Txs |-> [c \in Consumers |-> {}]]
  /\ closing = [t \in Txs |-> {}]
  /\ gaveUp = [t \in Txs |-> {}]
  /\ calls = [t \in Txs |-> 0]

-----------------------------------------------------------------------------
(* The advisory lock *)

\* Mutant: a subscription change takes the lock shared.
ModeShared(w) == "shared"

\* subscriptionLock and subscriptionExclusive.
Mode(w) == IF w = "append" THEN "shared" ELSE "exclusive"

Compatible(t, w) == IF Mode(w) = "shared" THEN exclusive \subseteq {t}
                                          ELSE shared \cup exclusive \subseteq {t}

Holds(t) == t \in shared \cup exclusive

\* A holder does not queue behind those that wait for it.
Queue(t) == IF Holds(t) THEN <<t>> \o waiting ELSE Append(waiting, t)

Acquired(t, w) ==
  /\ shared' = IF Mode(w) = "shared" THEN shared \cup {t} ELSE shared
  /\ exclusive' = IF Mode(w) = "shared" THEN exclusive ELSE exclusive \cup {t}
  /\ at' = [at EXCEPT ![t] = "locked"]

\* The lock is granted in the order of the queue, to readers together.
Grantable(t) ==
  /\ at[t] = "waiting"
  /\ Compatible(t, want[t])
  /\ \E i \in 1..Len(waiting) :
       /\ waiting[i] = t
       /\ i = 1 \/ \A j \in 1..i : Mode(want[waiting[j]]) = "shared"

\* The queue without t, which is in it at most once.
Without(t) ==
  IF \A i \in 1..Len(waiting) : waiting[i] # t THEN waiting
  ELSE LET i == CHOOSE j \in 1..Len(waiting) : waiting[j] = t
       IN SubSeq(waiting, 1, i - 1) \o SubSeq(waiting, i + 1, Len(waiting))

\* The first statement of a call asks for the lock.  A release has woken those
\* that can have it before anybody else asks.
Request(t, w, c, T) ==
  /\ at[t] \in {"new", "open"}
  /\ \A u \in Txs : ~Grantable(u)
  /\ calls[t] < MaxCalls
  /\ want' = [want EXCEPT ![t] = w]
  /\ who' = [who EXCEPT ![t] = c]
  /\ what' = [what EXCEPT ![t] = T]
  /\ calls' = [calls EXCEPT ![t] = @ + 1]
  /\ \/ /\ Compatible(t, w) /\ (Holds(t) \/ waiting = <<>>)
        /\ Acquired(t, w)
        /\ UNCHANGED waiting
     \/ /\ ~(Compatible(t, w) /\ (Holds(t) \/ waiting = <<>>))
        /\ waiting' = Queue(t)
        /\ at' = [at EXCEPT ![t] = "waiting"]
        /\ UNCHANGED <<shared, exclusive>>
  /\ UNCHANGED <<committed, writes>>

Grant(t) ==
  /\ Grantable(t)
  /\ waiting' = Without(t)
  /\ Acquired(t, want[t])
  /\ UNCHANGED <<committed, want, who, what, writes, calls>>

-----------------------------------------------------------------------------
(* The calls *)

\* What a statement of t reads from platform.subscription.
View(t) == [c \in Consumers |-> IF c \in changed[t] THEN mine[t][c] ELSE subscription[c]]

\* The call returns; after an error the caller rolls back.
Returned(t, ok) ==
  /\ at' = [at EXCEPT ![t] = IF ok THEN "open" ELSE "failed"]
  /\ want' = [want EXCEPT ![t] = "none"]
  /\ UNCHANGED <<committed, who, what, lock, calls>>

\* The consumers appendStatement joins with.
Subscribers(t, type, only) ==
  {c \in Consumers : type \in View(t)[c] /\ only \in {NoConsumer, c}}

\* appendStatement, and ErrNotSubscribed when To found nobody.
AppendEvent(t) ==
  LET type == CHOOSE x \in what[t] : TRUE
  IN /\ at[t] = "locked"
     /\ want[t] = "append"
     /\ event_type' = [event_type EXCEPT ![t] = type]
     /\ target' = [target EXCEPT ![t] = who[t]]
     /\ pending' = [pending EXCEPT ![t] = Subscribers(t, type, who[t])]
     /\ Returned(t, who[t] = NoConsumer \/ Subscribers(t, type, who[t]) # {})
     /\ UNCHANGED <<changed, mine, closing, gaveUp>>

\* retireSubscriptionStatement, and insertSubscriptionStatement for Subscribe.
Change(t) ==
  /\ at[t] = "locked"
  /\ want[t] \in {"subscribe", "unsubscribe"}
  /\ changed' = [changed EXCEPT ![t] = @ \cup {who[t]}]
  /\ mine' = [mine EXCEPT ![t][who[t]] = what[t]]
  /\ gaveUp' = [gaveUp EXCEPT ![t] = @ \ {who[t]}]
  /\ Returned(t, TRUE)
  /\ UNCHANGED <<event_type, target, pending, closing>>

\* The rows of c that abandonStatement closes.
OpenRows(t, c) ==
  {row \in (delivery \ closed) \cup ({t} \X pending[t]) : row[2] = c}

\* Mutant: the subscription is not looked at.
AbandonUnchecked(t) ==
  /\ at[t] = "locked"
  /\ want[t] = "abandon"
  /\ closing' = [closing EXCEPT ![t] = @ \cup OpenRows(t, who[t])]
  /\ gaveUp' = [gaveUp EXCEPT ![t] = @ \cup {who[t]}]
  /\ Returned(t, TRUE)
  /\ UNCHANGED <<event_type, target, pending, changed, mine>>

Abandon(t) ==
  /\ at[t] = "locked"
  /\ want[t] = "abandon"
  /\ IF View(t)[who[t]] # {}  \* ErrStillSubscribed
       THEN /\ Returned(t, FALSE)
            /\ UNCHANGED <<closing, gaveUp>>
       ELSE /\ closing' = [closing EXCEPT ![t] = @ \cup OpenRows(t, who[t])]
            /\ gaveUp' = [gaveUp EXCEPT ![t] = @ \cup {who[t]}]
            /\ Returned(t, TRUE)
  /\ UNCHANGED <<event_type, target, pending, changed, mine>>

-----------------------------------------------------------------------------
(* The end of a transaction *)

\* Mutant: session-level locks, which outlive the transaction.
UnlockedSession(t) ==
  /\ waiting' = Without(t)
  /\ UNCHANGED <<shared, exclusive>>

\* pg_advisory_xact_lock is released with the transaction.
Unlocked(t) ==
  /\ shared' = shared \ {t}
  /\ exclusive' = exclusive \ {t}
  /\ waiting' = Without(t)

Commit(t) ==
  /\ at[t] = "open"
  /\ at' = [at EXCEPT ![t] = "done"]
  /\ subscription' = View(t)
  /\ outbox' = IF event_type[t] # NoType THEN outbox \cup {t} ELSE outbox
  /\ delivery' = delivery \cup ({t} \X pending[t])
  /\ closed' = closed \cup closing[t]
  \* The consumer bootstraps from a snapshot taken after this commit.
  /\ snapshot' = [c \in Consumers |->
       IF c \in changed[t] /\ mine[t][c] # {} THEN outbox' ELSE snapshot[c]]
  /\ retired' = (retired \ changed[t]) \cup gaveUp[t]
  /\ Unlocked(t)
  /\ UNCHANGED <<want, who, what, writes, calls>>

\* f without the writes of t.
Forget(f, t, x) == [f EXCEPT ![t] = x]

\* The caller gives up, at any time, and may try again.
Rollback(t) ==
  /\ at[t] \notin {"new", "done"}
  /\ at' = [at EXCEPT ![t] = "new"]
  /\ want' = [want EXCEPT ![t] = "none"]
  /\ event_type' = Forget(event_type, t, NoType)
  /\ target' = Forget(target, t, NoConsumer)
  /\ pending' = Forget(pending, t, {})
  /\ changed' = Forget(changed, t, {})
  /\ mine' = Forget(mine, t, [c \in Consumers |-> {}])
  /\ closing' = Forget(closing, t, {})
  /\ gaveUp' = Forget(gaveUp, t, {})
  /\ calls' = Forget(calls, t, 0)
  /\ Unlocked(t)
  /\ UNCHANGED <<committed, who, what>>

\* Two holders of the shared lock that both want it exclusive: PostgreSQL
\* aborts one of them.
DeadlockVictim(t) ==
  /\ at[t] = "waiting" /\ t \in shared
  /\ \E u \in Txs \ {t} : at[u] = "waiting" /\ u \in shared
  /\ Rollback(t)

-----------------------------------------------------------------------------

Ask(t) ==
  \/ \E type \in Types, only \in Consumers \cup {NoConsumer} :
       event_type[t] = NoType /\ Request(t, "append", only, {type})
  \/ \E c \in Consumers :
       \/ \E T \in SUBSET Types \ {{}} : Request(t, "subscribe", c, T)
       \/ Request(t, "unsubscribe", c, {})
       \/ Request(t, "abandon", c, {})

Execute(t) == AppendEvent(t) \/ Change(t) \/ Abandon(t)

Next == \E t \in Txs :
  Ask(t) \/ Grant(t) \/ Execute(t) \/ Commit(t) \/ Rollback(t)

Spec == Init /\ [][Next]_vars

\* PostgreSQL grants locks and resolves deadlocks, statements return, and
\* db.InTx ends every transaction it begins.
FairSpec ==
  /\ Spec
  /\ \A t \in Txs :
       /\ WF_vars(Grant(t)) /\ WF_vars(Execute(t)) /\ WF_vars(DeadlockVictim(t))
       /\ WF_vars(at[t] \in {"open", "failed"} /\ (Commit(t) \/ Rollback(t)))

-----------------------------------------------------------------------------
(* Properties *)

\* "No event commits without a delivery for a subscription that committed
\* before it, nor misses the snapshot of one that committed after": whatever
\* the order of appends, subscription changes and commits, a consumer has every
\* event of a type it subscribes to from its snapshot or as a delivery.
NoGap ==
  \A c \in Consumers, e \in outbox :
    event_type[e] \in subscription[c] /\ target[e] \in {NoConsumer, c} =>
      e \in snapshot[c] \/ <<e, c>> \in delivery

\* Once an abandonment has committed, nothing is owed to the consumer until it
\* subscribes again: no append that read the old subscription slips a delivery
\* in, before or after the abandonment commits.
RetiredOwesNothing ==
  \A c \in retired : /\ subscription[c] = {}
                     /\ \A row \in delivery \ closed : row[2] # c

\* A transaction has the lock in the mode its statement and its uncommitted
\* writes need, and an exclusive holder is alone.
Held(t) ==
  /\ at[t] \in {"new", "done"} => ~Holds(t)
  /\ at[t] = "locked" => t \in IF Mode(want[t]) = "shared" THEN shared ELSE exclusive
  /\ at[t] # "done" /\ event_type[t] # NoType => t \in shared
  /\ at[t] # "done" /\ changed[t] \cup gaveUp[t] # {} => t \in exclusive

LockHeld == (\A t \in exclusive : shared \cup exclusive = {t}) /\ \A t \in Txs : Held(t)

\* The arguments of the call a transaction is in.
CallIsValid ==
  \A t \in Txs : at[t] \in {"waiting", "locked"} =>
    IF want[t] = "append" THEN event_type[t] = NoType /\ what[t] # {}
                          ELSE want[t] # "none" /\ who[t] \in Consumers

\* What a transaction has read still holds when it commits: the subscribers its
\* event is owed to, and that whom it gave up neither subscribes nor is owed
\* more than it closes.
Fresh(t) ==
  /\ event_type[t] # NoType =>
       \A c \in Consumers \ changed[t] :
         c \in pending[t] <=> event_type[t] \in subscription[c] /\ target[t] \in {NoConsumer, c}
  /\ \A c \in gaveUp[t] : View(t)[c] = {} /\ OpenRows(t, c) \subseteq closing[t]

ReadStillHolds == \A t \in Txs : at[t] # "done" => Fresh(t)

\* Deliveries belong to events, and what is closed to deliveries.
Agree(t) ==
  /\ event_type[t] = NoType => pending[t] = {}
  /\ closing[t] \subseteq delivery \cup ({t} \X pending[t])
  /\ \A row \in closing[t] : row[2] \in changed[t] \cup gaveUp[t]

RowsAgree ==
  /\ \A e \in outbox : at[e] = "done" /\ event_type[e] # NoType
  /\ \A row \in delivery : row[1] \in outbox
  /\ \A t \in Txs : Agree(t)

\* Why the advisory lock is enough: nobody's reads go stale while it is held,
\* so a retired consumer is owed nothing.
SubscriptionInv ==
  /\ TypeOK /\ LockHeld /\ CallIsValid /\ ReadStillHolds /\ RowsAgree
  /\ RetiredOwesNothing

\* The calls under the lock do what they would if each transaction ran alone at
\* its commit: an event is owed to the subscribers at the instant it commits,
\* not to those appendStatement read earlier, and Abandon closes rows of
\* consumers without subscription only.
Ledger == INSTANCE SubscriptionLedger
  WITH Events <- Txs,
       sent <- {[event |-> e, type |-> event_type[e], to |-> target[e]] : e \in outbox}

ImplementsLedger == Ledger!LedgerSpec

\* No call waits for the lock for ever: neither behind a stream of appends, nor
\* on transactions that wait for each other.
LockIsGranted == \A t \in Txs : at[t] = "waiting" ~> at[t] # "waiting"

=============================================================================
