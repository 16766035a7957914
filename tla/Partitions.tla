----------------------------- MODULE Partitions -----------------------------
(***************************************************************************)
(* The daily partitions of platform.outbox and platform.outbox_delivery:   *)
(* ensure_outbox_partitions and drop_outbox_partitions of migration 0009,  *)
(* against appends whose transactions cross midnight and a dispatcher that *)
(* closes deliveries.                                                      *)
(*                                                                         *)
(* Day d starts at midnight d and its range ends at midnight d + 1.        *)
(* created_at is the start of the appending transaction.  The two parents  *)
(* are the tables that are locked: dropping or attaching a child takes     *)
(* ACCESS EXCLUSIVE on its parent, a row change a weaker lock that is kept *)
(* to the end of the transaction.                                          *)
(***************************************************************************)
EXTENDS Integers, FiniteSets

CONSTANTS Events,
          Retention,   \* days between the retention boundary and today
          MaxTxDays,   \* the midnights a transaction may live through
          MaxDay       \* bound: days

ASSUME PartitionsConstants ==
  Retention \in Nat /\ MaxTxDays \in Nat /\ MaxDay \in Nat \ {0}

Days   == 1..MaxDay
Tables == {"outbox", "outbox_delivery"}
Places == {"none", "default", "child"}

VARIABLES
  today,
  children,            \* children[t]: the days table t has a child for
  registered,          \* platform.outbox_partition
  place,               \* place[t][e]: where the row of e in t is stored
  tx, created_at,      \* the transaction that appends e
  published,           \* events whose delivery is closed
  writers,             \* writers[t]: transactions with a row lock on t
  owner,               \* owner[t]: who holds ACCESS EXCLUSIVE on t
  ensure, window,      \* progress of ensure_outbox_partitions, and its days
  drop, todo, doomed,  \* progress of drop_outbox_partitions, the candidates
                       \* left, and the days dropped in this transaction
  \* history
  unpublished,         \* events that were dropped before they were published
  byHand               \* events an operator dropped

catalog  == <<children, registered>>
appends  == <<tx, created_at>>
locks    == <<writers, owner>>
ensuring == <<ensure, window>>
dropping == <<drop, todo, doomed>>
history  == <<unpublished, byHand>>
vars     == <<today, catalog, place, appends, published, locks, ensuring, dropping, history>>

TypeOK ==
  /\ today \in Days
  /\ children \in [Tables -> SUBSET Days]
  /\ registered \subseteq Days
  /\ place \in [Tables -> [Events -> Places]]
  /\ tx \in [Events -> {"idle", "open", "inserted", "committed", "aborted"}]
  /\ created_at \in [Events -> Days \cup {0}]
  /\ published \subseteq Events
  /\ writers \in [Tables -> SUBSET Events]
  /\ owner \in [Tables -> {"nobody", "ensure", "drop"}]
  /\ ensure \in {"idle", "outbox", "outbox_delivery", "create"}
  /\ window \subseteq Days
  /\ drop \in {"idle", "check", "outbox_delivery", "outbox"}
  /\ todo \subseteq Days
  /\ doomed \subseteq Days
  /\ unpublished \subseteq Events
  /\ byHand \subseteq Events

Init ==
  /\ today = 1
  /\ children = [t \in Tables |-> {}]
  /\ registered = {}
  /\ place = [t \in Tables |-> [e \in Events |-> "none"]]
  /\ tx = [e \in Events |-> "idle"]
  /\ created_at = [e \in Events |-> 0]
  /\ published = {}
  /\ writers = [t \in Tables |-> {}]
  /\ owner = [t \in Tables |-> "nobody"]
  /\ ensure = "idle" /\ window = {}
  /\ drop = "idle" /\ todo = {} /\ doomed = {}
  /\ unpublished = {} /\ byHand = {}

-----------------------------------------------------------------------------
(* Locks *)

Writable(t) == owner[t] = "nobody"

Exclusive(t, who) == owner[t] \in {"nobody", who} /\ writers[t] = {}

Released(who) == [t \in Tables |-> IF owner[t] = who THEN "nobody" ELSE owner[t]]

\* Rows of table t that are stored in the children of the days ds.
Stored(t, ds) == {e \in Events : place[t][e] = "child" /\ created_at[e] \in ds}

\* What a table's rows become when the children of the days ds go.
Without(t, ds) == [e \in Events |-> IF e \in Stored(t, ds) THEN "none" ELSE place[t][e]]

-----------------------------------------------------------------------------
(* Appends and deliveries *)

\* now(), and so created_at, is fixed when the transaction begins.
Begin(e) ==
  /\ tx[e] = "idle"
  /\ tx' = [tx EXCEPT ![e] = "open"]
  /\ created_at' = [created_at EXCEPT ![e] = today]
  /\ UNCHANGED <<today, catalog, place, published, locks, ensuring, dropping, history>>

\* appendStatement writes the event and its delivery with one created_at.
\* PostgreSQL routes each row to its day's child or to the default partition.
Append(e) ==
  /\ tx[e] = "open"
  /\ \A t \in Tables : Writable(t)
  /\ tx' = [tx EXCEPT ![e] = "inserted"]
  /\ place' = [t \in Tables |-> [place[t] EXCEPT ![e] =
                 IF created_at[e] \in children[t] THEN "child" ELSE "default"]]
  /\ writers' = [t \in Tables |-> writers[t] \cup {e}]
  /\ UNCHANGED <<today, catalog, created_at, published, owner, ensuring, dropping, history>>

Commit(e) ==
  /\ tx[e] = "inserted"
  /\ tx' = [tx EXCEPT ![e] = "committed"]
  /\ writers' = [t \in Tables |-> writers[t] \ {e}]
  /\ UNCHANGED <<today, catalog, place, created_at, published, owner, ensuring, dropping, history>>

Rollback(e) ==
  /\ tx[e] \in {"open", "inserted"}
  /\ tx' = [tx EXCEPT ![e] = "aborted"]
  /\ place' = [t \in Tables |-> [place[t] EXCEPT ![e] = "none"]]
  /\ writers' = [t \in Tables |-> writers[t] \ {e}]
  /\ UNCHANGED <<today, catalog, created_at, published, owner, ensuring, dropping, history>>

\* The dispatcher closes a delivery.  Its statements join the event.
Publish(e) ==
  /\ tx[e] = "committed"
  /\ e \notin published
  /\ \A t \in Tables : Writable(t) /\ place[t][e] # "none"
  /\ published' = published \cup {e}
  /\ UNCHANGED <<today, catalog, place, appends, locks, ensuring, dropping, history>>

Tick ==
  /\ today < MaxDay
  /\ \A e \in Events : tx[e] \in {"open", "inserted"} => today + 1 - created_at[e] <= MaxTxDays
  /\ today' = today + 1
  /\ UNCHANGED <<catalog, place, appends, published, locks, ensuring, dropping, history>>

-----------------------------------------------------------------------------
(* ensure_outbox_partitions *)

EnsureOutboxPartitions(from, through) ==
  /\ ensure = "idle"
  /\ from <= through
  /\ ensure' = "outbox"
  /\ window' = from..through
  /\ UNCHANGED <<today, catalog, place, appends, published, locks, dropping, history>>

\* Mutant: the lock the attach takes by itself, which does not wait for writers.
EnsureLockShared(t) ==
  /\ ensure = t
  /\ owner[t] \in {"nobody", "ensure"}
  /\ owner' = [owner EXCEPT ![t] = "ensure"]
  /\ ensure' = IF t = "outbox" THEN "outbox_delivery" ELSE "create"
  /\ UNCHANGED <<today, catalog, place, appends, published, writers, window, dropping, history>>

\* LOCK TABLE: the outbox, then its deliveries.
EnsureLock(t) ==
  /\ ensure = t
  /\ Exclusive(t, "ensure")
  /\ owner' = [owner EXCEPT ![t] = "ensure"]
  /\ ensure' = IF t = "outbox" THEN "outbox_delivery" ELSE "create"
  /\ UNCHANGED <<today, catalog, place, appends, published, writers, window, dropping, history>>

\* The rows a table's default partition holds for the days it has no child for.
Misplaced(t) ==
  {e \in Events : place[t][e] = "default" /\ created_at[e] \in window \ children[t]}

\* Those that the DELETE of the move sees.
Moved(t) == {e \in Misplaced(t) : tx[e] = "committed"}

\* PostgreSQL scans the default partition for rows of the child it attaches, and
\* refuses the child when it finds one: what the move did not see.
Attachable == \A t \in Tables : Misplaced(t) \subseteq Moved(t)

\* Each missing child takes its rows from the default partition and is attached.
EnsureCreate ==
  /\ ensure = "create"
  /\ Attachable
  /\ place' = [t \in Tables |-> [e \in Events |->
                 IF e \in Moved(t) THEN "child" ELSE place[t][e]]]
  /\ children' = [t \in Tables |-> children[t] \cup window]
  /\ registered' = registered \cup window
  /\ owner' = Released("ensure")
  /\ ensure' = "idle" /\ window' = {}
  /\ UNCHANGED <<today, appends, published, writers, dropping, history>>

\* An error, a child that is refused, a cancellation, or a deadlock that chose
\* this transaction.
EnsureAbort ==
  /\ ensure # "idle"
  /\ owner' = Released("ensure")
  /\ ensure' = "idle" /\ window' = {}
  /\ UNCHANGED <<today, catalog, place, appends, published, writers, dropping, history>>

-----------------------------------------------------------------------------
(* drop_outbox_partitions *)

\* Mutant: the start of a day's range is compared with the boundary.
CandidatesStarted(retain_after) == {d \in registered : d <= retain_after}

Candidates(retain_after) == {d \in registered : d + 1 <= retain_after}

\* The candidate of this turn of the loop, in the order of range_start.
Candidate == CHOOSE d \in todo : \A x \in todo : d <= x

Owed(d) == \E e \in Stored("outbox_delivery", {d}) : tx[e] = "committed" /\ e \notin published

DropOutboxPartitions(retain_after) ==
  /\ drop = "idle"
  /\ drop' = "check"
  /\ todo' = Candidates(retain_after)
  /\ UNCHANGED <<today, catalog, place, appends, published, locks, ensuring, doomed, history>>

\* The turn ends: the day is gone, or kept.
DropNext(gone) ==
  /\ drop' = "check"
  /\ todo' = todo \ {Candidate}
  /\ doomed' = doomed \cup gone

\* A day that is owed nothing, or whose events are gone, is dropped.
DropCheck ==
  LET d    == Candidate
      keep == d \in children["outbox"] /\ Owed(d)
      next == {t \in Tables : d \in children[t]}
  IN /\ drop = "check" /\ todo # {}
     /\ \/ keep /\ DropNext({})
        \/ ~keep /\ next = {} /\ DropNext({d})
        \/ /\ ~keep /\ next # {}
           /\ drop' = IF "outbox_delivery" \in next THEN "outbox_delivery" ELSE "outbox"
           /\ UNCHANGED <<todo, doomed>>
     /\ UNCHANGED <<today, catalog, place, appends, published, locks, ensuring, history>>

\* DROP TABLE: the deliveries, then the events.
DropChild(t) ==
  /\ drop = t
  /\ Candidate \in children[t]
  /\ Exclusive(t, "drop")
  /\ owner' = [owner EXCEPT ![t] = "drop"]
  /\ IF t = "outbox_delivery" /\ Candidate \in children["outbox"]
       THEN drop' = "outbox" /\ UNCHANGED <<todo, doomed>>
       ELSE DropNext({Candidate})
  /\ UNCHANGED <<today, catalog, place, appends, published, writers, ensuring, history>>

\* Mutant: the delivery child is left behind.
DropCommitOutbox ==
  /\ drop = "check" /\ todo = {}
  /\ children' = [children EXCEPT !["outbox"] = @ \ doomed]
  /\ registered' = registered \ doomed
  /\ place' = [place EXCEPT !["outbox"] = Without("outbox", doomed)]
  /\ unpublished' = unpublished
  /\ owner' = Released("drop")
  /\ drop' = "idle" /\ doomed' = {}
  /\ UNCHANGED <<today, appends, published, writers, ensuring, todo, byHand>>

DropCommit ==
  /\ drop = "check" /\ todo = {}
  /\ children' = [t \in Tables |-> children[t] \ doomed]
  /\ registered' = registered \ doomed
  /\ place' = [t \in Tables |-> Without(t, doomed)]
  /\ unpublished' = unpublished \cup
       ((UNION {Stored(t, doomed) : t \in Tables}) \ (published \cup byHand))
  /\ owner' = Released("drop")
  /\ drop' = "idle" /\ doomed' = {}
  /\ UNCHANGED <<today, appends, published, writers, ensuring, todo, byHand>>

DropAbort ==
  /\ drop # "idle"
  /\ owner' = Released("drop")
  /\ drop' = "idle" /\ todo' = {} /\ doomed' = {}
  /\ UNCHANGED <<today, catalog, place, appends, published, writers, ensuring, history>>

\* Between two runs of the drop an operator drops the events of a past day by
\* hand, the case for which drop_outbox_partitions looks for a missing child.
OperatorDrop(d) ==
  /\ drop = "idle"
  /\ d + MaxTxDays < today
  /\ d \in children["outbox"]
  /\ Exclusive("outbox", "nobody")
  /\ children' = [children EXCEPT !["outbox"] = @ \ {d}]
  /\ place' = [place EXCEPT !["outbox"] = Without("outbox", {d})]
  /\ byHand' = byHand \cup Stored("outbox", {d})
  /\ UNCHANGED <<today, registered, appends, published, locks, ensuring, dropping, unpublished>>

Next ==
  \/ \E e \in Events : Begin(e) \/ Append(e) \/ Commit(e) \/ Rollback(e) \/ Publish(e)
  \/ \E from, through \in Days : EnsureOutboxPartitions(from, through)
  \/ \E retain_after \in 1..today - Retention : DropOutboxPartitions(retain_after)
  \/ \E t \in Tables : EnsureLock(t) \/ DropChild(t)
  \/ EnsureCreate \/ EnsureAbort
  \/ DropCheck \/ DropCommit \/ DropAbort
  \/ \E d \in Days : OperatorDrop(d)
  \/ Tick

Spec == Init /\ [][Next]_vars
-----------------------------------------------------------------------------
(* Properties *)

\* The two tables are partitioned in step: every tracked day has a child for its
\* deliveries, and no day has events without one, through interrupted creations,
\* drops and drops by hand.  An event and its delivery are stored, and dropped,
\* together, although the transaction that wrote them crossed midnight or found
\* no child.
InStep ==
  /\ TypeOK
  /\ children["outbox_delivery"] = registered
  /\ children["outbox"] \subseteq registered
  /\ \A e \in Events \ byHand : place["outbox"][e] = place["outbox_delivery"][e]

\* ensure_outbox_partitions is never refused a child because of a row its move
\* did not see: when it has the locks, no transaction that began on one of its
\* days and found no child there is still open with a row in a default partition.
AttachNotRefused == ensure = "create" => Attachable

\* A partition is dropped "only when no unpublished row remains in" it.
OnlyPublishedDropped == unpublished = {}

=============================================================================
