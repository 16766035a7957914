----------------------------- MODULE DeadLetters -----------------------------
(***************************************************************************)
(* The life of one consumer's dead letters and delivery receipts:          *)
(* incidents are opened by the dispatcher, closed, reopened, waived and    *)
(* replayed by the host, and maintained by outbox/maintenance.go, which    *)
(* disposes of payloads and prunes receipts.                               *)
(*                                                                         *)
(* Instants are 1..MaxTime and 0 is NULL.  A statement is atomic, except   *)
(* the prune: its DELETE chooses receipts by the snapshot it starts with,  *)
(* and other transactions commit before it has deleted them.               *)
(***************************************************************************)
EXTENDS Naturals

CONSTANTS Events,
          NoEvent,   \* a closure that cites no receipt
          MaxTime    \* bound: instants

ASSUME DeadLettersConstants == NoEvent \notin Events /\ MaxTime \in Nat \ {0}

VARIABLES
  now,
  owed,              \* events with an open delivery row
  incident,          \* events with a row in platform.dead_letter
  dead_lettered_at, resolved_at, waived_at, waived_until,
  cites,             \* the receipt resolution_reference names
  payload,           \* incidents whose envelope and payload are kept
  recorded_at,       \* of the event's platform.delivery_receipt
  pruning, victims,  \* a prune in progress, and the receipts its snapshot gave it
  \* history
  settled,           \* incidents that were closed or waived at some time
  raced,             \* incidents that a prune in progress did not see open
  refused            \* the event whose delivery was refused in the last step

letters  == <<incident, dead_lettered_at, resolved_at, waived_at, waived_until, cites, payload>>
prune    == <<pruning, victims>>
vars     == <<now, owed, letters, recorded_at, prune, settled, raced, refused>>

Times == 0..MaxTime

TypeOK ==
  /\ now \in Times \ {0}
  /\ owed \subseteq Events
  /\ incident \subseteq Events
  /\ dead_lettered_at \in [Events -> Times]
  /\ resolved_at \in [Events -> Times]
  /\ waived_at \in [Events -> Times]
  /\ waived_until \in [Events -> 0..MaxTime + 1]
  /\ cites \in [Events -> Events \cup {NoEvent}]
  /\ payload \subseteq incident
  /\ recorded_at \in [Events -> Times]
  /\ pruning \in BOOLEAN
  /\ victims \subseteq Events
  /\ settled \subseteq incident
  /\ raced \subseteq incident
  /\ refused \in Events \cup {NoEvent}

Init ==
  /\ now = 1
  /\ owed = {}
  /\ incident = {}
  /\ dead_lettered_at = [e \in Events |-> 0]
  /\ resolved_at = [e \in Events |-> 0]
  /\ waived_at = [e \in Events |-> 0]
  /\ waived_until = [e \in Events |-> 0]
  /\ cites = [e \in Events |-> NoEvent]
  /\ payload = {}
  /\ recorded_at = [e \in Events |-> 0]
  /\ pruning = FALSE
  /\ victims = {}
  /\ settled = {}
  /\ raced = {}
  /\ refused = NoEvent

-----------------------------------------------------------------------------
(* Delivery *)

Unresolved == {e \in incident : resolved_at[e] = 0}
Waived     == {e \in incident : waived_until[e] > now}

\* A first delivery, or the replay of an open incident from its own row.
AppendEvent(e) ==
  /\ e \notin owed
  /\ \/ recorded_at[e] = 0 /\ e \notin incident
     \/ e \in Unresolved \cap payload
  /\ owed' = owed \cup {e}
  /\ refused' = NoEvent
  /\ UNCHANGED <<now, letters, recorded_at, prune, settled, raced>>

\* markPublished: the first receipt stands.
Deliver(e) ==
  /\ e \in owed
  /\ owed' = owed \ {e}
  /\ recorded_at' = [recorded_at EXCEPT ![e] = IF @ = 0 THEN now ELSE @]
  /\ refused' = NoEvent
  /\ UNCHANGED <<now, letters, prune, settled, raced>>

\* deadLetterStatement: ON CONFLICT DO NOTHING.
DeadLetter(e) ==
  /\ e \in owed
  /\ owed' = owed \ {e}
  /\ refused' = e
  /\ IF e \in incident
       THEN UNCHANGED <<letters, raced>>
       ELSE /\ incident' = incident \cup {e}
            /\ dead_lettered_at' = [dead_lettered_at EXCEPT ![e] = now]
            /\ payload' = payload \cup {e}
            /\ raced' = IF pruning THEN raced \cup {e} ELSE raced
            /\ UNCHANGED <<resolved_at, waived_at, waived_until, cites>>
  /\ UNCHANGED <<now, recorded_at, prune, settled>>

-----------------------------------------------------------------------------
(* The host.  dead_letter_resolution_complete and                           *)
(* dead_letter_waiver_complete make a closure and a waiver whole.           *)

\* An incident is closed on a receipt, its own or another event's, or on
\* evidence outside these tables.
Resolve(e, r) ==
  /\ e \in Unresolved
  /\ r # NoEvent => recorded_at[r] # 0
  /\ resolved_at' = [resolved_at EXCEPT ![e] = now]
  /\ cites' = [cites EXCEPT ![e] = r]
  /\ settled' = settled \cup {e}
  /\ refused' = NoEvent
  /\ UNCHANGED <<now, owed, incident, dead_lettered_at, waived_at, waived_until, payload,
                 recorded_at, prune, raced>>

\* "Reopening one means clearing all four together."
Reopen(e) ==
  /\ e \in incident \ Unresolved
  /\ resolved_at' = [resolved_at EXCEPT ![e] = 0]
  /\ cites' = [cites EXCEPT ![e] = NoEvent]
  /\ raced' = IF pruning THEN raced \cup {e} ELSE raced
  /\ refused' = NoEvent
  /\ UNCHANGED <<now, owed, incident, dead_lettered_at, waived_at, waived_until, payload,
                 recorded_at, prune, settled>>

Waive(e, until) ==
  /\ e \in Unresolved
  /\ until > now
  /\ waived_at' = [waived_at EXCEPT ![e] = now]
  /\ waived_until' = [waived_until EXCEPT ![e] = until]
  /\ settled' = settled \cup {e}
  /\ refused' = NoEvent
  /\ UNCHANGED <<now, owed, incident, dead_lettered_at, resolved_at, cites, payload,
                 recorded_at, prune, raced>>

-----------------------------------------------------------------------------
(* Maintenance *)

\* Mutant: disposal by the age of the incident.
DisposableByAge(e, before) == dead_lettered_at[e] <= before

\* disposeDeadLettersStatement.
Disposable(e, before) ==
  \/ resolved_at[e] # 0 /\ resolved_at[e] <= before
  \/ waived_at[e] # 0 /\ waived_at[e] <= before

DisposeResolvedDeadLetters(before) ==
  /\ payload' = {e \in payload : ~Disposable(e, before)}
  /\ payload' # payload
  /\ refused' = NoEvent
  /\ UNCHANGED <<now, owed, incident, dead_lettered_at, resolved_at, waived_at, waived_until,
                 cites, recorded_at, prune, settled, raced>>

\* Mutant: an open incident does not hold pruning.
PrunableOpen(r, before) ==
  /\ recorded_at[r] # 0 /\ recorded_at[r] <= before
  /\ \A e \in incident : cites[e] # r

\* pruneReceiptsStatement.
Prunable(r, before) ==
  /\ recorded_at[r] # 0 /\ recorded_at[r] <= before
  /\ Unresolved \subseteq Waived
  /\ \A e \in incident : cites[e] # r

\* The DELETE takes its snapshot.
PruneDeliveryReceipts(before) ==
  /\ ~pruning
  /\ pruning' = TRUE
  /\ victims' = {r \in Events : Prunable(r, before)}
  /\ raced' = raced \cup (Unresolved \cap Waived)
  /\ refused' = NoEvent
  /\ UNCHANGED <<now, owed, letters, recorded_at, settled>>

\* Its transaction commits.  What is still open can only be closed on the
\* receipts that are left.
PruneCommit ==
  /\ pruning
  /\ pruning' = FALSE
  /\ recorded_at' = [r \in Events |-> IF r \in victims THEN 0 ELSE recorded_at[r]]
  /\ victims' = {}
  /\ raced' = raced \ Unresolved
  /\ refused' = NoEvent
  /\ UNCHANGED <<now, owed, letters, settled>>

Tick ==
  /\ now < MaxTime
  /\ now' = now + 1
  /\ refused' = NoEvent
  /\ UNCHANGED <<owed, letters, recorded_at, prune, settled, raced>>

Next ==
  \/ \E e \in Events :
       \/ AppendEvent(e) \/ Deliver(e) \/ DeadLetter(e) \/ Reopen(e)
       \/ \E r \in Events \cup {NoEvent} : Resolve(e, r)
       \/ \E until \in 1..MaxTime + 1 : Waive(e, until)
  \/ \E before \in 1..now : DisposeResolvedDeadLetters(before) \/ PruneDeliveryReceipts(before)
  \/ PruneCommit
  \/ Tick

Spec == Init /\ [][Next]_vars
-----------------------------------------------------------------------------
(* Properties *)

\* A row can replay itself: an incident that was neither closed nor waived
\* keeps its payload, whatever retention boundary disposal is run with.
OpenIsReplayable == TypeOK /\ (incident \ settled) \subseteq payload

\* A closure's receipt is kept for as long as the closure, if the incident held
\* pruning: it was open, and not waived, when the prune's statement began.
HeldClosureKeepsReceipt ==
  \A e \in incident \ raced : cites[e] # NoEvent => recorded_at[cites[e]] # 0

\* "A receipt a closure cites is never pruned."
CitedReceiptKept ==
  \A e \in incident : cites[e] # NoEvent => recorded_at[cites[e]] # 0

\* A refusal "is alerted at any occurrence": the incident of a delivery that was
\* just refused is open.  Not so when a replay is refused after its incident was
\* resolved on other evidence.
RefusalIsOpen == refused # NoEvent => refused \in Unresolved

=============================================================================
