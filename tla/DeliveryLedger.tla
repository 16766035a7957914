--------------------------- MODULE DeliveryLedger ---------------------------
(***************************************************************************)
(* What the outbox promises about the deliveries of one consumer, without  *)
(* workers, leases, retries or time: an owed delivery is closed once, as   *)
(* delivered, refused or abandoned, and what is recorded about its event   *)
(* never contradicts what the consumer did.                                *)
(***************************************************************************)
CONSTANTS Rows, Events, EventOf

VARIABLES
  status,    \* of each delivery row
  evidence,  \* what is known of the delivery of an event
  incident,  \* events with a dead letter
  applied    \* events the consumer applied

ledger == <<status, evidence, incident, applied>>

Statuses == {"absent", "owed", "delivered", "refused", "abandoned"}

LedgerInit ==
  /\ status = [r \in Rows |-> "absent"]
  /\ evidence = [e \in Events |-> "none"]
  /\ incident = {}
  /\ applied = {}

\* A second delivery of an event is owed only to replay a dead letter.
Owe(r) ==
  /\ status[r] = "absent"
  /\ \A s \in Rows : status[s] # "absent" /\ EventOf[s] = EventOf[r] => EventOf[r] \in incident
  /\ status' = [status EXCEPT ![r] = "owed"]
  /\ UNCHANGED <<evidence, incident, applied>>

\* The consumer applies an event once, and only one it was owed.
Apply(e) ==
  /\ e \notin applied
  /\ \E r \in Rows : EventOf[r] = e /\ status[r] # "absent"
  /\ applied' = applied \cup {e}
  /\ UNCHANGED <<status, evidence, incident>>

\* The first evidence stands; the strong one needs the application.
Deliver(r, class) ==
  /\ status[r] = "owed"
  /\ class = "consumer_applied" => EventOf[r] \in applied
  /\ status' = [status EXCEPT ![r] = "delivered"]
  /\ evidence' = [evidence EXCEPT ![EventOf[r]] = IF @ = "none" THEN class ELSE @]
  /\ UNCHANGED <<incident, applied>>

Refuse(r) ==
  /\ status[r] = "owed"
  /\ status' = [status EXCEPT ![r] = "refused"]
  /\ incident' = incident \cup {EventOf[r]}
  /\ UNCHANGED <<evidence, applied>>

\* Everything still owed is given up together.
AbandonOwed ==
  /\ status' = [r \in Rows |-> IF status[r] = "owed" THEN "abandoned" ELSE status[r]]
  /\ UNCHANGED <<evidence, incident, applied>>

LedgerNext ==
  \/ \E r \in Rows : Owe(r) \/ Refuse(r)
  \/ \E r \in Rows, class \in {"consumer_applied", "transport_accepted"} : Deliver(r, class)
  \/ \E e \in Events : Apply(e)
  \/ AbandonOwed

LedgerSpec == LedgerInit /\ [][LedgerNext]_ledger

=============================================================================
