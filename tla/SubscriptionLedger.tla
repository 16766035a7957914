-------------------------- MODULE SubscriptionLedger --------------------------
(***************************************************************************)
(* What the outbox promises those who append events and those who change   *)
(* subscriptions: a transaction takes effect as if it were alone, in one   *)
(* step.  Its event is owed to whom subscribes at that step, the consumers *)
(* it gives up are owed nothing after it, and nobody else's rows change.   *)
(* There is no lock here, no statement and no uncommitted write.           *)
(***************************************************************************)
CONSTANTS Events, Consumers, Types, NoConsumer

VARIABLES
  subscription,  \* the types a consumer subscribes to
  sent,          \* the events, each with its type and whom it is for
  delivery,      \* event and consumer
  closed,        \* deliveries that are settled
  snapshot,      \* the events a consumer bootstrapped with
  retired        \* consumers that were given up

ledger == <<subscription, sent, delivery, closed, snapshot, retired>>

LedgerInit ==
  /\ subscription \in [Consumers -> SUBSET Types]
  /\ sent = {} /\ delivery = {} /\ closed = {} /\ retired = {}
  /\ snapshot = [c \in Consumers |-> {}]

\* The transaction that changes the subscriptions of C appends e.  It chooses
\* for C itself, whose subscriptions it may change before or after it appends.
Owe(e, C) ==
  \E type \in Types, to \in Consumers \cup {NoConsumer} :
    /\ \A m \in sent : m.event # e
    /\ sent' = sent \cup {[event |-> e, type |-> type, to |-> to]}
    /\ \E owed \in SUBSET Consumers :
         /\ delivery' = delivery \cup ({e} \X owed)
         /\ \A c \in Consumers \ C :
              c \in owed <=> type \in subscription[c] /\ to \in {NoConsumer, c}

\* The transaction that changes the subscriptions of C gives up G.
Settle(C, G) ==
  /\ closed \subseteq closed' /\ closed' \subseteq delivery'
  /\ \A row \in closed' \ closed : row[2] \in C \cup G
  /\ \A row \in delivery' \ closed' : row[2] \notin G

Resubscribe(C, G) ==
  /\ \E wanted \in [C -> SUBSET Types] :
       subscription' = [c \in Consumers |-> IF c \in C THEN wanted[c] ELSE subscription[c]]
  /\ \A c \in G : subscription'[c] = {}
  /\ snapshot' = [c \in Consumers |-> IF c \in C /\ subscription'[c] # {}
                                        THEN {m.event : m \in sent'} ELSE snapshot[c]]
  /\ retired' = (retired \ C) \cup G

Transact(C, G) ==
  /\ (\E e \in Events : Owe(e, C)) \/ UNCHANGED <<sent, delivery>>
  /\ Settle(C, G)
  /\ Resubscribe(C, G)

LedgerNext == \E C, G \in SUBSET Consumers : Transact(C, G)

LedgerSpec == LedgerInit /\ [][LedgerNext]_ledger

===============================================================================
