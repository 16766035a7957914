------------------------- MODULE SubscriptionsProofs -------------------------
(***************************************************************************)
(* Proofs about Subscriptions, for any transactions, consumers and types:  *)
(* SubscriptionInv is inductive, with it no subscriber misses an event and *)
(* a retired consumer is owed nothing, and Subscriptions implements        *)
(* SubscriptionLedger: a transaction takes effect as if it were alone, at  *)
(* its commit.                                                             *)
(***************************************************************************)
EXTENDS Subscriptions, SequenceTheorems, TLAPS

\* Most leaves are first-order and go to Zenon; those that need arithmetic or
\* the update of a function cite SMT.
USE SubscriptionsConstants, ZenonT(60)

\* A call that asks for the lock comes with arguments of its kind.
LEMMA AskIsRequest ==
  ASSUME NEW t \in Txs, Ask(t)
  PROVE  \E w \in Wants, c \in Consumers \cup {NoConsumer}, T \in SUBSET Types :
           /\ Request(t, w, c, T)
           /\ IF w = "append" THEN event_type[t] = NoType /\ T # {} ELSE c \in Consumers
BY DEF Ask, Wants

\* Leaving the queue keeps it a sequence of transactions.
LEMMA WithoutType == ASSUME waiting \in Seq(Txs), NEW t PROVE Without(t) \in Seq(Txs)
<1>1. CASE \A i \in 1..Len(waiting) : waiting[i] # t
  BY <1>1 DEF Without
<1>2. CASE ~ \A i \in 1..Len(waiting) : waiting[i] # t
  <2> DEFINE i == CHOOSE j \in 1..Len(waiting) : waiting[j] = t
  <2>1. i \in 1..Len(waiting)
    BY <1>2
  <2> HIDE DEF i
  <2>2. SubSeq(waiting, 1, i - 1) \in Seq(Txs) /\ SubSeq(waiting, i + 1, Len(waiting)) \in Seq(Txs)
    <3>1. Len(waiting) \in Nat /\ \A n \in 1..Len(waiting) : waiting[n] \in Txs
      BY LenProperties, ElementOfSeq
    <3>2. /\ i \in Int /\ i - 1 \in Int /\ i + 1 \in Int /\ Len(waiting) \in Int /\ 1 \in Int
          /\ \A n \in 1..(i - 1) : n \in 1..Len(waiting)
          /\ \A n \in (i + 1)..Len(waiting) : n \in 1..Len(waiting)
      BY <2>1, <3>1, SMT
    <3> QED
      BY <3>1, <3>2, SubSeqProperties
  <2> QED
    BY <1>2, <2>2, ConcatProperties DEF Without, i
<1> QED
  BY <1>1, <1>2

\* Updating a function at a point keeps its type.
LEMMA Updated ==
  ASSUME NEW D, NEW R, NEW f \in [D -> R], NEW d, NEW v \in R
  PROVE  [f EXCEPT ![d] = v] \in [D -> R]
OBVIOUS

\* What a step of t leaves to the others, whichever step it is.
LEMMA TypeStep == SubscriptionInv /\ [Next]_vars => TypeOK'
<1> SUFFICES ASSUME SubscriptionInv, [Next]_vars PROVE TypeOK'
  OBVIOUS
<1>t. TypeOK
  BY DEF SubscriptionInv
<1> USE DEF committed, call, lock, writes
<1>0. CASE UNCHANGED vars
  BY <1>0, <1>t DEF vars, TypeOK
\* Where a transaction is, and what it wants.
<1>a. ASSUME NEW t \in Txs, NEW x \in Steps, at' = [at EXCEPT ![t] = x] PROVE at' \in [Txs -> Steps]
  BY <1>a, <1>t, Updated DEF TypeOK
<1>b. ASSUME NEW t \in Txs, NEW ok, Returned(t, ok)
      PROVE  /\ at' \in [Txs -> Steps] /\ want' \in [Txs -> Wants \cup {"none"}]
             /\ UNCHANGED <<committed, who, what, lock, calls>>
  <2>1. want' \in [Txs -> Wants \cup {"none"}]
    BY <1>b, <1>t, Updated DEF Returned, TypeOK
  <2>2. (IF ok THEN "open" ELSE "failed") \in Steps
    BY DEF Steps
  <2> QED
    BY <1>a, <1>b, <2>1, <2>2 DEF Returned
<1>1. ASSUME NEW t \in Txs, NEW w \in Wants, NEW c \in Consumers \cup {NoConsumer},
             NEW T \in SUBSET Types, Request(t, w, c, T)
      PROVE  TypeOK'
  <2>1. waiting' \in Seq(Txs)
    <3>1. waiting \in Seq(Txs)
      BY <1>t DEF TypeOK
    <3>2. Append(waiting, t) \in Seq(Txs) /\ <<t>> \o waiting \in Seq(Txs)
      BY <3>1, SMT
    <3> QED
      BY <1>1, <3>1, <3>2 DEF Request, Queue
  <2>2. at' \in [Txs -> Steps]
    <3>1. at' = [at EXCEPT ![t] = "locked"] \/ at' = [at EXCEPT ![t] = "waiting"]
      BY <1>1 DEF Request, Acquired
    <3> QED
      BY <1>a, <3>1 DEF Steps
  <2>3. shared' \subseteq Txs /\ exclusive' \subseteq Txs
    BY <1>1, <1>t DEF Request, Acquired, TypeOK
  <2>4. calls' \in [Txs -> 0..MaxCalls]
    <3>1. /\ calls \in [Txs -> 0..MaxCalls] /\ calls[t] < MaxCalls
          /\ calls' = [calls EXCEPT ![t] = @ + 1]
      BY <1>1, <1>t DEF Request, TypeOK
    <3> QED
      BY <3>1, SMT
  <2>5. /\ want' \in [Txs -> Wants \cup {"none"}] /\ who' \in [Txs -> Consumers \cup {NoConsumer}]
        /\ what' \in [Txs -> SUBSET Types]
    BY <1>1, <1>t, Updated DEF Request, TypeOK
  <2> QED
    BY <1>1, <1>t, <2>1, <2>2, <2>3, <2>4, <2>5 DEF Request, TypeOK
<1>2. ASSUME NEW t \in Txs, Grant(t) PROVE TypeOK'
  <2>1. waiting' \in Seq(Txs)
    BY <1>2, <1>t, WithoutType DEF Grant, TypeOK
  <2>2. at' \in [Txs -> Steps]
    BY <1>2, <1>a DEF Grant, Acquired, Steps
  <2>3. shared' \subseteq Txs /\ exclusive' \subseteq Txs
    BY <1>2, <1>t DEF Grant, Acquired, TypeOK
  <2> QED
    BY <1>2, <1>t, <2>1, <2>2, <2>3 DEF Grant, TypeOK
<1>3. ASSUME NEW t \in Txs, AppendEvent(t) PROVE TypeOK'
  <2> DEFINE type == CHOOSE x \in what[t] : TRUE
  <2>1. type \in Types
    BY <1>3, <1>t DEF AppendEvent, SubscriptionInv, CallIsValid, TypeOK
  <2>2. Subscribers(t, type, who[t]) \in SUBSET Consumers
    BY DEF Subscribers
  <2> HIDE DEF type
  <2>3. /\ event_type' = [event_type EXCEPT ![t] = type]
        /\ pending' = [pending EXCEPT ![t] = Subscribers(t, type, who[t])]
        /\ target' = [target EXCEPT ![t] = who[t]]
    BY <1>3 DEF AppendEvent, type
  <2>4. /\ event_type' \in [Txs -> Types \cup {NoType}]
        /\ pending' \in [Txs -> SUBSET Consumers]
        /\ target' \in [Txs -> Consumers \cup {NoConsumer}]
    BY <1>t, <2>1, <2>2, <2>3, Updated DEF TypeOK
  <2>5. /\ at' \in [Txs -> Steps] /\ want' \in [Txs -> Wants \cup {"none"}]
        /\ UNCHANGED <<committed, who, what, lock, calls>>
    BY <1>3, <1>b DEF AppendEvent
  <2>6. UNCHANGED <<changed, mine, closing, gaveUp>>
    BY <1>3 DEF AppendEvent
  <2> QED
    BY <1>t, <2>4, <2>5, <2>6 DEF TypeOK
<1>4. ASSUME NEW t \in Txs, Change(t) PROVE TypeOK'
  <2>1. who[t] \in Consumers
    BY <1>4 DEF Change, SubscriptionInv, CallIsValid
  <2>2. mine \in [Txs -> [Consumers -> SUBSET Types]] /\ what[t] \in SUBSET Types
    BY <1>t DEF TypeOK
  <2>3. mine' \in [Txs -> [Consumers -> SUBSET Types]]
    BY <1>4, <2>1, <2>2, SMT DEF Change
  <2>4. changed' \in [Txs -> SUBSET Consumers] /\ gaveUp' \in [Txs -> SUBSET Consumers]
    BY <1>4, <1>t, <2>1, SMT DEF Change, TypeOK
  <2>5. /\ at' \in [Txs -> Steps] /\ want' \in [Txs -> Wants \cup {"none"}]
        /\ UNCHANGED <<committed, who, what, lock, calls>>
    BY <1>4, <1>b DEF Change
  <2>6. UNCHANGED <<event_type, target, pending, closing>>
    BY <1>4 DEF Change
  <2> QED
    BY <1>t, <2>3, <2>4, <2>5, <2>6 DEF TypeOK
<1>5. ASSUME NEW t \in Txs, Abandon(t) PROVE TypeOK'
  <2>1. who[t] \in Consumers
    BY <1>5 DEF Abandon, SubscriptionInv, CallIsValid
  <2>2. OpenRows(t, who[t]) \in SUBSET (Txs \X Consumers)
    BY <1>t, SMT DEF OpenRows, TypeOK
  <2>3. closing' \in [Txs -> SUBSET (Txs \X Consumers)] /\ gaveUp' \in [Txs -> SUBSET Consumers]
    <3>1. closing \in [Txs -> SUBSET (Txs \X Consumers)] /\ gaveUp \in [Txs -> SUBSET Consumers]
      BY <1>t DEF TypeOK
    <3>2. \/ UNCHANGED <<closing, gaveUp>>
          \/ /\ closing' = [closing EXCEPT ![t] = closing[t] \cup OpenRows(t, who[t])]
             /\ gaveUp' = [gaveUp EXCEPT ![t] = gaveUp[t] \cup {who[t]}]
      BY <1>5 DEF Abandon
    <3> QED
      BY <2>1, <2>2, <3>1, <3>2, SMT
  <2>4. /\ at' \in [Txs -> Steps] /\ want' \in [Txs -> Wants \cup {"none"}]
        /\ UNCHANGED <<committed, who, what, lock, calls>>
    BY <1>5, <1>b DEF Abandon
  <2>5. UNCHANGED <<event_type, target, pending, changed, mine>>
    BY <1>5 DEF Abandon
  <2> QED
    BY <1>t, <2>3, <2>4, <2>5 DEF TypeOK
<1>6. ASSUME NEW t \in Txs, Commit(t) PROVE TypeOK'
  <2>1. waiting' \in Seq(Txs) /\ shared' \subseteq Txs /\ exclusive' \subseteq Txs
    BY <1>6, <1>t, WithoutType DEF Commit, Unlocked, TypeOK
  <2>2. at' \in [Txs -> Steps]
    BY <1>6, <1>a DEF Commit, Steps
  <2>3. subscription' \in [Consumers -> SUBSET Types]
    BY <1>6, <1>t, SMT DEF Commit, View, TypeOK
  <2>4. outbox' \subseteq Txs /\ outbox \subseteq outbox'
    BY <1>6, <1>t DEF Commit, TypeOK
  <2>5. delivery' \subseteq Txs \X Consumers /\ closed' \subseteq delivery'
    BY <1>6, <1>t, SMT DEF Commit, SubscriptionInv, RowsAgree, Agree, TypeOK
  <2>6. snapshot' \in [Consumers -> SUBSET outbox']
    BY <1>6, <1>t, <2>4 DEF Commit, TypeOK
  <2>7. retired' \subseteq Consumers
    BY <1>6, <1>t DEF Commit, TypeOK
  <2> QED
    BY <1>6, <1>t, <2>1, <2>2, <2>3, <2>4, <2>5, <2>6, <2>7 DEF Commit, TypeOK
<1>7. ASSUME NEW t \in Txs, Rollback(t) PROVE TypeOK'
  <2>1. waiting' \in Seq(Txs) /\ shared' \subseteq Txs /\ exclusive' \subseteq Txs
    BY <1>7, <1>t, WithoutType DEF Rollback, Unlocked, TypeOK
  <2>2. at' \in [Txs -> Steps] /\ want' \in [Txs -> Wants \cup {"none"}]
    BY <1>7, <1>a, <1>t, Updated DEF Rollback, Steps, TypeOK
  <2>3. 0 \in 0..MaxCalls
    BY SMT
  <2>4. /\ calls' \in [Txs -> 0..MaxCalls]
        /\ event_type' \in [Txs -> Types \cup {NoType}]
        /\ target' \in [Txs -> Consumers \cup {NoConsumer}]
        /\ pending' \in [Txs -> SUBSET Consumers] /\ changed' \in [Txs -> SUBSET Consumers]
        /\ closing' \in [Txs -> SUBSET (Txs \X Consumers)] /\ gaveUp' \in [Txs -> SUBSET Consumers]
        /\ mine' \in [Txs -> [Consumers -> SUBSET Types]]
    BY <1>7, <1>t, <2>3, Updated DEF Rollback, Forget, TypeOK
  <2> QED
    BY <1>7, <1>t, <2>1, <2>2, <2>4 DEF Rollback, TypeOK
<1> QED
  BY <1>0, <1>1, <1>2, <1>3, <1>4, <1>5, <1>6, <1>7, AskIsRequest DEF Next, Execute

-----------------------------------------------------------------------------
Step(t) == Ask(t) \/ Grant(t) \/ Execute(t) \/ Commit(t) \/ Rollback(t)

\* What is of transaction u alone.
Own(u) == <<at[u], want[u], who[u], what[u], event_type[u], target[u], pending[u],
            changed[u], mine[u], closing[u], gaveUp[u]>>

\* An update elsewhere leaves f[u] alone.
LEMMA Elsewhere ==
  ASSUME NEW D, NEW R, NEW f \in [D -> R], NEW t, NEW u \in D, u # t, NEW v
  PROVE  [f EXCEPT ![t] = v][u] = f[u]
OBVIOUS

\* A step of t leaves alone what the others have written, and their locks.
LEMMA Others ==
  ASSUME TypeOK, NEW t \in Txs, Step(t), NEW u \in Txs, u # t
  PROVE  /\ UNCHANGED Own(u)
         /\ u \in shared' <=> u \in shared
         /\ u \in exclusive' <=> u \in exclusive
<1> USE Elsewhere DEF Own, committed, call, lock, writes, TypeOK
<1>1. CASE Ask(t)
  <2>1. PICK w \in Wants, c \in Consumers \cup {NoConsumer}, T \in SUBSET Types :
          Request(t, w, c, T)
    BY <1>1, AskIsRequest
  <2> QED
    BY <2>1, SMT DEF Request, Acquired
<1>2. CASE Grant(t)
  BY <1>2 DEF Grant, Acquired
<1>3. CASE AppendEvent(t)
  BY <1>3 DEF AppendEvent, Returned
<1>4. CASE Change(t)
  BY <1>4, SMT DEF Change, Returned
<1>5. CASE Abandon(t)
  BY <1>5, SMT DEF Abandon, Returned
<1>6. CASE Commit(t)
  BY <1>6, SMT DEF Commit, Unlocked
<1>7. CASE Rollback(t)
  BY <1>7, SMT DEF Rollback, Forget, Unlocked
<1> QED
  BY <1>1, <1>2, <1>3, <1>4, <1>5, <1>6, <1>7 DEF Step, Execute

\* A call runs under the lock and returns with it.
LEMMA ExecuteReturns ==
  ASSUME TypeOK, NEW t \in Txs, Execute(t)
  PROVE  /\ at[t] = "locked" /\ at'[t] \in {"open", "failed"}
         /\ UNCHANGED <<committed, who, what, lock, calls>>
<1>1. at[t] = "locked" /\ \E ok : Returned(t, ok)
  BY DEF Execute, AppendEvent, Change, Abandon
<1>2. PICK ok : Returned(t, ok)
  BY <1>1
<1>3. at'[t] = IF ok THEN "open" ELSE "failed"
  BY <1>2 DEF Returned, TypeOK
<1> QED
  BY <1>1, <1>2, <1>3 DEF Returned

\* A lock that is acquired when it is compatible leaves an exclusive holder
\* alone.
LEMMA AcquiredAlone ==
  ASSUME LockHeld, NEW t \in Txs, NEW w, Compatible(t, w), Acquired(t, w)
  PROVE  /\ \A x \in exclusive' : shared' \cup exclusive' = {x}
         /\ t \in IF Mode(w) = "shared" THEN shared' ELSE exclusive'
         /\ shared \subseteq shared' /\ exclusive \subseteq exclusive'
BY DEF LockHeld, Compatible, Acquired

\* Locks are acquired before a write needs them and released with the writes.
LEMMA LockStep == ASSUME SubscriptionInv, NEW t \in Txs, Step(t) PROVE LockHeld'
<1>t. TypeOK /\ LockHeld /\ Held(t)
  BY DEF SubscriptionInv, LockHeld
<1> USE DEF committed, call, lock, writes
<1> SUFFICES (\A x \in exclusive' : shared' \cup exclusive' = {x}) /\ Held(t)'
  <2>1. ASSUME NEW u \in Txs, u # t PROVE Held(u) => Held(u)'
    BY <1>t, <2>1, Others DEF Own, Held, Holds
  <2> QED
    BY <1>t, <2>1 DEF LockHeld
<1>1. CASE Ask(t)
  <2>1. PICK w \in Wants, c \in Consumers \cup {NoConsumer}, T \in SUBSET Types :
          Request(t, w, c, T)
    BY <1>1, AskIsRequest
  <2>2. want'[t] = w /\ UNCHANGED <<event_type, changed, gaveUp>> /\ at[t] \in {"new", "open"}
    BY <1>t, <2>1 DEF Request, TypeOK
  <2>3. CASE Compatible(t, w) /\ Acquired(t, w)
    <3>1. at'[t] = "locked"
      BY <1>t, <2>3 DEF Acquired, TypeOK
    <3> QED
      BY <1>t, <2>2, <2>3, <3>1, AcquiredAlone DEF Held
  <2>4. CASE at' = [at EXCEPT ![t] = "waiting"] /\ UNCHANGED <<shared, exclusive>>
    <3>1. at'[t] = "waiting"
      BY <1>t, <2>4 DEF TypeOK
    <3> QED
      BY <1>t, <2>2, <2>4, <3>1 DEF Held, LockHeld
  <2> QED
    BY <2>1, <2>3, <2>4 DEF Request
<1>2. CASE Grant(t)
  <2>1. at'[t] = "locked" /\ at[t] = "waiting"
    BY <1>t, <1>2 DEF Grant, Grantable, Acquired, TypeOK
  <2> QED
    BY <1>t, <1>2, <2>1, AcquiredAlone DEF Grant, Grantable, Held
<1>3. CASE Execute(t)
  <2>1. at[t] = "locked" /\ at'[t] \in {"open", "failed"} /\ UNCHANGED <<shared, exclusive>>
    BY <1>t, <1>3, ExecuteReturns
  <2>2. CASE AppendEvent(t)
    BY <1>t, <2>1, <2>2 DEF AppendEvent, Held, LockHeld, Mode
  <2>3. CASE Change(t) \/ Abandon(t)
    <3>1. Mode(want[t]) = "exclusive" /\ UNCHANGED event_type
      BY <2>3 DEF Change, Abandon, Mode
    <3> QED
      BY <1>t, <2>1, <3>1 DEF Held, LockHeld
  <2> QED
    BY <1>3, <2>2, <2>3 DEF Execute
<1>4. CASE Commit(t) \/ Rollback(t)
  <2>1. Unlocked(t)
    BY <1>4 DEF Commit, Rollback
  <2>2. \A x \in exclusive' : shared' \cup exclusive' = {x}
    BY <1>t, <2>1 DEF Unlocked, LockHeld
  <2>3. CASE Commit(t)
    <3>1. at'[t] = "done"
      BY <1>t, <2>3 DEF Commit, TypeOK
    <3> QED
      BY <2>1, <2>2, <3>1 DEF Unlocked, Held, Holds
  <2>4. CASE Rollback(t)
    <3>1. at'[t] = "new" /\ event_type'[t] = NoType /\ changed'[t] = {} /\ gaveUp'[t] = {}
      BY <1>t, <2>4 DEF Rollback, Forget, TypeOK
    <3> QED
      BY <2>1, <2>2, <3>1 DEF Unlocked, Held, Holds
  <2> QED
    BY <1>4, <2>3, <2>4
<1> QED
  BY <1>1, <1>2, <1>3, <1>4 DEF Step

\* The arguments of a call stay those its kind has until it returns.
LEMMA CallStep == ASSUME SubscriptionInv, NEW t \in Txs, Step(t) PROVE CallIsValid'
<1>t. TypeOK /\ CallIsValid
  BY DEF SubscriptionInv
<1> USE DEF committed, call, lock, writes
<1> SUFFICES at'[t] \in {"waiting", "locked"} =>
               IF want'[t] = "append" THEN event_type'[t] = NoType /\ what'[t] # {}
                                      ELSE want'[t] # "none" /\ who'[t] \in Consumers
  <2>1. \A u \in Txs : u # t => UNCHANGED <<at[u], want[u], who[u], what[u], event_type[u]>>
    BY <1>t, Others DEF Own
  <2> QED
    BY <1>t, <2>1, SMT DEF CallIsValid
<1>1. CASE Ask(t)
  <2>1. PICK w \in Wants, c \in Consumers \cup {NoConsumer}, T \in SUBSET Types :
          /\ Request(t, w, c, T)
          /\ IF w = "append" THEN event_type[t] = NoType /\ T # {} ELSE c \in Consumers
    BY <1>1, AskIsRequest
  <2>2. want'[t] = w /\ who'[t] = c /\ what'[t] = T /\ UNCHANGED event_type
    BY <1>t, <2>1 DEF Request, TypeOK
  <2> QED
    BY <2>1, <2>2 DEF Wants
<1>2. CASE Grant(t)
  BY <1>t, <1>2 DEF Grant, Grantable, CallIsValid
<1>3. CASE Execute(t)
  BY <1>t, <1>3, ExecuteReturns
<1>4. CASE Commit(t) \/ Rollback(t)
  BY <1>t, <1>4 DEF Commit, Rollback, TypeOK
<1> QED
  BY <1>1, <1>2, <1>3, <1>4 DEF Step

-----------------------------------------------------------------------------
\* A commit changes no subscription while another transaction has appended, and
\* nothing at all while another has given a consumer up.
LEMMA Excluded ==
  ASSUME SubscriptionInv, NEW t \in Txs, Commit(t), NEW u \in Txs, u # t, at[u] # "done"
  PROVE  /\ event_type[u] # NoType => subscription' = subscription /\ closed' = closed
         /\ gaveUp[u] # {} => UNCHANGED <<subscription, delivery, closed>>
<1>t. TypeOK /\ LockHeld /\ RowsAgree /\ at[t] = "open"
  BY DEF SubscriptionInv, Commit
<1>1. ASSUME t \notin exclusive PROVE subscription' = subscription /\ closed' = closed
  <2>1. changed[t] = {} /\ gaveUp[t] = {}
    BY <1>t, <1>1 DEF LockHeld, Held
  <2>2. closing[t] = {}
    BY <1>t, <2>1 DEF RowsAgree, Agree
  <2>3. View(t) = [c \in Consumers |-> subscription[c]]
    BY <2>1 DEF View
  <2>4. View(t) = subscription
    BY <1>t, <2>3 DEF TypeOK
  <2> QED
    BY <2>2, <2>4 DEF Commit
<1>2. ASSUME t \notin shared PROVE delivery' = delivery
  <2>1. pending[t] = {}
    BY <1>t, <1>2 DEF LockHeld, Held, RowsAgree, Agree
  <2> QED
    BY <2>1 DEF Commit
<1>3. event_type[u] # NoType \/ gaveUp[u] # {} => t \notin exclusive
  BY <1>t DEF LockHeld, Held
<1>4. gaveUp[u] # {} => t \notin shared
  BY <1>t DEF LockHeld, Held
<1> QED
  BY <1>1, <1>2, <1>3, <1>4

\* A step that changes neither what t wrote nor what it read leaves it fresh.
LEMMA FreshFrame ==
  ASSUME NEW t, Fresh(t), UNCHANGED <<subscription, delivery, closed>>,
         UNCHANGED <<event_type[t], target[t], pending[t], changed[t], mine[t], closing[t],
                     gaveUp[t]>>
  PROVE  Fresh(t)'
<1>1. View(t)' = View(t) /\ \A c : OpenRows(t, c)' = OpenRows(t, c)
  BY DEF View, OpenRows
<1> QED
  BY <1>1, SMT DEF Fresh

\* Under its lock nothing a transaction has read goes stale.
LEMMA FreshStep == ASSUME SubscriptionInv, NEW t \in Txs, Step(t) PROVE ReadStillHolds'
<1>t. TypeOK /\ LockHeld /\ CallIsValid /\ RowsAgree /\ ReadStillHolds
  BY DEF SubscriptionInv
<1> USE DEF committed, call, lock, writes
<1> SUFFICES at'[t] # "done" => Fresh(t)'
  <2>1. ASSUME NEW u \in Txs, u # t, at[u] # "done", Fresh(u) PROVE Fresh(u)'
    <3>1. UNCHANGED Own(u)
      BY <1>t, <2>1, Others
    <3>2. CASE ~Commit(t)
      <4>1. UNCHANGED <<subscription, delivery, closed>>
        BY <3>2, AskIsRequest, ExecuteReturns, <1>t DEF Step, Request, Grant, Rollback
      <4> QED
        BY <2>1, <3>1, <4>1, FreshFrame DEF Own
    <3>3. CASE Commit(t)
      <4>1. /\ event_type[u] # NoType => subscription' = subscription
            /\ gaveUp[u] # {} => UNCHANGED <<subscription, delivery, closed>>
        BY <2>1, <3>3, Excluded
      <4>2. CASE gaveUp[u] # {}
        BY <2>1, <3>1, <4>1, <4>2, FreshFrame DEF Own
      <4>3. CASE gaveUp[u] = {}
        BY <2>1, <3>1, <4>1, <4>3 DEF Own, Fresh
      <4> QED
        BY <4>2, <4>3
    <3> QED
      BY <3>2, <3>3
  <2>2. \A u \in Txs : u # t => at'[u] = at[u]
    BY <1>t, Others DEF Own
  <2> QED
    BY <1>t, <2>1, <2>2 DEF ReadStillHolds
<1>f. at[t] # "done" => Fresh(t)
  BY <1>t DEF ReadStillHolds
<1>1. CASE Ask(t)
  <2>1. UNCHANGED <<committed, writes>> /\ at[t] # "done"
    BY <1>1, AskIsRequest DEF Request
  <2> QED
    BY <1>f, <2>1, FreshFrame
<1>2. CASE Grant(t)
  <2>1. UNCHANGED <<committed, writes>> /\ at[t] # "done"
    BY <1>2 DEF Grant, Grantable
  <2> QED
    BY <1>f, <2>1, FreshFrame
<1>3. CASE AppendEvent(t)
  <2> DEFINE type == CHOOSE x \in what[t] : TRUE
  <2>1. at[t] = "locked" /\ Fresh(t)
    BY <1>3, <1>f DEF AppendEvent
  <2>2. UNCHANGED <<committed, changed, mine, closing, gaveUp>>
    BY <1>3 DEF AppendEvent, Returned
  <2>3. /\ event_type'[t] = type /\ target'[t] = who[t]
        /\ pending'[t] = Subscribers(t, type, who[t])
    BY <1>t, <1>3 DEF AppendEvent, TypeOK
  <2> HIDE DEF type
  <2>4. \A c \in Consumers \ changed[t] : View(t)[c] = subscription[c]
    BY DEF View
  <2>5. \A c \in gaveUp[t] :
          c \in Consumers /\ View(t)[c] = {} /\ OpenRows(t, c) \subseteq closing[t]
    BY <1>t, <2>1 DEF Fresh, TypeOK
  <2>6. \A c \in gaveUp[t] : c \notin pending'[t]
    BY <2>3, <2>5 DEF Subscribers
  <2>7. \A c \in gaveUp[t] : OpenRows(t, c)' \subseteq OpenRows(t, c)
    BY <2>2, <2>6, SMT DEF OpenRows
  <2>8. \A c \in gaveUp[t] : View(t)'[c] = {}
    BY <2>2, <2>5 DEF View
  <2>9. \A c \in Consumers \ changed[t] :
          c \in pending'[t] <=> type \in subscription[c] /\ who[t] \in {NoConsumer, c}
    BY <2>3, <2>4 DEF Subscribers
  <2> QED
    BY <2>2, <2>3, <2>5, <2>7, <2>8, <2>9 DEF Fresh
<1>4. CASE Change(t)
  <2>1. Fresh(t) /\ who[t] \in Consumers
    BY <1>t, <1>4, <1>f DEF Change, CallIsValid
  <2>2. UNCHANGED <<committed, event_type, target, pending, closing>>
    BY <1>4 DEF Change, Returned
  <2>3. changed'[t] = changed[t] \cup {who[t]} /\ gaveUp'[t] = gaveUp[t] \ {who[t]}
    BY <1>t, <1>4, SMT DEF Change, TypeOK
  <2>4. \A c \in Consumers \ {who[t]} : mine'[t][c] = mine[t][c]
    <3>1. mine \in [Txs -> [Consumers -> SUBSET Types]]
      BY <1>t DEF TypeOK
    <3> QED
      BY <1>4, <3>1, SMT DEF Change
  <2>5. \A c \in gaveUp'[t] : c \in Consumers \ {who[t]} /\ c \in gaveUp[t]
    BY <1>t, <2>3 DEF TypeOK
  <2>6. \A c \in gaveUp'[t] : View(t)'[c] = View(t)[c]
    BY <2>2, <2>3, <2>4, <2>5 DEF View
  <2> QED
    BY <2>1, <2>2, <2>3, <2>5, <2>6 DEF Fresh, OpenRows
<1>5. CASE Abandon(t)
  <2>1. Fresh(t)
    BY <1>5, <1>f DEF Abandon
  <2>2. UNCHANGED <<committed, event_type, target, pending, changed, mine>>
    BY <1>5 DEF Abandon, Returned
  <2>3. CASE UNCHANGED <<closing, gaveUp>>
    BY <2>1, <2>2, <2>3, FreshFrame
  <2>4. CASE /\ View(t)[who[t]] = {}
             /\ closing' = [closing EXCEPT ![t] = @ \cup OpenRows(t, who[t])]
             /\ gaveUp' = [gaveUp EXCEPT ![t] = @ \cup {who[t]}]
    <3>1. /\ closing'[t] = closing[t] \cup OpenRows(t, who[t])
          /\ gaveUp'[t] = gaveUp[t] \cup {who[t]}
      BY <1>t, <2>4 DEF TypeOK
    <3>2. \A c : View(t)'[c] = View(t)[c] /\ OpenRows(t, c)' = OpenRows(t, c)
      BY <2>2 DEF View, OpenRows
    <3> QED
      BY <2>1, <2>2, <2>4, <3>1, <3>2, SMT DEF Fresh
  <2> QED
    BY <1>5, <2>3, <2>4 DEF Abandon
<1>6. CASE Commit(t)
  BY <1>t, <1>6 DEF Commit, TypeOK
<1>7. CASE Rollback(t)
  <2>1. event_type'[t] = NoType /\ gaveUp'[t] = {}
    BY <1>t, <1>7 DEF Rollback, Forget, TypeOK
  <2> QED
    BY <2>1 DEF Fresh
<1> QED
  BY <1>1, <1>2, <1>3, <1>4, <1>5, <1>6, <1>7 DEF Step, Execute


\* Events, deliveries and closures commit together.
LEMMA RowsStep == ASSUME SubscriptionInv, NEW t \in Txs, Step(t) PROVE RowsAgree'
<1>t. TypeOK /\ CallIsValid /\ RowsAgree /\ Agree(t)
  BY DEF SubscriptionInv, RowsAgree, Agree
<1> USE DEF committed, call, lock, writes
<1>d. delivery \subseteq delivery'
  BY <1>t, AskIsRequest, ExecuteReturns DEF Step, Request, Grant, Commit, Rollback
<1> SUFFICES /\ \A e \in outbox' : at'[e] = "done" /\ event_type'[e] # NoType
             /\ \A row \in delivery' : row[1] \in outbox'
             /\ Agree(t)'
  <2>1. ASSUME NEW u \in Txs, u # t PROVE Agree(u)'
    <3>1. UNCHANGED <<event_type[u], pending[u], closing[u], changed[u], gaveUp[u]>>
      BY <1>t, <2>1, Others DEF Own
    <3> QED
      BY <1>t, <1>d, <3>1 DEF RowsAgree, Agree
  <2> QED
    BY <2>1 DEF RowsAgree, Agree
<1>o. ASSUME t \notin outbox PROVE \A e \in outbox : at'[e] = "done" /\ event_type'[e] # NoType
  <2>1. \A e \in outbox : e \in Txs /\ e # t /\ at[e] = "done" /\ event_type[e] # NoType
    BY <1>t, <1>o DEF RowsAgree, TypeOK
  <2> QED
    BY <1>t, <2>1, Others DEF Own
<1>n. at[t] # "done" => t \notin outbox
  BY <1>t DEF RowsAgree
<1>1. CASE Ask(t)
  <2>1. UNCHANGED <<committed, writes>> /\ at[t] # "done"
    BY <1>1, AskIsRequest DEF Request
  <2> QED
    BY <1>t, <1>o, <1>n, <2>1 DEF RowsAgree, Agree
<1>2. CASE Grant(t)
  <2>1. UNCHANGED <<committed, writes>> /\ at[t] # "done"
    BY <1>2 DEF Grant, Grantable
  <2> QED
    BY <1>t, <1>o, <1>n, <2>1 DEF RowsAgree, Agree
<1>3. CASE AppendEvent(t)
  <2> DEFINE type == CHOOSE x \in what[t] : TRUE
  <2>1. /\ at[t] # "done" /\ event_type[t] = NoType /\ type \in Types
        /\ UNCHANGED <<committed, changed, closing, gaveUp>>
    BY <1>t, <1>3 DEF AppendEvent, Returned, CallIsValid, TypeOK
  <2>2. event_type'[t] = type
    BY <1>t, <1>3 DEF AppendEvent, TypeOK
  <2>3. event_type'[t] # NoType /\ closing[t] \subseteq delivery
    BY <1>t, <2>1, <2>2 DEF Agree
  <2> QED
    BY <1>t, <1>o, <1>n, <2>1, <2>3 DEF RowsAgree, Agree
<1>4. CASE Change(t)
  <2>1. at[t] # "done" /\ UNCHANGED <<committed, event_type, pending, closing>>
    BY <1>4 DEF Change, Returned
  <2>2. changed'[t] = changed[t] \cup {who[t]} /\ gaveUp'[t] = gaveUp[t] \ {who[t]}
    BY <1>t, <1>4, SMT DEF Change, TypeOK
  <2> QED
    BY <1>t, <1>o, <1>n, <2>1, <2>2 DEF RowsAgree, Agree
<1>5. CASE Abandon(t)
  <2>1. at[t] # "done" /\ UNCHANGED <<committed, event_type, pending, changed>>
    BY <1>5 DEF Abandon, Returned
  <2>2. CASE UNCHANGED <<closing, gaveUp>>
    BY <1>t, <1>o, <1>n, <2>1, <2>2 DEF RowsAgree, Agree
  <2>3. CASE /\ closing' = [closing EXCEPT ![t] = @ \cup OpenRows(t, who[t])]
             /\ gaveUp' = [gaveUp EXCEPT ![t] = @ \cup {who[t]}]
    <3>1. closing'[t] = closing[t] \cup OpenRows(t, who[t]) /\ gaveUp'[t] = gaveUp[t] \cup {who[t]}
      BY <1>t, <2>3 DEF TypeOK
    <3> QED
      BY <1>t, <1>o, <1>n, <2>1, <3>1 DEF RowsAgree, Agree, OpenRows
  <2> QED
    BY <1>5, <2>2, <2>3 DEF Abandon
<1>6. CASE Commit(t)
  <2>1. UNCHANGED writes /\ at[t] = "open" /\ at'[t] = "done"
    BY <1>t, <1>6 DEF Commit, TypeOK
  <2>2. Agree(t)'
    BY <1>t, <1>d, <2>1 DEF Agree
  <2>3. \A e \in outbox' : at'[e] = "done" /\ event_type'[e] # NoType
    BY <1>6, <1>o, <1>n, <2>1 DEF Commit
  <2>4. \A row \in delivery' : row[1] \in outbox'
    BY <1>6, <1>t, SMT DEF Commit, RowsAgree, Agree
  <2> QED
    BY <2>2, <2>3, <2>4
<1>7. CASE Rollback(t)
  <2>1. at[t] # "done" /\ UNCHANGED committed
    BY <1>7 DEF Rollback
  <2>2. pending'[t] = {} /\ closing'[t] = {}
    BY <1>t, <1>7 DEF Rollback, Forget, TypeOK
  <2> QED
    BY <1>t, <1>o, <1>n, <2>1, <2>2 DEF RowsAgree, Agree
<1> QED
  BY <1>1, <1>2, <1>3, <1>4, <1>5, <1>6, <1>7 DEF Step, Execute


\* Only a commit changes what is committed.
LEMMA OnlyCommits ==
  ASSUME TypeOK, NEW t \in Txs, Step(t), ~Commit(t) PROVE UNCHANGED committed
BY AskIsRequest, ExecuteReturns DEF Step, Request, Grant, Rollback

\* No other step changes an event either.
LEMMA EventsKept ==
  ASSUME SubscriptionInv, NEW t \in Txs, Step(t), ~Commit(t)
  PROVE  /\ UNCHANGED committed
         /\ \A e \in outbox : event_type'[e] = event_type[e] /\ target'[e] = target[e]
<1>t. TypeOK /\ \A e \in outbox : e \in Txs /\ at[e] = "done"
  BY DEF SubscriptionInv, RowsAgree, TypeOK
<1>1. at[t] # "done"
  BY <1>t, AskIsRequest, ExecuteReturns DEF Step, Request, Grant, Grantable, Rollback
<1> QED
  BY <1>t, <1>1, Others, OnlyCommits DEF Own

\* What a commit makes of a subscription.
LEMMA Committed ==
  ASSUME NEW t \in Txs, Commit(t), NEW c \in Consumers
  PROVE  subscription'[c] = IF c \in changed[t] THEN mine[t][c] ELSE subscription[c]
BY DEF Commit, View

\* Neither the abandoning transaction nor a later one leaves a retired consumer
\* a delivery.
LEMMA RetiredStep == ASSUME SubscriptionInv, NEW t \in Txs, Step(t) PROVE RetiredOwesNothing'
<1>t. TypeOK /\ RetiredOwesNothing
  BY DEF SubscriptionInv
<1>1. CASE ~Commit(t)
  BY <1>t, <1>1, OnlyCommits DEF committed, RetiredOwesNothing
<1>2. CASE Commit(t)
  <2>1. Fresh(t) /\ Agree(t)
    BY <1>2 DEF Commit, SubscriptionInv, ReadStillHolds, RowsAgree
  <2>2. /\ delivery' = delivery \cup ({t} \X pending[t]) /\ closed' = closed \cup closing[t]
        /\ retired' = (retired \ changed[t]) \cup gaveUp[t]
    BY <1>2 DEF Commit
  <2>3. ASSUME NEW c \in gaveUp[t]
        PROVE  subscription'[c] = {} /\ \A row \in delivery' \ closed' : row[2] # c
    <3>1. View(t)[c] = {} /\ OpenRows(t, c) \subseteq closing[t]
      BY <2>1 DEF Fresh
    <3>2. \A row \in delivery' \ closed' : row[2] # c
      BY <2>2, <3>1 DEF OpenRows
    <3> QED
      BY <1>2, <3>1, <3>2 DEF Commit
  <2>4. ASSUME NEW c \in retired \ changed[t]
        PROVE  subscription'[c] = {} /\ \A row \in delivery' \ closed' : row[2] # c
    <3>1. c \in Consumers /\ subscription[c] = {} /\ \A row \in delivery \ closed : row[2] # c
      BY <1>t DEF TypeOK, RetiredOwesNothing
    <3>2. c \notin pending[t]
      BY <2>1, <2>4, <3>1 DEF Fresh, Agree
    <3>3. \A row \in delivery' \ closed' : row[2] # c
      BY <2>2, <3>1, <3>2, SMT
    <3> QED
      BY <1>2, <2>4, <3>1, <3>3, Committed
  <2> QED
    BY <2>2, <2>3, <2>4 DEF RetiredOwesNothing
<1> QED
  BY <1>1, <1>2

\* An event reaches its subscribers as a delivery or in their snapshot.
LEMMA NoGapStep == ASSUME SubscriptionInv, NoGap, NEW t \in Txs, Step(t) PROVE NoGap'
<1>t. TypeOK
  BY DEF SubscriptionInv
<1>1. \A e \in outbox : e \in Txs /\ at[e] = "done"
  BY <1>t DEF SubscriptionInv, RowsAgree, TypeOK
<1>2. CASE ~Commit(t)
  BY <1>2, EventsKept DEF committed, NoGap
<1>3. CASE Commit(t)
  <2>1. /\ UNCHANGED <<event_type, target>>
        /\ outbox \subseteq outbox' /\ outbox' \subseteq outbox \cup {t}
        /\ t \in outbox' => t \in outbox \/ event_type[t] # NoType
        /\ delivery' = delivery \cup ({t} \X pending[t]) /\ Fresh(t)
    BY <1>3 DEF Commit, writes, SubscriptionInv, ReadStillHolds
  <2>2. ASSUME NEW c \in Consumers
        PROVE  snapshot'[c] = IF c \in changed[t] /\ mine[t][c] # {} THEN outbox' ELSE snapshot[c]
    BY <1>3 DEF Commit
  <2>3. ASSUME NEW c \in Consumers, NEW e \in outbox',
               event_type[e] \in subscription'[c], target[e] \in {NoConsumer, c}
        PROVE  e \in snapshot'[c] \/ <<e, c>> \in delivery'
    <3>1. CASE c \in changed[t]
      BY <1>3, <2>2, <2>3, <3>1, Committed
    <3>2. CASE c \notin changed[t] /\ e \in outbox
      <4>1. event_type[e] \in subscription[c] /\ snapshot'[c] = snapshot[c]
        BY <1>3, <2>2, <2>3, <3>2, Committed
      <4> QED
        BY <2>1, <2>3, <3>2, <4>1 DEF NoGap
    <3>3. CASE c \notin changed[t] /\ e = t /\ event_type[t] # NoType
      <4>1. event_type[e] \in subscription[c]
        BY <1>3, <2>3, <3>3, Committed
      <4>2. c \in pending[t]
        BY <2>1, <2>3, <3>3, <4>1 DEF Fresh
      <4> QED
        BY <2>1, <3>3, <4>2, SMT
    <3> QED
      BY <2>1, <3>1, <3>2, <3>3
  <2> QED
    BY <2>1, <2>3 DEF NoGap
<1> QED
  BY <1>2, <1>3

-----------------------------------------------------------------------------
\* SubscriptionInv holds at first and is kept by every step of the calls, the
\* lock, a commit and a rollback.
THEOREM LockProtects == Spec => []SubscriptionInv
<1>1. Init => SubscriptionInv
  <2> SUFFICES ASSUME Init PROVE SubscriptionInv
    OBVIOUS
  <2>1. TypeOK
    BY SMT DEF Init, TypeOK, Steps
  <2>2. \A t \in Txs : Held(t) /\ Fresh(t) /\ Agree(t)
    BY DEF Init, Held, Holds, Fresh, Agree
  <2> QED
    BY <2>1, <2>2 DEF Init, SubscriptionInv, LockHeld, CallIsValid, ReadStillHolds, RowsAgree,
                      RetiredOwesNothing
<1>2. SubscriptionInv /\ [Next]_vars => SubscriptionInv'
  <2> SUFFICES ASSUME SubscriptionInv, [Next]_vars PROVE SubscriptionInv'
    OBVIOUS
  <2>1. TypeOK'
    BY TypeStep
  <2>2. CASE UNCHANGED vars
    <3>1. \A t \in Txs : (Held(t) <=> Held(t)') /\ (Agree(t) <=> Agree(t)')
      BY <2>2 DEF vars, committed, call, lock, writes, Held, Holds, Agree
    <3>2. \A t \in Txs : Fresh(t) => Fresh(t)'
      BY <2>2, FreshFrame DEF vars, committed, writes
    <3>3. LockHeld' /\ ReadStillHolds' /\ RowsAgree'
      BY <2>2, <3>1, <3>2 DEF vars, committed, call, lock, writes, SubscriptionInv, LockHeld,
                              ReadStillHolds, RowsAgree
    <3>4. CallIsValid' /\ RetiredOwesNothing'
      BY <2>2 DEF vars, committed, call, writes, SubscriptionInv, CallIsValid, RetiredOwesNothing
    <3> QED
      BY <2>1, <3>3, <3>4 DEF SubscriptionInv
  <2>3. ASSUME NEW t \in Txs, Step(t) PROVE SubscriptionInv'
    BY <2>1, <2>3, LockStep, CallStep, FreshStep, RowsStep, RetiredStep DEF SubscriptionInv
  <2> QED
    BY <2>2, <2>3 DEF Next, Step
<1> QED
  BY <1>1, <1>2, PTL DEF Spec

\* No event is committed without a delivery for a consumer that subscribes to
\* it and whose snapshot does not have it.
THEOREM SubscribersMissNothing == Spec => []NoGap
<1>1. Init => NoGap
  BY DEF Init, NoGap
<1>2. SubscriptionInv /\ NoGap /\ [Next]_vars => NoGap'
  <2> SUFFICES ASSUME SubscriptionInv, NoGap, [Next]_vars PROVE NoGap'
    OBVIOUS
  <2>1. CASE UNCHANGED vars
    BY <2>1 DEF vars, committed, writes, NoGap
  <2>2. ASSUME NEW t \in Txs, Step(t) PROVE NoGap'
    BY <2>2, NoGapStep
  <2> QED
    BY <2>1, <2>2 DEF Next, Step
<1> QED
  BY LockProtects, <1>1, <1>2, PTL DEF Spec


-----------------------------------------------------------------------------
(* The refinement of SubscriptionLedger *)

Sent(O, type, to) == {[event |-> e, type |-> type[e], to |-> to[e]] : e \in O}

\* The events of the messages are the rows of the outbox.
LEMMA SentEvents ==
  ASSUME NEW O, NEW type, NEW to
  PROVE  {m.event : m \in Sent(O, type, to)} = O
<1>1. \A m \in Sent(O, type, to) : m.event \in O
  BY SMT DEF Sent
<1>2. ASSUME NEW e \in O PROVE \E m \in Sent(O, type, to) : m.event = e
  <2> DEFINE m == [event |-> e, type |-> type[e], to |-> to[e]]
  <2>1. m \in Sent(O, type, to)
    BY DEF Sent
  <2>2. m.event = e
    OBVIOUS
  <2> QED
    BY <2>1, <2>2
<1> QED
  BY <1>1, <1>2

\* A commit sends its event to the subscribers of the instant.
LEMMA CommitOwes ==
  ASSUME SubscriptionInv, NEW t \in Txs, Commit(t), NEW C, C = changed[t]
  PROVE  Ledger!Owe(t, C)
           \/ UNCHANGED <<Sent(outbox, event_type, target), delivery>>
<1>t. TypeOK /\ Fresh(t) /\ Agree(t) /\ t \notin outbox
  BY DEF Commit, SubscriptionInv, ReadStillHolds, RowsAgree
<1>1. /\ UNCHANGED <<event_type, target>>
      /\ outbox' = IF event_type[t] # NoType THEN outbox \cup {t} ELSE outbox
      /\ delivery' = delivery \cup ({t} \X pending[t])
  BY DEF Commit, writes
<1>2. CASE event_type[t] = NoType
  <2>1. pending[t] = {}
    BY <1>t, <1>2 DEF Agree
  <2>2. delivery' = delivery
    BY <1>1, <2>1, SMT
  <2> QED
    BY <1>1, <1>2, <2>2 DEF Sent
<1>3. CASE event_type[t] # NoType
  <2> DEFINE m == [event |-> t, type |-> event_type[t], to |-> target[t]]
  <2>1. /\ event_type[t] \in Types /\ target[t] \in Consumers \cup {NoConsumer}
        /\ pending[t] \in SUBSET Consumers
    BY <1>t, <1>3 DEF TypeOK
  <2>2. \A n \in Sent(outbox, event_type, target) : n.event # t
    BY <1>t, SMT DEF Sent
  <2>3. Sent(outbox, event_type, target)' = Sent(outbox, event_type, target) \cup {m}
    BY <1>1, <1>3, SMT DEF Sent
  <2>4. \A c \in Consumers \ changed[t] :
          c \in pending[t] <=> event_type[t] \in subscription[c] /\ target[t] \in {NoConsumer, c}
    BY <1>t, <1>3 DEF Fresh
  <2> QED
    BY <1>1, <2>1, <2>2, <2>3, <2>4 DEF Ledger!Owe, Sent
<1> QED
  BY <1>2, <1>3

\* It closes what it gave up, and nobody else's rows.
LEMMA CommitSettles ==
  ASSUME SubscriptionInv, NEW t \in Txs, Commit(t), NEW C, C = changed[t], NEW G, G = gaveUp[t]
  PROVE  Ledger!Settle(C, G)
<1>t. TypeOK /\ Fresh(t) /\ Agree(t)
  BY DEF Commit, SubscriptionInv, ReadStillHolds, RowsAgree
<1>1. delivery' = delivery \cup ({t} \X pending[t]) /\ closed' = closed \cup closing[t]
  BY DEF Commit
<1>2. closed' \subseteq delivery' /\ \A row \in closed' \ closed : row[2] \in changed[t] \cup gaveUp[t]
  BY <1>t, <1>1 DEF Agree, TypeOK
<1>3. ASSUME NEW row \in delivery' \ closed' PROVE row[2] \notin gaveUp[t]
  BY <1>t, <1>1, <1>3 DEF Fresh, OpenRows
<1> QED
  BY <1>1, <1>2, <1>3 DEF Ledger!Settle

\* It changes the subscriptions it meant to change, and no other.
LEMMA CommitResubscribes ==
  ASSUME SubscriptionInv, NEW t \in Txs, Commit(t), NEW C, C = changed[t], NEW G, G = gaveUp[t]
  PROVE  Ledger!Resubscribe(C, G)
<1>t. TypeOK /\ Fresh(t)
  BY DEF Commit, SubscriptionInv, ReadStillHolds
<1> DEFINE wanted == [c \in changed[t] |-> mine[t][c]]
<1>1. wanted \in [changed[t] -> SUBSET Types]
  <2>1. changed[t] \subseteq Consumers /\ mine[t] \in [Consumers -> SUBSET Types]
    BY <1>t DEF TypeOK
  <2> QED
    BY <2>1, SMT
<1>2. subscription' = [c \in Consumers |-> IF c \in changed[t] THEN wanted[c] ELSE subscription[c]]
  BY DEF Commit, View
<1>3. \A c \in gaveUp[t] : subscription'[c] = {}
  BY <1>t DEF Commit, Fresh
<1>4. Sent(outbox, event_type, target)' = Sent(outbox', event_type', target')
  BY DEF Sent
<1>5. {m.event : m \in Sent(outbox, event_type, target)'} = outbox'
  BY <1>4, SentEvents
<1>6. snapshot' = [c \in Consumers |-> IF c \in changed[t] /\ subscription'[c] # {}
                                         THEN outbox' ELSE snapshot[c]]
  BY <1>2 DEF Commit
<1>7. retired' = (retired \ changed[t]) \cup gaveUp[t]
  BY DEF Commit
<1> QED
  BY <1>1, <1>2, <1>3, <1>5, <1>6, <1>7 DEF Ledger!Resubscribe, Sent

\* A commit is a transaction of the ledger, and the steps before it are none.
LEMMA LedgerStep == SubscriptionInv /\ [Next]_vars => [Ledger!LedgerNext]_(Ledger!ledger)
<1> SUFFICES ASSUME SubscriptionInv, [Next]_vars
             PROVE  Ledger!LedgerNext \/ UNCHANGED Ledger!ledger
  OBVIOUS
<1>1. CASE UNCHANGED vars
  BY <1>1 DEF vars, committed, writes, Ledger!ledger
<1>2. ASSUME NEW t \in Txs, Step(t), ~Commit(t) PROVE UNCHANGED Ledger!ledger
  <2>1. UNCHANGED committed /\ \A e \in outbox : event_type'[e] = event_type[e] /\ target'[e] = target[e]
    BY <1>2, EventsKept
  <2>2. Sent(outbox, event_type, target)' = Sent(outbox, event_type, target)
    BY <2>1 DEF Sent, committed
  <2> QED
    BY <2>1, <2>2 DEF committed, Sent, Ledger!ledger
<1>3. ASSUME NEW t \in Txs, Commit(t) PROVE Ledger!LedgerNext
  <2>1. PICK C, G \in SUBSET Consumers : C = changed[t] /\ G = gaveUp[t]
    BY DEF SubscriptionInv, TypeOK
  <2>2. (\E e \in Txs : Ledger!Owe(e, C))
          \/ UNCHANGED <<Sent(outbox, event_type, target), delivery>>
    BY <1>3, <2>1, CommitOwes
  <2>3. Ledger!Settle(C, G) /\ Ledger!Resubscribe(C, G)
    BY <1>3, <2>1, CommitSettles, CommitResubscribes
  <2>4. Ledger!Transact(C, G)
    BY <2>2, <2>3 DEF Ledger!Transact, Sent
  <2> QED
    BY <2>1, <2>4 DEF Ledger!LedgerNext
<1> QED
  BY <1>1, <1>2, <1>3 DEF Next, Step

\* The calls under the advisory lock implement SubscriptionLedger: every
\* transaction takes effect at its commit, as if it were alone.
THEOREM SubscriptionsImplementLedger == Spec => ImplementsLedger
<1>1. Init => Ledger!LedgerInit
  BY SMT DEF Init, Ledger!LedgerInit
<1> QED
  BY LockProtects, LedgerStep, <1>1, PTL DEF Spec, ImplementsLedger, Ledger!LedgerSpec

=============================================================================
