-------------------------- MODULE PartitionsProofs --------------------------
(***************************************************************************)
(* Proofs about Partitions, for any number of events and days.             *)
(*                                                                         *)
(* The tables stay in step because a transaction in flight is younger than *)
(* any day an operator may drop by hand (Recent, GapIsPast).  A drop checks *)
(* a day before it has locked the day's children, and still loses nothing  *)
(* unpublished: every candidate lies further back than the longest         *)
(* transaction reaches (PastInv), so what the check saw is all there will  *)
(* be of the day (CheckedInv) until the drop commits.                      *)
(***************************************************************************)
EXTENDS Partitions, WellFoundedInduction, TLAPS

USE PartitionsConstants

-----------------------------------------------------------------------------
(* The candidate of a turn of the drop's loop *)

\* A set of numbers that is not empty has a least element.
LEMMA MinimumExists ==
  ASSUME NEW S \in SUBSET Nat, S # {}
  PROVE  \E x \in S : \A y \in S : x <= y
<1>1. PICK x \in S : \A y \in S : ~(<<y, x>> \in OpToRel(<, Nat))
  BY WFMin, NatLessThanWellFounded, Zenon
<1>2. \A y \in S : ~(y < x)
  BY <1>1, Zenon DEF OpToRel
<1> QED
  BY <1>2

\* The loop takes its candidate from the days that are left.
LEMMA CandidateIsLeft ==
  ASSUME TypeOK, todo # {}
  PROVE  Candidate \in todo
<1>1. \E x \in todo : \A y \in todo : x <= y
  <2>1. todo \in SUBSET Nat
    BY DEF TypeOK, Days
  <2> QED
    BY <2>1, MinimumExists, Zenon
<1> QED
  BY <1>1, Zenon DEF Candidate

-----------------------------------------------------------------------------
(* The inductive invariant of the partitions *)

InFlight(e) == tx[e] \in {"open", "inserted"}

\* No row stays in the default partition once its day has a child.
RowsMoved ==
  \A t \in Tables, e \in Events : place[t][e] = "default" => created_at[e] \notin children[t]

\* A row belongs to a transaction that wrote it and did not roll back.
Placed ==
  \A t \in Tables, e \in Events : place[t][e] # "none" => tx[e] \in {"inserted", "committed"}

\* No transaction lives through more than MaxTxDays midnights.
Recent == \A e \in Events : InFlight(e) => today <= created_at[e] + MaxTxDays

\* A tracked day without a child for its events was dropped by hand, and no
\* transaction can still write to it.
GapIsPast == \A d \in registered \ children["outbox"] : d + MaxTxDays < today

\* The child an event is stored in exists.
ChildStands ==
  \A e \in Events : place["outbox"][e] = "child" => created_at[e] \in children["outbox"]

\* What an operator dropped was committed and is gone.
HandDropped == \A e \in byHand : place["outbox"][e] = "none" /\ tx[e] = "committed"

StorageInv == RowsMoved /\ Placed /\ Recent /\ GapIsPast /\ ChildStands /\ HandDropped

\* A transaction with a row has the row lock of both tables, and nobody has a
\* table exclusively beside it.
WriterInv ==
  \A t \in Tables : /\ \A e \in Events : tx[e] = "inserted" => e \in writers[t]
                    /\ owner[t] = "ensure" => writers[t] = {}

\* The creation has locked what lies behind it.
LockInv ==
  /\ ensure \in {"outbox_delivery", "create"} => owner["outbox"] = "ensure"
  /\ ensure = "create" => owner["outbox_delivery"] = "ensure"

\* A child is dropped in the turn of some candidate.
TurnInv == drop \in Tables => todo # {}

\* The days of a drop lie before the retention boundary, and are tracked until it commits.
PastInv == \A d \in todo \cup doomed : d + Retention < today /\ d \in registered

\* Every delivery stored in the child of day d is closed, or lost its event by hand.
Delivered(d) ==
  \A e \in Events :
    place["outbox_delivery"][e] = "child" /\ created_at[e] = d => e \in published \cup byHand

\* So it is for the days that the drop has checked.
CheckedInv ==
  /\ \A d \in doomed : Delivered(d)
  /\ drop \in Tables => Delivered(Candidate)
  /\ unpublished = {}

-----------------------------------------------------------------------------
(* Every step preserves it *)

\* The type of the variables.
LEMMA TypeStep == TypeOK /\ TurnInv /\ [Next]_vars => TypeOK'
<1> SUFFICES ASSUME TypeOK, TurnInv, [Next]_vars PROVE TypeOK'
  OBVIOUS
<1> USE DEF catalog, appends, locks, ensuring, dropping, history, TypeOK
<1>1. ASSUME NEW e \in Events, Begin(e) PROVE TypeOK'
  BY <1>1 DEF Begin
<1>2. ASSUME NEW e \in Events, Append(e) PROVE TypeOK'
  BY <1>2 DEF Append, Places
<1>3. ASSUME NEW e \in Events, Commit(e) PROVE TypeOK'
  BY <1>3 DEF Commit
<1>4. ASSUME NEW e \in Events, Rollback(e) PROVE TypeOK'
  BY <1>4 DEF Rollback, Places
<1>5. ASSUME NEW e \in Events, Publish(e) PROVE TypeOK'
  BY <1>5 DEF Publish
<1>6. ASSUME NEW from \in Days, NEW through \in Days, EnsureOutboxPartitions(from, through)
      PROVE  TypeOK'
  BY <1>6 DEF EnsureOutboxPartitions, Days
<1>7. ASSUME NEW retain_after \in 1..today - Retention, DropOutboxPartitions(retain_after)
      PROVE  TypeOK'
  BY <1>7 DEF DropOutboxPartitions, Candidates
<1>8. ASSUME NEW t \in Tables, EnsureLock(t) PROVE TypeOK'
  BY <1>8 DEF EnsureLock, Tables
<1>9. ASSUME NEW t \in Tables, DropChild(t) PROVE TypeOK'
  BY <1>9, CandidateIsLeft DEF DropChild, DropNext, TurnInv
<1>10. CASE EnsureCreate
  BY <1>10 DEF EnsureCreate, Released, Places
<1>11. CASE EnsureAbort
  BY <1>11 DEF EnsureAbort, Released
<1>12. CASE DropCheck
  BY <1>12, CandidateIsLeft DEF DropCheck, DropNext
<1>13. CASE DropCommit
  BY <1>13 DEF DropCommit, Released, Without, Stored, Places
<1>14. CASE DropAbort
  BY <1>14 DEF DropAbort, Released
<1>15. ASSUME NEW x \in Days, OperatorDrop(x) PROVE TypeOK'
  BY <1>15 DEF OperatorDrop, Without, Stored, Places, Tables
<1>16. CASE Tick
  BY <1>16 DEF Tick, Days
<1>17. CASE UNCHANGED vars
  BY <1>17 DEF vars
<1> QED
  BY <1>1, <1>2, <1>3, <1>4, <1>5, <1>6, <1>7, <1>8, <1>9, <1>10, <1>11, <1>12, <1>13,
     <1>14, <1>15, <1>16, <1>17, Zenon DEF Next

\* Where rows are stored, and since when.
LEMMA StorageStep == InStep /\ StorageInv /\ [Next]_vars => StorageInv'
<1> SUFFICES ASSUME InStep, StorageInv, [Next]_vars PROVE StorageInv'
  OBVIOUS
<1> USE DEF catalog, appends, locks, ensuring, dropping, history, InStep, TypeOK,
            StorageInv, RowsMoved, Placed, Recent, GapIsPast, ChildStands, HandDropped,
            InFlight, Days, Tables
<1>1. ASSUME NEW e \in Events, Begin(e) PROVE StorageInv'
  BY <1>1 DEF Begin
<1>2. ASSUME NEW e \in Events, Append(e) PROVE StorageInv'
  BY <1>2 DEF Append
<1>3. ASSUME NEW e \in Events, Commit(e) PROVE StorageInv'
  BY <1>3 DEF Commit
<1>4. ASSUME NEW e \in Events, Rollback(e) PROVE StorageInv'
  BY <1>4 DEF Rollback
<1>5. ASSUME NEW e \in Events, Publish(e) PROVE StorageInv'
  BY <1>5 DEF Publish
<1>6. ASSUME NEW from \in Days, NEW through \in Days, EnsureOutboxPartitions(from, through)
      PROVE  StorageInv'
  BY <1>6 DEF EnsureOutboxPartitions
<1>7. ASSUME NEW retain_after \in 1..today - Retention, DropOutboxPartitions(retain_after)
      PROVE  StorageInv'
  BY <1>7 DEF DropOutboxPartitions
<1>8. ASSUME NEW t \in Tables, EnsureLock(t) PROVE StorageInv'
  BY <1>8 DEF EnsureLock
<1>9. ASSUME NEW t \in Tables, DropChild(t) PROVE StorageInv'
  BY <1>9 DEF DropChild
<1>10. CASE EnsureCreate
  BY <1>10 DEF EnsureCreate, Attachable, Moved, Misplaced
<1>11. CASE EnsureAbort
  BY <1>11 DEF EnsureAbort
<1>12. CASE DropCheck
  BY <1>12 DEF DropCheck
<1>13. CASE DropCommit
  BY <1>13 DEF DropCommit, Without, Stored
<1>14. CASE DropAbort
  BY <1>14 DEF DropAbort
<1>15. ASSUME NEW x \in Days, OperatorDrop(x) PROVE StorageInv'
  BY <1>15 DEF OperatorDrop, Without, Stored
<1>16. CASE Tick
  BY <1>16 DEF Tick
<1>17. CASE UNCHANGED vars
  BY <1>17 DEF vars
<1> QED
  BY <1>1, <1>2, <1>3, <1>4, <1>5, <1>6, <1>7, <1>8, <1>9, <1>10, <1>11, <1>12, <1>13,
     <1>14, <1>15, <1>16, <1>17, Zenon DEF Next

\* The two tables stay in step.
LEMMA InStepStep == InStep /\ StorageInv /\ TypeOK' /\ [Next]_vars => InStep'
<1> SUFFICES ASSUME InStep, StorageInv, TypeOK', [Next]_vars PROVE InStep'
  OBVIOUS
<1> USE DEF catalog, appends, locks, ensuring, dropping, history, InStep, TypeOK,
            StorageInv, RowsMoved, Placed, Recent, GapIsPast, ChildStands, HandDropped,
            InFlight, Days, Tables
<1>1. ASSUME NEW e \in Events, Begin(e) PROVE InStep'
  BY <1>1 DEF Begin
<1>2. ASSUME NEW e \in Events, Append(e) PROVE InStep'
  BY <1>2 DEF Append
<1>3. ASSUME NEW e \in Events, Commit(e) PROVE InStep'
  BY <1>3 DEF Commit
<1>4. ASSUME NEW e \in Events, Rollback(e) PROVE InStep'
  BY <1>4 DEF Rollback
<1>5. ASSUME NEW e \in Events, Publish(e) PROVE InStep'
  BY <1>5 DEF Publish
<1>6. ASSUME NEW from \in Days, NEW through \in Days, EnsureOutboxPartitions(from, through)
      PROVE  InStep'
  BY <1>6 DEF EnsureOutboxPartitions
<1>7. ASSUME NEW retain_after \in 1..today - Retention, DropOutboxPartitions(retain_after)
      PROVE  InStep'
  BY <1>7 DEF DropOutboxPartitions
<1>8. ASSUME NEW t \in Tables, EnsureLock(t) PROVE InStep'
  BY <1>8 DEF EnsureLock
<1>9. ASSUME NEW t \in Tables, DropChild(t) PROVE InStep'
  BY <1>9 DEF DropChild
<1>10. CASE EnsureCreate
  BY <1>10 DEF EnsureCreate, Attachable, Moved, Misplaced
<1>11. CASE EnsureAbort
  BY <1>11 DEF EnsureAbort
<1>12. CASE DropCheck
  BY <1>12 DEF DropCheck
<1>13. CASE DropCommit
  BY <1>13 DEF DropCommit, Without, Stored
<1>14. CASE DropAbort
  BY <1>14 DEF DropAbort
<1>15. ASSUME NEW x \in Days, OperatorDrop(x) PROVE InStep'
  BY <1>15 DEF OperatorDrop, Without, Stored
<1>16. CASE Tick
  BY <1>16 DEF Tick
<1>17. CASE UNCHANGED vars
  BY <1>17 DEF vars
<1> QED
  BY <1>1, <1>2, <1>3, <1>4, <1>5, <1>6, <1>7, <1>8, <1>9, <1>10, <1>11, <1>12, <1>13,
     <1>14, <1>15, <1>16, <1>17, Zenon DEF Next

\* Row locks and table locks exclude each other.
LEMMA LockStep == TypeOK /\ WriterInv /\ LockInv /\ [Next]_vars => WriterInv' /\ LockInv'
<1> SUFFICES ASSUME TypeOK, WriterInv, LockInv, [Next]_vars PROVE WriterInv' /\ LockInv'
  OBVIOUS
<1> USE DEF catalog, appends, locks, ensuring, dropping, history, TypeOK, WriterInv, LockInv, Tables
<1>1. ASSUME NEW e \in Events, Begin(e) PROVE WriterInv' /\ LockInv'
  BY <1>1 DEF Begin
<1>2. ASSUME NEW e \in Events, Append(e) PROVE WriterInv' /\ LockInv'
  BY <1>2 DEF Append, Writable
<1>3. ASSUME NEW e \in Events, Commit(e) PROVE WriterInv' /\ LockInv'
  BY <1>3 DEF Commit
<1>4. ASSUME NEW e \in Events, Rollback(e) PROVE WriterInv' /\ LockInv'
  BY <1>4 DEF Rollback
<1>5. ASSUME NEW e \in Events, Publish(e) PROVE WriterInv' /\ LockInv'
  BY <1>5 DEF Publish
<1>6. ASSUME NEW from \in Days, NEW through \in Days, EnsureOutboxPartitions(from, through)
      PROVE  WriterInv' /\ LockInv'
  BY <1>6 DEF EnsureOutboxPartitions
<1>7. ASSUME NEW retain_after \in 1..today - Retention, DropOutboxPartitions(retain_after)
      PROVE  WriterInv' /\ LockInv'
  BY <1>7 DEF DropOutboxPartitions
<1>8. ASSUME NEW t \in Tables, EnsureLock(t) PROVE WriterInv' /\ LockInv'
  BY <1>8 DEF EnsureLock, Exclusive
<1>9. ASSUME NEW t \in Tables, DropChild(t) PROVE WriterInv' /\ LockInv'
  BY <1>9 DEF DropChild, Exclusive
<1>10. CASE EnsureCreate
  BY <1>10 DEF EnsureCreate, Released
<1>11. CASE EnsureAbort
  BY <1>11 DEF EnsureAbort, Released
<1>12. CASE DropCheck
  BY <1>12 DEF DropCheck
<1>13. CASE DropCommit
  BY <1>13 DEF DropCommit, Released
<1>14. CASE DropAbort
  BY <1>14 DEF DropAbort, Released
<1>15. ASSUME NEW x \in Days, OperatorDrop(x) PROVE WriterInv' /\ LockInv'
  BY <1>15 DEF OperatorDrop
<1>16. CASE Tick
  BY <1>16 DEF Tick
<1>17. CASE UNCHANGED vars
  BY <1>17 DEF vars
<1> QED
  BY <1>1, <1>2, <1>3, <1>4, <1>5, <1>6, <1>7, <1>8, <1>9, <1>10, <1>11, <1>12, <1>13,
     <1>14, <1>15, <1>16, <1>17, Zenon DEF Next

\* A turn of the drop has a candidate.
LEMMA TurnStep == TypeOK /\ TurnInv /\ [Next]_vars => TurnInv'
<1> SUFFICES ASSUME TypeOK, TurnInv, [Next]_vars PROVE TurnInv'
  OBVIOUS
<1> USE DEF catalog, appends, locks, ensuring, dropping, history, TypeOK, TurnInv, Tables
<1>1. ASSUME NEW e \in Events, Begin(e) PROVE TurnInv'
  BY <1>1 DEF Begin
<1>2. ASSUME NEW e \in Events, Append(e) PROVE TurnInv'
  BY <1>2 DEF Append
<1>3. ASSUME NEW e \in Events, Commit(e) PROVE TurnInv'
  BY <1>3 DEF Commit
<1>4. ASSUME NEW e \in Events, Rollback(e) PROVE TurnInv'
  BY <1>4 DEF Rollback
<1>5. ASSUME NEW e \in Events, Publish(e) PROVE TurnInv'
  BY <1>5 DEF Publish
<1>6. ASSUME NEW from \in Days, NEW through \in Days, EnsureOutboxPartitions(from, through)
      PROVE  TurnInv'
  BY <1>6 DEF EnsureOutboxPartitions
<1>7. ASSUME NEW retain_after \in 1..today - Retention, DropOutboxPartitions(retain_after)
      PROVE  TurnInv'
  BY <1>7 DEF DropOutboxPartitions
<1>8. ASSUME NEW t \in Tables, EnsureLock(t) PROVE TurnInv'
  BY <1>8 DEF EnsureLock
<1>9. ASSUME NEW t \in Tables, DropChild(t) PROVE TurnInv'
  BY <1>9 DEF DropChild, DropNext
<1>10. CASE EnsureCreate
  BY <1>10 DEF EnsureCreate
<1>11. CASE EnsureAbort
  BY <1>11 DEF EnsureAbort
<1>12. CASE DropCheck
  BY <1>12 DEF DropCheck, DropNext
<1>13. CASE DropCommit
  BY <1>13 DEF DropCommit
<1>14. CASE DropAbort
  BY <1>14 DEF DropAbort
<1>15. ASSUME NEW x \in Days, OperatorDrop(x) PROVE TurnInv'
  BY <1>15 DEF OperatorDrop
<1>16. CASE Tick
  BY <1>16 DEF Tick
<1>17. CASE UNCHANGED vars
  BY <1>17 DEF vars
<1> QED
  BY <1>1, <1>2, <1>3, <1>4, <1>5, <1>6, <1>7, <1>8, <1>9, <1>10, <1>11, <1>12, <1>13,
     <1>14, <1>15, <1>16, <1>17, Zenon DEF Next

\* The days of a drop stay tracked, and in the past.
LEMMA PastStep == InStep /\ TurnInv /\ PastInv /\ [Next]_vars => PastInv'
<1> SUFFICES ASSUME InStep, TurnInv, PastInv, [Next]_vars PROVE PastInv'
  OBVIOUS
<1> USE DEF catalog, appends, locks, ensuring, dropping, history, InStep, TypeOK, TurnInv,
            PastInv, Tables, Days
<1>1. ASSUME NEW e \in Events, Begin(e) PROVE PastInv'
  BY <1>1 DEF Begin
<1>2. ASSUME NEW e \in Events, Append(e) PROVE PastInv'
  BY <1>2 DEF Append
<1>3. ASSUME NEW e \in Events, Commit(e) PROVE PastInv'
  BY <1>3 DEF Commit
<1>4. ASSUME NEW e \in Events, Rollback(e) PROVE PastInv'
  BY <1>4 DEF Rollback
<1>5. ASSUME NEW e \in Events, Publish(e) PROVE PastInv'
  BY <1>5 DEF Publish
<1>6. ASSUME NEW from \in Days, NEW through \in Days, EnsureOutboxPartitions(from, through)
      PROVE  PastInv'
  BY <1>6 DEF EnsureOutboxPartitions
<1>7. ASSUME NEW retain_after \in 1..today - Retention, DropOutboxPartitions(retain_after)
      PROVE  PastInv'
  BY <1>7 DEF DropOutboxPartitions, Candidates
<1>8. ASSUME NEW t \in Tables, EnsureLock(t) PROVE PastInv'
  BY <1>8 DEF EnsureLock
<1>9. ASSUME NEW t \in Tables, DropChild(t) PROVE PastInv'
  <2>1. Candidate \in todo
    BY <1>9, CandidateIsLeft, Zenon DEF DropChild
  <2>2. todo' \cup doomed' \subseteq todo \cup doomed
    BY <1>9, <2>1, Zenon DEF DropChild, DropNext
  <2>3. UNCHANGED <<today, registered>>
    BY <1>9, Zenon DEF DropChild
  <2> QED
    BY <2>2, <2>3, Zenon
<1>10. CASE EnsureCreate
  BY <1>10 DEF EnsureCreate
<1>11. CASE EnsureAbort
  BY <1>11 DEF EnsureAbort
<1>12. CASE DropCheck
  <2>1. Candidate \in todo
    BY <1>12, CandidateIsLeft, Zenon DEF DropCheck
  <2>2. todo' \cup doomed' \subseteq todo \cup doomed
    BY <1>12, <2>1, Zenon DEF DropCheck, DropNext
  <2>3. UNCHANGED <<today, registered>>
    BY <1>12, Zenon DEF DropCheck
  <2> QED
    BY <2>2, <2>3, Zenon
<1>13. CASE DropCommit
  BY <1>13 DEF DropCommit
<1>14. CASE DropAbort
  BY <1>14 DEF DropAbort
<1>15. ASSUME NEW x \in Days, OperatorDrop(x) PROVE PastInv'
  BY <1>15 DEF OperatorDrop
<1>16. CASE Tick
  BY <1>16 DEF Tick
<1>17. CASE UNCHANGED vars
  BY <1>17 DEF vars
<1> QED
  BY <1>1, <1>2, <1>3, <1>4, <1>5, <1>6, <1>7, <1>8, <1>9, <1>10, <1>11, <1>12, <1>13,
     <1>14, <1>15, <1>16, <1>17, Zenon DEF Next

\* A past day whose deliveries are closed is written to no more.
LEMMA DeliveredStep ==
  ASSUME MaxTxDays <= Retention, InStep, Placed, Recent, [Next]_vars,
         NEW d \in registered, d + Retention < today, Delivered(d)
  PROVE  Delivered(d)'
<1> USE DEF catalog, appends, locks, ensuring, dropping, history, InStep, TypeOK, Delivered,
            Placed, Recent, InFlight, Days, Tables
<1>1. ASSUME NEW e \in Events, Begin(e) PROVE Delivered(d)'
  BY <1>1 DEF Begin
<1>2. ASSUME NEW e \in Events, Append(e) PROVE Delivered(d)'
  BY <1>2 DEF Append
<1>3. ASSUME NEW e \in Events, Commit(e) PROVE Delivered(d)'
  BY <1>3 DEF Commit
<1>4. ASSUME NEW e \in Events, Rollback(e) PROVE Delivered(d)'
  BY <1>4 DEF Rollback
<1>5. ASSUME NEW e \in Events, Publish(e) PROVE Delivered(d)'
  BY <1>5 DEF Publish
<1>6. ASSUME NEW from \in Days, NEW through \in Days, EnsureOutboxPartitions(from, through)
      PROVE  Delivered(d)'
  BY <1>6 DEF EnsureOutboxPartitions
<1>7. ASSUME NEW retain_after \in 1..today - Retention, DropOutboxPartitions(retain_after)
      PROVE  Delivered(d)'
  BY <1>7 DEF DropOutboxPartitions
<1>8. ASSUME NEW t \in Tables, EnsureLock(t) PROVE Delivered(d)'
  BY <1>8 DEF EnsureLock
<1>9. ASSUME NEW t \in Tables, DropChild(t) PROVE Delivered(d)'
  BY <1>9 DEF DropChild
<1>10. CASE EnsureCreate
  BY <1>10 DEF EnsureCreate, Attachable, Moved, Misplaced
<1>11. CASE EnsureAbort
  BY <1>11 DEF EnsureAbort
<1>12. CASE DropCheck
  BY <1>12 DEF DropCheck
<1>13. CASE DropCommit
  BY <1>13 DEF DropCommit, Without
<1>14. CASE DropAbort
  BY <1>14 DEF DropAbort
<1>15. ASSUME NEW x \in Days, OperatorDrop(x) PROVE Delivered(d)'
  BY <1>15 DEF OperatorDrop, Without
<1>16. CASE Tick
  BY <1>16 DEF Tick
<1>17. CASE UNCHANGED vars
  BY <1>17 DEF vars
<1> QED
  BY <1>1, <1>2, <1>3, <1>4, <1>5, <1>6, <1>7, <1>8, <1>9, <1>10, <1>11, <1>12, <1>13,
     <1>14, <1>15, <1>16, <1>17, Zenon DEF Next

\* A day that passes the drop's check has only closed deliveries: no transaction is
\* left to commit another.
LEMMA CheckedIsDelivered ==
  ASSUME MaxTxDays <= Retention, InStep, StorageInv, NEW d \in registered, d + Retention < today,
         ~(d \in children["outbox"] /\ Owed(d))
  PROVE  Delivered(d)
<1> SUFFICES ASSUME NEW e \in Events, place["outbox_delivery"][e] = "child", created_at[e] = d,
                    e \notin byHand
             PROVE  e \in published
  BY DEF Delivered
<1>1. d \in children["outbox"]
  <2>1. place["outbox"][e] = "child"
    BY DEF InStep
  <2> QED
    BY <2>1 DEF StorageInv, ChildStands
<1>2. tx[e] = "committed"
  <2>1. tx[e] \in {"inserted", "committed"}
    BY DEF StorageInv, Placed, Tables
  <2>2. tx[e] # "inserted"
    BY DEF StorageInv, Recent, InFlight, InStep, TypeOK, Days
  <2> QED
    BY <2>1, <2>2
<1> QED
  BY <1>1, <1>2 DEF Owed, Stored

\* Nothing that is still owed goes when the drop commits.
LEMMA NothingOwedDropped ==
  ASSUME MaxTxDays <= Retention, InStep, StorageInv, PastInv, CheckedInv, DropCommit
  PROVE  unpublished' = {}
<1> SUFFICES ASSUME NEW e \in unpublished' PROVE FALSE
  OBVIOUS
<1>1. /\ e \in UNION {Stored(t, doomed) : t \in Tables}
      /\ e \notin published
      /\ e \notin byHand
  <2>1. e \in (UNION {Stored(t, doomed) : t \in Tables}) \ (published \cup byHand)
    BY DEF DropCommit, CheckedInv
  <2> QED
    BY <2>1, Zenon
<1>2. PICK t \in Tables : e \in Stored(t, doomed)
  BY <1>1, Zenon
<1>3. e \in Events /\ place[t][e] = "child" /\ created_at[e] \in doomed
  BY <1>2 DEF Stored
<1>4. place["outbox_delivery"][e] = "child"
  <2>1. e \notin byHand
    BY <1>1
  <2> QED
    BY <1>3, <2>1 DEF InStep, Tables
<1>5. e \in published \cup byHand
  BY <1>3, <1>4 DEF CheckedInv, Delivered
<1> QED
  BY <1>1, <1>5, Zenon

\* What the drop checked stays true until it commits.
LEMMA CheckedStep ==
  ASSUME MaxTxDays <= Retention, InStep, StorageInv, TurnInv, PastInv, CheckedInv, [Next]_vars
  PROVE  CheckedInv'
<1>1. ASSUME NEW d \in todo \cup doomed, Delivered(d) PROVE Delivered(d)'
  BY <1>1, DeliveredStep DEF StorageInv, PastInv
<1>2. drop \in Tables => Candidate \in todo
  BY CandidateIsLeft DEF TurnInv, InStep
<1>3. CASE UNCHANGED <<dropping, unpublished>>
  <2>1. Candidate' = Candidate
    BY <1>3 DEF Candidate, dropping
  <2> QED
    BY <1>1, <1>2, <1>3, <2>1 DEF CheckedInv, dropping
<1>4. ASSUME NEW retain_after \in 1..today - Retention, DropOutboxPartitions(retain_after)
      PROVE  CheckedInv'
  BY <1>1, <1>4 DEF DropOutboxPartitions, CheckedInv, Tables, history
<1>5. CASE DropCheck
  <2>1. todo # {} /\ drop = "check" /\ UNCHANGED unpublished
    BY <1>5 DEF DropCheck, history
  <2>2. Candidate \in todo
    BY <2>1, CandidateIsLeft DEF InStep
  <2>3. Candidate \in registered /\ Candidate + Retention < today
    BY <2>2 DEF PastInv
  <2>4. CASE DropNext({})
    BY <1>1, <2>1, <2>4 DEF DropNext, CheckedInv, Tables
  <2>5. CASE /\ ~(Candidate \in children["outbox"] /\ Owed(Candidate))
             /\ drop' \in Tables
             /\ UNCHANGED <<todo, doomed>>
    <3>1. Delivered(Candidate)
      BY <2>3, <2>5, CheckedIsDelivered
    <3>2. Candidate' = Candidate
      BY <2>5 DEF Candidate
    <3> QED
      BY <1>1, <2>1, <2>2, <2>5, <3>1, <3>2 DEF CheckedInv
  <2>6. {t \in Tables : Candidate \in children[t]} # {}
    BY <2>3 DEF InStep, Tables
  <2> QED
    BY <1>5, <2>4, <2>5, <2>6 DEF DropCheck, Tables
<1>6. ASSUME NEW t \in Tables, DropChild(t) PROVE CheckedInv'
  <2>1. drop = t /\ UNCHANGED unpublished /\ Candidate \in todo /\ Delivered(Candidate)
    BY <1>2, <1>6 DEF DropChild, history, CheckedInv
  <2>2. CASE drop' = "outbox" /\ UNCHANGED <<todo, doomed>>
    <3>1. Candidate' = Candidate
      BY <2>2 DEF Candidate
    <3> QED
      BY <1>1, <2>1, <2>2, <3>1 DEF CheckedInv
  <2>3. CASE DropNext({Candidate})
    BY <1>1, <2>1, <2>3 DEF DropNext, CheckedInv, Tables
  <2> QED
    BY <1>6, <2>2, <2>3 DEF DropChild
<1>7. CASE DropCommit
  BY <1>7, NothingOwedDropped DEF DropCommit, CheckedInv, Tables
<1>8. CASE DropAbort
  BY <1>8 DEF DropAbort, CheckedInv, Tables, history
<1>9. ASSUME NEW e \in Events,
             Begin(e) \/ Append(e) \/ Commit(e) \/ Rollback(e) \/ Publish(e)
      PROVE  UNCHANGED <<dropping, unpublished>>
  BY <1>9 DEF Begin, Append, Commit, Rollback, Publish, dropping, history
<1>10. ASSUME NEW from \in Days, NEW through \in Days, EnsureOutboxPartitions(from, through)
       PROVE  UNCHANGED <<dropping, unpublished>>
  BY <1>10 DEF EnsureOutboxPartitions, dropping, history
<1>11. ASSUME NEW t \in Tables, EnsureLock(t) PROVE UNCHANGED <<dropping, unpublished>>
  BY <1>11 DEF EnsureLock, dropping, history
<1>12. ASSUME NEW d \in Days, OperatorDrop(d) PROVE UNCHANGED <<dropping, unpublished>>
  BY <1>12 DEF OperatorDrop, dropping
<1>13. ASSUME EnsureCreate \/ EnsureAbort \/ Tick \/ UNCHANGED vars
       PROVE  UNCHANGED <<dropping, unpublished>>
  BY <1>13 DEF EnsureCreate, EnsureAbort, Tick, vars, dropping, history
<1> QED
  BY <1>3, <1>4, <1>5, <1>6, <1>7, <1>8, <1>9, <1>10, <1>11, <1>12, <1>13, Zenon DEF Next

-----------------------------------------------------------------------------
(* Theorems on the partitions *)

\* The invariant holds at the start.
LEMMA InitialPartitions == Init => InStep /\ StorageInv /\ TurnInv /\ PastInv /\ CheckedInv
<1> SUFFICES ASSUME Init PROVE InStep /\ StorageInv /\ TurnInv /\ PastInv /\ CheckedInv
  OBVIOUS
<1>1. TypeOK
  BY DEF Init, TypeOK, Days, Places
<1>2. InStep /\ StorageInv
  BY <1>1 DEF Init, InStep, StorageInv, RowsMoved, Placed, Recent, InFlight, GapIsPast,
              ChildStands, HandDropped, Tables
<1>3. TurnInv /\ PastInv /\ CheckedInv
  BY DEF Init, TurnInv, PastInv, CheckedInv, Tables
<1> QED
  BY <1>2, <1>3

\* The part that does not depend on the retention boundary holds in every state.
LEMMA StorageInvariant == Spec => [](InStep /\ StorageInv /\ TurnInv)
<1>1. InStep => TypeOK
  BY DEF InStep
<1> QED
  BY <1>1, InitialPartitions, TypeStep, InStepStep, StorageStep, TurnStep, PTL DEF Spec

\* ensure_outbox_partitions and drop_outbox_partitions keep the two tables in step,
\* for any number of events and days, whatever the retention boundary.
THEOREM TablesInStep == Spec => []InStep
BY StorageInvariant, PTL

\* ensure_outbox_partitions moves every row that could have its children refused,
\* for any number of events and days: the table locks it waited for leave no
\* transaction whose row the move cannot see.
THEOREM AttachSucceeds == Spec => []AttachNotRefused
<1>1. Init => WriterInv /\ LockInv
  BY DEF Init, WriterInv, LockInv, Tables
<1>2. InStep /\ StorageInv /\ WriterInv /\ LockInv => AttachNotRefused
  <2> SUFFICES ASSUME InStep, StorageInv, WriterInv, LockInv, ensure = "create",
                      NEW t \in Tables, NEW e \in Misplaced(t)
               PROVE  e \in Moved(t)
    BY DEF AttachNotRefused, Attachable
  <2>1. e \in Events /\ place[t][e] # "none"
    BY DEF Misplaced
  <2>2. tx[e] \in {"inserted", "committed"}
    BY <2>1 DEF StorageInv, Placed
  <2>3. writers["outbox"] = {}
    BY DEF LockInv, WriterInv, Tables
  <2>4. tx[e] # "inserted"
    BY <2>1, <2>3 DEF WriterInv, Tables
  <2> QED
    BY <2>2, <2>4 DEF Moved
<1>3. InStep => TypeOK
  BY DEF InStep
<1> QED
  BY <1>1, <1>2, <1>3, LockStep, StorageInvariant, PTL DEF Spec

\* Provided that the retention boundary lies further back than a transaction may be
\* old, drop_outbox_partitions drops no delivery that is still owed, although it
\* reads a day before it locks the day's children.
THEOREM DropsOnlyPublished ==
  ASSUME MaxTxDays <= Retention
  PROVE  Spec => []OnlyPublishedDropped
<1>1. InStep /\ StorageInv /\ TurnInv /\ PastInv /\ CheckedInv /\ [Next]_vars
        => PastInv' /\ CheckedInv'
  BY PastStep, CheckedStep, Zenon
<1>2. CheckedInv => OnlyPublishedDropped
  BY Zenon DEF CheckedInv, OnlyPublishedDropped
<1> QED
  BY <1>1, <1>2, StorageInvariant, InitialPartitions, PTL DEF Spec

=============================================================================
