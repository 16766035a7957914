------------------------ MODULE DispatcherInvariants ------------------------
(***************************************************************************)
(* The inductive invariant behind the safety properties of Dispatcher: how *)
(* the columns of a row, the lease in the database and the copies that the *)
(* workers hold in memory fit together between any two steps.              *)
(***************************************************************************)
EXTENDS Dispatcher

\* The columns of one row agree.
RowInv ==
  /\ published_at \subseteq published /\ published \subseteq owed
  /\ \A r \in published : lease_id[r] = NoLease /\ next_attempt_at[r] = 0
  /\ \A r \in Rows : /\ lease_id[r] = NoLease => leased_until[r] = 0
                     /\ leased_until[r] <= LeaseDuration

\* A lease identifies one claim.  While it stands in a row, the worker's copy
\* of the attempts is current.
LeaseInv ==
  /\ \A w \in Workers : /\ todo[w] \subseteq owed
                        /\ todo[w] # {} => lease[w] # NoLease
                        /\ at[w] \in {"idle", "stopped"} => todo[w] = {}
  /\ \A w, v \in Workers : w # v /\ lease[w] = lease[v] => lease[w] = NoLease
  /\ \A w \in Workers, r \in Rows :
       r \in todo[w] /\ lease_id[r] = lease[w]
         => seen[w][r] = attempts[r]

\* The answer a worker is about to record is backed by what happened, and a
\* failure it may still record has not been counted yet.
AnswerOK(w) ==
  at[w] = "recording" =>
    /\ answer[w] \in Answers
    /\ \A r \in Rows : Current(w, r) =>
         /\ answer[w] = "consumer_applied" => EventOf[r] \in processed
         /\ answer[w] = "poison" => r \in refused
         /\ answer[w] \notin Evidence /\ Fence(w, r) => attempts[r] < failures[r]

AnswerInv == \A w \in Workers : AnswerOK(w)

\* The local deadline is never earlier than leased_until.
DeadlineInv ==
  \A w \in Workers, r \in Rows :
    at[w] # "claimed" /\ lease_id[r] = lease[w] => leased_until[r] <= deadline[w]

\* Within LeaseDuration a row that is held is still leased to its holder.
HeldInv ==
  /\ BatchesDisjoint
  /\ slow < LeaseDuration =>
       \A w \in Workers, r \in Rows : r \in Held(w) =>
         \/ r \in published
         \/ /\ lease_id[r] = lease[w]
            /\ leased_until[r] + slow >= LeaseDuration

\* What the consumer did, and is doing: no two handlers are at one event, and
\* none at one that was applied.
ConsumerInv ==
  /\ \A e \in requests : \E r \in owed : EventOf[r] = e
  /\ processed \subseteq requests
  /\ \A h \in Handlers : handling[h] \in (requests \ processed) \cup {NoEvent}
  /\ \A g, h \in Handlers : g # h /\ handling[g] = handling[h] => handling[g] = NoEvent
  /\ \A e \in Events : effects[e] = IF e \in processed THEN 1 ELSE 0

\* What is recorded of it.
RecordInv ==
  /\ ReceiptsMatchDeliveries
  /\ ClosedIsAccounted
  /\ AppliedEvidenceIsTrue
  /\ DeadLetterMeansRefused
  /\ AttemptsNotOvercounted

\* Leases, memory and tables agree in every reachable state.  Everything the
\* dispatcher guarantees about the tables follows from this.
IInv ==
  /\ TypeOK
  /\ RowInv
  /\ LeaseInv
  /\ AnswerInv
  /\ DeadlineInv
  /\ NoStrandedLease
  /\ HeldInv
  /\ ConsumerInv
  /\ RecordInv

=============================================================================
