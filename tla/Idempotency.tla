----------------------------- MODULE Idempotency -----------------------------
(***************************************************************************)
(* Idempotency keys: Claim, Complete, CompleteWithheld and PurgeCompleted  *)
(* of package idempotency, over the attempts a client makes at commands.   *)
(*                                                                         *)
(* An attempt claims its key, executes and completes in one transaction,   *)
(* or claims in a transaction of its own and executes and completes in a   *)
(* second one.  A key is an authenticated scope and a key.  A response is  *)
(* the attempt that gave it and the members of its body.                   *)
(***************************************************************************)
EXTENDS Naturals

CONSTANTS Attempts, Keys,
          KeyOf, DigestOf,   \* of an attempt: its key, and its request's digest
          Members,           \* body members
          Nobody,            \* no attempt
          Retention,         \* MinimumRetention, or the service's longer window
          MaxTime            \* bound: instants

ASSUME IdempotencyConstants ==
  /\ Nobody \notin Attempts
  /\ KeyOf \in [Attempts -> Keys]
  /\ Retention \in Nat \ {0} /\ MaxTime \in Nat \ {0}

VARIABLES
  now,
  pc,
  started,        \* now() of the attempt's transaction
  recorded,       \* the body members its uncommitted transaction records
  answer,         \* what the caller was told
  replayed,       \* whose response it was told
  \* platform.idempotency_key
  inserting,      \* the attempt whose uncommitted transaction holds the row
  claimant,       \* Nobody: no row; the attempt whose digest the row has
  completed_at, response, response_body,
  \* history
  effects,        \* attempts whose command was executed
  claimed         \* the instant of an attempt's claim

row      == <<inserting, claimant, completed_at, response, response_body>>
told     == <<answer, replayed>>
history  == <<effects, claimed>>
vars     == <<now, pc, started, recorded, told, row, history>>

Answers == {"none", "executed", "replay", "conflict", "in_progress", "error"}

TypeOK ==
  /\ now \in 1..MaxTime
  /\ pc \in [Attempts -> {"idle", "begun", "read", "claimed", "working", "completed", "done"}]
  /\ started \in [Attempts -> 0..MaxTime]
  /\ recorded \in [Attempts -> SUBSET Members]
  /\ answer \in [Attempts -> Answers]
  /\ replayed \in [Attempts -> {Nobody} \cup Attempts]
  /\ inserting \in [Keys -> {Nobody} \cup Attempts]
  /\ claimant \in [Keys -> {Nobody} \cup Attempts]
  /\ completed_at \in [Keys -> 0..MaxTime]
  /\ response \in [Keys -> {Nobody} \cup Attempts]
  /\ response_body \in [Keys -> SUBSET Members]
  /\ effects \subseteq Attempts
  /\ claimed \in [Attempts -> 0..MaxTime]

Init ==
  /\ now = 1
  /\ pc = [a \in Attempts |-> "idle"]
  /\ started = [a \in Attempts |-> 0]
  /\ recorded = [a \in Attempts |-> {}]
  /\ answer = [a \in Attempts |-> "none"]
  /\ replayed = [a \in Attempts |-> Nobody]
  /\ inserting = [k \in Keys |-> Nobody]
  /\ claimant = [k \in Keys |-> Nobody]
  /\ completed_at = [k \in Keys |-> 0]
  /\ response = [k \in Keys |-> Nobody]
  /\ response_body = [k \in Keys |-> {}]
  /\ effects = {}
  /\ claimed = [a \in Attempts |-> 0]

To(a, step) == pc' = [pc EXCEPT ![a] = step]

Tell(a, what, of) ==
  /\ answer' = [answer EXCEPT ![a] = what]
  /\ replayed' = [replayed EXCEPT ![a] = of]

-----------------------------------------------------------------------------
(* Claim *)

\* A client's attempt arrives and its transaction begins.
Begin(a) ==
  /\ pc[a] = "idle"
  /\ started' = [started EXCEPT ![a] = now]
  /\ To(a, "begun")
  /\ UNCHANGED <<now, recorded, told, row, history>>

\* Mutant: a second claim does not wait for the first one's transaction.
FreeUncommitted(k) == claimant[k] = Nobody

\* INSERT ... ON CONFLICT waits while another transaction has inserted the row.
Free(k) == claimant[k] = Nobody /\ inserting[k] = Nobody

\* claimStatement: the row is inserted, or it exists and is read next.
Claim(a) ==
  LET k == KeyOf[a] IN
  /\ pc[a] = "begun"
  /\ \/ /\ Free(k)
        /\ inserting' = [inserting EXCEPT ![k] = a]
        /\ claimed' = [claimed EXCEPT ![a] = now]
        /\ To(a, "claimed")
     \/ /\ claimant[k] # Nobody
        /\ To(a, "read")
        /\ UNCHANGED <<inserting, claimed>>
  /\ UNCHANGED <<now, started, recorded, told, claimant, completed_at, response,
                 response_body, effects>>

\* Mutant: the stored digest is not compared.
VerdictUncompared(a) ==
  LET k == KeyOf[a]
  IN IF claimant[k] = Nobody THEN "error"
     ELSE IF completed_at[k] = 0 THEN "in_progress"
     ELSE "replay"

\* What the row says to attempt a.  A row purged since the insert is an error.
Verdict(a) ==
  LET k == KeyOf[a]
  IN IF claimant[k] = Nobody THEN "error"
     ELSE IF DigestOf[claimant[k]] # DigestOf[a] THEN "conflict"
     ELSE IF completed_at[k] = 0 THEN "in_progress"
     ELSE "replay"

\* readStatement.
Read(a) ==
  /\ pc[a] = "read"
  /\ To(a, "done")
  /\ Tell(a, Verdict(a), IF Verdict(a) = "replay" THEN response[KeyOf[a]] ELSE Nobody)
  /\ UNCHANGED <<now, started, recorded, row, history>>

\* The claim commits on its own, and the command runs in a second transaction.
CommitClaim(a) ==
  LET k == KeyOf[a] IN
  /\ pc[a] = "claimed"
  /\ inserting' = [inserting EXCEPT ![k] = Nobody]
  /\ claimant' = [claimant EXCEPT ![k] = a]
  /\ started' = [started EXCEPT ![a] = now]
  /\ To(a, "working")
  /\ UNCHANGED <<now, recorded, told, completed_at, response, response_body, history>>

-----------------------------------------------------------------------------
(* Complete *)

\* CompleteWithheld refuses to name nothing, or what is not in the body.
Withheld(members, pointers) == pointers # {} /\ pointers \subseteq members

\* completeStatement finds the row the attempt claimed.
Claimed(a) ==
  LET k == KeyOf[a]
  IN \/ inserting[k] = a
     \/ claimant[k] # Nobody /\ DigestOf[claimant[k]] = DigestOf[a] /\ completed_at[k] = 0

\* The command is executed and its response recorded in the same transaction,
\* whole by Complete, and by CompleteWithheld without the members the pointers
\* name.  A member that ought to be withheld and is not named is recorded.
Complete(a, members, pointers) ==
  /\ pc[a] \in {"claimed", "working"}
  /\ Claimed(a)
  /\ pointers = {} \/ Withheld(members, pointers)
  /\ recorded' = [recorded EXCEPT ![a] = members \ pointers]
  /\ To(a, "completed")
  /\ UNCHANGED <<now, started, told, row, history>>

\* The transaction commits.  The caller hears of it, or of an error only.
Commit(a, what) ==
  LET k == KeyOf[a] IN
  /\ pc[a] = "completed"
  /\ inserting' = [inserting EXCEPT ![k] = Nobody]
  /\ claimant' = [claimant EXCEPT ![k] = a]
  /\ completed_at' = [completed_at EXCEPT ![k] = started[a]]
  /\ response' = [response EXCEPT ![k] = a]
  /\ response_body' = [response_body EXCEPT ![k] = recorded[a]]
  /\ effects' = effects \cup {a}
  /\ Tell(a, what, Nobody)
  /\ To(a, "done")
  /\ UNCHANGED <<now, started, recorded, claimed>>

\* Mutant: the transaction of a function that failed is left open.
RollbackLeaked(a) ==
  /\ pc[a] \notin {"idle", "done"}
  /\ Tell(a, "error", Nobody)
  /\ To(a, "done")
  /\ UNCHANGED <<now, started, recorded, row, history>>

\* An error or a crash rolls the open transaction back; a claim that was
\* committed stays.
Rollback(a) ==
  LET k == KeyOf[a] IN
  /\ pc[a] \notin {"idle", "done"}
  /\ inserting' = [inserting EXCEPT ![k] = IF @ = a THEN Nobody ELSE @]
  /\ Tell(a, "error", Nobody)
  /\ To(a, "done")
  /\ UNCHANGED <<now, started, recorded, claimant, completed_at, response,
                 response_body, history>>

-----------------------------------------------------------------------------
(* Retention *)

\* Mutant: a key is purged by the age of its claim.
ExpiredClaim(k) == claimant[k] # Nobody /\ started[claimant[k]] + Retention <= now

\* purge_idempotency_keys.
Expired(k) == completed_at[k] # 0 /\ completed_at[k] + Retention <= now

PurgeCompleted ==
  LET gone == {k \in Keys : claimant[k] # Nobody /\ Expired(k)}
      Clear(f, none) == [k \in Keys |-> IF k \in gone THEN none ELSE f[k]]
  IN /\ gone # {}
     /\ claimant' = Clear(claimant, Nobody)
     /\ completed_at' = Clear(completed_at, 0)
     /\ response' = Clear(response, Nobody)
     /\ response_body' = Clear(response_body, {})
     /\ UNCHANGED <<now, pc, started, recorded, told, inserting, history>>

Tick ==
  /\ now < MaxTime
  /\ now' = now + 1
  /\ UNCHANGED <<pc, started, recorded, told, row, history>>

Next ==
  \/ \E a \in Attempts :
       \/ Begin(a) \/ Claim(a) \/ Read(a) \/ CommitClaim(a) \/ Rollback(a)
       \/ \E what \in {"executed", "error"} : Commit(a, what)
       \/ \E members, pointers \in SUBSET Members : Complete(a, members, pointers)
  \/ PurgeCompleted
  \/ Tick

Spec == Init /\ [][Next]_vars

\* A command's function returns, and InTx then commits or rolls back.
Finish(a) ==
  /\ pc[a] \in {"claimed", "working", "completed"}
  /\ \/ CommitClaim(a) \/ Rollback(a)
     \/ \E what \in {"executed", "error"} : Commit(a, what)
     \/ \E members, pointers \in SUBSET Members : Complete(a, members, pointers)

\* The database answers a statement that waits for nobody.
FairSpec ==
  Spec /\ \A a \in Attempts : WF_vars(Claim(a)) /\ WF_vars(Read(a)) /\ WF_vars(Finish(a))

-----------------------------------------------------------------------------
(* Properties *)

\* A command is executed once per key, however its attempts interleave, fail or
\* are answered by an error after the commit.  Only a claim made a retention
\* window after the completion executes it again.
ExecutedOnce ==
  \A a, b \in effects :
    a # b /\ KeyOf[a] = KeyOf[b] =>
      \/ started[a] + Retention <= claimed[b]
      \/ started[b] + Retention <= claimed[a]

\* A replay answers what an executed command with the same digest answered.
ReplayIsTrue ==
  \A a \in Attempts : answer[a] = "replay" =>
    /\ replayed[a] \in effects
    /\ KeyOf[replayed[a]] = KeyOf[a] /\ DigestOf[replayed[a]] = DigestOf[a]

\* Whatever was executed can be replayed for the whole retention window, also
\* when the first caller heard of an error.
EffectHasResponse ==
  \A a \in effects :
    /\ pc[a] = "done"
    /\ response[KeyOf[a]] = a \/ started[a] + Retention <= now

\* The columns of a key agree: a completed row has the response of its claimant,
\* less what was withheld and no more, and an uncommitted insert stands alone.
ColumnsAgree ==
  \A k \in Keys :
    /\ inserting[k] # Nobody =>
         /\ KeyOf[inserting[k]] = k /\ pc[inserting[k]] \in {"claimed", "completed"}
         /\ claimant[k] = Nobody
    /\ claimant[k] # Nobody => KeyOf[claimant[k]] = k
    /\ IF completed_at[k] = 0
         THEN response[k] = Nobody /\ response_body[k] = {}
         ELSE /\ claimant[k] \in effects /\ response[k] = claimant[k]
              /\ completed_at[k] = started[claimant[k]]
              /\ response_body[k] = recorded[claimant[k]]

\* A command at work holds its uncompleted key: no purge and no other attempt
\* takes it, so completion never finds it gone.  What the key executed before
\* was over when it was claimed.
WorkIsClaimed ==
  \A a \in Attempts :
    LET k == KeyOf[a] IN
    pc[a] \in {"claimed", "working", "completed"} =>
      /\ \/ inserting[k] = a /\ pc[a] # "working"
         \/ claimant[k] = a /\ completed_at[k] = 0 /\ pc[a] # "claimed"
      /\ claimed[a] <= now
      /\ \A b \in effects : KeyOf[b] = k => started[b] + Retention <= claimed[a]

\* What the stored keys keep: every effect its response, every replay its
\* effect, every command at work its claim.
KeyInv ==
  /\ TypeOK /\ ColumnsAgree /\ WorkIsClaimed /\ EffectHasResponse /\ ReplayIsTrue
  /\ \A a \in Attempts : pc[a] # "idle" => started[a] # 0
  /\ \A a \in Attempts : pc[a] # "done" => answer[a] = "none" /\ replayed[a] = Nobody

\* No attempt waits for ever.  One that meets the open transaction of another is
\* answered after it ends, committed or rolled back, although further attempts
\* at the key wait with it and one of them may take the key first.
EveryAttemptAnswered == \A a \in Attempts : pc[a] = "begun" ~> pc[a] = "done"

\* The keys implement the ledger of commands: the response a key keeps is the
\* one its row has.
Ledger == INSTANCE CommandLedger WITH kept <- response, executed <- effects, told <- answer

ImplementsLedger == Ledger!LedgerSpec

=============================================================================
