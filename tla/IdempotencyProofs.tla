-------------------------- MODULE IdempotencyProofs --------------------------
(***************************************************************************)
(* Proofs about package idempotency.  Its keys, for any attempts, keys,    *)
(* digests, response members and retention: KeyInv is inductive, a command *)
(* is executed once per key and retention window, and the keys implement   *)
(* CommandLedger.  Its JSON pointers, for any response and pointers of any *)
(* length: a pointer that is accepted removes exactly the member it names. *)
(*                                                                         *)
(* Pointers are read by recursive functions on strings.  That such a       *)
(* function exists is proved (Iteration, SequenceRecursion), and what it   *)
(* computes follows by induction over a set of numbers or of sequences     *)
(* (NumbersByInduction, SequencesByInduction).  An index is a numeral, and *)
(* so is the version in the name of an event type: the names of event      *)
(* types, of any length, are settled here by the same facts.               *)
(***************************************************************************)
EXTENDS Idempotency, EventType, Withhold, WellFoundedInduction, TLAPS

(* The keys of commands *)

\* The key of an attempt is a key.
LEMMA KeyOfType == \A a \in Attempts : KeyOf[a] \in Keys
BY IdempotencyConstants, Zenon

\* Every step of the table keeps the types of its columns and of the attempts.
LEMMA TypeStep == TypeOK /\ [Next]_vars => TypeOK'
<1>. USE IdempotencyConstants, ZenonT(60)
<1> SUFFICES ASSUME TypeOK, [Next]_vars PROVE TypeOK'
  OBVIOUS
<1> USE KeyOfType DEF TypeOK
<1>0. CASE UNCHANGED vars
  BY <1>0 DEF vars, told, row, history
<1>1. ASSUME NEW a \in Attempts, Begin(a) PROVE TypeOK'
  BY <1>1, SMT DEF Begin, To, told, row, history
<1>2. ASSUME NEW a \in Attempts, Claim(a) PROVE TypeOK'
  <2>1. pc' \in [Attempts -> {"idle", "begun", "read", "claimed", "working", "completed", "done"}]
    BY <1>2, SMT DEF Claim, To
  <2>2. inserting' \in [Keys -> {Nobody} \cup Attempts] /\ claimed' \in [Attempts -> 0..MaxTime]
    BY <1>2, SMT DEF Claim
  <2> QED
    BY <1>2, <2>1, <2>2 DEF Claim, told
<1>3. ASSUME NEW a \in Attempts, Read(a) PROVE TypeOK'
  <2>1. Verdict(a) \in Answers
    BY DEF Verdict, Answers
  <2> QED
    BY <1>3, <2>1 DEF Read, To, Tell, row, history
<1>4. ASSUME NEW a \in Attempts, CommitClaim(a) PROVE TypeOK'
  BY <1>4, SMT DEF CommitClaim, To, told, history
<1>5. ASSUME NEW a \in Attempts, Rollback(a) PROVE TypeOK'
  BY <1>5 DEF Rollback, To, Tell, history, Answers
<1>6. ASSUME NEW a \in Attempts, NEW what \in {"executed", "error"}, Commit(a, what) PROVE TypeOK'
  BY <1>6 DEF Commit, To, Tell, Answers
<1>7. ASSUME NEW a \in Attempts, NEW members \in SUBSET Members, NEW pointers \in SUBSET Members,
             Complete(a, members, pointers) PROVE TypeOK'
  BY <1>7 DEF Complete, To, told, row, history
<1>8. CASE PurgeCompleted
  BY <1>8, SMT DEF PurgeCompleted, told, history
<1>9. CASE Tick
  BY <1>9, SMT DEF Tick, told, row, history
<1> HIDE DEF TypeOK
<1> QED
  BY <1>0, <1>1, <1>2, <1>3, <1>4, <1>5, <1>6, <1>7, <1>8, <1>9 DEF Next

-----------------------------------------------------------------------------
\* An attempt at work is alone with its key, which has no response yet.
LEMMA Alone ==
  ASSUME KeyInv, NEW a \in Attempts, pc[a] \in {"claimed", "working", "completed"}
  PROVE  /\ completed_at[KeyOf[a]] = 0 /\ response[KeyOf[a]] = Nobody
         /\ response_body[KeyOf[a]] = {}
         /\ inserting[KeyOf[a]] \in {Nobody, a} /\ claimant[KeyOf[a]] \in {Nobody, a}
         /\ \A b \in Attempts :
              pc[b] \in {"claimed", "working", "completed"} /\ KeyOf[b] = KeyOf[a] => b = a
BY IdempotencyConstants, KeyOfType, SMT DEF KeyInv, TypeOK, ColumnsAgree, WorkIsClaimed

\* A key without a row has executed nothing within the retention window.
LEMMA FreeIsOver ==
  ASSUME KeyInv, NEW a \in Attempts, Free(KeyOf[a]), NEW b \in effects, KeyOf[b] = KeyOf[a]
  PROVE  started[b] + Retention <= now
BY IdempotencyConstants, KeyOfType, SMT DEF KeyInv, TypeOK, ColumnsAgree, EffectHasResponse, Free

\* A step of one attempt that leaves the rows and the effects alone: only what
\* it is told, and that it was not at work, remain to be shown.
LEMMA QuietStep ==
  ASSUME KeyInv, TypeOK', NEW a \in Attempts, NEW step, To(a, step),
         UNCHANGED <<now, row, history>>,
         a \notin effects,
         \A b \in Attempts \ {a} : started'[b] = started[b] /\ recorded'[b] = recorded[b],
         \A k \in Keys : inserting[k] = a => step \in {"claimed", "completed"},
         step \in {"claimed", "working", "completed"} =>
           pc[a] \in {"claimed", "working", "completed"}
             /\ (step = pc[a] \/ step = "completed")
  PROVE  ColumnsAgree' /\ WorkIsClaimed' /\ EffectHasResponse'
<1>. USE IdempotencyConstants, ZenonT(60)
<1> USE KeyOfType DEF row, history, To
<1> \A b \in Attempts \ {a} : pc'[b] = pc[b]
  BY DEF KeyInv, TypeOK
<1> pc'[a] = step
  BY SMT DEF KeyInv, TypeOK
<1>1. ColumnsAgree'
  BY SMT DEF KeyInv, TypeOK, ColumnsAgree
<1>2. WorkIsClaimed'
  BY SMT DEF KeyInv, TypeOK, WorkIsClaimed
<1>3. EffectHasResponse'
  BY SMT DEF KeyInv, TypeOK, EffectHasResponse
<1> QED
  BY <1>1, <1>2, <1>3

\* What the attempts that are over were told, and when those begun started.
Told ==
  /\ ReplayIsTrue
  /\ \A a \in Attempts : pc[a] # "idle" => started[a] # 0
  /\ \A a \in Attempts : pc[a] # "done" => answer[a] = "none" /\ replayed[a] = Nobody

\* A replay is of an effect, because the row's response is its claimant's.
LEMMA ToldStep == KeyInv /\ [Next]_vars => Told'
<1>. USE IdempotencyConstants, ZenonT(60)
<1> SUFFICES ASSUME KeyInv, [Next]_vars PROVE Told'
  OBVIOUS
<1> TypeOK /\ TypeOK' /\ Told
  BY TypeStep DEF KeyInv, Told
<1> USE KeyOfType DEF TypeOK, Told, ReplayIsTrue
<1>0. CASE UNCHANGED vars
  BY <1>0 DEF vars, told, row, history
<1>1. ASSUME NEW a \in Attempts, Begin(a) PROVE Told'
  BY <1>1, SMT DEF Begin, To, told, row, history
<1>2. ASSUME NEW a \in Attempts, Claim(a) PROVE Told'
  BY <1>2, SMT DEF Claim, To, told
<1>3. ASSUME NEW a \in Attempts, Read(a) PROVE Told'
  <2>1. Verdict(a) = "replay" =>
          /\ response[KeyOf[a]] \in effects /\ KeyOf[response[KeyOf[a]]] = KeyOf[a]
          /\ DigestOf[response[KeyOf[a]]] = DigestOf[a]
    BY SMT DEF Verdict, KeyInv, ColumnsAgree
  <2> QED
    BY <1>3, <2>1, SMT DEF Read, To, Tell, row, history
<1>4. ASSUME NEW a \in Attempts, CommitClaim(a) PROVE Told'
  BY <1>4, SMT DEF CommitClaim, To, told, history
<1>5. ASSUME NEW a \in Attempts, Rollback(a) PROVE Told'
  BY <1>5, SMT DEF Rollback, To, Tell, history
<1>6. ASSUME NEW a \in Attempts, NEW what \in {"executed", "error"}, Commit(a, what) PROVE Told'
  BY <1>6, SMT DEF Commit, To, Tell
<1>7. ASSUME NEW a \in Attempts, NEW members \in SUBSET Members, NEW pointers \in SUBSET Members,
             Complete(a, members, pointers) PROVE Told'
  BY <1>7, SMT DEF Complete, To, told, row, history
<1>8. CASE PurgeCompleted
  BY <1>8 DEF PurgeCompleted, told, history
<1>9. CASE Tick
  BY <1>9 DEF Tick, told, row, history
<1> HIDE DEF TypeOK, Told, ReplayIsTrue
<1> QED
  BY <1>0, <1>1, <1>2, <1>3, <1>4, <1>5, <1>6, <1>7, <1>8, <1>9 DEF Next

\* What the table keeps of the commands at work and of those executed.
Rows == ColumnsAgree /\ WorkIsClaimed /\ EffectHasResponse

\* An attempt takes a key only when what it executed before is over, and a
\* purge takes only the rows of commands that are.
LEMMA RowsStep == KeyInv /\ [Next]_vars => Rows'
<1>. USE IdempotencyConstants, ZenonT(60)
<1> SUFFICES ASSUME KeyInv, [Next]_vars PROVE Rows'
  OBVIOUS
<1> TypeOK /\ TypeOK' /\ Rows
  BY TypeStep DEF KeyInv, Rows
<1> USE KeyOfType DEF Rows
<1>0. CASE UNCHANGED vars
  BY <1>0 DEF vars, told, row, history, ColumnsAgree, WorkIsClaimed, EffectHasResponse
<1>1. ASSUME NEW a \in Attempts, Begin(a) PROVE Rows'
  <2>1. a \notin effects /\ \A k \in Keys : inserting[k] # a
    BY <1>1, SMT DEF Begin, TypeOK, ColumnsAgree, EffectHasResponse
  <2>2. \A b \in Attempts \ {a} : started'[b] = started[b] /\ recorded'[b] = recorded[b]
    BY <1>1 DEF Begin, TypeOK
  <2> QED
    BY <1>1, <2>1, <2>2, QuietStep DEF Begin
<1>2. ASSUME NEW a \in Attempts, Claim(a) PROVE Rows'
  <2>0. a \notin effects /\ \A k \in Keys : inserting[k] # a
    BY <1>2, SMT DEF Claim, TypeOK, ColumnsAgree, EffectHasResponse
  <2>1. CASE To(a, "read") /\ UNCHANGED <<inserting, claimed>>
    BY <1>2, <2>0, <2>1, QuietStep DEF Claim, row, history
  <2>2. CASE /\ Free(KeyOf[a]) /\ To(a, "claimed")
             /\ inserting' = [inserting EXCEPT ![KeyOf[a]] = a]
             /\ claimed' = [claimed EXCEPT ![a] = now]
    <3>1. \A b \in effects : KeyOf[b] = KeyOf[a] => started[b] + Retention <= now
      BY <2>2, FreeIsOver
    <3>2. ColumnsAgree'
      BY <1>2, <2>2, SMT DEF Claim, To, Free, TypeOK, ColumnsAgree
    <3>3. WorkIsClaimed'
      BY <1>2, <2>0, <2>2, <3>1, SMT DEF Claim, To, Free, TypeOK, WorkIsClaimed
    <3>4. EffectHasResponse'
      BY <1>2, <2>0, <2>2 DEF Claim, To, TypeOK, EffectHasResponse
    <3> QED
      BY <3>2, <3>3, <3>4
  <2> QED
    BY <1>2, <2>1, <2>2 DEF Claim
<1>3. ASSUME NEW a \in Attempts, Read(a) PROVE Rows'
  <2>1. a \notin effects /\ \A k \in Keys : inserting[k] # a
    BY <1>3, SMT DEF Read, TypeOK, ColumnsAgree, EffectHasResponse
  <2> QED
    BY <1>3, <2>1, QuietStep DEF Read
<1>4. ASSUME NEW a \in Attempts, CommitClaim(a) PROVE Rows'
  <2> USE <1>4 DEF CommitClaim, To, told, history
  <2>1. /\ inserting[KeyOf[a]] = a /\ claimant[KeyOf[a]] = Nobody
        /\ completed_at[KeyOf[a]] = 0 /\ a \notin effects
    BY Alone, SMT DEF TypeOK, ColumnsAgree, WorkIsClaimed, EffectHasResponse
  <2>2. ColumnsAgree'
    BY <2>1, SMT DEF TypeOK, ColumnsAgree, EffectHasResponse
  <2>3. WorkIsClaimed'
    BY <2>1, Alone, SMT DEF TypeOK, WorkIsClaimed
  <2>4. EffectHasResponse'
    BY <2>1, SMT DEF TypeOK, EffectHasResponse
  <2> QED
    BY <2>2, <2>3, <2>4
<1>5. ASSUME NEW a \in Attempts, Rollback(a) PROVE Rows'
  <2> USE <1>5 DEF Rollback, To, history
  <2>1. ColumnsAgree'
    BY SMT DEF TypeOK, ColumnsAgree
  <2>2. WorkIsClaimed'
    BY SMT DEF TypeOK, WorkIsClaimed
  <2>3. EffectHasResponse'
    BY DEF TypeOK, EffectHasResponse
  <2> QED
    BY <2>1, <2>2, <2>3
<1>6. ASSUME NEW a \in Attempts, NEW what \in {"executed", "error"}, Commit(a, what) PROVE Rows'
  <2> USE <1>6 DEF Commit, To
  <2>1. started[a] # 0
    BY DEF KeyInv
  <2>2. ColumnsAgree'
    BY <2>1, Alone, SMT DEF TypeOK, ColumnsAgree
  <2>3. WorkIsClaimed'
    BY Alone, SMT DEF TypeOK, WorkIsClaimed
  <2>4. EffectHasResponse'
    <3>1. \A b \in effects : KeyOf[b] = KeyOf[a] => started[b] + Retention <= now
      BY SMT DEF TypeOK, WorkIsClaimed
    <3> QED
      BY <3>1, SMT DEF TypeOK, EffectHasResponse
  <2> QED
    BY <2>2, <2>3, <2>4
<1>7. ASSUME NEW a \in Attempts, NEW members \in SUBSET Members, NEW pointers \in SUBSET Members,
             Complete(a, members, pointers) PROVE Rows'
  <2>1. a \notin effects
    BY <1>7 DEF Complete, TypeOK, EffectHasResponse
  <2>2. \A b \in Attempts \ {a} : started'[b] = started[b] /\ recorded'[b] = recorded[b]
    BY <1>7 DEF Complete, TypeOK
  <2> QED
    BY <1>7, <2>1, <2>2, QuietStep DEF Complete
<1>8. CASE PurgeCompleted
  <2> USE <1>8 DEF PurgeCompleted, Expired, told, history
  <2>1. ColumnsAgree'
    BY DEF TypeOK, ColumnsAgree
  <2>2. WorkIsClaimed'
    BY DEF TypeOK, ColumnsAgree, WorkIsClaimed
  <2>3. EffectHasResponse'
    BY SMT DEF TypeOK, ColumnsAgree, EffectHasResponse
  <2> QED
    BY <2>1, <2>2, <2>3
<1>9. CASE Tick
  BY <1>9, SMT DEF Tick, told, row, history, TypeOK, ColumnsAgree, WorkIsClaimed, EffectHasResponse
<1> QED
  BY <1>0, <1>1, <1>2, <1>3, <1>4, <1>5, <1>6, <1>7, <1>8, <1>9 DEF Next

-----------------------------------------------------------------------------
\* KeyInv holds of the empty table and is kept by every step of Claim,
\* Complete, a rollback, a commit and the purge.
THEOREM KeysKept == Spec => []KeyInv
<1>. USE IdempotencyConstants, ZenonT(60)
<1>1. Init => KeyInv
  BY KeyOfType, SMT DEF Init, KeyInv, TypeOK, Answers, ColumnsAgree, WorkIsClaimed,
         EffectHasResponse, ReplayIsTrue
<1>2. KeyInv /\ [Next]_vars => KeyInv'
  <2> SUFFICES ASSUME KeyInv, [Next]_vars PROVE KeyInv'
    OBVIOUS
  <2>1. TypeOK' /\ Rows' /\ Told'
    BY TypeStep, RowsStep, ToldStep DEF KeyInv
  <2> QED
    BY <2>1 DEF KeyInv, Rows, Told
<1> QED
  BY <1>1, <1>2, PTL DEF Spec

\* A command takes effect once per key: the claim of a second execution was
\* made a retention window after the first one's completion.
THEOREM CommandExecutedOnce == Spec => []ExecutedOnce
<1>. USE IdempotencyConstants, ZenonT(60)
<1>1. Init => ExecutedOnce
  BY DEF Init, ExecutedOnce
<1>2. KeyInv /\ ExecutedOnce /\ [Next]_vars => ExecutedOnce'
  <2> SUFFICES ASSUME KeyInv, ExecutedOnce, [Next]_vars PROVE ExecutedOnce'
    OBVIOUS
  <2> TypeOK
    BY DEF KeyInv
  <2>1. \A b \in effects : started'[b] = started[b] /\ claimed'[b] = claimed[b]
    <3> SUFFICES ASSUME NEW b \in effects PROVE started'[b] = started[b] /\ claimed'[b] = claimed[b]
      OBVIOUS
    <3>1. b \in Attempts /\ pc[b] = "done"
      BY DEF KeyInv, TypeOK, EffectHasResponse
    <3>2. ASSUME NEW a \in Attempts, Begin(a) \/ Claim(a) \/ CommitClaim(a)
          PROVE  started'[b] = started[b] /\ claimed'[b] = claimed[b]
      BY <3>1, <3>2, SMT DEF Begin, Claim, CommitClaim, history, TypeOK
    <3>3. \/ \E a \in Attempts : Begin(a) \/ Claim(a) \/ CommitClaim(a)
          \/ started' = started /\ claimed' = claimed
      BY DEF Next, vars, history, Read, Rollback, Commit, Complete, PurgeCompleted, Tick
    <3> QED
      BY <3>2, <3>3
  <2>2. ASSUME NEW a \in Attempts, NEW what \in {"executed", "error"}, Commit(a, what)
        PROVE  ExecutedOnce'
    <3>1. \A b \in effects : KeyOf[b] = KeyOf[a] => started[b] + Retention <= claimed[a]
      BY <2>2 DEF Commit, KeyInv, WorkIsClaimed
    <3>2. effects' = effects \cup {a} /\ UNCHANGED <<started, claimed>>
      BY <2>2 DEF Commit
    <3> QED
      BY <3>1, <3>2 DEF ExecutedOnce
  <2>3. CASE effects' = effects
    BY <2>1, <2>3 DEF ExecutedOnce
  <2>4. effects' = effects \/ \E a \in Attempts, what \in {"executed", "error"} : Commit(a, what)
    BY DEF Next, vars, told, row, history, Begin, Claim, Read, CommitClaim, Rollback, Complete,
           PurgeCompleted, Tick
  <2> QED
    BY <2>2, <2>3, <2>4
<1> QED
  BY KeysKept, <1>1, <1>2, PTL DEF Spec

-----------------------------------------------------------------------------
\* A step of the table is a step of the ledger of commands, or none.
LEMMA LedgerStep ==
  KeyInv /\ [Next]_vars => [Ledger!LedgerNext]_<<response, effects, answer, replayed>>
<1>. USE IdempotencyConstants, ZenonT(60)
<1> SUFFICES ASSUME KeyInv, [Next]_vars
             PROVE  Ledger!LedgerNext \/ UNCHANGED <<response, effects, answer, replayed>>
  OBVIOUS
<1> USE KeyOfType DEF told, row, history
<1>0. TypeOK
  BY DEF KeyInv
<1>1. ASSUME NEW a \in Attempts, Read(a) PROVE Ledger!LedgerNext
  <2>0. answer[a] = "none" /\ replayed[a] = Nobody
    BY <1>1 DEF Read, KeyInv
  <2>1. CASE Verdict(a) = "replay"
    <3>1. /\ response[KeyOf[a]] \in effects
          /\ DigestOf[response[KeyOf[a]]] = DigestOf[a]
      BY <2>1 DEF Verdict, KeyInv, ColumnsAgree
    <3>2. Ledger!Repeat(a)
      BY <1>1, <2>0, <2>1, <3>1 DEF Read, Tell, Ledger!Repeat, Ledger!Answer
    <3> QED
      BY <3>2 DEF Ledger!LedgerNext
  <2>2. CASE Verdict(a) # "replay"
    <3>1. replayed' = replayed
      BY <1>0, <1>1, <2>0, <2>2 DEF Read, Tell, TypeOK
    <3>2. Verdict(a) = "conflict" =>
            \E b \in Attempts : KeyOf[b] = KeyOf[a] /\ DigestOf[b] # DigestOf[a]
      BY <1>0, SMT DEF Verdict, TypeOK, KeyInv, ColumnsAgree
    <3>3. Verdict(a) \in {"conflict", "in_progress", "error"}
      BY <2>2 DEF Verdict
    <3>4. Ledger!Refuse(a, Verdict(a))
      BY <1>1, <2>0, <3>1, <3>2 DEF Read, Tell, Ledger!Refuse, Ledger!Answer
    <3> QED
      BY <3>3, <3>4 DEF Ledger!LedgerNext
  <2> QED
    BY <2>1, <2>2
<1>2. ASSUME NEW a \in Attempts, Rollback(a) PROVE Ledger!LedgerNext
  <2>1. answer[a] = "none" /\ replayed[a] = Nobody
    BY <1>2 DEF Rollback, KeyInv
  <2>2. replayed' = replayed
    BY <1>0, <1>2, <2>1 DEF Rollback, Tell, TypeOK
  <2>3. Ledger!Refuse(a, "error")
    BY <1>2, <2>1, <2>2 DEF Rollback, Tell, Ledger!Refuse, Ledger!Answer
  <2> QED
    BY <2>3 DEF Ledger!LedgerNext
<1>3. ASSUME NEW a \in Attempts, NEW what \in {"executed", "error"}, Commit(a, what)
      PROVE  Ledger!LedgerNext
  <2>1. answer[a] = "none" /\ replayed[a] = Nobody /\ response[KeyOf[a]] = Nobody
    BY <1>3, Alone DEF Commit, KeyInv
  <2>2. replayed' = replayed
    BY <1>0, <1>3, <2>1 DEF Commit, Tell, TypeOK
  <2>3. Ledger!Execute(a, what)
    BY <1>3, <2>1, <2>2 DEF Commit, Tell, Ledger!Execute, Ledger!Answer
  <2> QED
    BY <2>3 DEF Ledger!LedgerNext
<1>4. CASE PurgeCompleted
  <2> DEFINE gone == {k \in Keys : claimant[k] # Nobody /\ Expired(k)}
  <2>1. Ledger!Forget(gone)
    BY <1>4 DEF PurgeCompleted, Ledger!Forget
  <2> QED
    BY <2>1 DEF Ledger!LedgerNext
<1>5. \/ PurgeCompleted
      \/ \E a \in Attempts :
           Read(a) \/ Rollback(a) \/ \E what \in {"executed", "error"} : Commit(a, what)
      \/ UNCHANGED <<response, effects, answer, replayed>>
  BY DEF Next, vars, Begin, Claim, CommitClaim, Complete, Tick
<1> QED
  BY <1>1, <1>2, <1>3, <1>4, <1>5

\* The keys implement CommandLedger: one execution at a time is kept per key,
\* and only an attempt with its digest is told its response.
THEOREM KeysImplementLedger == Spec => ImplementsLedger
<1>. USE IdempotencyConstants, ZenonT(60)
<1>1. Init => Ledger!LedgerInit
  BY DEF Init, Ledger!LedgerInit
<1>2. KeyInv /\ [Next]_vars => [Ledger!LedgerNext]_(Ledger!ledger)
  BY LedgerStep DEF Ledger!ledger
<1> QED
  BY KeysKept, <1>1, <1>2, PTL DEF Spec, ImplementsLedger, Ledger!LedgerSpec

-----------------------------------------------------------------------------
(* Recursive functions, over numbers and over sequences *)

\* A set that holds zero, and with a number its successor, holds every number.
LEMMA NumbersByInduction ==
  ASSUME NEW T, 0 \in T, \A n \in Nat : n \in T => n + 1 \in T
  PROVE  Nat \subseteq T
<1>. SUFFICES ASSUME NEW k \in Nat \ T PROVE FALSE
  OBVIOUS
<1>1. PICK n \in Nat \ T : \A y \in Nat \ T : ~(<<y, n>> \in OpToRel(<, Nat))
  BY WFMin, NatLessThanWellFounded, Zenon
<1>2. \A y \in Nat \ T : ~(y < n)
  BY <1>1, Zenon DEF OpToRel
<1>3. n # 0
  OBVIOUS
<1>4. n - 1 \in Nat /\ n - 1 < n /\ (n - 1) + 1 = n
  BY <1>3
<1> QED
  BY <1>2, <1>4, Zenon

\* g iterates a step on S, from x.
Iterates(g, S, x, step) ==
  /\ g \in [Nat -> S]
  /\ g[0] = x
  /\ \A n \in Nat : g[n + 1] = step[g[n]]

\* A step that stays in a set can be iterated: the recursive function that does
\* so exists.
LEMMA Iteration ==
  ASSUME NEW S, NEW x \in S, NEW step \in [S -> S]
  PROVE  \E g : Iterates(g, S, x, step)
<1>. DEFINE Orbit(h, n) == /\ h \in [0..n -> S]
                           /\ h[0] = x
                           /\ \A i \in 1..n : h[i] = step[h[i - 1]]
            g == [n \in Nat |-> (CHOOSE h : Orbit(h, n))[n]]
<1>1. \A n \in Nat : \E h : Orbit(h, n)
  <2>. DEFINE T == {n \in Nat : \E h : Orbit(h, n)}
  <2>1. 0 \in T
    <3>1. Orbit([i \in 0..0 |-> x], 0)
      OBVIOUS
    <3> QED
      BY <3>1, Zenon
  <2>2. ASSUME NEW n \in Nat, NEW h, Orbit(h, n)
        PROVE  Orbit([i \in 0..(n + 1) |-> IF i = n + 1 THEN step[h[n]] ELSE h[i]], n + 1)
    BY <2>2
  <2>. HIDE DEF Orbit
  <2>3. \A n \in Nat : n \in T => n + 1 \in T
    <3>. SUFFICES ASSUME NEW n \in Nat, n \in T PROVE n + 1 \in T
      BY Zenon
    <3>1. PICK h : Orbit(h, n)
      BY Zenon
    <3>2. \E k : Orbit(k, n + 1)
      BY <3>1, <2>2, Zenon
    <3>3. n + 1 \in Nat
      OBVIOUS
    <3> QED
      BY <3>2, <3>3, Zenon
  <2>. HIDE DEF T
  <2>4. Nat \subseteq T
    BY <2>1, <2>3, NumbersByInduction, Zenon
  <2> QED
    BY <2>4, Zenon DEF T
<1>2. ASSUME NEW m \in Nat, NEW h, NEW k, Orbit(h, m), Orbit(k, m + 1)
      PROVE  h[m] = k[m]
  <2>. DEFINE T == {i \in Nat : i <= m => h[i] = k[i]}
  <2>1. 0 \in T
    BY <1>2
  <2>2. \A n \in Nat : n \in T => n + 1 \in T
    BY <1>2
  <2>. HIDE DEF T
  <2>3. Nat \subseteq T
    BY <2>1, <2>2, NumbersByInduction, Zenon
  <2> QED
    BY <2>3 DEF T
<1>. HIDE DEF Orbit
<1>3. \A n \in Nat : Orbit(CHOOSE h : Orbit(h, n), n)
  BY <1>1, Zenon
<1>4. g \in [Nat -> S]
  <2>1. \A n \in Nat : n \in 0..n
    OBVIOUS
  <2> QED
    BY <1>3, <2>1, Zenon DEF Orbit
<1>5. g[0] = x
  BY <1>3, Zenon DEF Orbit
<1>6. ASSUME NEW n \in Nat PROVE g[n + 1] = step[g[n]]
  <2>. DEFINE h == CHOOSE h : Orbit(h, n)
              k == CHOOSE k : Orbit(k, n + 1)
  <2>1. Orbit(h, n) /\ Orbit(k, n + 1)
    BY <1>3
  <2>2. h[n] = k[n]
    BY <2>1, <1>2, Zenon
  <2>3. k[n + 1] = step[k[n]]
    <3>. HIDE DEF h, k
    <3> QED
      BY <2>1 DEF Orbit
  <2>4. g[n] = h[n] /\ g[n + 1] = k[n + 1]
    <3>1. n + 1 \in Nat
      OBVIOUS
    <3> QED
      BY <3>1, Zenon
  <2> QED
    BY <2>2, <2>3, <2>4, Zenon
<1>. HIDE DEF g
<1> QED
  BY <1>4, <1>5, <1>6, Zenon DEF Iterates

-----------------------------------------------------------------------------

\* A sequence that is not empty is its front and its last element.
LEMMA FrontLast ==
  ASSUME NEW A, NEW s \in Seq(A)
  PROVE  /\ s # <<>> => Front(s) \in Seq(A) /\ Last(s) \in A /\ s = Append(Front(s), Last(s))
         /\ s # <<>> => Len(Front(s)) = Len(s) - 1 /\ Len(s) >= 1
<1>. SUFFICES ASSUME s # <<>>
              PROVE  /\ Front(s) \in Seq(A) /\ Last(s) \in A /\ s = Append(Front(s), Last(s))
                     /\ Len(Front(s)) = Len(s) - 1 /\ Len(s) >= 1
  OBVIOUS
<1>1. Len(s) \in Nat /\ Len(s) >= 1
  OBVIOUS
<1>2. Front(s) \in Seq(A) /\ Last(s) \in A /\ Len(Front(s)) = Len(s) - 1
  <2>1. Last(s) \in A
    BY <1>1 DEF Last
  <2>2. Front(s) = [i \in 1..(Len(s) - 1) |-> s[i]]
    BY <1>1 DEF Front
  <2>3. \A i \in 1..(Len(s) - 1) : s[i] \in A
    BY <1>1
  <2>4. Len(s) - 1 \in Nat
    BY <1>1
  <2> QED
    BY <2>1, <2>2, <2>3, <2>4
<1>3. \A i \in 1..(Len(s) - 1) : Front(s)[i] = s[i]
  BY <1>1 DEF Front
<1>4. Append(Front(s), Last(s)) \in Seq(A) /\ Len(Append(Front(s), Last(s))) = Len(s)
  BY <1>1, <1>2
<1>5. \A i \in 1..Len(s) : Append(Front(s), Last(s))[i] = s[i]
  BY <1>1, <1>2, <1>3 DEF Last
<1>6. s = Append(Front(s), Last(s))
  BY <1>4, <1>5
<1> QED
  BY <1>1, <1>2, <1>6

\* A sequence with one more element has the sequence in front and the element last.
LEMMA AppendFront ==
  ASSUME NEW A, NEW s \in Seq(A), NEW c \in A
  PROVE  /\ Append(s, c) \in Seq(A) /\ Append(s, c) # <<>>
         /\ Front(Append(s, c)) = s /\ Last(Append(s, c)) = c
         /\ Len(Append(s, c)) = Len(s) + 1
BY DEF Front, Last

\* A set that holds the empty sequence, and with a sequence those that are one
\* longer, holds every sequence.
LEMMA SequencesByInduction ==
  ASSUME NEW A, NEW T, <<>> \in T, \A s \in Seq(A), c \in A : s \in T => Append(s, c) \in T
  PROVE  Seq(A) \subseteq T
<1>. DEFINE N == {n \in Nat : \A s \in Seq(A) : Len(s) = n => s \in T}
<1>1. 0 \in N
  <2>1. \A s \in Seq(A) : Len(s) = 0 => s = <<>>
    OBVIOUS
  <2> QED
    BY <2>1
<1>2. ASSUME NEW n \in Nat, n \in N PROVE n + 1 \in N
  <2>. SUFFICES ASSUME NEW s \in Seq(A), Len(s) = n + 1 PROVE s \in T
    OBVIOUS
  <2>1. s # <<>>
    OBVIOUS
  <2>2. Front(s) \in Seq(A) /\ Last(s) \in A /\ s = Append(Front(s), Last(s)) /\ Len(Front(s)) = n
    BY <2>1, FrontLast
  <2> QED
    BY <1>2, <2>2, Zenon
<1>. HIDE DEF N
<1>3. Nat \subseteq N
  BY <1>1, <1>2, NumbersByInduction, Zenon
<1>4. \A s \in Seq(A) : Len(s) \in Nat
  OBVIOUS
<1> QED
  BY <1>3, <1>4 DEF N

\* g is the function that step defines along a sequence.
Recurs(g, A, S, x, step) ==
  /\ g \in [Seq(A) -> S]
  /\ g[<<>>] = x
  /\ \A s \in Seq(A), c \in A : g[Append(s, c)] = step[<<g[s], s, c>>]

\* Such a function exists for any step that stays in a set.
LEMMA SequenceRecursion ==
  ASSUME NEW A, NEW S, NEW x \in S, NEW step \in [S \X Seq(A) \X A -> S]
  PROVE  \E g : Recurs(g, A, S, x, step)
<1>. DEFINE F == [Seq(A) -> S]
            next(h) == [s \in Seq(A) |-> IF s = <<>> THEN x ELSE step[<<h[Front(s)], Front(s), Last(s)>>]]
            up == [h \in F |-> next(h)]
            start == [s \in Seq(A) |-> x]
<1>1. start \in F
  OBVIOUS
<1>2. ASSUME NEW h \in F PROVE next(h) \in F
  <2>1. ASSUME NEW s \in Seq(A), s # <<>> PROVE step[<<h[Front(s)], Front(s), Last(s)>>] \in S
    <3>1. Front(s) \in Seq(A) /\ Last(s) \in A
      BY <2>1, FrontLast
    <3> QED
      BY <3>1
  <2> QED
    BY <2>1
<1>3. up \in [F -> F] /\ \A h \in F : up[h] = next(h)
  BY <1>2, Zenon
<1>. HIDE DEF up, start
<1>4. PICK g : Iterates(g, F, start, up)
  BY <1>1, <1>3, Iteration, Zenon
<1>5. g[0] = start /\ \A n \in Nat : g[n] \in F /\ g[n + 1] = next(g[n])
  BY <1>3, <1>4, Zenon DEF Iterates
<1>. DEFINE G == [s \in Seq(A) |-> g[Len(s)][s]]
<1>6. \A s \in Seq(A) : Len(s) \in Nat /\ g[Len(s)] \in F
  <2>1. \A s \in Seq(A) : Len(s) \in Nat
    OBVIOUS
  <2> QED
    BY <1>5, <2>1, Zenon
<1>7. G \in [Seq(A) -> S]
  BY <1>6
<1>8. G[<<>>] = x
  <2>1. <<>> \in Seq(A) /\ Len(<<>>) = 0
    OBVIOUS
  <2> QED
    BY <1>5, <2>1, Zenon DEF start
<1>9. ASSUME NEW s \in Seq(A), NEW c \in A PROVE G[Append(s, c)] = step[<<G[s], s, c>>]
  <2>. DEFINE t == Append(s, c)
  <2>1. /\ t \in Seq(A) /\ t # <<>> /\ Front(t) = s /\ Last(t) = c /\ Len(t) = Len(s) + 1
    BY AppendFront
  <2>. HIDE DEF t
  <2>2. Len(s) \in Nat /\ g[Len(s) + 1] = next(g[Len(s)])
    BY <1>5, <1>6, Zenon
  <2>3. G[t] = g[Len(s) + 1][t] /\ G[s] = g[Len(s)][s]
    BY <2>1
  <2>4. next(g[Len(s)])[t] = step[<<g[Len(s)][s], s, c>>]
    BY <2>1
  <2> QED
    BY <2>2, <2>3, <2>4, Zenon DEF t
<1>. HIDE DEF G
<1> QED
  BY <1>7, <1>8, <1>9, Zenon DEF Recurs

-----------------------------------------------------------------------------

-----------------------------------------------------------------------------
(* Decimal numerals *)

\* The digits of a number are characters that stand for them.
LEMMA DigitChars ==
  ASSUME NEW i \in 0..9
  PROVE  /\ Value(Digits[i + 1]) = i /\ IsDigit(Digits[i + 1])
         /\ Digits[i + 1] \in Glyphs /\ (Digits[i + 1] = "0" <=> i = 0)
<1>1. \A j \in 0..9 : Digits[j + 1] = Digits[i + 1] => j = i
  BY DEF Digits
<1>2. Digits[i + 1] = "0" <=> i = 0
  BY DEF Digits
<1>3. Value(Digits[i + 1]) = i
  BY <1>1, Zenon DEF Value
<1> QED
  BY <1>2, <1>3, PointerConstants, Zenon DEF IsDigit

\* Dividing by ten leaves fewer and a digit.
LEMMA TenthsAreFewer ==
  ASSUME NEW m \in Nat
  PROVE  /\ m \div 10 \in Nat /\ m % 10 \in 0..9 /\ m = 10 * (m \div 10) + (m % 10)
         /\ ~(m < 10) => m \div 10 < m /\ m \div 10 >= 1
OBVIOUS

\* Numeral, a digit at a time.
LEMMA NumeralDigits ==
  ASSUME NEW n \in Nat
  PROVE  /\ Numeral(n) \in Numerals
         /\ n < 10 => Numeral(n) = <<Digits[n + 1]>>
         /\ ~(n < 10) => Numeral(n) = Append(Numeral(n \div 10), Digits[(n % 10) + 1])
<1>. DEFINE F == [Nat -> Numerals]
            After(h, m) == IF m < 10 THEN <<Digits[m + 1]>>
                           ELSE Append(h[m \div 10], Digits[(m % 10) + 1])
            next(h) == [m \in Nat |-> After(h, m)]
            up == [h \in F |-> next(h)]
            start == [m \in Nat |-> <<>>]
            numeral == CHOOSE numeral : numeral = [m \in Nat |->
                         IF m < 10 THEN <<Digits[m + 1]>>
                         ELSE Append(numeral[m \div 10], Digits[(m % 10) + 1])]
<1>0. \A m : Numeral(m) = numeral[m]
  BY Zenon DEF Numeral
<1>1. start \in F
  BY DEF Numerals
<1>2. ASSUME NEW h \in F, NEW m \in Nat PROVE After(h, m) \in Numerals
  <2>1. Numerals = Seq(DigitSet)
    BY DEF Numerals
  <2>2. ASSUME NEW i \in 0..9 PROVE Digits[i + 1] \in DigitSet
    BY Zenon DEF DigitSet
  <2>3. m % 10 \in 0..9 /\ m \div 10 \in Nat
    BY TenthsAreFewer
  <2>4. CASE m < 10
    <3>1. m \in 0..9
      BY <2>4
    <3>2. Digits[m + 1] \in DigitSet
      BY <2>2, <3>1
    <3> QED
      BY <2>1, <2>4, <3>2
  <2>5. CASE ~(m < 10)
    <3>1. Digits[(m % 10) + 1] \in DigitSet /\ h[m \div 10] \in Seq(DigitSet)
      BY <2>1, <2>2, <2>3, Zenon
    <3> QED
      BY <2>1, <2>5, <3>1, AppendFront
  <2> QED
    BY <2>4, <2>5
<1>3. up \in [F -> F]
  BY <1>2
<1>4. PICK g : Iterates(g, F, start, up)
  <2>. HIDE DEF F, up, start
  <2> QED
    BY <1>1, <1>3, Iteration, Zenon
<1>5. ASSUME NEW k \in Nat, NEW m \in Nat PROVE g[k + 1][m] = After(g[k], m)
  <2>1. g[k] \in F /\ g[k + 1] = up[g[k]]
    BY <1>4, Zenon DEF Iterates
  <2>2. \A h \in F : up[h][m] = After(h, m)
    BY Zenon
  <2> QED
    BY <2>1, <2>2, Zenon
<1>. HIDE DEF F, up, start
<1>6. \A k \in Nat : \A m \in Nat : m < k => g[k + 1][m] = g[k][m]
  <2>. DEFINE T == {k \in Nat : \A m \in Nat : m < k => g[k + 1][m] = g[k][m]}
  <2>1. 0 \in T
    OBVIOUS
  <2>2. ASSUME NEW k \in Nat, k \in T PROVE k + 1 \in T
    <3>. SUFFICES ASSUME NEW m \in Nat, m < k + 1 PROVE g[(k + 1) + 1][m] = g[k + 1][m]
      OBVIOUS
    <3>0. k + 1 \in Nat
      OBVIOUS
    <3>1. g[(k + 1) + 1][m] = After(g[k + 1], m) /\ g[k + 1][m] = After(g[k], m)
      BY <1>5, <3>0, Zenon
    <3>2. ~(m < 10) => m \div 10 \in Nat /\ m \div 10 < k
      BY TenthsAreFewer
    <3>3. ~(m < 10) => g[k + 1][m \div 10] = g[k][m \div 10]
      BY <2>2, <3>2
    <3> QED
      BY <3>1, <3>3
  <2>. HIDE DEF T
  <2>3. Nat \subseteq T
    BY <2>1, <2>2, NumbersByInduction, Zenon
  <2> QED
    BY <2>3 DEF T
<1>7. \A q \in Nat : \A k \in Nat : g[q + 1 + k][q] = g[q + 1][q]
  <2>. SUFFICES ASSUME NEW q \in Nat PROVE \A k \in Nat : g[q + 1 + k][q] = g[q + 1][q]
    BY Zenon
  <2>. DEFINE T == {k \in Nat : g[q + 1 + k][q] = g[q + 1][q]}
  <2>1. 0 \in T
    OBVIOUS
  <2>2. ASSUME NEW k \in Nat, k \in T PROVE k + 1 \in T
    <3>1. q + 1 + k \in Nat /\ q < q + 1 + k /\ (q + 1 + k) + 1 = q + 1 + (k + 1)
      OBVIOUS
    <3>2. g[(q + 1 + k) + 1][q] = g[q + 1 + k][q]
      BY <1>6, <3>1
    <3> QED
      BY <2>2, <3>1, <3>2
  <2>. HIDE DEF T
  <2>3. Nat \subseteq T
    BY <2>1, <2>2, NumbersByInduction, Zenon
  <2> QED
    BY <2>3 DEF T
<1>. DEFINE G == [m \in Nat |-> g[m + 1][m]]
<1>8. G = [m \in Nat |-> After(G, m)]
  <2>1. ASSUME NEW m \in Nat PROVE g[m + 1][m] = After(G, m)
    <3>1. g[m + 1][m] = After(g[m], m)
      BY <1>5
    <3>2. ASSUME ~(m < 10) PROVE g[m][m \div 10] = G[m \div 10]
      <4>. DEFINE q == m \div 10
      <4>1. q \in Nat /\ q < m
        BY <3>2, TenthsAreFewer
      <4>. HIDE DEF q
      <4>2. m - (q + 1) \in Nat /\ q + 1 + (m - (q + 1)) = m
        BY <4>1
      <4>3. g[m][q] = g[q + 1][q]
        BY <1>7, <4>1, <4>2, Zenon
      <4> QED
        BY <4>1, <4>3 DEF q
    <3> QED
      BY <3>1, <3>2
  <2> QED
    BY <2>1, Zenon
<1>9. numeral = [m \in Nat |-> After(numeral, m)]
  <2>. HIDE DEF G
  <2> QED
    BY <1>8, Zenon
<1>. HIDE DEF G, numeral
<1>10. numeral \in F
  <2>. DEFINE T == {k \in Nat : \A m \in Nat : m < k => numeral[m] \in Numerals}
  <2>1. 0 \in T
    OBVIOUS
  <2>2. ASSUME NEW k \in Nat, k \in T PROVE k + 1 \in T
    <3>. SUFFICES ASSUME NEW m \in Nat, m < k + 1 PROVE numeral[m] \in Numerals
      OBVIOUS
    <3>. DEFINE h == [i \in Nat |-> IF i < k THEN numeral[i] ELSE <<>>]
    <3>1. h \in F
      BY <2>2 DEF F, Numerals
    <3>2. After(h, m) = After(numeral, m)
      BY TenthsAreFewer
    <3>3. numeral[m] = After(numeral, m)
      BY <1>9, Zenon
    <3> QED
      BY <1>2, <3>1, <3>2, <3>3, Zenon
  <2>. HIDE DEF T
  <2>3. Nat \subseteq T
    BY <2>1, <2>2, NumbersByInduction, Zenon
  <2>4. ASSUME NEW m \in Nat PROVE numeral[m] \in Numerals
    <3>1. m + 1 \in T /\ m < m + 1
      BY <2>3
    <3> QED
      BY <3>1 DEF T
  <2> QED
    BY <1>9, <2>4, Zenon DEF F
<1>11. numeral[n] \in Numerals /\ numeral[n] = After(numeral, n)
  BY <1>9, <1>10, Zenon DEF F
<1> QED
  BY <1>0, <1>11, Zenon

\* Decimal, a digit at a time.
LEMMA Reads ==
  /\ Decimal(<<>>) = 0
  /\ \A s \in Numerals : Decimal(s) \in Nat
  /\ \A s \in Numerals, c \in DigitSet : Decimal(Append(s, c)) = 10 * Decimal(s) + Value(c)
<1>. DEFINE After(v, c) == 10 * v + Value(c)
            step == [p \in Nat \X Numerals \X DigitSet |-> After(p[1], p[3])]
            read == CHOOSE read : read = [t \in Numerals |->
              IF t = <<>> THEN 0 ELSE After(read[Front(t)], Last(t))]
<1>0. \A s : Decimal(s) = read[s]
  BY Zenon DEF Decimal
<1>1. 0 \in Nat /\ <<>> \in Numerals
  BY DEF Numerals
<1>2. ASSUME NEW v \in Nat, NEW c \in DigitSet PROVE After(v, c) \in Nat
  <2>1. PICK i \in 0..9 : c = Digits[i + 1]
    BY Zenon DEF DigitSet
  <2>2. Value(c) = i
    BY <2>1, DigitChars, Zenon
  <2> QED
    BY <2>2
<1>3. step \in [Nat \X Numerals \X DigitSet -> Nat]
  BY <1>2, Zenon
<1>4. \A v \in Nat, s \in Numerals, c \in DigitSet : step[<<v, s, c>>] = After(v, c)
  BY Zenon
<1>. HIDE DEF After, step
<1>5. PICK g : Recurs(g, DigitSet, Nat, 0, step)
  BY <1>1, <1>3, SequenceRecursion, Zenon DEF Numerals
<1>6. g = [t \in Numerals |-> IF t = <<>> THEN 0 ELSE After(g[Front(t)], Last(t))]
  <2>1. ASSUME NEW t \in Numerals, t # <<>> PROVE g[t] = After(g[Front(t)], Last(t))
    <3>1. Front(t) \in Numerals /\ Last(t) \in DigitSet /\ t = Append(Front(t), Last(t))
      BY <2>1, FrontLast, Zenon DEF Numerals
    <3>2. /\ g[Front(t)] \in Nat
          /\ g[Append(Front(t), Last(t))] = step[<<g[Front(t)], Front(t), Last(t)>>]
      BY <1>5, <3>1, Zenon DEF Recurs, Numerals
    <3> QED
      BY <1>4, <3>1, <3>2, Zenon
  <2>2. g[<<>>] = 0 /\ g = [t \in Numerals |-> g[t]]
    BY <1>5 DEF Recurs, Numerals
  <2> QED
    BY <2>1, <2>2, Zenon
<1>7. read = [t \in Numerals |-> IF t = <<>> THEN 0 ELSE After(read[Front(t)], Last(t))]
  BY <1>6, Zenon
<1>. HIDE DEF read
<1>8. read[<<>>] = 0
  BY <1>1, <1>7
<1>9. \A s \in Numerals, c \in DigitSet : read[Append(s, c)] = After(read[s], c)
  <2>. SUFFICES ASSUME NEW s \in Numerals, NEW c \in DigitSet
                PROVE  read[Append(s, c)] = After(read[s], c)
    BY Zenon
  <2>1. /\ Append(s, c) \in Numerals /\ Append(s, c) # <<>>
        /\ Front(Append(s, c)) = s /\ Last(Append(s, c)) = c
    BY AppendFront, Zenon DEF Numerals
  <2> QED
    BY <1>7, <2>1, Zenon
<1>10. \A s \in Numerals : read[s] \in Nat
  <2>. DEFINE T == {s \in Numerals : read[s] \in Nat}
  <2>1. <<>> \in T
    BY <1>1, <1>8, Zenon
  <2>2. ASSUME NEW s \in Seq(DigitSet), NEW c \in DigitSet, s \in T PROVE Append(s, c) \in T
    BY <1>2, <1>9, <2>2, AppendFront, Zenon DEF Numerals
  <2>. HIDE DEF T
  <2>3. Seq(DigitSet) \subseteq T
    BY <2>1, <2>2, SequencesByInduction, Zenon
  <2> QED
    BY <2>3, Zenon DEF T, Numerals, DigitSet
<1> QED
  BY <1>0, <1>8, <1>9, <1>10, Zenon DEF After

\* Digits that start with none that is zero are the numeral of what they are
\* read as.
LEMMA ReadsAsWritten ==
  ASSUME NEW token \in Numerals, ArrayIndex(token)
  PROVE  Numeral(Decimal(token)) = token /\ Decimal(token) \in Nat
<1>. DEFINE T == {t \in Numerals : ArrayIndex(t) => /\ Numeral(Decimal(t)) = t
                                                    /\ t[1] # "0" => Decimal(t) >= 1}
<1>0. <<>> \in Numerals
  BY DEF Numerals
<1>1. <<>> \in T
  BY <1>0, Zenon DEF ArrayIndex
<1>2. ASSUME NEW t \in Seq(DigitSet), NEW c \in DigitSet, t \in T PROVE Append(t, c) \in T
  <2>. DEFINE s == Append(t, c)
              D == Decimal(t)
  <2>0. s \in Numerals /\ t \in Numerals
    BY AppendFront, Zenon DEF Numerals
  <2>. SUFFICES ASSUME ArrayIndex(s) PROVE Numeral(Decimal(s)) = s /\ (s[1] # "0" => Decimal(s) >= 1)
    BY <2>0, Zenon
  <2>1. PICK i \in 0..9 : c = Digits[i + 1]
    BY Zenon DEF DigitSet
  <2>2. Value(c) = i /\ (c = "0" <=> i = 0)
    BY <2>1, DigitChars, Zenon
  <2>3. Decimal(s) = 10 * D + i /\ D \in Nat /\ Decimal(<<>>) = 0
    BY <2>0, <2>2, Reads, Zenon
  <2>4. CASE t = <<>>
    <3>1. s = <<c>> /\ s[1] = c
      BY <2>4
    <3>2. Decimal(s) = i /\ i \in Nat /\ i < 10
      <4>1. 10 * 0 + i = i /\ i \in Nat /\ i < 10
        OBVIOUS
      <4> QED
        BY <2>3, <2>4, <4>1, Zenon
    <3>3. Numeral(i) = <<Digits[i + 1]>>
      BY <3>2, NumeralDigits, Zenon
    <3>4. i # 0 => i >= 1
      OBVIOUS
    <3> QED
      BY <2>1, <2>2, <3>1, <3>2, <3>3, <3>4, Zenon
  <2>5. CASE t # <<>>
    <3>1. Len(s) > 1 /\ s[1] = t[1]
      BY <2>5
    <3>2. t[1] # "0"
      BY <3>1, Zenon DEF ArrayIndex
    <3>3. \A j \in DOMAIN t : j \in DOMAIN s /\ s[j] = t[j]
      OBVIOUS
    <3>4. ArrayIndex(t)
      BY <2>5, <3>2, <3>3, Zenon DEF ArrayIndex
    <3>5. Numeral(D) = t /\ D >= 1
      BY <1>2, <3>2, <3>4, Zenon
    <3>. HIDE DEF D
    <3>. DEFINE n == 10 * D + i
    <3>6. n \in Nat /\ ~(n < 10) /\ n \div 10 = D /\ n % 10 = i /\ n >= 1
      BY <2>3, <3>5
    <3>. HIDE DEF n
    <3>7. Numeral(n) = Append(Numeral(D), Digits[i + 1])
      BY <3>6, NumeralDigits, Zenon
    <3> QED
      BY <2>1, <2>3, <3>5, <3>6, <3>7, Zenon DEF n
  <2> QED
    BY <2>4, <2>5, Zenon
<1>. HIDE DEF T
<1>3. Seq(DigitSet) \subseteq T
  BY <1>1, <1>2, SequencesByInduction, Zenon
<1> QED
  BY <1>3, Reads, Zenon DEF T, Numerals

\* A numeral is read as its number, and only that of zero starts with a zero.
CanonicalNumeral(n) ==
  /\ ArrayIndex(Numeral(n)) /\ Decimal(Numeral(n)) = n
  /\ n # 0 => Numeral(n)[1] # "0"

\* The numeral of a number is read as the number.
LEMMA WrittenReadsBack ==
  ASSUME NEW number \in Nat
  PROVE  CanonicalNumeral(number)
<1>. DEFINE T == {k \in Nat : \A n \in Nat : n < k => CanonicalNumeral(n)}
<1>1. 0 \in T
  OBVIOUS
<1>2. ASSUME NEW k \in Nat, k \in T PROVE k + 1 \in T
  <2>. SUFFICES ASSUME NEW n \in Nat, n < k + 1 PROVE CanonicalNumeral(n)
    OBVIOUS
  <2>1. CASE n < 10
    <3>1. Numeral(n) = <<Digits[n + 1]>>
      BY <2>1, NumeralDigits, Zenon
    <3>2. n \in 0..9
      BY <2>1
    <3>. DEFINE c == Digits[n + 1]
    <3>3. Value(c) = n /\ IsDigit(c) /\ (c = "0" <=> n = 0) /\ c \in DigitSet
      BY <3>2, DigitChars, Zenon DEF DigitSet
    <3>. HIDE DEF c
    <3>4. Append(<<>>, c) = <<c>> /\ <<c>> # <<>> /\ <<c>>[1] = c /\ ~(Len(<<c>>) > 1) /\ DOMAIN <<c>> = {1}
      OBVIOUS
    <3>5. <<>> \in Numerals /\ Decimal(<<>>) = 0
      BY Reads DEF Numerals
    <3>6. Decimal(<<c>>) = 10 * 0 + n
      BY <3>3, <3>4, <3>5, Reads, Zenon
    <3>7. ArrayIndex(<<c>>)
      BY <3>3, <3>4, Zenon DEF ArrayIndex
    <3>8. 10 * 0 + n = n
      OBVIOUS
    <3> QED
      BY <3>1, <3>3, <3>4, <3>6, <3>7, <3>8, Zenon DEF CanonicalNumeral, c
  <2>2. CASE ~(n < 10)
    <3>. DEFINE q == n \div 10
                i == n % 10
                c == Digits[i + 1]
                t == Numeral(q)
    <3>1. q \in Nat /\ q < k /\ q # 0 /\ i \in 0..9 /\ n = 10 * q + i
      BY <2>2, TenthsAreFewer
    <3>2. Numeral(n) = Append(t, c)
      BY <2>2, NumeralDigits, Zenon
    <3>. HIDE DEF q, i
    <3>3. CanonicalNumeral(q) /\ t \in Numerals
      BY <1>2, <3>1, NumeralDigits, Zenon
    <3>4. Value(c) = i /\ IsDigit(c) /\ c \in DigitSet
      BY <3>1, DigitChars, Zenon DEF DigitSet
    <3>. HIDE DEF c, t
    <3>5. t # <<>> /\ t[1] # "0" /\ (\A j \in DOMAIN t : IsDigit(t[j])) /\ Decimal(t) = q
      BY <3>1, <3>3, Zenon DEF CanonicalNumeral, ArrayIndex, t
    <3>6. Decimal(Append(t, c)) = n
      BY <3>1, <3>3, <3>4, <3>5, Reads, Zenon
    <3>7. /\ Append(t, c) # <<>> /\ Append(t, c)[1] = t[1]
          /\ \A j \in DOMAIN Append(t, c) : (j \in DOMAIN t /\ Append(t, c)[j] = t[j]) \/ Append(t, c)[j] = c
      BY <3>3, <3>4, <3>5 DEF Numerals
    <3>8. ArrayIndex(Append(t, c))
      BY <3>4, <3>5, <3>7, Zenon DEF ArrayIndex
    <3> QED
      BY <3>2, <3>5, <3>6, <3>7, <3>8, Zenon DEF CanonicalNumeral
  <2> QED
    BY <2>1, <2>2, Zenon
<1>. HIDE DEF T
<1>3. Nat \subseteq T
  BY <1>1, <1>2, NumbersByInduction, Zenon
<1>4. number + 1 \in T /\ number < number + 1
  BY <1>3
<1> QED
  BY <1>4, Zenon DEF T

-----------------------------------------------------------------------------
(* The names of event types *)

\* The characters of names, and every digit.
NameGlyphs == NameChars \cup {Digits[i + 1] : i \in 0..9}

\* A digit is not a sign.
LEMMA DigitsAreNoSigns == \A c : IsDigit(c) => c \notin Signs
<1>. SUFFICES ASSUME NEW i \in 0..9, Digits[i + 1] \in Signs PROVE FALSE
  BY Zenon DEF IsDigit
<1>1. Digits[i + 1] \in {"0", "1", "2", "3", "4", "5", "6", "7", "8", "9"}
  BY DEF Digits
<1> QED
  BY <1>1, Zenon DEF Signs

\* The numeral of a positive number is a sequence of digits that is read as it.
LEMMA NumeralReads ==
  ASSUME NEW n \in Nat \ {0}
  PROVE  /\ Numeral(n) \in Seq(NameGlyphs) /\ Len(Numeral(n)) >= 1
         /\ \A i \in 1..Len(Numeral(n)) : IsDigit(Numeral(n)[i])
         /\ Decimal(Numeral(n)) = n
<1>. DEFINE s == Numeral(n)
<1>1. s \in Numerals /\ CanonicalNumeral(n)
  BY NumeralDigits, WrittenReadsBack
<1>2. DigitSet \subseteq NameGlyphs
  BY Zenon DEF NameGlyphs, DigitSet
<1>3. /\ s # <<>> /\ (\A i \in DOMAIN s : IsDigit(s[i])) /\ Decimal(s) = n
  BY <1>1, Zenon DEF CanonicalNumeral, ArrayIndex
<1>. HIDE DEF s
<1>4. s \in Seq(NameGlyphs) /\ Len(s) >= 1 /\ DOMAIN s = 1..Len(s)
  BY <1>1, <1>2, <1>3 DEF Numerals
<1> QED
  BY <1>3, <1>4, Zenon DEF s

\* Atoi reads a number back from its numeral, and reads no number above MaxInt.
LEMMA AtoiReads ==
  /\ \A n \in Nat : n > 0 /\ n <= MaxInt => Atoi(Numeral(n)) = n
  /\ \A s \in Seq(NameGlyphs) : Atoi(s) > 1 => Atoi(s) \in Nat /\ Atoi(s) <= MaxInt
<1>1. ASSUME NEW n \in Nat, n > 0, n <= MaxInt PROVE Atoi(Numeral(n)) = n
  <2>. DEFINE s == Numeral(n)
  <2>1. /\ s \in Seq(NameGlyphs) /\ Len(s) >= 1
        /\ \A i \in 1..Len(s) : IsDigit(s[i])
        /\ Decimal(s) = n
    BY <1>1, NumeralReads
  <2>. HIDE DEF s
  <2>2. s # <<>> /\ Head(s) = s[1] /\ 1 \in 1..Len(s) /\ DOMAIN s = 1..Len(s)
    BY <2>1
  <2>3. Head(s) \notin Signs
    BY <2>1, <2>2, DigitsAreNoSigns, Zenon
  <2>4. Head(s) # "-"
    BY <2>3, Zenon DEF Signs
  <2>5. Unsigned(s) = s
    BY <2>3, Zenon DEF Unsigned
  <2>6. ~(n > MaxInt)
    BY <1>1, TypeConstants
  <2>7. Atoi(s) = n
    BY <2>1, <2>2, <2>4, <2>5, <2>6, Zenon DEF Atoi
  <2> QED
    BY <2>7, Zenon DEF s
<1>2. ASSUME NEW s \in Seq(NameGlyphs), Atoi(s) > 1
      PROVE  Atoi(s) \in Nat /\ Atoi(s) <= MaxInt
  <2>. DEFINE u == Unsigned(s)
  <2>1. u \in Seq(NameGlyphs)
    <3>1. s # <<>> => Tail(s) \in Seq(NameGlyphs)
      OBVIOUS
    <3> QED
      BY <3>1, Zenon DEF Unsigned
  <2>2. DOMAIN u = 1..Len(u)
    BY <2>1
  <2>. HIDE DEF u
  <2>3. Atoi(s) = IF u = <<>> \/ (\E i \in DOMAIN u : ~IsDigit(u[i])) \/ Decimal(u) > MaxInt
                       THEN -1 ELSE IF Head(s) = "-" THEN -Decimal(u) ELSE Decimal(u)
    BY Zenon DEF Atoi, u
  <2>4. Atoi(s) # -1
    BY <1>2
  <2>5. /\ ~\E i \in DOMAIN u : ~IsDigit(u[i])
        /\ ~(Decimal(u) > MaxInt)
        /\ Atoi(s) \in {-Decimal(u), Decimal(u)}
    BY <2>3, <2>4, Zenon
  <2>6. Decimal(u) \in Nat
    <3>1. \A i \in 1..Len(u) : IsDigit(u[i])
      BY <2>2, <2>5, Zenon
    <3>2. \A i \in 1..Len(u) : u[i] \in DigitSet
      BY <3>1, Zenon DEF IsDigit, DigitSet
    <3>3. u \in Numerals
      BY <2>1, <3>2 DEF Numerals
    <3> QED
      BY <3>3, Reads, Zenon
  <2> QED
    BY <1>2, <2>5, <2>6, TypeConstants
<1> QED
  BY <1>1, <1>2, Zenon

\* A sequence with one more element in front.
LEMMA ConsSequence ==
  ASSUME NEW X, NEW x \in X, NEW s \in Seq(X)
  PROVE  /\ <<x>> \o s \in Seq(X) /\ Len(<<x>> \o s) = 1 + Len(s)
         /\ (<<x>> \o s)[1] = x /\ Tail(<<x>> \o s) = s
<1>. DEFINE v == <<x>> \o s
<1>1. <<x>> \in Seq(X) /\ Len(<<x>>) = 1 /\ <<x>>[1] = x /\ Len(s) \in Nat
  OBVIOUS
<1>2. v \in Seq(X) /\ Len(v) = 1 + Len(s) /\ v[1] = x
  BY <1>1
<1>3. ASSUME NEW i \in 1..Len(s) PROVE v[i + 1] = s[i]
  <2>1. i + 1 \in 1..(1 + Len(s)) /\ ~(i + 1 <= 1) /\ (i + 1) - 1 = i
    BY <1>1
  <2> QED
    BY <1>1, <2>1
<1>. HIDE DEF v
<1>4. Tail(v) \in Seq(X) /\ Len(Tail(v)) = Len(s)
  BY <1>1, <1>2
<1>5. ASSUME NEW i \in 1..Len(s) PROVE Tail(v)[i] = v[i + 1]
  BY <1>1, <1>2
<1>6. ASSUME NEW q \in Seq(X) PROVE q = [i \in 1..Len(q) |-> q[i]]
  OBVIOUS
<1>7. Tail(v) = s
  <2>. DEFINE t == Tail(v)
  <2>1. t = [i \in 1..Len(s) |-> t[i]] /\ s = [i \in 1..Len(s) |-> s[i]]
    BY <1>4, <1>6, Zenon
  <2>2. \A i \in 1..Len(s) : t[i] = s[i]
    BY <1>3, <1>5, Zenon
  <2>. HIDE DEF t
  <2>3. t = s
    BY <2>1, <2>2
  <2> QED
    BY <2>3 DEF t
<1> QED
  BY <1>2, <1>7 DEF v

\* The canonical name of a later version of an accepted contract.
LEMMA VersionedName ==
  ASSUME NEW t \in Seq(Seq(NameGlyphs)), Len(t) = SegmentsMin,
         \A i \in 1..SegmentsMin : ValidSegment(t[i]),
         NEW n \in Nat, n > 1, n <= MaxInt
  PROVE  LET c == Canonical(t, n)
         IN  ParseType(c) /\ Base(c) = t /\ MajorVersion(c) = n
<1>. DEFINE v == <<"v">> \o Numeral(n)
            c == Append(t, v)
<1>1. Canonical(t, n) = c
  BY DEF Canonical
<1>2. Numeral(n) \in Seq(NameGlyphs) /\ Len(Numeral(n)) >= 1
  BY NumeralReads
<1>3. "v" \in NameGlyphs
  BY Zenon DEF NameGlyphs, NameChars, Letters
<1>4. v \in Seq(NameGlyphs) /\ Len(v) >= 2 /\ v[1] = "v" /\ Tail(v) = Numeral(n)
  <2>1. /\ v \in Seq(NameGlyphs) /\ Len(v) = 1 + Len(Numeral(n))
        /\ v[1] = "v" /\ Tail(v) = Numeral(n)
    BY <1>2, <1>3, ConsSequence, Zenon
  <2>2. PICK s \in Seq(NameGlyphs) : s = Numeral(n)
    BY <1>2, Zenon
  <2>3. Len(s) >= 1 /\ Len(v) = 1 + Len(s)
    BY <1>2, <2>1, <2>2, Zenon
  <2>. HIDE DEF v
  <2>4. Len(v) >= 2
    BY <2>3
  <2> QED
    BY <2>1, <2>4, Zenon
<1>5. Atoi(Tail(v)) = n
  <2>1. n > 0
    OBVIOUS
  <2> QED
    BY <1>4, <2>1, AtoiReads, Zenon
<1>6. SegmentsMax = SegmentsMin + 1 /\ SegmentsMin \in Nat
  BY TypeConstants DEF SegmentsMax
<1>. HIDE DEF v
<1>7. /\ c \in Seq(Seq(NameGlyphs)) /\ Len(c) = SegmentsMin + 1
      /\ c[SegmentsMin + 1] = v
      /\ \A i \in 1..SegmentsMin : c[i] = t[i]
  BY <1>4, <1>6
<1>8. SubSeq(c, 1, SegmentsMin) = t
  BY <1>4, <1>6
<1>. HIDE DEF c
<1>9. ValidVersionSegment(v)
  BY <1>4, <1>5 DEF ValidVersionSegment
<1>10. ParseType(c)
  BY <1>6, <1>7, <1>9, Zenon DEF ParseType
<1>11. Base(c) = t
  <2>1. SegmentsMax - 1 = SegmentsMin
    BY <1>6
  <2> QED
    BY <1>6, <1>7, <1>8, <2>1, Zenon DEF Base
<1>12. MajorVersion(c) = n
  <2>1. n # -1
    OBVIOUS
  <2> QED
    BY <1>5, <1>6, <1>7, <2>1, Zenon DEF MajorVersion
<1> QED
  BY <1>1, <1>10, <1>11, <1>12, Zenon

\* A candidate is made of characters.
NameInv == name \in Seq(Seq(NameGlyphs)) /\ Len(name) >= 1

\* What ParseType, Base and MajorVersion make of a candidate.
LEMMA NamesConclude == NameInv => NamesAgree
<1>. SUFFICES ASSUME NameInv, ParseType(name)
              PROVE  CanonicalIsAccepted /\ BaseIsVersionOne
  BY Zenon DEF NamesAgree, CanonicalIsAccepted, BaseIsVersionOne
<1>. DEFINE t == Base(name)
            n == MajorVersion(name)
<1>1. SegmentsMax = SegmentsMin + 1 /\ SegmentsMin \in Nat \ {0}
  BY TypeConstants DEF SegmentsMax
<1>2. /\ Len(name) \in {SegmentsMin, SegmentsMin + 1}
      /\ \A i \in 1..SegmentsMin : ValidSegment(name[i])
      /\ Len(name) = SegmentsMin + 1 => ValidVersionSegment(name[SegmentsMin + 1])
  BY <1>1, Zenon DEF ParseType
<1>3. ASSUME NEW s \in Seq(Seq(NameGlyphs)), Len(s) = SegmentsMin,
             \A i \in 1..SegmentsMin : ValidSegment(s[i])
      PROVE  ParseType(s) /\ Base(s) = s /\ MajorVersion(s) = 1
  <2>1. Len(s) # SegmentsMax
    BY <1>1, <1>3
  <2> QED
    BY <1>3, <2>1, Zenon DEF ParseType, Base, MajorVersion
<1>4. CASE Len(name) = SegmentsMin
  <2>1. ParseType(name) /\ t = name /\ n = 1
    BY <1>2, <1>3, <1>4, Zenon DEF NameInv
  <2>2. Canonical(t, n) = name
    BY <2>1, Zenon DEF Canonical
  <2> QED
    BY <2>1, <2>2, Zenon DEF CanonicalIsAccepted, BaseIsVersionOne
<1>5. CASE Len(name) = SegmentsMin + 1
  <2>. DEFINE v == name[SegmentsMin + 1]
  <2>1. v \in Seq(NameGlyphs) /\ Len(v) >= 2 /\ Atoi(Tail(v)) > 1
    <3>1. ValidVersionSegment(v)
      BY <1>2, <1>5, Zenon
    <3>2. v \in Seq(NameGlyphs)
      BY <1>1, <1>5 DEF NameInv
    <3> QED
      BY <3>1, <3>2, Zenon DEF ValidVersionSegment
  <2>2. Atoi(Tail(v)) \in Nat /\ Atoi(Tail(v)) <= MaxInt /\ Atoi(Tail(v)) # -1
    <3>1. Tail(v) \in Seq(NameGlyphs)
      BY <2>1
    <3>2. Atoi(Tail(v)) # -1
      BY <2>1
    <3> QED
      BY <2>1, <3>1, <3>2, AtoiReads, Zenon
  <2>3. n = Atoi(Tail(v))
    BY <1>1, <1>5, <2>2, Zenon DEF MajorVersion
  <2>4. t = SubSeq(name, 1, SegmentsMin)
    <3>1. SegmentsMax - 1 = SegmentsMin
      BY <1>1
    <3> QED
      BY <1>1, <1>5, <3>1, Zenon DEF Base
  <2>5. /\ t \in Seq(Seq(NameGlyphs)) /\ Len(t) = SegmentsMin
        /\ \A i \in 1..SegmentsMin : t[i] = name[i]
    <3>. HIDE DEF t
    <3> QED
      BY <1>1, <1>5, <2>4 DEF NameInv
  <2>6. \A i \in 1..SegmentsMin : ValidSegment(t[i])
    BY <1>2, <2>5, Zenon
  <2>. HIDE DEF t, n, v
  <2>7. ParseType(t) /\ MajorVersion(t) = 1
    BY <1>3, <2>5, <2>6, Zenon
  <2>8. n \in Nat /\ n > 1 /\ n <= MaxInt
    BY <2>1, <2>2, <2>3, Zenon
  <2>9. LET c == Canonical(t, n)
        IN  ParseType(c) /\ Base(c) = t /\ MajorVersion(c) = n
    BY <2>5, <2>6, <2>8, VersionedName, Zenon
  <2> QED
    BY <2>7, <2>8, <2>9, Zenon DEF t, n, CanonicalIsAccepted, BaseIsVersionOne
<1> QED
  BY <1>2, <1>4, <1>5, Zenon

\* Whatever ParseType accepts, for any number of segments, length of a segment and
\* greatest integer: its base is accepted as version 1, a version segment says a
\* later one, and the canonical name of its contract and version is accepted and
\* read as that contract and version.
THEOREM NamesKept == TypeSpec => []NamesAgree
<1>1. TypeInit => NameInv
  <2>. SUFFICES ASSUME name = <<<<>>>> PROVE NameInv
    BY Zenon DEF TypeInit
  <2> QED
    BY DEF NameInv
<1>2. NameInv /\ [TypeNext]_name => NameInv'
  <2>. SUFFICES ASSUME NameInv, [TypeNext]_name PROVE NameInv'
    BY Zenon
  <2>1. ASSUME NEW c \in NameChars, name' = [name EXCEPT ![Len(name)] = Append(@, c)]
        PROVE  NameInv'
    <3>1. c \in NameGlyphs
      BY Zenon DEF NameGlyphs
    <3>2. name[Len(name)] \in Seq(NameGlyphs) /\ Len(name) \in 1..Len(name)
      BY DEF NameInv
    <3>3. Append(name[Len(name)], c) \in Seq(NameGlyphs)
      BY <3>1, <3>2
    <3> QED
      BY <2>1, <3>2, <3>3 DEF NameInv
  <2>2. ASSUME name' = Append(name, <<>>) PROVE NameInv'
    BY <2>2 DEF NameInv
  <2>3. ASSUME UNCHANGED name PROVE NameInv'
    BY <2>3, Zenon DEF NameInv
  <2> QED
    BY <2>1, <2>2, <2>3, Zenon DEF TypeNext
<1> QED
  BY <1>1, <1>2, NamesConclude, PTL DEF TypeSpec

-----------------------------------------------------------------------------
(* The characters of JSON pointers *)

\* The characters of pointers.
LEMMA Characters ==
  /\ Slash \in Glyphs /\ Tilde \in Glyphs /\ "0" \in Glyphs /\ "1" \in Glyphs
  /\ Slash # Tilde /\ Slash \notin {"0", "1"} /\ Tilde \notin {"0", "1"} /\ "0" # "1"
<1>1. Digits[0 + 1] = "0" /\ Digits[1 + 1] = "1" /\ 0 \in 0..9 /\ 1 \in 0..9
  BY DEF Digits
<1>2. "0" \in Glyphs /\ "1" \in Glyphs
  BY <1>1, PointerConstants, Zenon
<1> QED
  BY <1>2, PointerConstants, Zenon DEF Slash, Tilde

\* The parts of a string are strings.
LEMMA StringParts ==
  ASSUME NEW v \in Strings
  PROVE  /\ Front(v) \in Strings
         /\ \A w \in Strings : v \o w \in Strings
         /\ \A c \in Glyphs : Append(v, c) \in Strings
<1>1. v = <<>> => Front(v) = <<>>
  BY DEF Front
<1>2. v # <<>> => Front(v) \in Strings
  BY FrontLast DEF Strings
<1> QED
  BY <1>1, <1>2 DEF Strings

\* What is put behind a string of one or two characters.
LEMMA Appends ==
  ASSUME NEW A, NEW v \in Seq(A), NEW a \in A, NEW b \in A
  PROVE  /\ v \o <<>> = v /\ v \o <<a>> = Append(v, a)
         /\ v \o <<a, b>> = Append(Append(v, a), b)
OBVIOUS

\* Strings without one of the two special characters.
NoSlash(s) == \A i \in DOMAIN s : s[i] # Slash
NoTilde(s) == \A i \in DOMAIN s : s[i] # Tilde

\* Whether a tilde waits for the character after it.
EndsInTilde(s) == s # <<>> /\ Last(s) = Tilde

\* What is put at the end of a string holds a character if it is that one.
LEMMA CharacterAdded ==
  ASSUME NEW s \in Strings, NEW c \in Glyphs
  PROVE  /\ NoSlash(Append(s, c)) <=> NoSlash(s) /\ c # Slash
         /\ NoTilde(Append(s, c)) <=> NoTilde(s) /\ c # Tilde
         /\ EndsInTilde(Append(s, c)) <=> c = Tilde
<1>1. ASSUME NEW x PROVE (\A i \in DOMAIN Append(s, c) : Append(s, c)[i] # x) <=> (\A i \in DOMAIN s : s[i] # x) /\ c # x
  <2>1. s \in Seq(Glyphs)
    BY DEF Strings
  <2>2. DOMAIN Append(s, c) = 1..(Len(s) + 1) /\ DOMAIN s = 1..Len(s) /\ Len(s) \in Nat
    BY <2>1
  <2>3. Append(s, c)[Len(s) + 1] = c /\ \A i \in 1..Len(s) : Append(s, c)[i] = s[i]
    BY <2>1
  <2>4. 1..(Len(s) + 1) = 1..Len(s) \cup {Len(s) + 1}
    BY <2>2
  <2> QED
    BY <2>2, <2>3, <2>4, Zenon
<1>2. Append(s, c) # <<>> /\ Last(Append(s, c)) = c
  BY AppendFront, Zenon DEF Strings
<1> QED
  BY <1>1, <1>2, Zenon DEF NoSlash, NoTilde, EndsInTilde

\* The empty string has no character.
LEMMA Nothing ==
  <<>> \in Strings /\ NoSlash(<<>>) /\ NoTilde(<<>>) /\ ~EndsInTilde(<<>>)
<1>1. <<>> \in Strings /\ DOMAIN (<<>>) = {}
  BY DEF Strings
<1> QED
  BY <1>1, Zenon DEF NoSlash, NoTilde, EndsInTilde

\* Split, a character at a time.
LEMMA Splits ==
  /\ Split(<<>>) = <<<<>>>>
  /\ \A s \in Strings : Split(s) \in Seq(Strings) \ {<<>>}
  /\ \A s \in Strings, c \in Glyphs :
       Split(Append(s, c)) = IF c = Slash THEN Append(Split(s), <<>>)
                             ELSE Append(Front(Split(s)), Append(Last(Split(s)), c))
<1>. DEFINE S == Seq(Strings) \ {<<>>}
            x == <<<<>>>>
            After(v, c) == IF c = Slash THEN Append(v, <<>>)
                           ELSE Append(Front(v), Append(Last(v), c))
            step == [p \in S \X Strings \X Glyphs |-> After(p[1], p[3])]
            split == CHOOSE split : split = [t \in Strings |->
                       IF t = <<>> THEN x ELSE After(split[Front(t)], Last(t))]
<1>0. \A s : Split(s) = split[s]
  BY Zenon DEF Split
<1>1. x \in S
  <2>1. <<>> \in Strings
    BY DEF Strings
  <2>. HIDE DEF Strings
  <2> QED
    BY <2>1
<1>2. ASSUME NEW v \in S, NEW c \in Glyphs PROVE After(v, c) \in S
  <2>1. <<>> \in Strings
    BY DEF Strings
  <2>2. Front(v) \in Seq(Strings) /\ Last(v) \in Strings
    BY <1>2, FrontLast
  <2>3. Append(Last(v), c) \in Strings
    BY <2>2, AppendFront DEF Strings
  <2>4. Append(v, <<>>) \in Seq(Strings) /\ Append(v, <<>>) # <<>>
    BY <1>2, <2>1, AppendFront
  <2>5. /\ Append(Front(v), Append(Last(v), c)) \in Seq(Strings)
        /\ Append(Front(v), Append(Last(v), c)) # <<>>
    <3>. DEFINE u == Front(v)
                w == Append(Last(v), c)
    <3>1. u \in Seq(Strings) /\ w \in Strings
      BY <2>2, <2>3
    <3>. HIDE DEF u, w
    <3>2. Append(u, w) \in Seq(Strings) /\ Append(u, w) # <<>>
      BY <3>1, AppendFront
    <3> QED
      BY <3>2, Zenon DEF u, w
  <2> QED
    BY <2>4, <2>5, Zenon
<1>3. step \in [S \X Strings \X Glyphs -> S]
  BY <1>2, Zenon
<1>4. \A v \in S, t \in Strings, c \in Glyphs : step[<<v, t, c>>] = After(v, c)
  OBVIOUS
<1>. HIDE DEF S, x, After, step
<1>5. PICK g : Recurs(g, Glyphs, S, x, step)
  BY <1>1, <1>3, SequenceRecursion, Zenon DEF Strings
<1>6. g = [t \in Strings |-> IF t = <<>> THEN x ELSE After(g[Front(t)], Last(t))]
  <2>1. ASSUME NEW t \in Strings, t # <<>> PROVE g[t] = After(g[Front(t)], Last(t))
    <3>1. Front(t) \in Strings /\ Last(t) \in Glyphs /\ t = Append(Front(t), Last(t))
      BY <2>1, FrontLast, Zenon DEF Strings
    <3>2. g[Front(t)] \in S /\ g[Append(Front(t), Last(t))] = step[<<g[Front(t)], Front(t), Last(t)>>]
      BY <1>5, <3>1 DEF Recurs, Strings
    <3> QED
      BY <1>4, <3>1, <3>2, Zenon
  <2>2. g[<<>>] = x /\ g = [t \in Strings |-> g[t]]
    BY <1>5 DEF Recurs, Strings
  <2> QED
    BY <2>1, <2>2, Zenon
<1>7. split = [t \in Strings |-> IF t = <<>> THEN x ELSE After(split[Front(t)], Last(t))]
  BY <1>6, Zenon
<1>. HIDE DEF split
<1>8. split[<<>>] = x
  BY <1>7 DEF Strings
<1>9. \A s \in Strings, c \in Glyphs : split[Append(s, c)] = After(split[s], c)
  <2>. SUFFICES ASSUME NEW s \in Strings, NEW c \in Glyphs
                PROVE  split[Append(s, c)] = After(split[s], c)
    BY Zenon
  <2>1. /\ Append(s, c) \in Strings /\ Append(s, c) # <<>>
        /\ Front(Append(s, c)) = s /\ Last(Append(s, c)) = c
    BY AppendFront, Zenon DEF Strings
  <2>2. split[Append(s, c)] = After(split[Front(Append(s, c))], Last(Append(s, c)))
    BY <1>7, <2>1, Zenon
  <2> QED
    BY <2>1, <2>2, Zenon
<1>10. \A s \in Strings : split[s] \in S
  <2>. DEFINE T == {s \in Strings : split[s] \in S}
  <2>1. <<>> \in T
    BY <1>1, <1>8 DEF Strings
  <2>2. ASSUME NEW s \in Seq(Glyphs), NEW c \in Glyphs, s \in T PROVE Append(s, c) \in T
    BY <1>2, <1>9, <2>2, AppendFront, Zenon DEF Strings
  <2>. HIDE DEF T
  <2>3. Seq(Glyphs) \subseteq T
    BY <2>1, <2>2, SequencesByInduction, Zenon
  <2> QED
    BY <2>3, Zenon DEF T, Strings
<1> QED
  BY <1>0, <1>8, <1>9, <1>10, Zenon DEF S, x, After

\* What a split string is followed by.
LEMMA SplitNext ==
  ASSUME NEW s \in Strings, NEW c \in Glyphs
  PROVE  /\ Split(s) \in Seq(Strings) /\ Split(s) # <<>>
         /\ Split(Append(s, Slash)) = Append(Split(s), <<>>)
         /\ c # Slash => Split(Append(s, c)) = Append(Front(Split(s)), Append(Last(Split(s)), c))
<1>1. Split(s) \in Seq(Strings) /\ Split(s) # <<>>
  BY Splits, Zenon
<1>2. ASSUME NEW d \in Glyphs
      PROVE  Split(Append(s, d)) = IF d = Slash THEN Append(Split(s), <<>>)
                                   ELSE Append(Front(Split(s)), Append(Last(Split(s)), d))
  BY Splits, Zenon
<1> QED
  BY <1>1, <1>2, Characters, Zenon

\* The parts of a string hold no slash.
LEMMA PartsHaveNoSlash ==
  ASSUME NEW string \in Strings
  PROVE  \A i \in DOMAIN Split(string) : NoSlash(Split(string)[i])
<1>. DEFINE P(s) == \A i \in DOMAIN Split(s) : NoSlash(Split(s)[i])
            T == {s \in Strings : P(s)}
<1>1. <<>> \in T
  <2>1. Split(<<>>) = <<<<>>>>
    BY Splits, Zenon
  <2>2. \A i \in DOMAIN Split(<<>>) : Split(<<>>)[i] = <<>>
    BY <2>1
  <2> QED
    BY <2>2, Nothing, Zenon
<1>2. ASSUME NEW s \in Seq(Glyphs), NEW c \in Glyphs, s \in T PROVE Append(s, c) \in T
  <2>. DEFINE Q == Split(s)
  <2>0. s \in Strings /\ Append(s, c) \in Strings
    BY StringParts, Zenon DEF Strings
  <2>1. Q \in Seq(Strings) /\ Q # <<>>
    BY <2>0, SplitNext, Zenon
  <2>2. \A i \in DOMAIN Q : NoSlash(Q[i])
    BY <1>2, Zenon
  <2>3. ASSUME NEW F \in Seq(Strings), NEW e, e \in Strings, NoSlash(e), \A i \in DOMAIN F : NoSlash(F[i])
        PROVE  \A i \in DOMAIN Append(F, e) : NoSlash(Append(F, e)[i])
    <3>1. \A i \in DOMAIN Append(F, e) : (i \in DOMAIN F /\ Append(F, e)[i] = F[i]) \/ Append(F, e)[i] = e
      BY <2>3
    <3> QED
      BY <2>3, <3>1, Zenon
  <2>. HIDE DEF Q
  <2>4. CASE c = Slash
    <3>1. Split(Append(s, c)) = Append(Q, <<>>)
      BY <2>0, <2>4, SplitNext, Zenon DEF Q
    <3> QED
      BY <2>0, <2>1, <2>2, <2>3, <3>1, Nothing, Zenon
  <2>5. CASE c # Slash
    <3>. DEFINE F == Front(Q)
                l == Last(Q)
    <3>1. Split(Append(s, c)) = Append(F, Append(l, c))
      BY <2>0, <2>5, SplitNext, Zenon DEF Q
    <3>2. F \in Seq(Strings) /\ l \in Strings
      BY <2>1, FrontLast, Zenon
    <3>3. Len(Q) \in DOMAIN Q /\ l = Q[Len(Q)]
      BY <2>1 DEF Last
    <3>4. NoSlash(l)
      BY <2>2, <3>3, Zenon
    <3>5. \A i \in DOMAIN F : i \in DOMAIN Q /\ F[i] = Q[i]
      BY <2>1 DEF Front
    <3>. HIDE DEF F, l
    <3>7. NoSlash(Append(l, c)) /\ Append(l, c) \in Strings
      BY <2>5, <3>2, <3>4, CharacterAdded, StringParts, Zenon
    <3>6. \A i \in DOMAIN F : NoSlash(F[i])
      BY <2>2, <3>5, Zenon
    <3> QED
      BY <2>0, <2>3, <3>1, <3>2, <3>6, <3>7, Zenon
  <2> QED
    BY <2>4, <2>5, Zenon
<1>. HIDE DEF T
<1>3. Seq(Glyphs) \subseteq T
  BY <1>1, <1>2, SequencesByInduction, Zenon
<1> QED
  BY <1>3, Zenon DEF T, Strings

\* A string that follows a slash and has none is a part of its own.
LEMMA SplitLast ==
  ASSUME NEW s \in Strings, NEW tail \in Strings, NoSlash(tail)
  PROVE  /\ Split(tail) = <<tail>>
         /\ Split(Append(s, Slash) \o tail) = Append(Split(s), tail)
<1>. DEFINE T == {e \in Strings : NoSlash(e) => /\ Split(e) = <<e>>
                                                /\ Split(Append(s, Slash) \o e) = Append(Split(s), e)}
            w == Append(s, Slash)
<1>0. w \in Strings /\ w \in Seq(Glyphs)
  BY Characters, StringParts, Zenon DEF Strings
<1>1. <<>> \in T
  <2>1. w \o <<>> = w
    BY <1>0
  <2>2. Split(<<>>) = <<<<>>>>
    BY Splits, Zenon
  <2>3. Split(w) = Append(Split(s), <<>>)
    BY Characters, SplitNext, Zenon
  <2> QED
    BY <2>1, <2>2, <2>3, Nothing, Zenon
<1>2. ASSUME NEW e \in Seq(Glyphs), NEW c \in Glyphs, e \in T PROVE Append(e, c) \in T
  <2>0. e \in Strings /\ Append(e, c) \in Strings
    BY StringParts, Zenon DEF Strings
  <2>. SUFFICES ASSUME NoSlash(Append(e, c))
                PROVE  /\ Split(Append(e, c)) = <<Append(e, c)>>
                       /\ Split(w \o Append(e, c)) = Append(Split(s), Append(e, c))
    BY <2>0, Zenon
  <2>1. NoSlash(e) /\ c # Slash
    BY <2>0, CharacterAdded, Zenon
  <2>2. Split(e) = <<e>> /\ Split(w \o e) = Append(Split(s), e)
    BY <1>2, <2>1, Zenon
  <2>3. w \o Append(e, c) = Append(w \o e, c)
    BY <1>0
  <2>4. w \o e \in Strings
    BY <1>0, <2>0, StringParts, Zenon
  <2>. HIDE DEF w
  <2>5. Split(Append(e, c)) = Append(Front(<<e>>), Append(Last(<<e>>), c))
    BY <2>0, <2>1, <2>2, SplitNext, Zenon
  <2>6. Front(<<e>>) = <<>> /\ Last(<<e>>) = e
    BY DEF Front, Last
  <2>7. Append(<<>>, Append(e, c)) = <<Append(e, c)>>
    OBVIOUS
  <2>8. Split(Append(w \o e, c)) = Append(Front(Append(Split(s), e)), Append(Last(Append(Split(s), e)), c))
    BY <2>1, <2>2, <2>4, SplitNext, Zenon
  <2>9. Split(s) \in Seq(Strings)
    BY Characters, SplitNext, Zenon
  <2>10. Front(Append(Split(s), e)) = Split(s) /\ Last(Append(Split(s), e)) = e
    BY <2>0, <2>9, AppendFront, Zenon
  <2> QED
    BY <2>3, <2>5, <2>6, <2>7, <2>8, <2>10, Zenon
<1>. HIDE DEF T
<1>3. Seq(Glyphs) \subseteq T
  BY <1>1, <1>2, SequencesByInduction, Zenon
<1> QED
  BY <1>3, Zenon DEF T, Strings

\* What a character adds to the parts of a string.
AddsToSplit(s, c) ==
  /\ Split(Append(s, c)) # Split(<<>>)
  /\ c = Slash => Split(Append(s, c)) = Append(Split(s), <<>>) /\ Last(Split(Append(s, c))) = <<>>
  /\ c # Slash => /\ Last(Split(Append(s, c))) = Append(Last(Split(s)), c)
                  /\ Front(Split(Append(s, c))) = Front(Split(s))
                  /\ Last(Split(Append(s, c))) # <<>>
  /\ Front(Append(Split(s), <<>>)) = Split(s)
  /\ Split(s) = Append(Front(Split(s)), Last(Split(s)))
  /\ Last(Split(s)) \in Strings

\* Strings with the same parts are the same.
LEMMA SplitOnce ==
  ASSUME NEW first \in Strings, NEW second \in Strings, Split(first) = Split(second)
  PROVE  first = second
<1>. DEFINE T == {s \in Strings : \A t \in Strings : Split(s) = Split(t) => s = t}
<1>0. ASSUME NEW s, s \in Strings, NEW c, c \in Glyphs
      PROVE  AddsToSplit(s, c)
  <2>. DEFINE Q == Split(s)
  <2>1. Q \in Seq(Strings) /\ Q # <<>> /\ Split(<<>>) = <<<<>>>>
    BY <1>0, SplitNext, Splits, Zenon
  <2>2. Front(Q) \in Seq(Strings) /\ Last(Q) \in Strings /\ Q = Append(Front(Q), Last(Q)) /\ Len(Q) >= 1
    BY <2>1, FrontLast, Zenon
  <2>a. Split(s) = Q
    OBVIOUS
  <2>. HIDE DEF Q
  <2>3. Last(Split(<<>>)) = <<>> /\ Len(Split(<<>>)) = 1
    <3>1. Last(<<<<>>>>) = <<>> /\ Len(<<<<>>>>) = 1
      BY DEF Last
    <3> QED
      BY <2>1, <3>1, Zenon
  <2>4. CASE c = Slash
    <3>1. Split(Append(s, c)) = Append(Q, <<>>)
      BY <1>0, <2>a, <2>4, SplitNext, Zenon
    <3>2. Front(Append(Q, <<>>)) = Q /\ Last(Append(Q, <<>>)) = <<>> /\ Len(Append(Q, <<>>)) = Len(Q) + 1
      BY <2>1, Nothing, AppendFront, Zenon
    <3>3. Len(Q) + 1 # 1
      BY <2>2, <2>1
    <3> QED
      BY <2>2, <2>3, <2>4, <2>a, <3>1, <3>2, <3>3, Zenon DEF AddsToSplit
  <2>5. CASE c # Slash
    <3>1. Split(Append(s, c)) = Append(Front(Q), Append(Last(Q), c))
      BY <1>0, <2>a, <2>5, SplitNext, Zenon
    <3>2. Append(Last(Q), c) \in Strings /\ Append(Last(Q), c) # <<>>
      <4>1. Last(Q) \in Seq(Glyphs)
        BY <2>2, Zenon DEF Strings
      <4> QED
        BY <1>0, <4>1, AppendFront, Zenon DEF Strings
    <3>3. /\ Front(Append(Front(Q), Append(Last(Q), c))) = Front(Q)
          /\ Last(Append(Front(Q), Append(Last(Q), c))) = Append(Last(Q), c)
      <4>1. \A f \in Seq(Strings), e \in Strings : Front(Append(f, e)) = f /\ Last(Append(f, e)) = e
        BY AppendFront, Zenon
      <4> QED
        BY <2>2, <3>2, <4>1, Zenon
    <3>4. Front(Append(Q, <<>>)) = Q
      BY <2>1, Nothing, AppendFront, Zenon
    <3> QED
      BY <2>2, <2>3, <2>5, <2>a, <3>1, <3>2, <3>3, <3>4, Zenon DEF AddsToSplit
  <2> QED
    BY <2>4, <2>5, Zenon
<1>1. ASSUME NEW t \in Strings, t # <<>>
      PROVE  \E u \in Strings, d \in Glyphs : t = Append(u, d)
  BY <1>1, FrontLast, Zenon DEF Strings
<1>2. <<>> \in T
  <2>1. ASSUME NEW t \in Strings, t # <<>> PROVE Split(t) # Split(<<>>)
    <3>1. PICK u \in Strings, d \in Glyphs : t = Append(u, d)
      BY <1>1, <2>1, Zenon
    <3>2. AddsToSplit(u, d)
      BY <1>0, Zenon
    <3> QED
      BY <3>1, <3>2, Zenon DEF AddsToSplit
  <2> QED
    BY <2>1, Nothing, Zenon
<1>3. ASSUME NEW s \in Seq(Glyphs), NEW c \in Glyphs, s \in T PROVE Append(s, c) \in T
  <2>0. s \in Strings /\ Append(s, c) \in Strings
    BY StringParts, Zenon DEF Strings
  <2>. SUFFICES ASSUME NEW t \in Strings, Split(Append(s, c)) = Split(t)
                PROVE  Append(s, c) = t
    BY <2>0, Zenon
  <2>a. AddsToSplit(s, c)
    BY <1>0, <2>0, Zenon
  <2>1. t # <<>>
    BY <2>a, Zenon DEF AddsToSplit
  <2>2. PICK u \in Strings, d \in Glyphs : t = Append(u, d)
    BY <1>1, <2>1, Zenon
  <2>b. AddsToSplit(u, d)
    BY <1>0, Zenon
  <2>3. c = Slash <=> d = Slash
    BY <2>a, <2>b, <2>2, Zenon DEF AddsToSplit
  <2>4. CASE c = Slash
    <3>1. Append(Split(s), <<>>) = Append(Split(u), <<>>)
      BY <2>a, <2>b, <2>2, <2>3, <2>4, Zenon DEF AddsToSplit
    <3>2. Split(s) = Split(u)
      BY <2>a, <2>b, <3>1, Zenon DEF AddsToSplit
    <3> QED
      BY <1>3, <2>2, <2>3, <2>4, <3>2, Zenon
  <2>5. CASE c # Slash
    <3>1. /\ Append(Last(Split(s)), c) = Append(Last(Split(u)), d)
          /\ Front(Split(s)) = Front(Split(u))
      BY <2>a, <2>b, <2>2, <2>3, <2>5, Zenon DEF AddsToSplit
    <3>2. Last(Split(s)) \in Seq(Glyphs) /\ Last(Split(u)) \in Seq(Glyphs)
      BY <2>a, <2>b, Zenon DEF AddsToSplit, Strings
    <3>3. Last(Split(s)) = Last(Split(u)) /\ c = d
      <4>1. \A f \in Seq(Glyphs), e \in Glyphs : Front(Append(f, e)) = f /\ Last(Append(f, e)) = e
        BY AppendFront, Zenon
      <4>2. /\ Front(Append(Last(Split(s)), c)) = Last(Split(s)) /\ Last(Append(Last(Split(s)), c)) = c
            /\ Front(Append(Last(Split(u)), d)) = Last(Split(u)) /\ Last(Append(Last(Split(u)), d)) = d
        BY <3>2, <4>1, Zenon
      <4> QED
        BY <3>1, <4>2, Zenon
    <3>4. Split(s) = Split(u)
      BY <2>a, <2>b, <3>1, <3>3, Zenon DEF AddsToSplit
    <3> QED
      BY <1>3, <2>2, <3>3, <3>4, Zenon
  <2> QED
    BY <2>4, <2>5, Zenon
<1>. HIDE DEF T
<1>4. Seq(Glyphs) \subseteq T
  BY <1>2, <1>3, SequencesByInduction, Zenon
<1> QED
  BY <1>4, Zenon DEF T, Strings

-----------------------------------------------------------------------------
(* Escaping *)

\* What ReplaceAll makes of a string that is one longer.
ReplacesEach(after, new) ==
  /\ Replaced(<<>>, after, new) = <<>>
  /\ \A s \in Strings : Replaced(s, after, new) \in Strings
  /\ \A s \in Strings, c \in Glyphs : EndsInTilde(s) /\ c \in after =>
       Replaced(Append(s, c), after, new) = Front(Replaced(s, after, new)) \o new
  /\ \A s \in Strings, c \in Glyphs : ~(EndsInTilde(s) /\ c \in after) =>
       Replaced(Append(s, c), after, new) = Append(Replaced(s, after, new), c)

\* ReplaceAll, a character at a time.
LEMMA Replaces ==
  ASSUME NEW after, NEW new \in Strings
  PROVE  ReplacesEach(after, new)
<1>. DEFINE After(v, s, c) == IF s # <<>> /\ Last(s) = Tilde /\ c \in after THEN Front(v) \o new
                              ELSE Append(v, c)
            step == [p \in Strings \X Strings \X Glyphs |-> After(p[1], p[2], p[3])]
            replaced == CHOOSE replaced : replaced = [t \in Strings |->
                          IF t = <<>> THEN <<>> ELSE After(replaced[Front(t)], Front(t), Last(t))]
<1>0. \A s : Replaced(s, after, new) = replaced[s]
  BY Zenon DEF Replaced
<1>1. <<>> \in Strings
  BY DEF Strings
<1>2. ASSUME NEW v \in Strings, NEW s \in Strings, NEW c \in Glyphs PROVE After(v, s, c) \in Strings
  BY StringParts, Zenon
<1>3. step \in [Strings \X Strings \X Glyphs -> Strings]
  BY <1>2, Zenon
<1>4. \A v \in Strings, s \in Strings, c \in Glyphs : step[<<v, s, c>>] = After(v, s, c)
  OBVIOUS
<1>. HIDE DEF After, step
<1>5. PICK g : Recurs(g, Glyphs, Strings, <<>>, step)
  BY <1>1, <1>3, SequenceRecursion, Zenon DEF Strings
<1>6. g = [t \in Strings |-> IF t = <<>> THEN <<>> ELSE After(g[Front(t)], Front(t), Last(t))]
  <2>1. ASSUME NEW t \in Strings, t # <<>> PROVE g[t] = After(g[Front(t)], Front(t), Last(t))
    <3>1. Front(t) \in Strings /\ Last(t) \in Glyphs /\ t = Append(Front(t), Last(t))
      BY <2>1, FrontLast, Zenon DEF Strings
    <3>2. /\ g[Front(t)] \in Strings
          /\ g[Append(Front(t), Last(t))] = step[<<g[Front(t)], Front(t), Last(t)>>]
      BY <1>5, <3>1 DEF Recurs, Strings
    <3> QED
      BY <1>4, <3>1, <3>2, Zenon
  <2>2. g[<<>>] = <<>> /\ g = [t \in Strings |-> g[t]]
    BY <1>5 DEF Recurs, Strings
  <2> QED
    BY <2>1, <2>2, Zenon
<1>7. replaced = [t \in Strings |->
                    IF t = <<>> THEN <<>> ELSE After(replaced[Front(t)], Front(t), Last(t))]
  BY <1>6, Zenon
<1>. HIDE DEF replaced
<1>8. replaced[<<>>] = <<>>
  BY <1>7 DEF Strings
<1>9. \A s \in Strings, c \in Glyphs : replaced[Append(s, c)] = After(replaced[s], s, c)
  <2>. SUFFICES ASSUME NEW s \in Strings, NEW c \in Glyphs
                PROVE  replaced[Append(s, c)] = After(replaced[s], s, c)
    BY Zenon
  <2>1. /\ Append(s, c) \in Strings /\ Append(s, c) # <<>>
        /\ Front(Append(s, c)) = s /\ Last(Append(s, c)) = c
    BY AppendFront, Zenon DEF Strings
  <2> QED
    BY <1>7, <2>1, Zenon
<1>10. \A s \in Strings : replaced[s] \in Strings
  <2>. DEFINE T == {s \in Strings : replaced[s] \in Strings}
  <2>1. <<>> \in T
    BY <1>1, <1>8, Zenon
  <2>2. ASSUME NEW s \in Seq(Glyphs), NEW c \in Glyphs, s \in T PROVE Append(s, c) \in T
    BY <1>2, <1>9, <2>2, AppendFront, Zenon DEF Strings
  <2>. HIDE DEF T
  <2>3. Seq(Glyphs) \subseteq T
    BY <2>1, <2>2, SequencesByInduction, Zenon
  <2> QED
    BY <2>3, Zenon DEF T, Strings
<1>11. ASSUME NEW s \in Strings, NEW c \in Glyphs
       PROVE  /\ EndsInTilde(s) /\ c \in after =>
                   Replaced(Append(s, c), after, new) = Front(Replaced(s, after, new)) \o new
              /\ ~(EndsInTilde(s) /\ c \in after) =>
                   Replaced(Append(s, c), after, new) = Append(Replaced(s, after, new), c)
  <2>1. replaced[Append(s, c)] = After(replaced[s], s, c)
    BY <1>9, Zenon
  <2>2. /\ EndsInTilde(s) /\ c \in after => After(replaced[s], s, c) = Front(replaced[s]) \o new
        /\ ~(EndsInTilde(s) /\ c \in after) => After(replaced[s], s, c) = Append(replaced[s], c)
    BY Zenon DEF After, EndsInTilde
  <2> QED
    BY <1>0, <2>1, <2>2, Zenon
<1> QED
  BY <1>0, <1>8, <1>10, <1>11, Zenon DEF ReplacesEach

\* What it makes of a tilde and the character after it, and of one that follows no tilde.
PairReplaced(after, new, s, c) ==
  /\ Replaced(Append(s, Tilde), after, new) = Append(Replaced(s, after, new), Tilde)
  /\ c \in after =>
       Replaced(Append(Append(s, Tilde), c), after, new) = Replaced(s, after, new) \o new
  /\ c \notin after =>
       Replaced(Append(Append(s, Tilde), c), after, new) =
         Append(Append(Replaced(s, after, new), Tilde), c)
  /\ ~EndsInTilde(s) =>
       Replaced(Append(s, c), after, new) = Append(Replaced(s, after, new), c)

\* What ReplaceAll leaves of two more characters, the first of which is a tilde.
LEMMA ReplacesPair ==
  ASSUME NEW after, NEW new, new \in Strings, NEW s, s \in Strings, NEW c, c \in Glyphs, Tilde \notin after
  PROVE  PairReplaced(after, new, s, c)
<1>. DEFINE v == Replaced(s, after, new)
            u == Append(s, Tilde)
<1>0. ReplacesEach(after, new)
  BY Replaces, Zenon
<1>1. v \in Strings
  BY <1>0, Zenon DEF ReplacesEach
<1>2. Replaced(u, after, new) = Append(v, Tilde)
  BY <1>0, Characters, Zenon DEF ReplacesEach
<1>3. u \in Strings /\ EndsInTilde(u)
  BY Characters, AppendFront, Zenon DEF Strings, EndsInTilde
<1>4. Front(Append(v, Tilde)) = v
  BY <1>1, Characters, AppendFront, Zenon DEF Strings
<1>. HIDE DEF u
<1>5. /\ c \in after => Replaced(Append(u, c), after, new) = v \o new
      /\ c \notin after => Replaced(Append(u, c), after, new) = Append(Append(v, Tilde), c)
  <2>1. c \in after => Replaced(Append(u, c), after, new) = Front(Replaced(u, after, new)) \o new
    BY <1>0, <1>3, Zenon DEF ReplacesEach
  <2>2. c \notin after => Replaced(Append(u, c), after, new) = Append(Replaced(u, after, new), c)
    BY <1>0, <1>3, Zenon DEF ReplacesEach
  <2> QED
    BY <1>2, <1>4, <2>1, <2>2, Zenon
<1>6. ~EndsInTilde(s) => Replaced(Append(s, c), after, new) = Append(v, c)
  BY <1>0, Zenon DEF ReplacesEach
<1> QED
  BY <1>2, <1>5, <1>6, Zenon DEF u, PairReplaced

\* A character is written as one or two.
LEMMA Codes ==
  ASSUME NEW c \in Glyphs
  PROVE  Code(c) \in Strings
<1>1. \A a \in Glyphs, b \in Glyphs : <<a, b>> \in Strings /\ <<a>> \in Strings
  BY DEF Strings
<1> QED
  BY <1>1, Characters, Zenon DEF Code

\* Escape, a character at a time.
LEMMA Escapes ==
  /\ Escape(<<>>) = <<>>
  /\ \A s \in Strings : Escape(s) \in Strings
  /\ \A s \in Strings, c \in Glyphs : Escape(Append(s, c)) = Escape(s) \o Code(c)
<1>. DEFINE After(v, c) == v \o Code(c)
            step == [p \in Strings \X Strings \X Glyphs |-> After(p[1], p[3])]
            escape == CHOOSE escape : escape = [t \in Strings |->
              IF t = <<>> THEN <<>> ELSE After(escape[Front(t)], Last(t))]
<1>0. \A s : Escape(s) = escape[s]
  BY Zenon DEF Escape
<1>1. <<>> \in Strings /\ <<>> \in Strings
  BY DEF Strings
<1>2. ASSUME NEW v \in Strings, NEW c \in Glyphs PROVE After(v, c) \in Strings
  BY Codes, StringParts, Zenon
<1>3. step \in [Strings \X Strings \X Glyphs -> Strings]
  BY <1>2, Zenon
<1>4. \A v \in Strings, s \in Strings, c \in Glyphs : step[<<v, s, c>>] = After(v, c)
  BY Zenon
<1>. HIDE DEF After, step
<1>5. PICK g : Recurs(g, Glyphs, Strings, <<>>, step)
  BY <1>1, <1>3, SequenceRecursion, Zenon DEF Strings
<1>6. g = [t \in Strings |-> IF t = <<>> THEN <<>> ELSE After(g[Front(t)], Last(t))]
  <2>1. ASSUME NEW t \in Strings, t # <<>> PROVE g[t] = After(g[Front(t)], Last(t))
    <3>1. Front(t) \in Strings /\ Last(t) \in Glyphs /\ t = Append(Front(t), Last(t))
      BY <2>1, FrontLast, Zenon DEF Strings
    <3>2. /\ g[Front(t)] \in Strings
          /\ g[Append(Front(t), Last(t))] = step[<<g[Front(t)], Front(t), Last(t)>>]
      BY <1>5, <3>1, Zenon DEF Recurs, Strings
    <3> QED
      BY <1>4, <3>1, <3>2, Zenon
  <2>2. g[<<>>] = <<>> /\ g = [t \in Strings |-> g[t]]
    BY <1>5 DEF Recurs, Strings
  <2> QED
    BY <2>1, <2>2, Zenon
<1>7. escape = [t \in Strings |-> IF t = <<>> THEN <<>> ELSE After(escape[Front(t)], Last(t))]
  BY <1>6, Zenon
<1>. HIDE DEF escape
<1>8. escape[<<>>] = <<>>
  BY <1>1, <1>7
<1>9. \A s \in Strings, c \in Glyphs : escape[Append(s, c)] = After(escape[s], c)
  <2>. SUFFICES ASSUME NEW s \in Strings, NEW c \in Glyphs
                PROVE  escape[Append(s, c)] = After(escape[s], c)
    BY Zenon
  <2>1. /\ Append(s, c) \in Strings /\ Append(s, c) # <<>>
        /\ Front(Append(s, c)) = s /\ Last(Append(s, c)) = c
    BY AppendFront, Zenon DEF Strings
  <2> QED
    BY <1>7, <2>1, Zenon
<1>10. \A s \in Strings : escape[s] \in Strings
  <2>. DEFINE T == {s \in Strings : escape[s] \in Strings}
  <2>1. <<>> \in T
    BY <1>1, <1>8, Zenon
  <2>2. ASSUME NEW s \in Seq(Glyphs), NEW c \in Glyphs, s \in T PROVE Append(s, c) \in T
    BY <1>2, <1>9, <2>2, AppendFront, Zenon DEF Strings
  <2>. HIDE DEF T
  <2>3. Seq(Glyphs) \subseteq T
    BY <2>1, <2>2, SequencesByInduction, Zenon
  <2> QED
    BY <2>3, Zenon DEF T, Strings
<1> QED
  BY <1>0, <1>8, <1>9, <1>10, Zenon DEF After

\* A token after the first replacement of its unescaping, and what the check of its
\* tildes leaves of it.
Unslashed(t) == Replaced(t, {"1"}, <<Slash>>)
Remains(t)   == Replaced(t, {"0", "1"}, <<>>)

\* What holds of a key that is escaped.
WellEscaped(k) ==
  /\ NoSlash(Escape(k)) /\ ~EndsInTilde(Escape(k)) /\ ~EndsInTilde(Unslashed(Escape(k)))
  /\ NoTilde(Remains(Escape(k))) /\ Unescape(Escape(k)) = k

\* A key that is escaped has no slash, passes the check of its tildes, and is
\* read as the key.
LEMMA EscapedReadsBack ==
  ASSUME NEW key \in Strings
  PROVE  WellEscaped(key)
<1>. DEFINE T == {k \in Strings : WellEscaped(k)}
<1>0. /\ <<Slash>> \in Strings /\ <<Tilde>> \in Strings
  BY Characters DEF Strings
<1>1. <<>> \in T
  <2>1. Escape(<<>>) = <<>> /\ Unslashed(<<>>) = <<>> /\ Remains(<<>>) = <<>> /\ Unescape(<<>>) = <<>>
    <3>1. /\ ReplacesEach({"1"}, <<Slash>>) /\ ReplacesEach({"0"}, <<Tilde>>)
          /\ ReplacesEach({"0", "1"}, <<>>)
      BY <1>0, Nothing, Replaces, Zenon
    <3> QED
      BY <3>1, Escapes, Zenon DEF ReplacesEach, Unslashed, Remains, Unescape
  <2> QED
    BY <2>1, Nothing, Zenon DEF WellEscaped
<1>2. ASSUME NEW k \in Seq(Glyphs), NEW c \in Glyphs, k \in T PROVE Append(k, c) \in T
  <2>. DEFINE E == Escape(k)
              R == Unslashed(E)
              U == Replaced(R, {"0"}, <<Tilde>>)
              N == Remains(E)
  <2>0. k \in Strings /\ Append(k, c) \in Strings
    BY AppendFront, Zenon DEF Strings
  <2>1. Escape(Append(k, c)) = E \o Code(c) /\ E \in Strings
    BY <2>0, Escapes, Zenon
  <2>2. R \in Strings /\ U \in Strings /\ N \in Strings
    <3>1. /\ ReplacesEach({"1"}, <<Slash>>) /\ ReplacesEach({"0"}, <<Tilde>>)
          /\ ReplacesEach({"0", "1"}, <<>>)
      BY <1>0, Nothing, Replaces, Zenon
    <3> QED
      BY <2>1, <3>1, Zenon DEF ReplacesEach, Unslashed, Remains
  <2>3. /\ NoSlash(E) /\ ~EndsInTilde(E) /\ ~EndsInTilde(R) /\ NoTilde(N) /\ U = k
    BY <1>2, Zenon DEF WellEscaped, Unescape, Unslashed
  <2>4. \A e : Unescape(e) = Replaced(Unslashed(e), {"0"}, <<Tilde>>)
    BY Zenon DEF Unescape, Unslashed
  <2>. HIDE DEF E, R, U, N
  <2>p. ASSUME NEW x \in Glyphs
        PROVE  /\ PairReplaced({"1"}, <<Slash>>, E, x) /\ PairReplaced({"0"}, <<Tilde>>, R, x)
               /\ PairReplaced({"0", "1"}, <<>>, E, x)
    BY <1>0, <2>1, <2>2, Nothing, Characters, ReplacesPair, Zenon
  <2>5. CASE c = Tilde
    <3>1. E \o Code(c) = Append(Append(E, Tilde), "0")
      <4>1. Code(c) = <<Tilde, "0">>
        BY <2>5, Characters, Zenon DEF Code
      <4>2. \A a \in Glyphs, b \in Glyphs : E \o <<a, b>> = Append(Append(E, a), b)
        BY <2>1 DEF Strings
      <4> QED
        BY <4>1, <4>2, Characters, Zenon
    <3>2. Unslashed(Append(Append(E, Tilde), "0")) = Append(Append(R, Tilde), "0")
      BY <2>p, Characters, Zenon DEF PairReplaced, Unslashed, R
    <3>3. Replaced(Append(Append(R, Tilde), "0"), {"0"}, <<Tilde>>) = U \o <<Tilde>>
      BY <2>p, Characters, Zenon DEF PairReplaced, U
    <3>4. Remains(Append(Append(E, Tilde), "0")) = N
      <4>1. Remains(Append(Append(E, Tilde), "0")) = N \o <<>>
        BY <2>p, Characters, Zenon DEF PairReplaced, Remains, N
      <4> QED
        BY <2>2, <4>1, Characters, Appends, Zenon DEF Strings
    <3>5. Unescape(E \o Code(c)) = Append(k, c)
      BY <2>2, <2>3, <2>4, <2>5, <3>1, <3>2, <3>3, Characters, Appends, Zenon DEF Strings
    <3>6. NoSlash(Append(Append(E, Tilde), "0")) /\ ~EndsInTilde(Append(Append(E, Tilde), "0"))
      BY <2>1, <2>3, StringParts, Characters, CharacterAdded, Zenon
    <3>7. ~EndsInTilde(Append(Append(R, Tilde), "0"))
      BY <2>2, StringParts, Characters, CharacterAdded, Zenon
    <3> QED
      BY <2>0, <2>1, <2>3, <3>1, <3>2, <3>4, <3>5, <3>6, <3>7, Zenon DEF WellEscaped
  <2>6. CASE c = Slash
    <3>1. E \o Code(c) = Append(Append(E, Tilde), "1")
      <4>1. Code(c) = <<Tilde, "1">>
        BY <2>6, Characters, Zenon DEF Code
      <4>2. \A a \in Glyphs, b \in Glyphs : E \o <<a, b>> = Append(Append(E, a), b)
        BY <2>1 DEF Strings
      <4> QED
        BY <4>1, <4>2, Characters, Zenon
    <3>2. Unslashed(Append(Append(E, Tilde), "1")) = Append(R, Slash)
      <4>1. Unslashed(Append(Append(E, Tilde), "1")) = R \o <<Slash>>
        BY <2>p, Characters, Zenon DEF PairReplaced, Unslashed, R
      <4> QED
        BY <2>2, <4>1, Characters, Appends, Zenon DEF Strings
    <3>3. Replaced(Append(R, Slash), {"0"}, <<Tilde>>) = Append(U, Slash)
      BY <2>p, <2>3, Characters, Zenon DEF PairReplaced, U
    <3>4. Remains(Append(Append(E, Tilde), "1")) = N
      <4>1. Remains(Append(Append(E, Tilde), "1")) = N \o <<>>
        BY <2>p, Characters, Zenon DEF PairReplaced, Remains, N
      <4> QED
        BY <2>2, <4>1, Characters, Appends, Zenon DEF Strings
    <3>5. Unescape(E \o Code(c)) = Append(k, c)
      BY <2>3, <2>4, <2>6, <3>1, <3>2, <3>3, Zenon
    <3>6. NoSlash(Append(Append(E, Tilde), "1")) /\ ~EndsInTilde(Append(Append(E, Tilde), "1"))
      BY <2>1, <2>3, StringParts, Characters, CharacterAdded, Zenon
    <3>7. ~EndsInTilde(Append(R, Slash))
      BY <2>2, Characters, CharacterAdded, Zenon
    <3> QED
      BY <2>0, <2>1, <2>3, <3>1, <3>2, <3>4, <3>5, <3>6, <3>7, Zenon DEF WellEscaped
  <2>7. CASE c # Tilde /\ c # Slash
    <3>1. E \o Code(c) = Append(E, c)
      BY <2>1, <2>7, Appends, Zenon DEF Code, Strings
    <3>2. Unslashed(Append(E, c)) = Append(R, c)
      BY <2>p, <2>3, Characters, Zenon DEF PairReplaced, Unslashed, R
    <3>3. Replaced(Append(R, c), {"0"}, <<Tilde>>) = Append(U, c)
      BY <2>p, <2>3, Characters, Zenon DEF PairReplaced, U
    <3>4. Remains(Append(E, c)) = Append(N, c)
      BY <2>p, <2>3, Characters, Zenon DEF PairReplaced, Remains, N
    <3>5. Unescape(E \o Code(c)) = Append(k, c)
      BY <2>3, <2>4, <3>1, <3>2, <3>3, Zenon
    <3>6. /\ NoSlash(Append(E, c)) /\ ~EndsInTilde(Append(E, c))
          /\ ~EndsInTilde(Append(R, c)) /\ NoTilde(Append(N, c))
      BY <2>1, <2>2, <2>3, <2>7, CharacterAdded, Zenon
    <3> QED
      BY <2>0, <2>1, <3>1, <3>2, <3>4, <3>5, <3>6, Zenon DEF WellEscaped
  <2> QED
    BY <2>5, <2>6, <2>7, Zenon
<1>. HIDE DEF T
<1>3. Seq(Glyphs) \subseteq T
  BY <1>1, <1>2, SequencesByInduction, Zenon
<1> QED
  BY <1>3, Zenon DEF T, Strings

\* A tilde remains that no character to come can take away.
Stuck(t) ==
  \E j \in DOMAIN Remains(t) :
    /\ Remains(t)[j] = Tilde
    /\ j < Len(Remains(t)) \/ ~EndsInTilde(t)

\* What a string without a slash is: an escaped key, one with the first half of an
\* escape behind it, or stuck.
Beginning(t) ==
  \/ \E k \in Strings : t = Escape(k)
  \/ \E k \in Strings : t = Append(Escape(k), Tilde)
  \/ Stuck(t)

\* A token without a slash whose tildes pass the check is a key, escaped.
LEMMA TokenIsEscaped ==
  ASSUME NEW token \in Strings, NoSlash(token), Escaped(token)
  PROVE  token = Escape(Unescape(token)) /\ Unescape(token) \in Strings
<1>. DEFINE T == {t \in Strings : NoSlash(t) => Beginning(t)}
<1>0. <<>> \in Strings
  BY Nothing, Zenon
<1>1. <<>> \in T
  BY <1>0, Escapes, Zenon DEF Beginning
<1>2. ASSUME NEW t \in Seq(Glyphs), NEW c \in Glyphs, t \in T PROVE Append(t, c) \in T
  <2>. DEFINE s == Append(t, c)
              N == Remains(t)
  <2>0. t \in Strings /\ s \in Strings
    BY StringParts, Zenon DEF Strings
  <2>. SUFFICES ASSUME NoSlash(s) PROVE Beginning(s)
    BY <2>0, Zenon
  <2>1. NoSlash(t) /\ c # Slash /\ Beginning(t)
    BY <1>2, <2>0, CharacterAdded, Zenon
  <2>2. ReplacesEach({"0", "1"}, <<>>)
    BY <1>0, Replaces, Zenon
  <2>3. CASE \E k \in Strings : t = Escape(k)
    <3>1. PICK k \in Strings : t = Escape(k)
      BY <2>3, Zenon
    <3>2. CASE c = Tilde
      BY <3>1, <3>2, Zenon DEF Beginning
    <3>3. CASE c # Tilde
      <4>1. Escape(Append(k, c)) = t \o <<c>> /\ Append(k, c) \in Strings
        BY <2>1, <3>1, <3>3, Escapes, StringParts, Zenon DEF Code
      <4>2. t \o <<c>> = s
        BY Appends, Zenon
      <4> QED
        BY <4>1, <4>2, Zenon DEF Beginning
    <3> QED
      BY <3>2, <3>3, Zenon
  <2>4. CASE \E k \in Strings : t = Append(Escape(k), Tilde)
    <3>1. PICK k \in Strings : t = Append(Escape(k), Tilde)
      BY <2>4, Zenon
    <3>. DEFINE E == Escape(k)
    <3>2. E \in Strings
      BY Escapes, Zenon
    <3>. HIDE DEF E
    <3>3. t = Append(E, Tilde)
      BY <3>1, Zenon DEF E
    <3>4. CASE c \in {"0", "1"}
      <4>. DEFINE d == IF c = "0" THEN Tilde ELSE Slash
      <4>1. d \in Glyphs /\ Code(d) = <<Tilde, c>>
        BY <3>4, Characters, Zenon DEF Code
      <4>. HIDE DEF d
      <4>2. Escape(Append(k, d)) = E \o <<Tilde, c>> /\ Append(k, d) \in Strings
        BY <4>1, Escapes, StringParts, Zenon DEF E
      <4>3. Tilde \in Glyphs /\ E \in Seq(Glyphs)
        BY <3>2, Characters, Zenon DEF Strings
      <4>4. E \o <<Tilde, c>> = s
        BY <3>3, <4>3
      <4> QED
        BY <4>2, <4>4, Zenon DEF Beginning
    <3>5. CASE c \notin {"0", "1"}
      <4>1. PairReplaced({"0", "1"}, <<>>, E, c)
        BY <1>0, <3>2, Characters, ReplacesPair, Zenon
      <4>2. Remains(s) = Append(Append(Remains(E), Tilde), c)
        BY <3>3, <3>5, <4>1, Zenon DEF PairReplaced, Remains
      <4>3. Remains(E) \in Seq(Glyphs)
        BY <2>2, <3>2, Zenon DEF ReplacesEach, Remains, Strings
      <4>. DEFINE M == Remains(E)
      <4>. HIDE DEF M
      <4>4. M \in Seq(Glyphs) /\ Remains(s) = Append(Append(M, Tilde), c)
        BY <4>2, <4>3, Zenon DEF M
      <4>5. /\ Len(M) + 1 \in DOMAIN Append(Append(M, Tilde), c)
            /\ Append(Append(M, Tilde), c)[Len(M) + 1] = Tilde
            /\ Len(M) + 1 < Len(Append(Append(M, Tilde), c))
        BY <4>4, Characters
      <4> QED
        BY <4>4, <4>5, Zenon DEF Stuck, Beginning
    <3> QED
      BY <3>4, <3>5, Zenon
  <2>5. CASE Stuck(t)
    <3>1. N \in Seq(Glyphs)
      BY <2>0, <2>2, Zenon DEF ReplacesEach, Remains, Strings
    <3>2. PICK j \in DOMAIN N : N[j] = Tilde /\ (j < Len(N) \/ ~EndsInTilde(t))
      BY <2>5, Zenon DEF Stuck
    <3>3. CASE EndsInTilde(t) /\ c \in {"0", "1"}
      <4>1. Remains(s) = Front(N) \o <<>>
        BY <2>0, <2>2, <3>3, Zenon DEF ReplacesEach, Remains
      <4>. HIDE DEF N
      <4>2. j \in 1..(Len(N) - 1)
        BY <3>1, <3>2, <3>3
      <4>3. N # <<>>
        BY <3>1, <4>2
      <4>4. Front(N) \o <<>> = Front(N)
        BY <3>1, <4>3, FrontLast
      <4>5. j \in DOMAIN Front(N) /\ Front(N)[j] = N[j]
        BY <3>1, <4>2 DEF Front
      <4>6. ~EndsInTilde(s)
        BY <2>0, <3>3, CharacterAdded, Characters, Zenon
      <4> QED
        BY <3>2, <4>1, <4>4, <4>5, <4>6, Zenon DEF Stuck, Beginning
    <3>4. CASE ~(EndsInTilde(t) /\ c \in {"0", "1"})
      <4>1. Remains(s) = Append(N, c)
        BY <2>0, <2>2, <3>4, Zenon DEF ReplacesEach, Remains
      <4>. HIDE DEF N
      <4>2. j \in DOMAIN Append(N, c) /\ Append(N, c)[j] = N[j] /\ j < Len(Append(N, c))
        BY <3>1, <3>2
      <4> QED
        BY <3>2, <4>1, <4>2, Zenon DEF Stuck, Beginning
    <3> QED
      BY <3>3, <3>4, Zenon
  <2> QED
    BY <2>1, <2>3, <2>4, <2>5, Zenon DEF Beginning
<1>. HIDE DEF T
<1>3. Seq(Glyphs) \subseteq T
  BY <1>1, <1>2, SequencesByInduction, Zenon
<1>4. Beginning(token)
  BY <1>3, Zenon DEF T, Strings
<1>5. NoTilde(Remains(token))
  BY Zenon DEF Escaped, Remains, NoTilde
<1>6. ~Stuck(token)
  BY <1>5, Zenon DEF Stuck, NoTilde
<1>7. ASSUME NEW k \in Strings, token = Append(Escape(k), Tilde) PROVE FALSE
  <2>. DEFINE E == Escape(k)
  <2>1. E \in Strings
    BY Escapes, Zenon
  <2>2. PairReplaced({"0", "1"}, <<>>, E, Tilde) /\ ReplacesEach({"0", "1"}, <<>>)
    BY <1>0, <2>1, Characters, ReplacesPair, Replaces, Zenon
  <2>3. Remains(token) = Append(Remains(E), Tilde) /\ Remains(E) \in Strings
    BY <1>7, <2>1, <2>2, Zenon DEF PairReplaced, ReplacesEach, Remains
  <2>4. ~NoTilde(Append(Remains(E), Tilde))
    BY <2>3, Characters, CharacterAdded, Zenon
  <2> QED
    BY <1>5, <2>3, <2>4, Zenon
<1>8. PICK k \in Strings : token = Escape(k)
  BY <1>4, <1>6, <1>7, Zenon DEF Beginning
<1>9. Unescape(Escape(k)) = k
  BY EscapedReadsBack, Zenon DEF WellEscaped
<1> QED
  BY <1>8, <1>9, Zenon

-----------------------------------------------------------------------------
(* The members that JSON pointers name *)

\* The text of a step is a string.
LEMMA Texts ==
  ASSUME NEW step \in Steps
  PROVE  Text(step) \in Strings
<1>1. Numerals \subseteq Strings
  <2>1. DigitSet \subseteq Glyphs
    BY DigitChars, Zenon DEF DigitSet
  <2> QED
    BY <2>1 DEF Numerals, Strings
<1>2. step.kind = "key" => step.key \in Strings
  BY DEF Steps
<1>3. step.kind # "key" => step.index \in Nat
  BY DEF Steps
<1> QED
  BY <1>1, <1>2, <1>3, NumeralDigits, Zenon DEF Text

\* Written, a step at a time.
LEMMA Writes ==
  /\ Written(<<>>) = <<>>
  /\ \A s \in Seq(Steps) : Written(s) \in Strings
  /\ \A s \in Seq(Steps), c \in Steps : Written(Append(s, c)) = Written(s) \o <<Slash>> \o Escape(Text(c))
<1>. DEFINE After(v, c) == v \o <<Slash>> \o Escape(Text(c))
            step == [p \in Strings \X Seq(Steps) \X Steps |-> After(p[1], p[3])]
            written == CHOOSE written : written = [t \in Seq(Steps) |->
              IF t = <<>> THEN <<>> ELSE After(written[Front(t)], Last(t))]
<1>0. \A s : Written(s) = written[s]
  BY Zenon DEF Written
<1>1. <<>> \in Strings /\ <<>> \in Seq(Steps)
  BY DEF Strings
<1>2. ASSUME NEW v \in Strings, NEW c \in Steps PROVE After(v, c) \in Strings
  <2>1. <<Slash>> \in Strings
    BY Characters DEF Strings
  <2>2. Escape(Text(c)) \in Strings
    BY Texts, Escapes, Zenon
  <2> QED
    BY <2>1, <2>2, StringParts, Zenon
<1>3. step \in [Strings \X Seq(Steps) \X Steps -> Strings]
  BY <1>2, Zenon
<1>4. \A v \in Strings, s \in Seq(Steps), c \in Steps : step[<<v, s, c>>] = After(v, c)
  BY Zenon
<1>. HIDE DEF After, step
<1>5. PICK g : Recurs(g, Steps, Strings, <<>>, step)
  BY <1>1, <1>3, SequenceRecursion, Zenon
<1>6. g = [t \in Seq(Steps) |-> IF t = <<>> THEN <<>> ELSE After(g[Front(t)], Last(t))]
  <2>1. ASSUME NEW t \in Seq(Steps), t # <<>> PROVE g[t] = After(g[Front(t)], Last(t))
    <3>1. Front(t) \in Seq(Steps) /\ Last(t) \in Steps /\ t = Append(Front(t), Last(t))
      BY <2>1, FrontLast, Zenon
    <3>2. /\ g[Front(t)] \in Strings
          /\ g[Append(Front(t), Last(t))] = step[<<g[Front(t)], Front(t), Last(t)>>]
      BY <1>5, <3>1, Zenon DEF Recurs
    <3> QED
      BY <1>4, <3>1, <3>2, Zenon
  <2>2. g[<<>>] = <<>> /\ g = [t \in Seq(Steps) |-> g[t]]
    BY <1>5 DEF Recurs
  <2> QED
    BY <2>1, <2>2, Zenon
<1>7. written = [t \in Seq(Steps) |-> IF t = <<>> THEN <<>> ELSE After(written[Front(t)], Last(t))]
  BY <1>6, Zenon
<1>. HIDE DEF written
<1>8. written[<<>>] = <<>>
  BY <1>1, <1>7
<1>9. \A s \in Seq(Steps), c \in Steps : written[Append(s, c)] = After(written[s], c)
  <2>. SUFFICES ASSUME NEW s \in Seq(Steps), NEW c \in Steps
                PROVE  written[Append(s, c)] = After(written[s], c)
    BY Zenon
  <2>1. /\ Append(s, c) \in Seq(Steps) /\ Append(s, c) # <<>>
        /\ Front(Append(s, c)) = s /\ Last(Append(s, c)) = c
    BY AppendFront, Zenon
  <2> QED
    BY <1>7, <2>1, Zenon
<1>10. \A s \in Seq(Steps) : written[s] \in Strings
  <2>. DEFINE T == {s \in Seq(Steps) : written[s] \in Strings}
  <2>1. <<>> \in T
    BY <1>1, <1>8, Zenon
  <2>2. ASSUME NEW s \in Seq(Steps), NEW c \in Steps, s \in T PROVE Append(s, c) \in T
    BY <1>2, <1>9, <2>2, AppendFront, Zenon
  <2>. HIDE DEF T
  <2>3. Seq(Steps) \subseteq T
    BY <2>1, <2>2, SequencesByInduction, Zenon
  <2> QED
    BY <2>3, Zenon DEF T
<1> QED
  BY <1>0, <1>8, <1>9, <1>10, Zenon DEF After

\* The escaped texts of the steps of a path.
StepCodes(p) == [i \in 1..Len(p) |-> Escape(Text(p[i]))]

\* The pointer of a value starts with a slash and is split into those texts.
WellWritten(p) == Written(p) # <<>> /\ Head(Written(p)) = Slash /\ Parts(Written(p)) = StepCodes(p)

\* The pointer of a value other than the whole starts with a slash, and is split
\* into the escaped texts of the steps to it.
LEMMA WrittenParts ==
  ASSUME NEW path \in Seq(Steps), path # <<>>
  PROVE  WellWritten(path)
<1>. DEFINE T == {p \in Seq(Steps) : p # <<>> => WellWritten(p)}
<1>1. <<>> \in T
  OBVIOUS
<1>2. ASSUME NEW p \in Seq(Steps), NEW c \in Steps, p \in T PROVE Append(p, c) \in T
  <2>. DEFINE e == Escape(Text(c))
              w == Written(p)
              q == Append(p, c)
  <2>0. q \in Seq(Steps) /\ (WellWritten(q) => q \in T)
    BY AppendFront, Zenon
  <2>1. e \in Strings /\ NoSlash(e)
    BY Texts, Escapes, EscapedReadsBack, Zenon DEF WellEscaped
  <2>2. Written(q) = w \o <<Slash>> \o e /\ w \in Strings
    BY Writes, Zenon
  <2>3. StepCodes(q) = Append(StepCodes(p), e)
    <3>1. Len(q) = Len(p) + 1 /\ q[Len(p) + 1] = c /\ (\A i \in 1..Len(p) : q[i] = p[i]) /\ Len(p) \in Nat
      OBVIOUS
    <3>. HIDE DEF q
    <3>. DEFINE f(x) == Escape(Text(x))
    <3>2. StepCodes(q) = [i \in 1..(Len(p) + 1) |-> f(q[i])] /\ StepCodes(p) = [i \in 1..Len(p) |-> f(p[i])] /\ e = f(c)
      BY <3>1, Zenon DEF StepCodes
    <3>. HIDE DEF f, e
    <3> QED
      BY <3>1, <3>2
  <2>. HIDE DEF q, e, w
  <2>3a. Slash \in Glyphs /\ w \in Seq(Glyphs) /\ e \in Seq(Glyphs)
    BY <2>1, <2>2, Characters, Zenon DEF Strings
  <2>4. CASE p = <<>>
    <3>1. w = <<>> /\ StepCodes(p) = <<>>
      BY <2>4, Writes DEF w, StepCodes
    <3>2. Written(q) = <<Slash>> \o e
      BY <2>2, <2>3a, <3>1
    <3>3. <<Slash>> \o e # <<>> /\ Head(<<Slash>> \o e) = Slash /\ Tail(<<Slash>> \o e) = e
      BY <2>3a
    <3>4. Split(e) = <<e>>
      BY <2>1, Nothing, SplitLast, Zenon
    <3>5. Append(<<>>, e) = <<e>>
      OBVIOUS
    <3> QED
      BY <2>0, <2>3, <3>1, <3>2, <3>3, <3>4, <3>5, Zenon DEF WellWritten, Parts, q
  <2>5. CASE p # <<>>
    <3>1. w # <<>> /\ Head(w) = Slash /\ Split(Tail(w)) = StepCodes(p)
      BY <1>2, <2>5, Zenon DEF WellWritten, Parts, w
    <3>2. /\ w \o <<Slash>> \o e # <<>> /\ Head(w \o <<Slash>> \o e) = Head(w)
          /\ Tail(w \o <<Slash>> \o e) = Append(Tail(w), Slash) \o e
          /\ Tail(w) \in Seq(Glyphs)
      BY <2>3a, <3>1
    <3>3. Split(Append(Tail(w), Slash) \o e) = Append(Split(Tail(w)), e)
      BY <2>1, <3>2, SplitLast, Zenon DEF Strings
    <3> QED
      BY <2>0, <2>2, <2>3, <3>1, <3>2, <3>3, Zenon DEF WellWritten, Parts, q
  <2> QED
    BY <2>4, <2>5, Zenon
<1>. HIDE DEF T
<1>3. Seq(Steps) \subseteq T
  BY <1>1, <1>2, SequencesByInduction, Zenon
<1> QED
  BY <1>3, Zenon DEF T

\* A beginning of a sequence that is one longer has one more element.
LEMMA Beginnings ==
  ASSUME NEW A, NEW p \in Seq(A), NEW i \in 1..Len(p)
  PROVE  /\ SubSeq(p, 1, i) = Append(SubSeq(p, 1, i - 1), p[i])
         /\ SubSeq(p, 1, i) # <<>>
         /\ Front(SubSeq(p, 1, i)) = SubSeq(p, 1, i - 1)
         /\ Last(SubSeq(p, 1, i)) = p[i]
<1>1. Len(p) \in Nat /\ i \in Nat /\ i >= 1 /\ i <= Len(p)
  OBVIOUS
<1>2. SubSeq(p, 1, i) \in Seq(A) /\ SubSeq(p, 1, i - 1) \in Seq(A) /\ p[i] \in A
  BY <1>1
<1>3. Len(SubSeq(p, 1, i)) = i /\ \A j \in 1..i : SubSeq(p, 1, i)[j] = p[j]
  BY <1>1
<1>4. Len(SubSeq(p, 1, i - 1)) = i - 1 /\ \A j \in 1..(i - 1) : SubSeq(p, 1, i - 1)[j] = p[j]
  BY <1>1
<1>. DEFINE u == SubSeq(p, 1, i)
            v == SubSeq(p, 1, i - 1)
<1>5. /\ u \in Seq(A) /\ v \in Seq(A) /\ p[i] \in A /\ Len(u) = i /\ Len(v) = i - 1
      /\ \A j \in 1..i : u[j] = p[j]
      /\ \A j \in 1..(i - 1) : v[j] = p[j]
  BY <1>2, <1>3, <1>4, Zenon
<1>. HIDE DEF u, v
<1>6. u = Append(v, p[i])
  BY <1>1, <1>5
<1>7. Append(v, p[i]) # <<>> /\ Front(Append(v, p[i])) = v /\ Last(Append(v, p[i])) = p[i]
  BY <1>5, AppendFront, Zenon
<1> QED
  BY <1>6, <1>7, Zenon DEF u, v

\* A step of a path in a document is taken from a value whose kind it fits.
StepAt(d, p, i) ==
  /\ SubSeq(p, 1, i - 1) \in DOMAIN d
  /\ Append(SubSeq(p, 1, i - 1), p[i]) \in DOMAIN d
  /\ p[i] \in Steps
  /\ d[SubSeq(p, 1, i - 1)] = IF p[i].kind = "key" THEN "object" ELSE "array"

\* The values on the way to a value of a document are in it, and their kinds are
\* those its steps are taken from.
LEMMA Ways ==
  ASSUME NEW d, IsDocument(d), NEW p \in DOMAIN d, NEW i \in 1..Len(p)
  PROVE  StepAt(d, p, i)
<1>0. p \in Seq(Steps) /\ Len(p) \in Nat
  BY DEF IsDocument
<1>. DEFINE T == {k \in Nat : k <= Len(p) => SubSeq(p, 1, Len(p) - k) \in DOMAIN d}
<1>1. 0 \in T
  <2>1. SubSeq(p, 1, Len(p) - 0) = p
    BY <1>0
  <2> QED
    BY <2>1, Zenon
<1>2. ASSUME NEW k \in Nat, k \in T PROVE k + 1 \in T
  <2>. SUFFICES ASSUME k + 1 <= Len(p) PROVE SubSeq(p, 1, Len(p) - (k + 1)) \in DOMAIN d
    BY <1>0
  <2>. DEFINE m == Len(p) - k
  <2>1. m \in 1..Len(p) /\ k <= Len(p) /\ Len(p) - (k + 1) = m - 1
    BY <1>0
  <2>2. SubSeq(p, 1, m) \in DOMAIN d
    BY <1>2, <2>1, Zenon
  <2>. HIDE DEF m
  <2>3. SubSeq(p, 1, m) # <<>> /\ Front(SubSeq(p, 1, m)) = SubSeq(p, 1, m - 1)
    BY <1>0, <2>1, Beginnings, Zenon
  <2>4. Front(SubSeq(p, 1, m)) \in DOMAIN d
    BY <2>2, <2>3, Zenon DEF IsDocument
  <2> QED
    BY <2>1, <2>3, <2>4, Zenon
<1>. HIDE DEF T
<1>3. Nat \subseteq T
  BY <1>1, <1>2, NumbersByInduction, Zenon
<1>4. \A j \in 0..Len(p) : SubSeq(p, 1, j) \in DOMAIN d
  <2>. SUFFICES ASSUME NEW j \in 0..Len(p) PROVE SubSeq(p, 1, j) \in DOMAIN d
    BY Zenon
  <2>1. Len(p) - j \in Nat /\ Len(p) - j <= Len(p) /\ Len(p) - (Len(p) - j) = j
    BY <1>0
  <2> QED
    BY <1>3, <2>1, Zenon DEF T
<1>5. i \in 0..Len(p) /\ i - 1 \in 0..Len(p) /\ p[i] \in Steps
  BY <1>0
<1>6. /\ SubSeq(p, 1, i) = Append(SubSeq(p, 1, i - 1), p[i]) /\ SubSeq(p, 1, i) # <<>>
      /\ Front(SubSeq(p, 1, i)) = SubSeq(p, 1, i - 1) /\ Last(SubSeq(p, 1, i)) = p[i]
  BY <1>0, Beginnings, Zenon
<1>7. d[Front(SubSeq(p, 1, i))] = IF Last(SubSeq(p, 1, i)).kind = "key" THEN "object" ELSE "array"
  BY <1>4, <1>5, <1>6, Zenon DEF IsDocument
<1> QED
  BY <1>4, <1>5, <1>6, <1>7, Zenon DEF StepAt

\* The tail of a sequence.
LEMMA Tails ==
  ASSUME NEW A, NEW s \in Seq(A), s # <<>>
  PROVE  /\ Tail(s) \in Seq(A) /\ Len(Tail(s)) = Len(s) - 1 /\ Len(s) >= 1 /\ Head(s) = s[1]
         /\ \A i \in 2..Len(s) : s[i] = Tail(s)[i - 1]
<1>1. Tail(s) \in Seq(A) /\ Len(Tail(s)) = Len(s) - 1 /\ Len(s) >= 1 /\ Head(s) = s[1]
  OBVIOUS
<1>2. ASSUME NEW i \in 2..Len(s) PROVE s[i] = Tail(s)[i - 1]
  OBVIOUS
<1> QED
  BY <1>1, <1>2, Zenon

\* A pointer that is longer than nothing is its first character and its tail.
LEMMA HeadAndTail ==
  ASSUME NEW A, NEW s \in Seq(A), s # <<>>, NEW t \in Seq(A), t # <<>>, Head(s) = Head(t), Tail(s) = Tail(t)
  PROVE  s = t
<1>1. /\ Len(Tail(s)) = Len(s) - 1 /\ Len(s) >= 1 /\ Head(s) = s[1]
      /\ \A i \in 2..Len(s) : s[i] = Tail(s)[i - 1]
  BY Tails, Zenon
<1>2. /\ Len(Tail(t)) = Len(t) - 1 /\ Len(t) >= 1 /\ Head(t) = t[1]
      /\ \A i \in 2..Len(t) : t[i] = Tail(t)[i - 1]
  BY Tails, Zenon
<1>. DEFINE u == Tail(s)
            m == Len(u)
<1>3. Len(s) - 1 = m /\ Len(t) - 1 = m /\ Len(s) >= 1 /\ Len(t) >= 1 /\ s[1] = t[1]
  BY <1>1, <1>2, Zenon
<1>. HIDE DEF m
<1>4. \A i \in 2..Len(s) : s[i] = u[i - 1]
  BY <1>1, Zenon
<1>5. \A i \in 2..Len(t) : t[i] = u[i - 1]
  BY <1>2, Zenon
<1>. HIDE DEF u
<1>6. Len(s) = Len(t)
  BY <1>3
<1>7. \A i \in 1..Len(s) : i = 1 \/ i \in 2..Len(s)
  OBVIOUS
<1>8. \A i \in 1..Len(s) : s[i] = t[i]
  BY <1>3, <1>4, <1>5, <1>6, <1>7, Zenon
<1>9. ASSUME NEW v \in Seq(A), NEW w \in Seq(A), Len(v) = Len(w), \A i \in 1..Len(v) : v[i] = w[i]
      PROVE  v = w
  BY <1>9
<1> QED
  BY <1>6, <1>8, <1>9, Zenon

\* The text of a step is the token that takes it, and no other token does.
LEMMA StepTexts ==
  ASSUME NEW step \in Steps, NEW token \in Strings
  PROVE  /\ step = Key(token) => Text(step) = token
         /\ ArrayIndex(token) /\ step = Index(Decimal(token)) => Text(step) = token
         /\ step.kind = "key" => step = Key(Text(step))
         /\ step.kind # "key" => /\ ArrayIndex(Text(step))
                                 /\ step = Index(Decimal(Text(step)))
<1>1. Key(token).kind = "key" /\ Key(token).key = token
  BY DEF Key
<1>2. \A n : Index(n).kind # "key" /\ Index(n).index = n
  BY DEF Index
<1>3. step.kind = "key" => step = Key(step.key)
  BY DEF Key, Steps
<1>4. step.kind # "key" => step = Index(step.index) /\ step.index \in Nat
  BY DEF Index, Steps
<1>5. ArrayIndex(token) => token \in Numerals
  <2>1. token \in Seq(Glyphs)
    BY Zenon DEF Strings
  <2>2. ASSUME \A i \in DOMAIN token : token[i] \in DigitSet PROVE token \in Seq(DigitSet)
    BY <2>1, <2>2
  <2>3. \A c : IsDigit(c) => c \in DigitSet
    BY Zenon DEF IsDigit, DigitSet
  <2> QED
    BY <2>2, <2>3, Zenon DEF ArrayIndex, Numerals
<1>6. ArrayIndex(token) => Numeral(Decimal(token)) = token
  BY <1>5, ReadsAsWritten, Zenon
<1>7. step.kind # "key" => ArrayIndex(Numeral(step.index)) /\ Decimal(Numeral(step.index)) = step.index
  BY <1>4, WrittenReadsBack, Zenon DEF CanonicalNumeral
<1> QED
  BY <1>1, <1>2, <1>3, <1>4, <1>6, <1>7, Zenon DEF Text

\* A part of a valid pointer is the escaped token.
LEMMA PartsAndTokens ==
  ASSUME NEW s \in Strings, s # <<>>
  PROVE  /\ Parts(s) \in Seq(Strings) /\ Tail(s) \in Strings
         /\ DOMAIN Parts(s) = 1..Len(Parts(s)) /\ Len(Tokens(s)) = Len(Parts(s))
         /\ \A i \in 1..Len(Parts(s)) :
              /\ Tokens(s)[i] = Unescape(Parts(s)[i])
              /\ Escaped(Parts(s)[i]) =>
                   Tokens(s)[i] \in Strings /\ Escape(Tokens(s)[i]) = Parts(s)[i]
<1>. DEFINE Q == Parts(s)
<1>1. Tail(s) \in Strings
  BY Tails, Zenon DEF Strings
<1>2. Q \in Seq(Strings) /\ \A i \in DOMAIN Q : NoSlash(Q[i])
  BY <1>1, Splits, PartsHaveNoSlash, Zenon DEF Parts
<1>. HIDE DEF Q
<1>3. DOMAIN Q = 1..Len(Q) /\ Len(Q) \in Nat /\ \A i \in DOMAIN Q : Q[i] \in Strings
  BY <1>2
<1>. DEFINE U(t) == Unescape(t)
<1>4. Tokens(s) = [i \in 1..Len(Q) |-> U(Q[i])]
  BY <1>3, Zenon DEF Tokens, Q
<1>. HIDE DEF U
<1>5. Len(Tokens(s)) = Len(Q) /\ \A i \in 1..Len(Q) : Tokens(s)[i] = U(Q[i])
  BY <1>3, <1>4
<1>6. ASSUME NEW i \in 1..Len(Q), Escaped(Q[i]) PROVE U(Q[i]) \in Strings /\ Escape(U(Q[i])) = Q[i]
  BY <1>2, <1>3, <1>6, TokenIsEscaped, Zenon DEF U
<1> QED
  BY <1>1, <1>2, <1>3, <1>5, <1>6, Zenon DEF Q, U

\* What a pointer resolves to is what it was written for.
LEMMA ResolvesAsWritten ==
  ASSUME NEW d, IsDocument(d), NEW s \in Strings, NEW p \in DOMAIN d, p # <<>>,
         ValidPointer(s), Resolves(d, Tokens(s), p)
  PROVE  Written(p) = s
<1>. DEFINE Q == Parts(s)
            K == Tokens(s)
            w == Written(p)
<1>0. p \in Seq(Steps) /\ s # <<>> /\ Head(s) = Slash
  BY Zenon DEF IsDocument, ValidPointer
<1>1. /\ Q \in Seq(Strings) /\ Tail(s) \in Strings
      /\ DOMAIN Q = 1..Len(Q) /\ Len(K) = Len(Q)
      /\ \A i \in 1..Len(Q) : Escaped(Q[i]) => K[i] \in Strings /\ Escape(K[i]) = Q[i]
  BY <1>0, PartsAndTokens, Zenon
<1>2. \A i \in 1..Len(Q) : K[i] \in Strings /\ Escape(K[i]) = Q[i]
  BY <1>1, Zenon DEF ValidPointer
<1>3. Len(p) = Len(Q) /\ \A i \in 1..Len(p) : Leads(d, SubSeq(p, 1, i - 1), K[i], p[i])
  BY <1>1, Zenon DEF Resolves
<1>. HIDE DEF Q, K
<1>4. ASSUME NEW i \in 1..Len(p) PROVE Escape(Text(p[i])) = Q[i]
  <2>1. p[i] \in Steps
    BY <1>0
  <2>2. K[i] \in Strings /\ Escape(K[i]) = Q[i] /\ Leads(d, SubSeq(p, 1, i - 1), K[i], p[i])
    BY <1>2, <1>3, Zenon
  <2>3. Text(p[i]) = K[i]
    BY <2>1, <2>2, StepTexts, Zenon DEF Leads
  <2> QED
    BY <2>2, <2>3, Zenon
<1>5. StepCodes(p) = Q
  <2>1. StepCodes(p) = [i \in 1..Len(p) |-> Q[i]]
    BY <1>4, Zenon DEF StepCodes
  <2> QED
    BY <1>1, <1>3, <2>1
<1>6. w # <<>> /\ Head(w) = Slash /\ Parts(w) = Q /\ w \in Strings
  BY <1>0, <1>5, WrittenParts, Writes, Zenon DEF WellWritten
<1>. HIDE DEF w
<1>7. Tail(w) \in Strings
  BY <1>6, PartsAndTokens, Zenon
<1>8. Tail(w) = Tail(s)
  BY <1>1, <1>6, <1>7, SplitOnce, Zenon DEF Parts, Q
<1>9. w = s
  BY <1>0, <1>6, <1>8, HeadAndTail, Zenon DEF Strings
<1> QED
  BY <1>9, Zenon DEF w

\* The pointer of a value is valid and resolves to it.
LEMMA WrittenResolves ==
  ASSUME NEW d, IsDocument(d), NEW p \in DOMAIN d, p # <<>>
  PROVE  ValidPointer(Written(p)) /\ Resolves(d, Tokens(Written(p)), p)
<1>. DEFINE s == Written(p)
            Q == Parts(s)
            K == Tokens(s)
<1>0. p \in Seq(Steps) /\ Len(p) \in Nat
  BY DEF IsDocument
<1>1. s # <<>> /\ Head(s) = Slash /\ Q = StepCodes(p) /\ s \in Strings
  BY <1>0, WrittenParts, Writes, Zenon DEF WellWritten
<1>. HIDE DEF s
<1>2. Len(K) = Len(Q) /\ DOMAIN Q = 1..Len(Q) /\ \A i \in 1..Len(Q) : K[i] = Unescape(Q[i])
  BY <1>1, PartsAndTokens, Zenon
<1>3. DOMAIN Q = 1..Len(p) /\ \A i \in 1..Len(p) : Q[i] = Escape(Text(p[i]))
  BY <1>1, Zenon DEF StepCodes
<1>. HIDE DEF Q, K
<1>4. Len(Q) = Len(p)
  <2>1. Q = [i \in 1..Len(p) |-> Q[i]]
    BY <1>1, <1>3, Zenon DEF StepCodes
  <2> QED
    BY <1>0, <2>1
<1>5. ASSUME NEW i \in 1..Len(p)
      PROVE  Escaped(Q[i]) /\ Leads(d, SubSeq(p, 1, i - 1), K[i], p[i])
  <2>1. p[i] \in Steps /\ Text(p[i]) \in Strings
    BY <1>0, Texts
  <2>2. NoTilde(Remains(Q[i])) /\ Unescape(Q[i]) = Text(p[i])
    BY <1>3, <2>1, EscapedReadsBack, Zenon DEF WellEscaped
  <2>3. Escaped(Q[i])
    BY <2>2, Zenon DEF Escaped, Remains, NoTilde
  <2>4. K[i] = Text(p[i])
    BY <1>2, <1>4, <2>2, Zenon
  <2>5. StepAt(d, p, i)
    BY Ways, Zenon
  <2>6. Leads(d, SubSeq(p, 1, i - 1), Text(p[i]), p[i])
    BY <2>1, <2>5, StepTexts, Zenon DEF Leads, StepAt
  <2> QED
    BY <2>3, <2>4, <2>6, Zenon
<1>6. ValidPointer(s)
  BY <1>1, <1>3, <1>5, Zenon DEF ValidPointer, Q
<1>7. Resolves(d, K, p)
  BY <1>2, <1>4, <1>5, Zenon DEF Resolves
<1> QED
  BY <1>6, <1>7, Zenon DEF K, s

\* removeMember finds the member whose pointer it reads.
LEMMA FindsTheNamed ==
  ASSUME NEW d, IsDocument(d), NEW s \in Strings
  PROVE  Found(d, s) = Named(d, s)
<1>1. ASSUME NEW p, p \in Found(d, s) PROVE p \in Named(d, s)
  <2>1. /\ ValidPointer(s) /\ p \in DOMAIN d /\ p # <<>>
        /\ Resolves(d, Tokens(s), p) /\ d[Front(p)] = "object"
    BY <1>1, Zenon DEF Found
  <2>2. Written(p) = s
    BY <2>1, ResolvesAsWritten, Zenon
  <2> QED
    BY <2>1, <2>2, Zenon DEF Named
<1>2. ASSUME NEW p, p \in Named(d, s) PROVE p \in Found(d, s)
  <2>1. p \in DOMAIN d /\ p # <<>> /\ d[Front(p)] = "object" /\ Written(p) = s
    BY <1>2, Zenon DEF Named
  <2>2. ValidPointer(Written(p)) /\ Resolves(d, Tokens(Written(p)), p)
    BY <2>1, WrittenResolves, Zenon
  <2> QED
    BY <2>1, <2>2, Zenon DEF Found
<1> QED
  BY <1>1, <1>2, Zenon

\* Two values of a document with the same pointer are one.
LEMMA OneValueAPointer ==
  ASSUME NEW d, IsDocument(d), NEW p \in DOMAIN d, p # <<>>, NEW q \in DOMAIN d, q # <<>>,
         Written(p) = Written(q)
  PROVE  p = q
<1>0. p \in Seq(Steps) /\ q \in Seq(Steps) /\ Len(p) \in Nat /\ Len(q) \in Nat
  BY DEF IsDocument
<1>1. StepCodes(p) = StepCodes(q)
  BY <1>0, WrittenParts, Zenon DEF WellWritten
<1>2. Len(p) = Len(q)
  <2>1. DOMAIN StepCodes(p) = 1..Len(p) /\ DOMAIN StepCodes(q) = 1..Len(q)
    BY Zenon DEF StepCodes
  <2> QED
    BY <1>0, <1>1, <2>1
<1>3. ASSUME NEW i \in 1..Len(p) PROVE Text(p[i]) = Text(q[i])
  <2>1. p[i] \in Steps /\ q[i] \in Steps
    BY <1>0, <1>2
  <2>2. StepCodes(p)[i] = Escape(Text(p[i])) /\ StepCodes(q)[i] = Escape(Text(q[i]))
    BY <1>2, Zenon DEF StepCodes
  <2>3. Unescape(Escape(Text(p[i]))) = Text(p[i]) /\ Unescape(Escape(Text(q[i]))) = Text(q[i])
    BY <2>1, Texts, EscapedReadsBack, Zenon DEF WellEscaped
  <2> QED
    BY <1>1, <2>2, <2>3, Zenon
<1>. DEFINE T == {k \in Nat : k <= Len(p) => SubSeq(p, 1, k) = SubSeq(q, 1, k)}
<1>4. 0 \in T
  OBVIOUS
<1>5. ASSUME NEW k \in Nat, k \in T PROVE k + 1 \in T
  <2>. DEFINE i == k + 1
  <2>. SUFFICES ASSUME i <= Len(p) PROVE SubSeq(p, 1, i) = SubSeq(q, 1, i)
    OBVIOUS
  <2>1. i \in 1..Len(p) /\ i \in 1..Len(q) /\ i - 1 = k /\ k <= Len(p)
    BY <1>0, <1>2
  <2>2. SubSeq(p, 1, i - 1) = SubSeq(q, 1, i - 1)
    BY <1>5, <2>1, Zenon
  <2>. HIDE DEF i
  <2>3. StepAt(d, p, i) /\ StepAt(d, q, i)
    BY <2>1, Ways, Zenon
  <2>4. p[i].kind = "key" <=> q[i].kind = "key"
    <3>1. "object" # "array"
      OBVIOUS
    <3> QED
      BY <2>2, <2>3, <3>1, Zenon DEF StepAt
  <2>5. p[i] \in Steps /\ q[i] \in Steps /\ Text(p[i]) = Text(q[i]) /\ Text(p[i]) \in Strings
    BY <1>3, <2>1, <2>3, Texts, Zenon DEF StepAt
  <2>6. p[i] = q[i]
    BY <2>4, <2>5, StepTexts, Zenon
  <2>7. /\ SubSeq(p, 1, i) = Append(SubSeq(p, 1, i - 1), p[i])
        /\ SubSeq(q, 1, i) = Append(SubSeq(q, 1, i - 1), q[i])
    BY <1>0, <2>1, Beginnings, Zenon
  <2> QED
    BY <2>2, <2>6, <2>7, Zenon
<1>. HIDE DEF T
<1>6. Nat \subseteq T
  BY <1>4, <1>5, NumbersByInduction, Zenon
<1>7. Len(p) <= Len(p)
  BY <1>0
<1>8. SubSeq(p, 1, Len(p)) = SubSeq(q, 1, Len(q))
  BY <1>0, <1>2, <1>6, <1>7, Zenon DEF T
<1>9. SubSeq(p, 1, Len(p)) = p /\ SubSeq(q, 1, Len(q)) = q
  BY <1>0
<1> QED
  BY <1>8, <1>9, Zenon

\* What is under a value is under what holds it.
LEMMA UnderFront ==
  ASSUME NEW A, NEW p \in Seq(A), NEW q \in Seq(A), q # <<>>, Under(Front(q), p)
  PROVE  Under(q, p)
<1>1. Len(q) \in Nat /\ Len(q) >= 1 /\ Len(p) \in Nat /\ Len(Front(q)) = Len(q) - 1
  BY FrontLast
<1>2. Len(p) <= Len(q) - 1 /\ SubSeq(Front(q), 1, Len(p)) = p
  BY <1>1, Zenon DEF Under
<1>3. SubSeq(Front(q), 1, Len(p)) = SubSeq(q, 1, Len(p))
  <2>1. Front(q) = [i \in 1..(Len(q) - 1) |-> q[i]]
    BY <1>1 DEF Front
  <2>2. \A i \in 1..Len(p) : Front(q)[i] = q[i]
    BY <1>1, <1>2, <2>1
  <2>3. SubSeq(Front(q), 1, Len(p)) = [i \in 1..Len(p) |-> Front(q)[i]]
    BY <1>1, <1>2, FrontLast
  <2>4. SubSeq(q, 1, Len(p)) = [i \in 1..Len(p) |-> q[i]]
    BY <1>1, <1>2
  <2> QED
    BY <2>2, <2>3, <2>4, Zenon
<1>4. Len(p) <= Len(q)
  BY <1>1, <1>2
<1> QED
  BY <1>2, <1>3, <1>4, Zenon DEF Under

\* A document without a value and what it holds is a document.
LEMMA DocumentWithout ==
  ASSUME NEW d, IsDocument(d), NEW p \in DOMAIN d, p # <<>>
  PROVE  IsDocument(Without(d, p)) /\ DOMAIN Without(d, p) = {q \in DOMAIN d : ~Under(q, p)}
<1>. DEFINE D == {q \in DOMAIN d : ~Under(q, p)}
            e == Without(d, p)
<1>1. DOMAIN e = D /\ (\A q \in D : e[q] = d[q]) /\ e = [q \in D |-> d[q]]
  BY Zenon DEF Without
<1>2. p \in Seq(Steps)
  BY Zenon DEF IsDocument
<1>3. ~Under(<<>>, p)
  <2>1. ~(Len(p) <= Len(<<>>))
    BY <1>2
  <2> QED
    BY <2>1, Zenon DEF Under
<1>4. <<>> \in D
  BY <1>3, Zenon DEF IsDocument
<1>5. ASSUME NEW q \in D, q # <<>> PROVE q \in Seq(Steps) /\ Front(q) \in D
  <2>1. q \in Seq(Steps) /\ Front(q) \in DOMAIN d
    BY <1>5, Zenon DEF IsDocument
  <2> QED
    BY <1>2, <1>5, <2>1, UnderFront, Zenon
<1>6. \A q \in D : q \in Seq(Steps) /\ d[q] \in {"object", "array", "leaf"}
  BY Zenon DEF IsDocument
<1>7. \A q \in D : q # <<>> => d[Front(q)] = IF Last(q).kind = "key" THEN "object" ELSE "array"
  BY Zenon DEF IsDocument
<1>. HIDE DEF D, e
<1>8. e \in [D -> {"object", "array", "leaf"}]
  BY <1>1, <1>6, Zenon
<1>9. IsDocument(e)
  <2>1. ASSUME NEW q \in D, q # <<>>
        PROVE  Front(q) \in D /\ e[Front(q)] = IF Last(q).kind = "key" THEN "object" ELSE "array"
    <3>1. Front(q) \in D /\ d[Front(q)] = IF Last(q).kind = "key" THEN "object" ELSE "array"
      BY <1>5, <1>7, <2>1, Zenon
    <3>2. e[Front(q)] = d[Front(q)]
      BY <1>1, <3>1, Zenon
    <3> QED
      BY <3>1, <3>2, Zenon
  <2>2. <<>> \in DOMAIN e /\ e \in [DOMAIN e -> {"object", "array", "leaf"}]
    BY <1>1, <1>4, <1>8, Zenon
  <2> QED
    BY <1>1, <1>6, <2>1, <2>2, Zenon DEF IsDocument
<1> QED
  BY <1>1, <1>9, Zenon DEF D, e

\* A document without the members that pointers name in it.
Left(d, W) == [q \in {q \in DOMAIN d : \A s \in W : \A p \in Named(d, s) : ~Under(q, p)} |-> d[q]]

\* What is stored is a document, and what is left of the response without the members
\* named so far.
PointerInv ==
  /\ IsDocument(body) /\ IsDocument(stored) /\ pointer \in Strings /\ withheld \subseteq Strings
  /\ \A s \in withheld : Named(body, s) # {}
  /\ stored = Left(body, withheld)

\* What a removal leaves.
OneMoreRemoved(d, W, left, s, p) ==
  /\ IsDocument(Without(left, p))
  /\ Without(left, p) = Left(d, W \cup {s})
  /\ Named(d, s) # {}

\* Removing a member from what is left of a response leaves what it is without
\* all the members named in it.
LEMMA RemovesOneMore ==
  ASSUME NEW d, IsDocument(d), NEW W, NEW left, IsDocument(left), left = Left(d, W),
         NEW s \in Strings, NEW p \in Found(left, s)
  PROVE  OneMoreRemoved(d, W, left, s, p)
<1>. DEFINE In(V) == {q \in DOMAIN d : \A t \in V : \A r \in Named(d, t) : ~Under(q, r)}
<1>1. p \in DOMAIN left /\ p # <<>> /\ left[Front(p)] = "object" /\ Written(p) = s
  <2>1. p \in Named(left, s)
    BY FindsTheNamed, Zenon
  <2> QED
    BY <2>1, Zenon DEF Named
<1>2. DOMAIN left = In(W) /\ \A q \in In(W) : left[q] = d[q]
  BY Zenon DEF Left
<1>3. p \in DOMAIN d /\ Front(p) \in In(W) /\ d[Front(p)] = "object"
  <2>1. Front(p) \in DOMAIN left
    BY <1>1, Zenon DEF IsDocument
  <2> QED
    BY <1>1, <1>2, <2>1, Zenon
<1>4. Named(d, s) = {p}
  <2>1. p \in Named(d, s)
    BY <1>1, <1>3, Zenon DEF Named
  <2>2. ASSUME NEW r \in Named(d, s) PROVE r = p
    <3>1. r \in DOMAIN d /\ r # <<>> /\ Written(r) = Written(p)
      BY <1>1, <2>2, Zenon DEF Named
    <3> QED
      BY <1>1, <1>3, <3>1, OneValueAPointer, Zenon
  <2> QED
    BY <2>1, <2>2, Zenon
<1>5. IsDocument(Without(left, p))
  BY <1>1, DocumentWithout, Zenon
<1>6. {q \in DOMAIN left : ~Under(q, p)} = In(W \cup {s})
  <2>1. ASSUME NEW q PROVE q \in In(W \cup {s}) <=> q \in In(W) /\ ~Under(q, p)
    BY <1>4, Zenon
  <2>. HIDE DEF In
  <2> QED
    BY <1>2, <2>1, Zenon
<1>7. Without(left, p) = [q \in In(W \cup {s}) |-> left[q]]
  BY <1>6, Zenon DEF Without
<1>8. \A q \in In(W \cup {s}) : left[q] = d[q]
  BY <1>2, Zenon
<1>9. Left(d, W \cup {s}) = [q \in In(W \cup {s}) |-> d[q]]
  BY Zenon DEF Left
<1>. HIDE DEF In
<1>10. Without(left, p) = Left(d, W \cup {s})
  BY <1>7, <1>8, <1>9, Zenon
<1> QED
  BY <1>4, <1>5, <1>10, Zenon DEF OneMoreRemoved

\* For any response, any characters and any pointers, of any length and in any order:
\* removeMember deletes the member whose pointer it is given and fails for any other,
\* and what is stored is the response without the members named.
THEOREM PointersKept ==
  PointerSpec => []RemovesTheNamed
<1>1. PointerInit => PointerInv
  <2>. SUFFICES ASSUME PointerInit PROVE PointerInv
    BY Zenon
  <2>1. IsDocument(body) /\ IsDocument(stored) /\ pointer \in Strings /\ withheld = {} /\ stored = body
    BY Nothing, Zenon DEF PointerInit
  <2>2. body = [q \in DOMAIN body |-> body[q]]
    BY <2>1, Zenon DEF IsDocument
  <2>3. Left(body, {}) = [q \in DOMAIN body |-> body[q]]
    <3>1. {q \in DOMAIN body : \A s \in {} : \A p \in Named(body, s) : ~Under(q, p)} = DOMAIN body
      BY Zenon
    <3> QED
      BY <3>1, Zenon DEF Left
  <2> QED
    BY <2>1, <2>2, <2>3, Zenon DEF PointerInv
<1>2. PointerInv /\ [PointerNext]_pointerVars => PointerInv'
  <2>. SUFFICES ASSUME PointerInv, [PointerNext]_pointerVars PROVE PointerInv'
    BY Zenon
  <2>1. CASE Grow
    <3>1. PICK c \in PointerChars : pointer' = Append(pointer, c)
      BY <2>1, Zenon DEF Grow
    <3>2. pointer' \in Strings
      BY <3>1, StringParts, PointerConstants, Zenon DEF PointerInv
    <3> QED
      BY <2>1, <3>2, Zenon DEF Grow, PointerInv
  <2>2. CASE RemoveMember
    <3>1. PICK p \in Found(stored, pointer) : stored' = Without(stored, p)
      BY <2>2, Zenon DEF RemoveMember
    <3>2. withheld' = withheld \cup {pointer} /\ pointer' = <<>> /\ body' = body
      BY <2>2, Zenon DEF RemoveMember
    <3>3. /\ IsDocument(Without(stored, p))
          /\ Without(stored, p) = Left(body, withheld \cup {pointer})
          /\ Named(body, pointer) # {}
      <4>1. /\ IsDocument(body) /\ IsDocument(stored) /\ pointer \in Strings
            /\ stored = Left(body, withheld)
        BY Zenon DEF PointerInv
      <4>2. OneMoreRemoved(body, withheld, stored, pointer, p)
        BY <4>1, RemovesOneMore, Zenon
      <4> QED
        BY <4>2, Zenon DEF OneMoreRemoved
    <3> QED
      BY <3>1, <3>2, <3>3, Nothing, Zenon DEF PointerInv
  <2>3. CASE UNCHANGED pointerVars
    BY <2>3, Zenon DEF pointerVars, PointerInv
  <2> QED
    BY <2>1, <2>2, <2>3, Zenon DEF PointerNext
<1>3. PointerInv => RemovesTheNamed
  <2>. SUFFICES ASSUME PointerInv PROVE RemovesTheNamed
    BY Zenon
  <2>1. Found(stored, pointer) = Named(stored, pointer)
    BY FindsTheNamed, Zenon DEF PointerInv
  <2> QED
    BY <2>1, Zenon DEF PointerInv, RemovesTheNamed, Left
<1> QED
  BY <1>1, <1>2, <1>3, PTL DEF PointerSpec

=============================================================================
