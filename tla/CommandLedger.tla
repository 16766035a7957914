---------------------------- MODULE CommandLedger ----------------------------
(***************************************************************************)
(* What idempotency keys promise the clients of a command: a key keeps the *)
(* response of one execution, repeats it to attempts with the same digest, *)
(* and lets no other attempt execute until it is forgotten.  There are no  *)
(* transactions, claims or clocks here.                                    *)
(***************************************************************************)
CONSTANTS Attempts, Keys, KeyOf, DigestOf, Nobody

VARIABLES
  kept,       \* whose response a key repeats, Nobody for none
  executed,   \* attempts whose command took effect
  told,       \* what an attempt was answered
  replayed    \* whose response it was answered

ledger == <<kept, executed, told, replayed>>

LedgerInit ==
  /\ kept = [k \in Keys |-> Nobody]
  /\ executed = {}
  /\ told = [a \in Attempts |-> "none"]
  /\ replayed = [a \in Attempts |-> Nobody]

Answer(a, what) == told[a] = "none" /\ told' = [told EXCEPT ![a] = what]

\* The command takes effect and its response is kept.  The attempt may hear of
\* an error only.
Execute(a, what) ==
  /\ kept[KeyOf[a]] = Nobody
  /\ kept' = [kept EXCEPT ![KeyOf[a]] = a]
  /\ executed' = executed \cup {a}
  /\ Answer(a, what)
  /\ UNCHANGED replayed

Repeat(a) ==
  LET b == kept[KeyOf[a]]
  IN /\ b \in executed
     /\ DigestOf[b] = DigestOf[a]
     /\ replayed' = [replayed EXCEPT ![a] = b]
     /\ Answer(a, "replay")
     /\ UNCHANGED <<kept, executed>>

\* An attempt that has no effect.
Refuse(a, why) ==
  /\ why = "conflict" =>
       \E b \in Attempts : KeyOf[b] = KeyOf[a] /\ DigestOf[b] # DigestOf[a]
  /\ Answer(a, why)
  /\ UNCHANGED <<kept, executed, replayed>>

Forget(K) ==
  /\ kept' = [k \in Keys |-> IF k \in K THEN Nobody ELSE kept[k]]
  /\ UNCHANGED <<executed, told, replayed>>

LedgerNext ==
  \/ \E a \in Attempts :
       \/ \E what \in {"executed", "error"} : Execute(a, what)
       \/ Repeat(a)
       \/ \E why \in {"conflict", "in_progress", "error"} : Refuse(a, why)
  \/ \E K \in SUBSET Keys : Forget(K)

LedgerSpec == LedgerInit /\ [][LedgerNext]_ledger

=============================================================================
