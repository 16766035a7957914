-------------------------------- MODULE Pool --------------------------------
(***************************************************************************)
(* db.Pool: InTx and Close of package db, over a connection source of      *)
(* MaxConns connections.  Callers run on their own goroutines; a caller    *)
(* may call InTx again from inside its function, with the derived context. *)
(***************************************************************************)
EXTENDS Naturals, FiniteSets

CONSTANTS Callers,
          MaxConns,        \* Config.MaxConns
          AcquireTimeout,  \* Config.AcquireTimeout
          MaxWait          \* bound: how long a wait is followed

VARIABLES
  src,         \* p.src: "open", "closing" while pgxpool.Close waits, or "nil"
  pc,
  conns,       \* connections an InTx call path holds
  bound,       \* callers whose session was bound in this transaction
  worked,      \* callers whose function has changed rows
  committed,   \* callers whose changes the database has committed
  result,      \* what InTx returned, or how it ended
  waited       \* how long a caller has waited for a connection

call == <<pc, result>>
vars == <<src, call, conns, bound, worked, committed, waited>>

Steps   == {"idle", "begin", "bind", "fn", "commit", "rollback", "done"}
Results == {"none", "nil", "ErrClosed", "nil_source", "begin", "bind", "fn", "panic", "commit"}

TypeOK ==
  /\ src \in {"open", "closing", "nil"}
  /\ pc \in [Callers -> Steps]
  /\ conns \in [Callers -> 0..MaxConns]
  /\ bound \subseteq Callers
  /\ worked \subseteq Callers
  /\ committed \subseteq Callers
  /\ result \in [Callers -> Results]
  /\ waited \in [Callers -> 0..MaxWait]

Init ==
  /\ src = "open"
  /\ pc = [c \in Callers |-> "idle"]
  /\ conns = [c \in Callers |-> 0]
  /\ bound = {} /\ worked = {} /\ committed = {}
  /\ result = [c \in Callers |-> "none"]
  /\ waited = [c \in Callers |-> 0]

-----------------------------------------------------------------------------
InUse == UNION {{c} \X (1..conns[c]) : c \in Callers}

Available == src = "open" /\ Cardinality(InUse) < MaxConns

To(c, step) == pc' = [pc EXCEPT ![c] = step] /\ UNCHANGED result

\* InTx returns, or panics.
Return(c, r) == pc' = [pc EXCEPT ![c] = "done"] /\ result' = [result EXCEPT ![c] = r]

\* The deferred function runs with the outcome known.
Unwind(c, r) == pc' = [pc EXCEPT ![c] = "rollback"] /\ result' = [result EXCEPT ![c] = r]

\* InTx up to Begin.
Enter(c) ==
  /\ pc[c] = "idle"
  /\ IF src = "nil" THEN Return(c, "ErrClosed") ELSE To(c, "begin")
  /\ UNCHANGED <<src, conns, bound, worked, committed, waited>>

\* p.src.Begin finds a connection.
Acquire(c) ==
  /\ pc[c] = "begin"
  /\ Available
  /\ conns' = [conns EXCEPT ![c] = @ + 1]
  /\ To(c, "bind")
  /\ UNCHANGED <<src, bound, worked, committed, waited>>

\* It fails: the database, or the caller's context, which may have no deadline.
BeginFails(c) ==
  /\ pc[c] = "begin"
  /\ src = "open"
  /\ Return(c, "begin")
  /\ UNCHANGED <<src, conns, bound, worked, committed, waited>>

\* It fails because the pool is closing, or panics because Close has cleared the
\* source since InTx looked at it.
BeginClosed(c) ==
  /\ pc[c] = "begin"
  /\ src # "open"
  /\ Return(c, IF src = "nil" THEN "nil_source" ELSE "begin")
  /\ UNCHANGED <<src, conns, bound, worked, committed, waited>>

\* Time passes for a caller that waits for a connection.
Wait(c) ==
  /\ pc[c] = "begin"
  /\ src = "open" /\ ~Available
  /\ waited[c] < MaxWait
  /\ waited' = [waited EXCEPT ![c] = @ + 1]
  /\ UNCHANGED <<src, call, conns, bound, worked, committed>>

\* p.binder.Bind, when there is one, succeeds, fails or panics.
Bind(c) ==
  /\ pc[c] = "bind"
  /\ \/ bound' = bound \cup {c} /\ To(c, "fn")
     \/ (Unwind(c, "bind") \/ Unwind(c, "panic")) /\ UNCHANGED bound
  /\ UNCHANGED <<src, conns, worked, committed, waited>>

\* fn changes rows through the handle.
Work(c) ==
  /\ pc[c] = "fn"
  /\ c \notin worked
  /\ worked' = worked \cup {c}
  /\ UNCHANGED <<src, call, conns, bound, committed, waited>>

\* fn calls InTx with its own context: the marker refuses it, and fn goes on.
Nested(c) ==
  /\ pc[c] = "fn"
  /\ UNCHANGED vars

\* fn returns nil, returns an error or panics.
FnReturns(c) ==
  /\ pc[c] = "fn"
  /\ To(c, "commit") \/ Unwind(c, "fn") \/ Unwind(c, "panic")
  /\ UNCHANGED <<src, conns, bound, worked, committed, waited>>

\* tx.Commit: done, failed, or done and the answer lost.
Commit(c) ==
  /\ pc[c] = "commit"
  /\ \/ /\ committed' = committed \cup {c}
        /\ conns' = [conns EXCEPT ![c] = @ - 1]
        /\ Return(c, "nil")
     \/ /\ committed' \in {committed, committed \cup {c}}
        /\ Unwind(c, "commit")
        /\ UNCHANGED conns
  /\ UNCHANGED <<src, bound, worked, waited>>

\* Mutant: a panic leaves the transaction open.
RollbackUnlessPanic(c) ==
  /\ pc[c] = "rollback"
  /\ conns' = [conns EXCEPT ![c] = IF result[c] = "panic" THEN @ ELSE @ - 1]
  /\ To(c, "done")
  /\ UNCHANGED <<src, bound, worked, committed, waited>>

\* The deferred rollback: its own context outlives a cancelled one, and pgx
\* discards the connection of a rollback that fails, so either way it is given
\* back.
Rollback(c) ==
  /\ pc[c] = "rollback"
  /\ conns' = [conns EXCEPT ![c] = @ - 1]
  /\ To(c, "done")
  /\ UNCHANGED <<src, bound, worked, committed, waited>>

\* pgxpool.Close refuses new acquisitions and waits for the connections in use.
Close ==
  /\ src = "open"
  /\ src' = "closing"
  /\ UNCHANGED <<call, conns, bound, worked, committed, waited>>

Closed ==
  /\ src = "closing"
  /\ InUse = {}
  /\ src' = "nil"
  /\ UNCHANGED <<call, conns, bound, worked, committed, waited>>

Step(c) ==
  \/ Enter(c) \/ Acquire(c) \/ BeginFails(c) \/ BeginClosed(c) \/ Bind(c)
  \/ Work(c) \/ Nested(c) \/ FnReturns(c) \/ Commit(c) \/ Rollback(c)

Next == (\E c \in Callers : Step(c) \/ Wait(c)) \/ Close \/ Closed

Spec == Init /\ [][Next]_vars

-----------------------------------------------------------------------------
(* Properties *)

\* A connection is held exactly while a transaction is open on the call path,
\* and by no path twice: errors, panics, failed commits and refused nested calls
\* leak none.
ConnectionsReturned ==
  \A c \in Callers : conns[c] = IF pc[c] \in {"bind", "fn", "commit", "rollback"} THEN 1 ELSE 0

\* No row is changed in a session that was not bound.
WorkIsBound == worked \subseteq bound

\* InTx returns nil only for committed work, and reports work that was committed
\* as failed only when the commit itself was answered by an error.
ResultIsTrue ==
  \A c \in Callers :
    /\ result[c] = "nil" => c \in committed
    /\ c \in committed => result[c] \in {"nil", "commit"}

\* Close returns when the last transaction is over: none is open without a
\* source, and a call that Close overtakes has taken no connection, run no
\* function and changed nothing.
CloseDrains ==
  /\ src = "nil" => InUse = {} /\ \A c \in Callers : pc[c] \in {"idle", "begin", "done"}
  /\ \A c \in Callers : result[c] \in {"ErrClosed", "nil_source", "begin"} =>
       conns[c] = 0 /\ c \notin bound \cup worked \cup committed

\* AcquireTimeout "bounds the wait for a connection".  Not so for a caller whose
\* context has no deadline: InTx does not use it.
WaitIsBounded == \A c \in Callers : waited[c] <= AcquireTimeout

\* Use of a closed pool is reported by ErrClosed.  Not so for a call that Close
\* overtakes: it calls Begin on a nil source and panics.
ClosedIsReported == \A c \in Callers : result[c] # "nil_source"

=============================================================================
