--------------------------- MODULE ServiceCoreProofs ---------------------------
(***************************************************************************)
(* Identifiers are ordered and distinct for any number of goroutines, any  *)
(* counter width and any movement of the clock; transactions and requests  *)
(* are sound for any number of callers, connections and requests, any limit *)
(* and any set of statuses.                                                *)
(*                                                                         *)
(* The generator's position bounds every identifier handed out.  What a    *)
(* call of InTx returned and what a client received are matters of history; *)
(* the invariants carry them on the step a caller is in and the layer a    *)
(* request is in.  The shedder's counter is the cardinality of the set of  *)
(* requests inside it, and the requests it let in are among those.         *)
(***************************************************************************)
EXTENDS ServiceCore, FiniteSetTheorems, TLAPS

-----------------------------------------------------------------------------
(* The identifier generator.  Its position bounds every identifier handed out. *)

Position == [ms |-> lastMS, seq |-> sequence]

LessEq(a, b) == a = b \/ Less(a, b)

\* The inductive invariant.
IdInvariant ==
    /\ TypeOK
    /\ LessEq(newest, Position)
    /\ \A t \in Threads : LessEq(made[t], Position) /\ LessEq(floor[t], newest)
    /\ CreationOrder
    /\ NoDuplicate

\* The order of identifiers is transitive, in the mixed form the steps use,
\* and irreflexive.
LEMMA LessTransitive ==
    ASSUME NEW a \in Id, NEW b \in Id, NEW c \in Id,
           LessEq(a, b)
    PROVE  /\ Less(b, c) => Less(a, c)
           /\ LessEq(b, c) => LessEq(a, c)
           /\ ~Less(a, a)
    BY ConstantsAssumption DEF Id, Millis, Less, LessEq

\* Taking a number, in a new millisecond or in the same one, gives the
\* goroutine the new position, which lies above the old one.
LEMMA TakeAdvances ==
    ASSUME IdInvariant, NEW t \in Threads,
           NewMillisecond(t) \/ SameMillisecond(t)
    PROVE  /\ TypeOK'
           /\ Position \in Id /\ Position' \in Id
           /\ Less(Position, Position')
           /\ made' = [made EXCEPT ![t] = Position']
           /\ pc' = [pc EXCEPT ![t] = "assemble"]
           /\ UNCHANGED <<newest, floor>>
<1>1. lastMS' \in Millis /\ sequence' \in 0..MaxSequence
    BY ConstantsAssumption
    DEF IdInvariant, TypeOK, NewMillisecond, SameMillisecond, Millis, Instants
<1>2. Position \in Id /\ Position' \in Id
    BY <1>1 DEF IdInvariant, TypeOK, Position, Id
<1>3. Less(Position, Position')
    BY ConstantsAssumption
    DEF IdInvariant, TypeOK, NewMillisecond, SameMillisecond, Position, Less, Millis, Instants
<1>4. /\ made' = [made EXCEPT ![t] = Position']
      /\ pc' = [pc EXCEPT ![t] = "assemble"]
      /\ UNCHANGED <<clock, newest, floor>>
    BY DEF NewMillisecond, SameMillisecond, Take, Position
<1>5. TypeOK'
    BY <1>1, <1>2, <1>4 DEF IdInvariant, TypeOK
<1> QED
    BY <1>2, <1>3, <1>4, <1>5

\* The invariant holds when the process starts.
LEMMA InitInvariant == Init => IdInvariant
    BY ConstantsAssumption
    DEF Init, IdInvariant, TypeOK, Millis, Instants, Id, Nil, LessEq, Position,
        CreationOrder, NoDuplicate

\* The two steps that take a number preserve the invariant.
LEMMA TakePreserves ==
    ASSUME IdInvariant, NEW t \in Threads,
           NewMillisecond(t) \/ SameMillisecond(t)
    PROVE  IdInvariant'
<1>1. /\ TypeOK'
      /\ Position \in Id /\ Position' \in Id
      /\ Less(Position, Position')
      /\ made' = [made EXCEPT ![t] = Position']
      /\ pc' = [pc EXCEPT ![t] = "assemble"]
      /\ newest' = newest /\ floor' = floor
    BY TakeAdvances
<1>2. /\ made \in [Threads -> Id] /\ floor \in [Threads -> Id]
      /\ pc \in [Threads -> {"idle", "next", "sleep", "assemble"}]
      /\ newest \in Id
    BY DEF IdInvariant, TypeOK
<1>3. Less(newest, Position')
    BY <1>1, <1>2, LessTransitive DEF IdInvariant
<1>4. ASSUME NEW u \in Threads
      PROVE  /\ Less(made[u], Position')
             /\ LessEq(floor[u], newest)
    BY <1>1, <1>2, LessTransitive DEF IdInvariant
<1>5. \A u \in Threads : LessEq(made'[u], Position') /\ LessEq(floor'[u], newest')
    BY <1>1, <1>2, <1>4 DEF LessEq
<1>6. CreationOrder'
    <2> SUFFICES ASSUME NEW u \in Threads, pc'[u] = "assemble"
                 PROVE  Less(floor'[u], made'[u])
        BY DEF CreationOrder
    <2>1. CASE u = t
        <3>1. Less(floor[t], Position')
            BY <1>1, <1>2, <1>3, <1>4, LessTransitive
        <3> QED BY <2>1, <3>1, <1>1, <1>2
    <2>2. CASE u # t
        BY <2>2, <1>1, <1>2 DEF IdInvariant, CreationOrder
    <2> QED BY <2>1, <2>2
<1>7. NoDuplicate'
    <2> SUFFICES ASSUME NEW u \in Threads, NEW v \in Threads, u # v, made'[u] # Nil
                 PROVE  made'[u] # made'[v]
        BY DEF NoDuplicate
    <2>1. ~Less(Position', Position')
        BY <1>1, LessTransitive DEF LessEq
    <2>2. CASE u = t
        BY <2>1, <2>2, <1>1, <1>2, <1>4
    <2>3. CASE v = t
        BY <2>1, <2>3, <1>1, <1>2, <1>4
    <2>4. CASE u # t /\ v # t
        BY <2>4, <1>1, <1>2 DEF IdInvariant, NoDuplicate
    <2> QED BY <2>2, <2>3, <2>4
<1> QED
    BY <1>1, <1>3, <1>5, <1>6, <1>7 DEF IdInvariant, LessEq

\* Every step preserves the invariant.
LEMMA NextInvariant == IdInvariant /\ [Next]_vars => IdInvariant'
<1> SUFFICES ASSUME IdInvariant, [Next]_vars PROVE IdInvariant'
    OBVIOUS
<1> USE DEF IdInvariant
<1>0. /\ made \in [Threads -> Id] /\ floor \in [Threads -> Id]
      /\ pc \in [Threads -> {"idle", "next", "sleep", "assemble"}]
      /\ newest \in Id /\ Nil \in Id
    BY ConstantsAssumption DEF TypeOK, Id, Nil, Millis
<1>1. ASSUME NEW t \in Threads, Call(t) PROVE IdInvariant'
    <2>1. TypeOK'
        BY <1>0, <1>1 DEF TypeOK, Call
    <2>2. \A u \in Threads : LessEq(floor'[u], newest')
        BY <1>0, <1>1 DEF Call, LessEq
    <2> QED BY <1>0, <1>1, <2>1, <2>2 DEF Call, CreationOrder, NoDuplicate, Position
<1>2. ASSUME NEW t \in Threads, NewMillisecond(t) PROVE IdInvariant'
    BY <1>2, TakePreserves
<1>3. ASSUME NEW t \in Threads, SameMillisecond(t) PROVE IdInvariant'
    BY <1>3, TakePreserves
<1>4. ASSUME NEW t \in Threads, Exhausted(t) \/ Wake(t) PROVE IdInvariant'
    BY <1>0, <1>4 DEF TypeOK, Exhausted, Wake, CreationOrder, NoDuplicate, Position
<1>5. ASSUME NEW t \in Threads, Return(t) PROVE IdInvariant'
    <2>1. /\ newest' \in Id /\ LessEq(newest', Position)
          /\ LessEq(newest, newest')
        BY <1>0, <1>5 DEF Return, LessEq
    <2>2. TypeOK' /\ Position' = Position
        BY <1>0, <1>5, <2>1 DEF TypeOK, Return, Position
    <2>3. \A u \in Threads : LessEq(floor'[u], newest')
        BY <1>0, <1>5, <2>1, LessTransitive DEF Return
    <2> QED BY <1>0, <1>5, <2>1, <2>2, <2>3 DEF Return, CreationOrder, NoDuplicate
<1>6. ASSUME NEW t \in Threads, RandomFails(t) PROVE IdInvariant'
    <2>1. TypeOK' /\ Position' = Position /\ Position \in Id
        BY <1>0, <1>6 DEF TypeOK, RandomFails, Position, Id
    <2>2. ASSUME NEW a \in Id PROVE LessEq(Nil, a)
        BY ConstantsAssumption DEF Nil, Id, Millis, LessEq, Less
    <2>3. \A u \in Threads : LessEq(made'[u], Position') /\ LessEq(floor'[u], newest')
        BY <1>0, <1>6, <2>1, <2>2 DEF RandomFails
    <2> QED BY <1>0, <1>6, <2>1, <2>3 DEF RandomFails, CreationOrder, NoDuplicate
<1>7. CASE ClockMoves
    BY <1>7 DEF TypeOK, ClockMoves, CreationOrder, NoDuplicate, Position
<1>8. CASE UNCHANGED vars
    BY <1>8 DEF vars, TypeOK, CreationOrder, NoDuplicate, Position
<1> QED
    BY <1>1, <1>2, <1>3, <1>4, <1>5, <1>6, <1>7, <1>8 DEF Next

\* For every number of goroutines and every counter width, an identifier is
\* greater than all that were returned before its call of NewV7 began.
THEOREM Ordered == Spec => []CreationOrder
<1>1. IdInvariant => CreationOrder
    BY DEF IdInvariant
<1> QED
    BY <1>1, InitInvariant, NextInvariant, PTL DEF Spec

\* No two goroutines are given the same millisecond and counter.
THEOREM Distinct == Spec => []NoDuplicate
<1>1. IdInvariant => NoDuplicate
    BY DEF IdInvariant
<1> QED
    BY <1>1, InitInvariant, NextInvariant, PTL DEF Spec

-----------------------------------------------------------------------------
(* The connection pool. *)

USE PoolConstants

\* The caller has a transaction open.
OpenTx(c) == pool_pc[c] \in {"bind", "fn", "commit", "rollback"}

\* Nothing of the caller's has reached the database.
Untouched(c) == c \notin bound /\ c \notin worked /\ c \notin committed

\* One call of InTx: its connection, what it did in which session, and its result.
CallInv(c) ==
  /\ conns[c] = IF OpenTx(c) THEN 1 ELSE 0
  /\ pool_pc[c] \in {"idle", "begin", "bind", "fn", "commit"} => result[c] = "none"
  /\ pool_pc[c] \in {"idle", "begin", "bind"} => Untouched(c)
  /\ pool_pc[c] \in {"fn", "commit"} => c \in bound /\ c \notin committed
  /\ pool_pc[c] = "rollback" => result[c] \in {"bind", "fn", "panic", "commit"}
  /\ c \in worked => c \in bound
  /\ result[c] = "nil" => c \in committed
  /\ c \in committed => result[c] \in {"nil", "commit"}
  /\ result[c] \in {"ErrClosed", "nil_source", "begin"} => Untouched(c) /\ pool_pc[c] = "done"

\* A source that Close has closed has no transaction open.
DrainInv == src = "nil" => \A c \in Callers : ~OpenTx(c)

\* The inductive invariant of the pool.
PoolInv == Pool!TypeOK /\ (\A c \in Callers : CallInv(c)) /\ DrainInv

\* Connections are in use exactly while a transaction is open.
LEMMA InUseByOpen ==
  ASSUME PoolInv
  PROVE  Pool!InUse = {} <=> \A c \in Callers : ~OpenTx(c)
<1>1. ASSUME NEW c \in Callers, OpenTx(c) PROVE Pool!InUse # {}
  <2>1. <<c, 1>> \in {c} \X (1..conns[c])
    BY <1>1 DEF PoolInv, CallInv
  <2> QED
    BY <2>1, <1>1 DEF Pool!InUse
<1>2. ASSUME \A c \in Callers : ~OpenTx(c), NEW x \in Pool!InUse PROVE FALSE
  <2>1. PICK c \in Callers : x \in {c} \X (1..conns[c])
    BY <1>2, Zenon DEF Pool!InUse
  <2>2. conns[c] = 0
    BY <1>2 DEF PoolInv, CallInv
  <2> QED
    BY <2>1, <2>2
<1> QED
  BY <1>1, <1>2, Zenon

\* Every step of InTx and Close preserves the invariant.
LEMMA PoolStep == PoolInv /\ [Pool!Next]_Pool!vars => PoolInv'
<1> SUFFICES ASSUME PoolInv, [Pool!Next]_Pool!vars PROVE PoolInv'
  OBVIOUS
<1> USE DEF PoolInv, Pool!TypeOK, CallInv, OpenTx, Untouched, DrainInv, Pool!Steps, Pool!Results,
            Pool!To, Pool!Return, Pool!Unwind, Pool!call
<1>1. ASSUME NEW c \in Callers, Pool!Enter(c) PROVE PoolInv'
  BY <1>1 DEF Pool!Enter
<1>2. ASSUME NEW c \in Callers, Pool!Acquire(c) PROVE PoolInv'
  BY <1>2 DEF Pool!Acquire, Pool!Available
<1>3. ASSUME NEW c \in Callers, Pool!BeginFails(c) PROVE PoolInv'
  BY <1>3 DEF Pool!BeginFails
<1>4. ASSUME NEW c \in Callers, Pool!BeginClosed(c) PROVE PoolInv'
  BY <1>4 DEF Pool!BeginClosed
<1>5. ASSUME NEW c \in Callers, Pool!Wait(c) PROVE PoolInv'
  BY <1>5 DEF Pool!Wait
<1>6. ASSUME NEW c \in Callers, Pool!Bind(c) PROVE PoolInv'
  BY <1>6 DEF Pool!Bind
<1>7. ASSUME NEW c \in Callers, Pool!Work(c) PROVE PoolInv'
  BY <1>7 DEF Pool!Work
<1>8. ASSUME NEW c \in Callers, Pool!Nested(c) PROVE PoolInv'
  BY <1>8 DEF Pool!Nested, Pool!vars
<1>9. ASSUME NEW c \in Callers, Pool!FnReturns(c) PROVE PoolInv'
  BY <1>9 DEF Pool!FnReturns
<1>10. ASSUME NEW c \in Callers, Pool!Commit(c) PROVE PoolInv'
  BY <1>10 DEF Pool!Commit
<1>11. ASSUME NEW c \in Callers, Pool!Rollback(c) PROVE PoolInv'
  BY <1>11 DEF Pool!Rollback
<1>12. CASE Pool!Close
  BY <1>12 DEF Pool!Close
<1>13. CASE Pool!Closed
  BY <1>13, InUseByOpen DEF Pool!Closed
<1>14. CASE UNCHANGED Pool!vars
  BY <1>14 DEF Pool!vars
<1> QED
  BY <1>1, <1>2, <1>3, <1>4, <1>5, <1>6, <1>7, <1>8, <1>9, <1>10, <1>11, <1>12, <1>13, <1>14,
     Zenon DEF Pool!Next, Pool!Step

\* For any number of callers and connections InTx leaks no connection, works only in
\* a bound session, reports what the database did, and Close drains.
THEOREM TransactionsKept == Pool!Spec => []TransactionsSound
<1>1. Pool!Init => PoolInv
  BY DEF Pool!Init, PoolInv, Pool!TypeOK, CallInv, OpenTx, Untouched, DrainInv, Pool!Steps,
     Pool!Results
<1>2. PoolInv => TransactionsSound
  <2> SUFFICES ASSUME PoolInv PROVE TransactionsSound
    OBVIOUS
  <2>1. Pool!ConnectionsReturned /\ Pool!WorkIsBound /\ Pool!ResultIsTrue
    BY DEF PoolInv, Pool!TypeOK, CallInv, OpenTx, Pool!ConnectionsReturned, Pool!WorkIsBound,
       Pool!ResultIsTrue
  <2>2. Pool!CloseDrains
    BY InUseByOpen DEF PoolInv, Pool!TypeOK, Pool!Steps, CallInv, OpenTx, Untouched, DrainInv,
       Pool!CloseDrains
  <2> QED
    BY <2>1, <2>2 DEF PoolInv, TransactionsSound
<1> QED
  BY <1>1, <1>2, PoolStep, PTL DEF Pool!Spec

HIDE PoolConstants

-----------------------------------------------------------------------------
(* The HTTP chain. *)

\* bufferedResponse, as recovery holds it.
BufferedResponse == [status : Http!AnyStatus, body : Http!Bodies, correlated : BOOLEAN]

\* Layers a request passes before anything is written.
BeforeHandler == Http!Policies \cup {"arrived", "shedder", "shed"}

\* All layers, going in and coming out.
Layers == Http!Counted \cup {"arrived", "shedder", "log", "commit", "recover", "done"}

\* One request in layer l, with context c, buffer b, logged status g and response p.
OneSound(l, c, b, g, p) ==
  /\ b.correlated = c
  /\ l = "arrived" => ~c
  /\ l \in BeforeHandler => b.status = None /\ b.body = "empty"
  /\ b.body # "empty" => b.status # None
  /\ b.body = "problem" => b.status \in Http!ProblemStatus
  /\ l \in BeforeHandler \cup {"handler", "release", "unwind", "log"} => g = b.status
  /\ l = "commit" => g \in {None, Http!Latch(b.status, "ok")}
  /\ b.body = "partial" => l \in {"handler", "unwind", "recover", "done"}
  /\ l = "done" <=> p # None
  /\ p # None => p.body # "partial" /\ p.correlated = c /\ g \in {None, p.status}

\* Types of the functions over requests.
HttpTypes ==
  /\ http_pc \in [Requests -> Layers]
  /\ context \in [Requests -> BOOLEAN]
  /\ buffer \in [Requests -> BufferedResponse]
  /\ logged \in [Requests -> Http!AnyStatus]
  /\ response \in [Requests -> BufferedResponse \cup {None}]

\* The inductive invariant of a request.
HttpInv ==
  /\ HttpTypes
  /\ \A r \in Requests : OneSound(http_pc[r], context[r], buffer[r], logged[r], response[r])

USE DEF Http!Response, Http!Goto

\* Statuses, and what latching the first one gives.
LEMMA StatusFacts ==
  /\ Statuses \subseteq Http!AnyStatus /\ Http!ProblemStatus \subseteq Http!AnyStatus
  /\ None \in Http!AnyStatus
  /\ "ok" \in Http!AnyStatus /\ "ok" # None
  /\ \A s \in Http!ProblemStatus : s # None
  /\ \A s \in Statuses : s # None
  /\ \A old, new \in Http!AnyStatus : /\ Http!Latch(old, new) \in Http!AnyStatus
                                      /\ Http!LoggedLatch(old, new) = Http!Latch(old, new)
  /\ \A old, new \in Http!AnyStatus : new # None => Http!Latch(old, new) # None
  /\ \A x \in BufferedResponse : x # None
BY HttpConstants DEF Http!AnyStatus, Http!Latch, Http!LoggedLatch, BufferedResponse

\* A step that moves one request and leaves it sound preserves the invariant.
LEMMA OneMoves ==
  ASSUME HttpInv, NEW r \in Requests,
         NEW l \in Layers, NEW c \in BOOLEAN, NEW b \in BufferedResponse, NEW g \in Http!AnyStatus,
         NEW p \in BufferedResponse \cup {None}, OneSound(l, c, b, g, p),
         http_pc' = [http_pc EXCEPT ![r] = l], context' = [context EXCEPT ![r] = c],
         buffer' = [buffer EXCEPT ![r] = b], logged' = [logged EXCEPT ![r] = g],
         response' = [response EXCEPT ![r] = p]
  PROVE  HttpInv'
<1>1. HttpTypes'
  BY DEF HttpInv, HttpTypes
<1>2. ASSUME NEW q \in Requests
      PROVE  OneSound(http_pc[q], context[q], buffer[q], logged[q], response[q])'
  <2>1. CASE q = r
    <3>1. /\ http_pc'[q] = l /\ context'[q] = c /\ buffer'[q] = b /\ logged'[q] = g
          /\ response'[q] = p
      BY <2>1 DEF HttpInv, HttpTypes
    <3> QED
      BY <3>1, Zenon DEF OneSound
  <2>2. CASE q # r
    <3>1. /\ http_pc'[q] = http_pc[q] /\ context'[q] = context[q] /\ buffer'[q] = buffer[q]
          /\ logged'[q] = logged[q] /\ response'[q] = response[q]
      BY <2>2 DEF HttpInv, HttpTypes
    <3>2. OneSound(http_pc[q], context[q], buffer[q], logged[q], response[q])
      BY DEF HttpInv
    <3> QED
      BY <3>1, <3>2, Zenon DEF OneSound
  <2> QED
    BY <2>1, <2>2
<1> QED
  BY <1>1, <1>2 DEF HttpInv

\* A function that a step leaves alone is also one updated with its own value.
LEMMA OthersHeld ==
  ASSUME HttpInv, NEW r \in Requests
  PROVE  /\ http_pc = [http_pc EXCEPT ![r] = http_pc[r]]
         /\ context = [context EXCEPT ![r] = context[r]]
         /\ buffer = [buffer EXCEPT ![r] = buffer[r]] /\ logged = [logged EXCEPT ![r] = logged[r]]
         /\ response = [response EXCEPT ![r] = response[r]]
<1>1. HttpTypes
  BY DEF HttpInv
<1> QED
  BY <1>1 DEF HttpTypes

\* What the invariant says of one request.
LEMMA RequestNow ==
  ASSUME HttpInv, NEW r \in Requests
  PROVE  /\ http_pc[r] \in Layers /\ context[r] \in BOOLEAN /\ buffer[r] \in BufferedResponse
         /\ logged[r] \in Http!AnyStatus /\ response[r] \in BufferedResponse \cup {None}
         /\ OneSound(http_pc[r], context[r], buffer[r], logged[r], response[r])
<1>1. HttpTypes
  BY DEF HttpInv
<1>2. OneSound(http_pc[r], context[r], buffer[r], logged[r], response[r])
  BY DEF HttpInv
<1> QED
  BY <1>1, <1>2 DEF HttpTypes

\* The functions have their types.
LEMMA HttpTyped == HttpInv => HttpTypes
BY DEF HttpInv

\* A step that only moves the request to another layer leaves it sound, ...
LEMMA LayerKeeps ==
  ASSUME HttpInv, NEW r \in Requests,
         Http!Admit(r) \/ Http!PolicyPasses(r) \/ Http!Panics(r) \/ Http!Release(r)
  PROVE  HttpInv'
<1>1. PICK l : /\ http_pc' = [http_pc EXCEPT ![r] = l] /\ l \in Layers
               /\ OneSound(l, context[r], buffer[r], logged[r], response[r])
  <2> USE RequestNow DEF OneSound, BeforeHandler, Layers, Http!Counted, Http!Serving, Http!Policies
  <2>1. CASE Http!Admit(r)
    BY <2>1, Zenon DEF Http!Admit
  <2>2. CASE Http!PolicyPasses(r)
    <3>1. Http!Inner[http_pc[r]] \in {"authorization", "idempotency", "handler"}
      BY <2>2 DEF Http!PolicyPasses, Http!Inner
    <3> QED
      BY <2>2, <3>1, Zenon DEF Http!PolicyPasses
  <2>3. CASE Http!Panics(r)
    BY <2>3, Zenon DEF Http!Panics
  <2>4. CASE Http!Release(r)
    BY <2>4, Zenon DEF Http!Release
  <2> QED
    BY <2>1, <2>2, <2>3, <2>4, Zenon
<1>2. /\ context' = [context EXCEPT ![r] = context[r]] /\ buffer' = [buffer EXCEPT ![r] = buffer[r]]
      /\ logged' = [logged EXCEPT ![r] = logged[r]]
      /\ response' = [response EXCEPT ![r] = response[r]]
  BY OthersHeld DEF Http!Admit, Http!PolicyPasses, Http!Panics, Http!Release
<1> QED
  BY <1>1, <1>2, RequestNow, OneMoves, Zenon

\* ... so does a problem, of the shedder or of a policy, ...
LEMMA ProblemKeeps ==
  ASSUME HttpInv, NEW r \in Requests, Http!Shed(r) \/ Http!PolicyRefuses(r)
  PROVE  HttpInv'
<1>0. PICK status \in {"overloaded", "refused"}, l \in {"log", "release"} :
         /\ http_pc[r] \in BeforeHandler
         /\ Http!Problem(r, status) /\ Http!Goto(r, l) /\ UNCHANGED <<context, response>>
  BY DEF Http!Shed, Http!PolicyRefuses, BeforeHandler
<1> DEFINE b == [buffer[r] EXCEPT !.status = Http!Latch(buffer[r].status, status),
                                  !.body = "problem",
                                  !.correlated = (buffer[r].correlated \/ context[r])]
           g == Http!LoggedLatch(logged[r], status)
<1>1. /\ http_pc' = [http_pc EXCEPT ![r] = l]
      /\ context' = [context EXCEPT ![r] = context[r]]
      /\ logged' = [logged EXCEPT ![r] = g]
      /\ response' = [response EXCEPT ![r] = response[r]]
  BY <1>0, OthersHeld DEF Http!Problem
<1>2. buffer' = [buffer EXCEPT ![r] = b]
  BY <1>0, Zenon DEF Http!Problem
<1>3. status \in Http!ProblemStatus /\ status \in Http!AnyStatus
  BY StatusFacts, Zenon DEF Http!ProblemStatus
<1>4. /\ b \in BufferedResponse /\ b.status = Http!Latch(buffer[r].status, status)
      /\ b.body = "problem" /\ b.correlated = (buffer[r].correlated \/ context[r])
  BY <1>3, RequestNow, StatusFacts, ZenonT(40) DEF BufferedResponse, Http!Bodies
<1> HIDE DEF b
<1>5. g \in Http!AnyStatus
  BY <1>3, RequestNow, StatusFacts, Zenon
<1>6. l \in Layers /\ context[r] \in BOOLEAN /\ response[r] \in BufferedResponse \cup {None}
  BY RequestNow DEF Layers, Http!Counted, Http!Serving
<1>7. OneSound(l, context[r], b, g, response[r])
  BY <1>0, <1>3, <1>4, RequestNow, StatusFacts, Zenon DEF OneSound, BeforeHandler, Http!Latch,
     Http!LoggedLatch, Http!Policies
<1> HIDE DEF g
<1> QED
  BY <1>1, <1>2, <1>4, <1>5, <1>6, <1>7, OneMoves, Zenon

\* ... and so does every layer that writes.
LEMMA CorrelationKeeps ==
  ASSUME HttpInv, NEW r \in Requests, Http!Correlation(r)
  PROVE  HttpInv'
<1> DEFINE b == [buffer[r] EXCEPT !.correlated = TRUE]
<1>1. /\ http_pc' = [http_pc EXCEPT ![r] = "shedder"]
      /\ context' = [context EXCEPT ![r] = TRUE]
      /\ logged' = [logged EXCEPT ![r] = logged[r]]
      /\ response' = [response EXCEPT ![r] = response[r]]
  BY OthersHeld DEF Http!Correlation, Http!Inner
<1>2. buffer' = [buffer EXCEPT ![r] = b]
  BY Zenon DEF Http!Correlation, Http!Inner
<1>3. /\ b \in BufferedResponse
      /\ b.status = buffer[r].status /\ b.body = buffer[r].body /\ b.correlated = TRUE
  BY RequestNow, StatusFacts, Zenon DEF BufferedResponse, Http!Bodies, Http!ProblemStatus
<1> HIDE DEF b
<1>4. "shedder" \in Layers /\ TRUE \in BOOLEAN /\ logged[r] \in Http!AnyStatus
  BY RequestNow, StatusFacts DEF Layers, Http!Counted, Http!Serving, Http!Policies,
     Http!ProblemStatus
<1>5. OneSound("shedder", TRUE, b, logged[r], response[r])
  BY <1>3, RequestNow, StatusFacts DEF Http!Correlation, Http!Inner, OneSound, BeforeHandler,
     Http!Latch, Http!LoggedLatch, Http!Policies, Http!ProblemStatus
<1> QED
  BY <1>1, <1>2, <1>3, <1>4, <1>5, RequestNow, OneMoves, Zenon

\* No identifier: a problem that bypasses the log.
LEMMA CorrelationFailsKeeps ==
  ASSUME HttpInv, NEW r \in Requests, Http!CorrelationFails(r)
  PROVE  HttpInv'
<1> DEFINE b == [status |-> "internal", body |-> "problem", correlated |-> FALSE]
<1>1. /\ http_pc' = [http_pc EXCEPT ![r] = "commit"]
      /\ context' = [context EXCEPT ![r] = context[r]]
      /\ logged' = [logged EXCEPT ![r] = logged[r]]
      /\ response' = [response EXCEPT ![r] = response[r]]
  BY OthersHeld DEF Http!CorrelationFails
<1>2. buffer' = [buffer EXCEPT ![r] = b]
  BY Zenon DEF Http!CorrelationFails
<1>3. /\ b \in BufferedResponse
      /\ b.status = "internal" /\ b.body = "problem" /\ b.correlated = FALSE
  BY RequestNow, StatusFacts DEF BufferedResponse, Http!Bodies, Http!ProblemStatus
<1> HIDE DEF b
<1>4. "commit" \in Layers /\ context[r] \in BOOLEAN /\ logged[r] \in Http!AnyStatus
  BY RequestNow, StatusFacts DEF Layers, Http!Counted, Http!Serving, Http!Policies,
     Http!ProblemStatus
<1>5. OneSound("commit", context[r], b, logged[r], response[r])
  BY <1>3, RequestNow, StatusFacts, ZenonT(40) DEF Http!CorrelationFails, OneSound, BeforeHandler,
     Http!Latch, Http!LoggedLatch, Http!Policies, Http!ProblemStatus
<1> QED
  BY <1>1, <1>2, <1>3, <1>4, <1>5, RequestNow, OneMoves, Zenon

\* The handler's first status stands.
LEMMA HandlerWritesKeeps ==
  ASSUME HttpInv, NEW r \in Requests, NEW status \in Statuses, Http!HandlerWrites(r, status)
  PROVE  HttpInv'
<1> DEFINE b == [buffer[r] EXCEPT !.status = Http!Latch(buffer[r].status, status), !.body = "partial"]
<1>1. /\ http_pc' = [http_pc EXCEPT ![r] = "handler"]
      /\ context' = [context EXCEPT ![r] = context[r]]
      /\ logged' = [logged EXCEPT ![r] = Http!LoggedLatch(logged[r], status)]
      /\ response' = [response EXCEPT ![r] = response[r]]
  BY OthersHeld DEF Http!HandlerWrites, Http!Write
<1>2. buffer' = [buffer EXCEPT ![r] = b]
  BY Zenon DEF Http!HandlerWrites, Http!Write
<1>3. /\ b \in BufferedResponse
      /\ b.status = Http!Latch(buffer[r].status, status) /\ b.body = "partial"
      /\ b.correlated = buffer[r].correlated
  BY RequestNow, StatusFacts, Zenon DEF BufferedResponse, Http!Bodies, Http!ProblemStatus
<1> HIDE DEF b
<1>4. /\ "handler" \in Layers /\ context[r] \in BOOLEAN
      /\ Http!LoggedLatch(logged[r], status) \in Http!AnyStatus
  BY RequestNow, StatusFacts, Zenon DEF Layers, Http!Counted, Http!Serving, Http!Policies,
     Http!ProblemStatus
<1>5. OneSound("handler", context[r], b, Http!LoggedLatch(logged[r], status), response[r])
  BY <1>3, RequestNow, StatusFacts DEF Http!HandlerWrites, Http!Write, OneSound, BeforeHandler,
     Http!Latch, Http!LoggedLatch, Http!Policies, Http!ProblemStatus
<1> QED
  BY <1>1, <1>2, <1>3, <1>4, <1>5, RequestNow, OneMoves, Zenon

\* What the handler wrote is whole when it returns.
LEMMA HandlerReturnsKeeps ==
  ASSUME HttpInv, NEW r \in Requests, Http!HandlerReturns(r)
  PROVE  HttpInv'
<1> DEFINE b == [buffer[r] EXCEPT !.body = (IF buffer[r].body = "partial" THEN "whole" ELSE buffer[r].body)]
<1>1. /\ http_pc' = [http_pc EXCEPT ![r] = "release"]
      /\ context' = [context EXCEPT ![r] = context[r]]
      /\ logged' = [logged EXCEPT ![r] = logged[r]]
      /\ response' = [response EXCEPT ![r] = response[r]]
  BY OthersHeld DEF Http!HandlerReturns
<1>2. buffer' = [buffer EXCEPT ![r] = b]
  BY Zenon DEF Http!HandlerReturns
<1>3. /\ b \in BufferedResponse
      /\ b.status = buffer[r].status
      /\ b.body = (IF buffer[r].body = "partial" THEN "whole" ELSE buffer[r].body)
      /\ b.correlated = buffer[r].correlated
  BY RequestNow, StatusFacts, Zenon DEF BufferedResponse, Http!Bodies, Http!ProblemStatus
<1> HIDE DEF b
<1>4. "release" \in Layers /\ context[r] \in BOOLEAN /\ logged[r] \in Http!AnyStatus
  BY RequestNow, StatusFacts DEF Layers, Http!Counted, Http!Serving, Http!Policies,
     Http!ProblemStatus
<1>5. OneSound("release", context[r], b, logged[r], response[r])
  BY <1>3, RequestNow, StatusFacts DEF Http!HandlerReturns, OneSound, BeforeHandler, Http!Latch,
     Http!LoggedLatch, Http!Policies, Http!ProblemStatus
<1> QED
  BY <1>1, <1>2, <1>3, <1>4, <1>5, RequestNow, OneMoves, Zenon

\* The log takes the status latched.
LEMMA LogKeeps ==
  ASSUME HttpInv, NEW r \in Requests, Http!Log(r)
  PROVE  HttpInv'
<1>1. /\ http_pc' = [http_pc EXCEPT ![r] = "commit"]
      /\ context' = [context EXCEPT ![r] = context[r]]
      /\ logged' = [logged EXCEPT ![r] = Http!Latch(logged[r], "ok")]
      /\ buffer' = [buffer EXCEPT ![r] = buffer[r]]
      /\ response' = [response EXCEPT ![r] = response[r]]
  BY OthersHeld DEF Http!Log
<1>2. /\ "commit" \in Layers /\ context[r] \in BOOLEAN
      /\ Http!Latch(logged[r], "ok") \in Http!AnyStatus
  BY RequestNow, StatusFacts, Zenon DEF Layers, Http!Counted, Http!Serving, Http!Policies,
     Http!ProblemStatus
<1>3. OneSound("commit", context[r], buffer[r], Http!Latch(logged[r], "ok"), response[r])
  BY RequestNow, StatusFacts DEF Http!Log, OneSound, BeforeHandler, Http!Latch,
     Http!LoggedLatch, Http!Policies, Http!ProblemStatus
<1> QED
  BY <1>1, <1>2, <1>3, RequestNow, OneMoves, Zenon

\* The buffer becomes the response.
LEMMA CommitKeeps ==
  ASSUME HttpInv, NEW r \in Requests, Http!Commit(r)
  PROVE  HttpInv'
<1> DEFINE p == [buffer[r] EXCEPT !.status = Http!Latch(buffer[r].status, "ok")]
<1>1. /\ http_pc' = [http_pc EXCEPT ![r] = "done"]
      /\ context' = [context EXCEPT ![r] = context[r]]
      /\ logged' = [logged EXCEPT ![r] = logged[r]]
      /\ buffer' = [buffer EXCEPT ![r] = buffer[r]]
  BY OthersHeld DEF Http!Commit
<1>2. response' = [response EXCEPT ![r] = p]
  BY Zenon DEF Http!Commit
<1>3. /\ p \in BufferedResponse
      /\ p.status = Http!Latch(buffer[r].status, "ok") /\ p.body = buffer[r].body
      /\ p.correlated = buffer[r].correlated
  BY RequestNow, StatusFacts, Zenon DEF BufferedResponse, Http!Bodies, Http!ProblemStatus
<1> HIDE DEF p
<1>4. "done" \in Layers /\ context[r] \in BOOLEAN /\ logged[r] \in Http!AnyStatus
  BY RequestNow, StatusFacts DEF Layers, Http!Counted, Http!Serving, Http!Policies,
     Http!ProblemStatus
<1>5. OneSound("done", context[r], buffer[r], logged[r], p)
  BY <1>3, RequestNow, StatusFacts DEF Http!Commit, OneSound, BeforeHandler, Http!Latch,
     Http!LoggedLatch, Http!Policies, Http!ProblemStatus
<1> QED
  BY <1>1, <1>2, <1>3, <1>4, <1>5, RequestNow, OneMoves, Zenon

\* A problem replaces what a panic left.
LEMMA RecoverKeeps ==
  ASSUME HttpInv, NEW r \in Requests, Http!Recover(r)
  PROVE  HttpInv'
<1> DEFINE p == [status |-> "internal", body |-> "problem", correlated |-> context[r]]
<1>1. /\ http_pc' = [http_pc EXCEPT ![r] = "done"]
      /\ context' = [context EXCEPT ![r] = context[r]]
      /\ logged' = [logged EXCEPT ![r] = None]
      /\ buffer' = [buffer EXCEPT ![r] = buffer[r]]
  BY OthersHeld DEF Http!Recover
<1>2. response' = [response EXCEPT ![r] = p]
  BY Zenon DEF Http!Recover
<1>3. /\ p \in BufferedResponse
      /\ p.status = "internal" /\ p.body = "problem" /\ p.correlated = context[r]
  BY RequestNow, StatusFacts DEF BufferedResponse, Http!Bodies, Http!ProblemStatus
<1> HIDE DEF p
<1>4. "done" \in Layers /\ context[r] \in BOOLEAN /\ None \in Http!AnyStatus
  BY RequestNow, StatusFacts DEF Layers, Http!Counted, Http!Serving, Http!Policies,
     Http!ProblemStatus
<1>5. OneSound("done", context[r], buffer[r], None, p)
  BY <1>3, RequestNow, StatusFacts DEF Http!Recover, OneSound, BeforeHandler, Http!Latch,
     Http!LoggedLatch, Http!Policies, Http!ProblemStatus
<1> QED
  BY <1>1, <1>2, <1>3, <1>4, <1>5, RequestNow, OneMoves, Zenon

\* Requests the shedder's counter counts.
InShedder == {r \in Requests : http_pc[r] \in Http!Counted}
\* Those it let in.
InService == {r \in Requests : http_pc[r] \in Http!Serving}

\* The inductive invariant of the counter.
SlotInv == inFlight = Cardinality(InShedder) /\ Cardinality(InService) <= MaxInFlight

\* The chain counts as every other module does.
LEMMA SameCount == \A S : Http!Cardinality(S) = Cardinality(S)
BY Zenon DEF Http!Cardinality, Cardinality

\* Sets of requests are finite, and count up and down by one.
LEMMA SlotSets ==
  ASSUME NEW S \in SUBSET Requests
  PROVE  /\ IsFiniteSet(S) /\ Cardinality(S) \in Nat
         /\ \A T \in SUBSET S : Cardinality(T) <= Cardinality(S)
         /\ \A r \in Requests \ S : Cardinality(S \cup {r}) = Cardinality(S) + 1
         /\ \A r \in S : Cardinality(S \ {r}) = Cardinality(S) - 1
<1>1. IsFiniteSet(S)
  BY HttpConstants, FS_Subset
<1> QED
  BY <1>1, FS_Subset, FS_CardinalityType, FS_AddElement, FS_RemoveElement

\* A step inside or outside the shedder leaves the counter right, ...
LEMMA SlotKept ==
  ASSUME HttpInv, SlotInv, NEW r \in Requests, NEW l,
         http_pc' = [http_pc EXCEPT ![r] = l], inFlight' = inFlight,
         l \in Http!Counted <=> http_pc[r] \in Http!Counted,
         l \in Http!Serving => http_pc[r] \in Http!Serving
  PROVE  SlotInv'
<1>1. InShedder' = InShedder /\ InService' \subseteq InService
  BY DEF HttpInv, HttpTypes, InShedder, InService
<1>2. /\ Cardinality(InService') <= Cardinality(InService) /\ Cardinality(InService') \in Nat
      /\ Cardinality(InService) \in Nat
  BY <1>1, SlotSets DEF InService
<1> QED
  BY <1>1, <1>2, HttpConstants DEF SlotInv

\* ... so does a step that leaves it, ...
LEMMA SlotLeft ==
  ASSUME HttpInv, SlotInv, NEW r \in Requests, NEW l,
         http_pc' = [http_pc EXCEPT ![r] = l], inFlight' = inFlight - 1,
         http_pc[r] \in Http!Counted, l \notin Http!Counted
  PROVE  SlotInv'
<1>1. InShedder' = InShedder \ {r} /\ r \in InShedder /\ InService' \subseteq InService
  BY DEF HttpInv, HttpTypes, InShedder, InService, Http!Counted
<1>2. /\ Cardinality(InService') <= Cardinality(InService) /\ Cardinality(InService') \in Nat
      /\ Cardinality(InService) \in Nat
  BY <1>1, SlotSets DEF InService
<1>3. Cardinality(InShedder') = Cardinality(InShedder) - 1
  BY <1>1, SlotSets DEF InShedder
<1> QED
  BY <1>1, <1>2, <1>3, HttpConstants DEF SlotInv

\* ... and one that enters it: admitted, the new count is within the limit.
LEMMA SlotTaken ==
  ASSUME HttpInv, SlotInv, NEW r \in Requests, Http!Admit(r)
  PROVE  SlotInv'
<1>1. InShedder' = InShedder \cup {r} /\ r \notin InShedder /\ InService' \subseteq InShedder'
  BY DEF HttpInv, HttpTypes, InShedder, InService, Http!Counted, Http!Serving, Http!Policies,
     Http!Admit
<1>2. Cardinality(InShedder') = Cardinality(InShedder) + 1 /\ Cardinality(InShedder) \in Nat
  BY <1>1, SlotSets DEF InShedder
<1>3. inFlight' = Cardinality(InShedder')
  BY <1>2 DEF SlotInv, Http!Admit
<1>4. CASE inFlight' > MaxInFlight
  <2>1. InService' = InService
    BY <1>4 DEF HttpInv, HttpTypes, InService, Http!Serving, Http!Policies, Http!Admit
  <2> QED
    BY <1>3, <2>1 DEF SlotInv
<1>5. CASE ~(inFlight' > MaxInFlight)
  <2>1. Cardinality(InService') <= Cardinality(InShedder') /\ Cardinality(InService') \in Nat
    BY <1>1, SlotSets DEF InService, InShedder
  <2> QED
    BY <1>2, <1>3, <1>5, <2>1, HttpConstants DEF SlotInv
<1> QED
  BY <1>4, <1>5

\* Every step of a request preserves the counter's invariant.
LEMMA SlotStep ==
  ASSUME HttpInv, SlotInv, NEW r \in Requests,
         \/ Http!Correlation(r) \/ Http!CorrelationFails(r) \/ Http!Admit(r) \/ Http!Shed(r)
         \/ Http!PolicyPasses(r) \/ Http!PolicyRefuses(r)
         \/ \E status \in Statuses : Http!HandlerWrites(r, status)
         \/ Http!HandlerReturns(r) \/ Http!Panics(r) \/ Http!Release(r) \/ Http!Log(r)
         \/ Http!Commit(r) \/ Http!Recover(r)
  PROVE  SlotInv'
<1> DEFINE l == http_pc'[r]
<1>1. CASE Http!Admit(r)
  BY <1>1, SlotTaken
<1>2. CASE Http!Shed(r) \/ Http!Release(r)
  <2>1. /\ http_pc' = [http_pc EXCEPT ![r] = l] /\ inFlight' = inFlight - 1
        /\ http_pc[r] \in Http!Counted /\ l \notin Http!Counted
    BY <1>2, RequestNow, HttpTyped DEF HttpTypes, Http!Shed, Http!Release, Http!Counted,
       Http!Serving, Http!Policies
  <2> QED
    BY <2>1, SlotLeft
<1>3. ASSUME \/ Http!Correlation(r) \/ Http!CorrelationFails(r) \/ Http!PolicyPasses(r) \/ Http!PolicyRefuses(r)
             \/ Http!HandlerReturns(r) \/ Http!Panics(r) \/ Http!Log(r) \/ Http!Commit(r) \/ Http!Recover(r)
      PROVE  SlotInv'
  <2>1. http_pc' = [http_pc EXCEPT ![r] = l] /\ inFlight' = inFlight
    BY <1>3, HttpTyped, SMTT(20) DEF HttpTypes, Http!Correlation, Http!CorrelationFails,
       Http!PolicyPasses, Http!PolicyRefuses,
       Http!HandlerReturns, Http!Panics, Http!Log, Http!Commit, Http!Recover
  <2>2. /\ l \in Http!Counted <=> http_pc[r] \in Http!Counted
        /\ l \in Http!Serving => http_pc[r] \in Http!Serving
    BY <1>3, HttpTyped, SMTT(20) DEF HttpTypes, Http!Correlation, Http!CorrelationFails,
       Http!PolicyPasses, Http!PolicyRefuses,
       Http!HandlerReturns, Http!Panics, Http!Log, Http!Commit, Http!Recover, Http!Inner,
       Http!Counted, Http!Serving, Http!Policies
  <2> QED
    BY <2>1, <2>2, SlotKept, SMTT(20)
<1>4. CASE \E status \in Statuses : Http!HandlerWrites(r, status)
  BY <1>4, Zenon DEF Http!HandlerWrites, SlotInv, InShedder, InService
<1> QED
  BY <1>1, <1>2, <1>3, <1>4

\* Both invariants hold at the start.
LEMMA HttpStart == Http!Init => HttpInv /\ SlotInv
<1> SUFFICES ASSUME Http!Init
             PROVE  HttpInv /\ SlotInv
  OBVIOUS
<1>1. HttpTypes
  BY StatusFacts DEF Http!Init, HttpTypes, Layers, BufferedResponse, Http!Bodies
<1>2. \A r \in Requests : OneSound(http_pc[r], context[r], buffer[r], logged[r], response[r])
  BY Zenon DEF Http!Init, OneSound, BeforeHandler, Http!Policies
<1>3. InShedder = {} /\ InService = {}
  BY DEF Http!Init, InShedder, InService, Http!Counted, Http!Serving, Http!Policies
<1>4. Cardinality(InShedder) = 0 /\ Cardinality(InService) = 0
  BY <1>3, FS_EmptySet, Zenon
<1>5. SlotInv
  BY <1>4, HttpConstants DEF SlotInv, Http!Init
<1> QED
  BY <1>1, <1>2, <1>5 DEF HttpInv

\* Every step preserves both invariants.
LEMMA HttpStep == HttpInv /\ SlotInv /\ [Http!Next]_Http!vars => (HttpInv /\ SlotInv)'
<1> SUFFICES ASSUME HttpInv, SlotInv, [Http!Next]_Http!vars
             PROVE  (HttpInv /\ SlotInv)'
  OBVIOUS
<1>1. ASSUME Http!Next
      PROVE  (HttpInv /\ SlotInv)'
  <2>1. PICK r \in Requests :
         \/ Http!Correlation(r) \/ Http!CorrelationFails(r) \/ Http!Admit(r) \/ Http!Shed(r)
         \/ Http!PolicyPasses(r) \/ Http!PolicyRefuses(r)
         \/ \E status \in Statuses : Http!HandlerWrites(r, status)
         \/ Http!HandlerReturns(r) \/ Http!Panics(r) \/ Http!Release(r) \/ Http!Log(r)
         \/ Http!Commit(r) \/ Http!Recover(r)
    BY <1>1, Zenon DEF Http!Next
  <2>2. HttpInv'
    BY <2>1, LayerKeeps, ProblemKeeps, CorrelationKeeps, CorrelationFailsKeeps,
       HandlerWritesKeeps, HandlerReturnsKeeps,
       LogKeeps, CommitKeeps, RecoverKeeps, Zenon
  <2>3. SlotInv'
    BY <2>1, SlotStep, ZenonT(40)
  <2> QED
    BY <2>2, <2>3
<1>2. ASSUME UNCHANGED Http!vars
      PROVE  (HttpInv /\ SlotInv)'
  BY <1>2 DEF Http!vars, HttpInv, HttpTypes, OneSound, SlotInv, InShedder, InService
<1> QED
  BY <1>1, <1>2

\* The invariants give what the run checks.
LEMMA HttpConcludes == HttpInv /\ SlotInv => RequestsSound
<1> SUFFICES ASSUME HttpInv, SlotInv
             PROVE  RequestsSound
  OBVIOUS
<1>1. Http!ServedWithinLimit
  BY SameCount, Zenon DEF SlotInv, InService, Http!ServedWithinLimit
<1>2. Http!SlotsReturned
  <2> SUFFICES ASSUME \A r \in Requests : http_pc[r] \notin Http!Counted
               PROVE  inFlight = 0
    BY DEF Http!SlotsReturned
  <2>1. InShedder = {}
    BY DEF InShedder
  <2> QED
    BY <2>1, FS_EmptySet DEF SlotInv
<1>3. ASSUME NEW r \in Requests
      PROVE  OneSound(http_pc[r], context[r], buffer[r], logged[r], response[r])
  BY RequestNow
<1>4. Http!ResponseIsWhole /\ Http!LoggedIsSent
  BY <1>3 DEF OneSound, Http!ResponseIsWhole, Http!LoggedIsSent
<1>5. Http!ResponseIsCorrelated
  BY <1>3 DEF OneSound, Http!ResponseIsCorrelated
<1>6. Http!TypeOK
  <2>1. HttpTypes
    BY DEF HttpInv
  <2>2. inFlight \in 0..Cardinality(Requests)
    BY SlotSets, HttpConstants, FS_CardinalityType, SMTT(20) DEF SlotInv, InShedder
  <2>3. ASSUME NEW r \in Requests
        PROVE  /\ buffer[r] \in BufferedResponse
               /\ buffer[r].body # "empty" => buffer[r].status # None
               /\ buffer[r].body = "problem" => buffer[r].status \in Http!ProblemStatus
               /\ http_pc[r] = "done" <=> response[r] # None
    BY <1>3, RequestNow DEF OneSound
  <2> QED
    BY <2>1, <2>2, <2>3, SameCount, Zenon DEF HttpTypes, Http!TypeOK, BufferedResponse, Layers
<1> QED
  BY <1>1, <1>2, <1>4, <1>5, <1>6 DEF RequestsSound

\* For any number of requests and any limit: no more than MaxInFlight are served, every
\* slot comes back, and the response is whole, correlated and the one logged.
THEOREM RequestsKept == Http!Spec => []RequestsSound
BY HttpStart, HttpStep, HttpConcludes, PTL DEF Http!Spec
=============================================================================
