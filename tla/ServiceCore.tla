----------------------------- MODULE ServiceCore -----------------------------
(***************************************************************************)
(* What a service runs in its own process: goroutines that make identifiers, *)
(* transactions on the connection pool and requests through the HTTP chain. *)
(* The three share no state.                                               *)
(***************************************************************************)
EXTENDS IdGenerator, FiniteSets

CONSTANTS
  Callers, MaxConns, AcquireTimeout, MaxWait,   \* Pool
  Requests, MaxInFlight, Statuses, None         \* HttpChain

VARIABLES
  src, pool_pc, conns, bound, worked, committed, result, waited,
  http_pc, inFlight, context, buffer, logged, response

Pool == INSTANCE Pool WITH pc <- pool_pc
Http == INSTANCE HttpChain WITH pc <- http_pc

\* applyDefaults gives a pool at least one connection.
ASSUME PoolConstants == MaxConns \in Nat \ {0} /\ MaxWait \in Nat

\* Chain lets at least one request in.  None is neither a status nor a response.
ASSUME HttpConstants ==
  /\ IsFiniteSet(Requests)
  /\ MaxInFlight \in Nat \ {0}
  /\ "ok" \in Statuses
  /\ None \notin Statuses \cup Http!ProblemStatus
  /\ None \notin [status : Http!AnyStatus, body : Http!Bodies, correlated : BOOLEAN]

poolVars == <<src, pool_pc, conns, bound, worked, committed, result, waited>>
httpVars == <<http_pc, inFlight, context, buffer, logged, response>>

\* InTx holds one connection per open transaction and leaks none through errors
\* and panics, changes no row in a session the binder did not bind, and reports
\* what the database did; Close leaves no transaction open.
TransactionsSound ==
  Pool!TypeOK /\ Pool!ConnectionsReturned /\ Pool!WorkIsBound /\ Pool!ResultIsTrue
  /\ Pool!CloseDrains

\* The load shedder serves no more than MaxInFlight requests, although requests
\* race at the limit, and its counter comes back, also after a panic.  The client
\* gets a whole response, the handler's or a problem, that carries the request's
\* correlation identifier; the access log has the status sent.
RequestsSound ==
  /\ Http!TypeOK /\ Http!ServedWithinLimit /\ Http!SlotsReturned
  /\ Http!ResponseIsWhole /\ Http!ResponseIsCorrelated /\ Http!LoggedIsSent

=============================================================================
