------------------------------ MODULE HttpChain ------------------------------
(***************************************************************************)
(* The middleware chain of package httpapi (httpapi/httpapi.go): recovery, *)
(* correlation, request log, load shedder, timeout, authentication,        *)
(* authorization and idempotency, outer to inner, around a service's       *)
(* handler.                                                                *)
(*                                                                         *)
(* Requests run concurrently and share only the shedder's atomic counter,  *)
(* whose increment and decrement are separate steps.  Every layer writes   *)
(* into the buffer that recovery owns; recovery copies it to the client    *)
(* when the chain returns, and drops it when the chain panics.  The policy *)
(* layers and the handler are the service's own: each passes the request   *)
(* on, refuses it with a problem, or panics.  The timeout layer bounds the *)
(* context it passes on and changes nothing else.                          *)
(***************************************************************************)
EXTENDS Integers, FiniteSets

CONSTANTS
    Requests,     \* requests, one per goroutine
    MaxInFlight,  \* Options.MaxInFlight
    Statuses,     \* what a handler may pass to WriteHeader; "ok" is among them
    None          \* no status yet, or no response

VARIABLES
    pc,        \* the layer a request is in, going in and coming out
    inFlight,  \* loadShedder.inFlight
    context,   \* whether the request's own context carries its identifier
    buffer,    \* bufferedResponse: status, body and correlation header
    logged,    \* statusResponseWriter.status, then the status in the log
    response   \* what the client received

vars == <<pc, inFlight, context, buffer, logged, response>>

Policies == {"authentication", "authorization", "idempotency"}
Serving == Policies \union {"handler", "release", "unwind"}
Counted == Serving \union {"shed"}

Inner == [correlation |-> "shedder", authentication |-> "authorization",
          authorization |-> "idempotency", idempotency |-> "handler"]

Bodies == {"empty", "partial", "whole", "problem"}
Response(status, body, header) == [status |-> status, body |-> body, correlated |-> header]

\* Problem statuses lie outside the handler's.
ProblemStatus == {"internal", "overloaded", "refused"}
AnyStatus == Statuses \union ProblemStatus \union {None}

TypeOK ==
    /\ pc \in [Requests -> Counted \union {"arrived", "shedder", "log", "commit", "recover", "done"}]
    /\ inFlight \in 0..Cardinality(Requests)
    /\ context \in [Requests -> BOOLEAN]
    /\ logged \in [Requests -> AnyStatus]
    /\ \A r \in Requests :
          /\ buffer[r] \in [status : AnyStatus, body : Bodies, correlated : BOOLEAN]
          /\ buffer[r].body # "empty" => buffer[r].status # None
          /\ buffer[r].body = "problem" => buffer[r].status \in ProblemStatus
          /\ pc[r] = "done" <=> response[r] # None

Init ==
    /\ pc = [r \in Requests |-> "arrived"]
    /\ inFlight = 0
    /\ context = [r \in Requests |-> FALSE]
    /\ buffer = [r \in Requests |-> Response(None, "empty", FALSE)]
    /\ logged = [r \in Requests |-> None]
    /\ response = [r \in Requests |-> None]

Goto(r, l) == pc' = [pc EXCEPT ![r] = l]

-----------------------------------------------------------------------------
(* Writing a response                                                      *)

\* bufferedResponse.WriteHeader keeps the first status.
Latch(old, status) == IF old = None THEN status ELSE old

\* So does the log's writer, and then passes nothing on.
LoggedLatch(old, status) == IF old = None THEN status ELSE old

\* A write through the log's writer into the buffer.
Write(r, status, body) ==
    /\ buffer' = [buffer EXCEPT ![r].status = Latch(@, status), ![r].body = body]
    /\ logged' = [logged EXCEPT ![r] = LoggedLatch(@, status)]

\* Problem, from a layer inside the log: status, document and, when the
\* request's context carries one, the correlation header.
Problem(r, status) ==
    /\ buffer' = [buffer EXCEPT ![r].status = Latch(@, status), ![r].body = "problem",
                                ![r].correlated = @ \/ context[r]]
    /\ logged' = [logged EXCEPT ![r] = LoggedLatch(@, status)]

-----------------------------------------------------------------------------
(* Going in                                                                *)

\* The identifier goes into the request recovery also holds, and into the
\* header.
Correlation(r) ==
    /\ pc[r] = "arrived"
    /\ context' = [context EXCEPT ![r] = TRUE]
    /\ buffer' = [buffer EXCEPT ![r].correlated = TRUE]
    /\ Goto(r, Inner.correlation)
    /\ UNCHANGED <<inFlight, logged, response>>

\* No identifier could be generated: a problem, outside the log.
CorrelationFails(r) ==
    /\ pc[r] = "arrived"
    /\ buffer' = [buffer EXCEPT ![r] = Response("internal", "problem", FALSE)]
    /\ Goto(r, "commit")
    /\ UNCHANGED <<inFlight, context, logged, response>>

\* The counter is incremented and its new value compared.
Admit(r) ==
    /\ pc[r] = "shedder"
    /\ inFlight' = inFlight + 1
    /\ Goto(r, IF inFlight' > MaxInFlight THEN "shed" ELSE "authentication")
    /\ UNCHANGED <<context, buffer, logged, response>>

\* Over the limit: the increment is undone and the request answered 503.
Shed(r) ==
    /\ pc[r] = "shed"
    /\ inFlight' = inFlight - 1
    /\ Problem(r, "overloaded")
    /\ Goto(r, "log")
    /\ UNCHANGED <<context, response>>

PolicyPasses(r) ==
    /\ pc[r] \in Policies
    /\ Goto(r, Inner[pc[r]])
    /\ UNCHANGED <<inFlight, context, buffer, logged, response>>

PolicyRefuses(r) ==
    /\ pc[r] \in Policies
    /\ Problem(r, "refused")
    /\ Goto(r, "release")
    /\ UNCHANGED <<inFlight, context, response>>

\* The handler sets a status, possibly one too many, and writes some body.
HandlerWrites(r, status) ==
    /\ pc[r] = "handler"
    /\ buffer[r].body = "empty" \/ status # buffer[r].status
    /\ Write(r, status, "partial")
    /\ UNCHANGED <<pc, inFlight, context, response>>

HandlerReturns(r) ==
    /\ pc[r] = "handler"
    /\ buffer' = [buffer EXCEPT ![r].body = IF @ = "partial" THEN "whole" ELSE @]
    /\ Goto(r, "release")
    /\ UNCHANGED <<inFlight, context, logged, response>>

Panics(r) ==
    /\ pc[r] \in Policies \union {"handler"}
    /\ Goto(r, "unwind")
    /\ UNCHANGED <<inFlight, context, buffer, logged, response>>

-----------------------------------------------------------------------------
(* Coming out                                                              *)

ReleaseOnReturn(r) ==
    /\ pc[r] \in {"release", "unwind"}
    /\ inFlight' = IF pc[r] = "release" THEN inFlight - 1 ELSE inFlight
    /\ Goto(r, IF pc[r] = "release" THEN "log" ELSE "recover")
    /\ UNCHANGED <<context, buffer, logged, response>>

\* The deferred decrement, on a return and on a panic; a panic skips the log.
Release(r) ==
    /\ pc[r] \in {"release", "unwind"}
    /\ inFlight' = inFlight - 1
    /\ Goto(r, IF pc[r] = "release" THEN "log" ELSE "recover")
    /\ UNCHANGED <<context, buffer, logged, response>>

\* The log and the request metric take 200 ("ok") when no status was written.
Log(r) ==
    /\ pc[r] = "log"
    /\ logged' = [logged EXCEPT ![r] = Latch(@, "ok")]
    /\ Goto(r, "commit")
    /\ UNCHANGED <<inFlight, context, buffer, response>>

\* The buffer is copied to the client, 200 when it holds no status.
Commit(r) ==
    /\ pc[r] = "commit"
    /\ response' = [response EXCEPT ![r] =
                      [buffer[r] EXCEPT !.status = Latch(@, "ok")]]
    /\ Goto(r, "done")
    /\ UNCHANGED <<inFlight, context, buffer, logged>>

RecoverCommits(r) ==
    /\ pc[r] = "recover"
    /\ response' = [response EXCEPT ![r] =
                      [buffer[r] EXCEPT !.status = Latch(@, "internal")]]
    /\ Goto(r, "done")
    /\ UNCHANGED <<inFlight, context, buffer, logged>>

\* After a panic the buffer is dropped and a problem sent in its place; the
\* log was skipped, so no status was logged.
Recover(r) ==
    /\ pc[r] = "recover"
    /\ response' = [response EXCEPT ![r] = Response("internal", "problem", context[r])]
    /\ logged' = [logged EXCEPT ![r] = None]
    /\ Goto(r, "done")
    /\ UNCHANGED <<inFlight, context, buffer>>

Next ==
    \E r \in Requests :
        \/ Correlation(r)
        \/ CorrelationFails(r)
        \/ Admit(r)
        \/ Shed(r)
        \/ PolicyPasses(r)
        \/ PolicyRefuses(r)
        \/ \E status \in Statuses : HandlerWrites(r, status)
        \/ HandlerReturns(r)
        \/ Panics(r)
        \/ Release(r)
        \/ Log(r)
        \/ Commit(r)
        \/ Recover(r)

Spec == Init /\ [][Next]_vars

-----------------------------------------------------------------------------
(* Properties                                                              *)

\* The service never runs more than MaxInFlight requests at once, however
\* the increments and decrements of the counter interleave.
ServedWithinLimit == Cardinality({r \in Requests : pc[r] \in Serving}) <= MaxInFlight

\* When no request is inside the shedder the counter is back at zero: no
\* return, refusal, shed or panic loses a slot.
SlotsReturned == (\A r \in Requests : pc[r] \notin Counted) => inFlight = 0

\* A client receives the handler's whole response or one problem document:
\* what a panicking handler had written does not reach it.
ResponseIsWhole == \A r \in Requests : response[r] # None => response[r].body # "partial"

\* Every response carries the request's identifier, also the one sent after
\* a panic, by a layer outside the one that made it.  The exception is a
\* request for which none could be made.
ResponseIsCorrelated ==
    \A r \in Requests :
        response[r] # None => response[r].correlated \/ ~buffer[r].correlated

\* The status in the log and the metric is the one the client received.
LoggedIsSent ==
    \A r \in Requests :
        response[r] # None /\ logged[r] # None => logged[r] = response[r].status
=============================================================================
