------------------------------ MODULE Publisher ------------------------------
(***************************************************************************)
(* One consumer's HTTP publisher (outbox/httpdelivery/publisher.go) and    *)
(* the access token it shares with every dispatcher worker                 *)
(* (clientauth/tokens.go).                                                 *)
(*                                                                         *)
(* Several workers publish through one Publisher at a time.  Each first    *)
(* asks the token source for a credential: under one mutex, held across    *)
(* the request to the token endpoint, the source answers from its cache or *)
(* acquires a token.  The worker then posts the envelope with that token,  *)
(* and the consumer's status decides whether the delivery is published,    *)
(* poison or retryable; a 401 also drops whatever token is cached.         *)
(*                                                                         *)
(* The token endpoint and the consumer are external.  A token dies at the  *)
(* end of its lifetime, or when the kernel that issued it restarts.        *)
(* Envelopes are told apart by what the program and the consumer make of   *)
(* them; the receipt a 2xx carries is the subject of Dispatcher and        *)
(* DeadLetters.  Time is discrete.                                         *)
(***************************************************************************)
EXTENDS Integers

CONSTANTS
    Workers,       \* the dispatcher workers that share the publisher
    Leeway,        \* Config.Leeway
    Lifetimes,     \* the values of expires_in; 0 when none is stated
    Deliveries,    \* bound: deliveries a worker makes until each is settled
    MaxTime,       \* bound: the last instant
    MaxRestarts,   \* bound: restarts of the kernel
    MaxFaults,     \* bound: failed requests
    NoToken,       \* the empty token string
    NoWorker       \* the mutex is free

ASSUME PublisherConstants ==
    /\ Leeway \in Nat /\ Lifetimes \subseteq Nat
    /\ Deliveries \in Nat /\ MaxTime \in Nat /\ MaxRestarts \in Nat /\ MaxFaults \in Nat
    /\ NoWorker \notin Workers

ASSUME NoTokenIsNone == NoToken \notin [at : Nat, life : Nat, epoch : Nat]

VARIABLES
    now,       \* the wall clock
    epoch,     \* restarts of the kernel so far
    faults,    \* failed requests so far
    cache,     \* Tokens.token and Tokens.expiry
    mu,        \* who holds Tokens.mu
    pc,        \* where a worker is in Publish
    envelope,  \* the envelope it delivers
    token,     \* the token it presents
    read,      \* the clock Token read before its request
    status,    \* the consumer's answer, then the outcome of Publish
    left,      \* deliveries the worker still makes
    refused    \* history: the tokens dropped after a 401

vars == <<now, epoch, faults, cache, mu, pc, envelope, token, read,
          status, left, refused>>

Envelopes == {"good", "unreadable", "unencodable"}
Empty == [token |-> NoToken, expiry |-> 0]
Outcomes == {"published", "poison", "retry"}
Answers == {"accepted", "unauthorized", "refused", "unavailable"}

\* An access token is told by when, for how long and by which kernel it was
\* issued: tokens issued at one instant live and die together.
Token == [at : 0..now, life : Lifetimes, epoch : 0..epoch]

\* A lifetime the endpoint does not state is still finite.
Dies(t) == t.at + (IF t.life = 0 THEN 1 ELSE t.life)

Live(t) == t.epoch = epoch /\ now < Dies(t)

TypeOK ==
    /\ now \in 0..MaxTime /\ epoch \in 0..MaxRestarts /\ faults \in 0..MaxFaults
    /\ refused \subseteq Token
    /\ cache.token \in Token \union {NoToken}
    /\ cache.token = NoToken <=> cache = Empty
    /\ mu \in Workers \union {NoWorker}
    /\ \A w \in Workers :
          (mu = w) <=> pc[w] \in {"request", "response"}
    /\ token \in [Workers -> Token \union {NoToken}]
    /\ envelope \in [Workers -> Envelopes]
    /\ status \in [Workers -> Answers \union Outcomes \union {"none"}]
    /\ left \in [Workers -> 0..Deliveries]

Init ==
    /\ now = 0 /\ epoch = 0 /\ faults = 0
    /\ cache = Empty /\ mu = NoWorker
    /\ pc = [w \in Workers |-> "idle"]
    /\ envelope = [w \in Workers |-> "good"]
    /\ token = [w \in Workers |-> NoToken]
    /\ read = [w \in Workers |-> 0]
    /\ status = [w \in Workers |-> "none"]
    /\ left = [w \in Workers |-> Deliveries]
    /\ refused = {}

-----------------------------------------------------------------------------
(* Publish returns an outcome.  The dispatcher delivers a retryable        *)
(* envelope again and is done with any other.                              *)
Return(w, outcome) ==
    /\ pc' = [pc EXCEPT ![w] = "idle"]
    /\ status' = [status EXCEPT ![w] = outcome]
    /\ token' = [token EXCEPT ![w] = NoToken]
    /\ read' = [read EXCEPT ![w] = 0]
    /\ left' = [left EXCEPT ![w] = IF outcome = "retry" THEN @ ELSE @ - 1]

Fault ==
    /\ faults < MaxFaults
    /\ faults' = faults + 1

\* A new envelope, or the one the last publication left retryable.
Publish(w, e) ==
    /\ pc[w] = "idle" /\ left[w] > 0
    /\ status[w] = "retry" => e = envelope[w]
    /\ envelope' = [envelope EXCEPT ![w] = e]
    /\ IF e = "unencodable"
       THEN Return(w, "poison")
       ELSE /\ pc' = [pc EXCEPT ![w] = "token"]
            /\ status' = [status EXCEPT ![w] = "none"]
            /\ UNCHANGED <<token, read, left>>
    /\ UNCHANGED <<now, epoch, faults, cache, mu, refused>>

-----------------------------------------------------------------------------
(* Tokens.Token                                                            *)

\* The cached token may be used for at least another Leeway.
Fresh == cache.token # NoToken /\ now + Leeway < cache.expiry

HandOut(w, t) ==
    /\ token' = [token EXCEPT ![w] = t]
    /\ read' = [read EXCEPT ![w] = 0]
    /\ pc' = [pc EXCEPT ![w] = "deliver"]

\* The cached token is returned; the mutex is taken and released in one step.
TokenCached(w) ==
    /\ pc[w] = "token" /\ mu = NoWorker
    /\ Fresh
    /\ HandOut(w, cache.token)
    /\ UNCHANGED <<now, epoch, faults, cache, mu, envelope, status, left, refused>>

\* Otherwise the clock is read and the mutex held across the request.
TokenRequest(w) ==
    /\ pc[w] = "token" /\ mu = NoWorker
    /\ ~Fresh
    /\ mu' = w
    /\ read' = [read EXCEPT ![w] = now]
    /\ pc' = [pc EXCEPT ![w] = "request"]
    /\ UNCHANGED <<now, epoch, faults, cache, envelope, token, status, left, refused>>

\* The endpoint issues a token; the response is on its way.
TokenIssued(w, life) ==
    /\ pc[w] = "request"
    /\ token' = [token EXCEPT ![w] = [at |-> now, life |-> life, epoch |-> epoch]]
    /\ pc' = [pc EXCEPT ![w] = "response"]
    /\ UNCHANGED <<now, epoch, faults, cache, mu, envelope, read, status, left, refused>>

CachedFromReceipt(w, t) ==
    IF t.life = 0
    THEN Empty
    ELSE [token |-> t, expiry |-> now + t.life]

\* What Token caches of a response: the lifetime counts from the clock read
\* before the request, and a token with no stated lifetime is not cached.
Cached(w, t) ==
    IF t.life = 0
    THEN Empty
    ELSE [token |-> t, expiry |-> read[w] + t.life]

TokenReceived(w) ==
    LET t == token[w] IN
    /\ pc[w] = "response"
    /\ cache' = Cached(w, t)
    /\ mu' = NoWorker
    /\ HandOut(w, t)
    /\ UNCHANGED <<now, epoch, faults, envelope, status, left, refused>>

\* ErrRejected and ErrUnavailable: the cached token is left as it was, and
\* the delivery is retryable whichever it is.
TokenFails(w) ==
    /\ pc[w] \in {"request", "response"}
    /\ Fault
    /\ mu' = NoWorker
    /\ Return(w, "retry")
    /\ UNCHANGED <<now, epoch, cache, envelope, refused>>

-----------------------------------------------------------------------------
(* The consumer (external) answers a delivery.                             *)
ConsumerStatus(w) ==
    CASE ~Live(token[w]) -> "unauthorized"
      [] Live(token[w]) /\ envelope[w] = "good" -> "accepted"
      [] OTHER -> "refused"

Deliver(w) ==
    /\ pc[w] = "deliver"
    /\ status' = [status EXCEPT ![w] = ConsumerStatus(w)]
    /\ pc' = [pc EXCEPT ![w] = "answered"]
    /\ UNCHANGED <<now, epoch, faults, cache, mu, envelope, token, read, left, refused>>

\* 403, 5xx: the consumer is in no state to judge the envelope.
ConsumerUnavailable(w) ==
    /\ pc[w] = "deliver"
    /\ Fault
    /\ status' = [status EXCEPT ![w] = "unavailable"]
    /\ pc' = [pc EXCEPT ![w] = "answered"]
    /\ UNCHANGED <<now, epoch, cache, mu, envelope, token, read, left, refused>>

\* The request fails on its way or the answer is lost: client.Do returns an error.
DeliverFails(w) ==
    /\ pc[w] \in {"deliver", "answered"}
    /\ Fault
    /\ Return(w, "retry")
    /\ UNCHANGED <<now, epoch, cache, mu, envelope, refused>>

-----------------------------------------------------------------------------
(* The status mapping of Publish                                           *)
OutcomePoisonsDenied(s) ==
    CASE s = "accepted" -> "published"
      [] s \in {"refused", "unavailable"} -> "poison"
      [] OTHER -> "retry"

Outcome(s) ==
    CASE s = "accepted" -> "published"
      [] s = "refused" -> "poison"
      [] OTHER -> "retry"

Answered(w) ==
    /\ pc[w] = "answered"
    /\ status[w] # "unauthorized"
    /\ Return(w, Outcome(status[w]))
    /\ UNCHANGED <<now, epoch, faults, cache, mu, envelope, refused>>

InvalidateExpired(w) ==
    /\ pc[w] = "answered"
    /\ status[w] = "unauthorized"
    /\ mu = NoWorker
    /\ cache' = IF cache.expiry <= now THEN Empty ELSE cache
    /\ refused' = refused \union {token[w]}
    /\ Return(w, Outcome(status[w]))
    /\ UNCHANGED <<now, epoch, faults, mu, envelope>>

\* Tokens.Invalidate, which waits for the mutex.  It drops whatever is
\* cached, which may by then be another token than the one refused.
Invalidate(w) ==
    /\ pc[w] = "answered"
    /\ status[w] = "unauthorized"
    /\ mu = NoWorker
    /\ cache' = Empty
    /\ refused' = refused \union {token[w]}
    /\ Return(w, Outcome(status[w]))
    /\ UNCHANGED <<now, epoch, faults, mu, envelope>>

-----------------------------------------------------------------------------
(* The environment                                                         *)
Tick ==
    /\ now < MaxTime
    /\ now' = now + 1
    /\ UNCHANGED <<epoch, faults, cache, mu, pc, envelope, token, read,
                   status, left, refused>>

\* The kernel restarts and knows none of the tokens it issued before.
Restart ==
    /\ epoch < MaxRestarts
    /\ epoch' = epoch + 1
    /\ UNCHANGED <<now, faults, cache, mu, pc, envelope, token, read,
                   status, left, refused>>

Progress(w) ==
    \/ \E e \in Envelopes : Publish(w, e)
    \/ TokenCached(w)
    \/ TokenRequest(w)
    \/ \E life \in Lifetimes : TokenIssued(w, life)
    \/ TokenReceived(w)
    \/ Deliver(w)
    \/ Answered(w)
    \/ Invalidate(w)

Next ==
    \/ \E w \in Workers :
          \/ Progress(w)
          \/ TokenFails(w)
          \/ ConsumerUnavailable(w)
          \/ DeliverFails(w)
    \/ Tick
    \/ Restart

Spec == Init /\ [][Next]_vars

(* A request ends, with an answer or at the client's timeout, and a worker *)
(* that can take the mutex gets it: Go's mutex hands over to a waiter that *)
(* has waited for a millisecond, so a worker is not overtaken forever.     *)
FairSpec ==
    /\ Spec
    /\ \A w \in Workers :
          /\ WF_vars(Progress(w))
          /\ SF_vars(TokenCached(w) \/ TokenRequest(w))
          /\ SF_vars(Invalidate(w))

-----------------------------------------------------------------------------
(* Properties                                                              *)

\* A token from the cache has a stated lifetime and more than the leeway left
\* of it when it is handed out: the lifetime counts from before the request,
\* so neither a slow response nor another worker's acquisition makes a dying
\* token look fresh, and an unknown lifetime is never cached.
CachedTokenHasLeeway ==
    [][\A w \in Workers :
          pc[w] = "token" /\ pc'[w] = "deliver" =>
             /\ token'[w].life # 0
             /\ now + Leeway < Dies(token'[w])]_vars

\* Once a worker was refused a token with 401 and dropped it, no later call
\* of Token returns it, whatever the other workers were doing meanwhile.
RefusedNotReturned ==
    [][\A w \in Workers :
          token'[w] # token[w] /\ token'[w] # NoToken => token'[w] \notin refused]_vars

\* No envelope the consumer can read is ever poison: neither an expired or
\* withdrawn credential nor an unavailable endpoint dead-letters an event.
OnlyUnreadableIsPoison ==
    /\ TypeOK
    /\ \A w \in Workers : status[w] = "poison" => envelope[w] # "good"

\* What keeps the three properties above in every step.  The cache holds a
\* token that was not refused, for no longer than it lives; so does a response
\* on its way, whose lifetime counts from a clock read before it was issued;
\* and a refused token is dead, so that no token issued later is that one.
PublisherInv ==
    /\ OnlyUnreadableIsPoison
    /\ pc \in [Workers -> {"idle", "token", "request", "response", "deliver", "answered"}]
    /\ read \in [Workers -> 0..now]
    /\ cache \in [token : Token \union {NoToken}, expiry : Nat]
    /\ cache.token # NoToken =>
          /\ cache.token \notin refused
          /\ cache.token.life # 0 /\ cache.expiry <= Dies(cache.token)
    /\ \A t \in refused : ~Live(t)
    /\ \A w \in Workers :
          /\ pc[w] # "idle" => left[w] > 0
          /\ pc[w] \in {"response", "deliver", "answered"} => token[w] # NoToken
          /\ pc[w] = "response" => token[w] \notin refused /\ read[w] <= token[w].at
          /\ pc[w] = "answered" /\ status[w] = "unauthorized" => ~Live(token[w])
          /\ pc[w] = "answered" /\ status[w] = "refused" => envelope[w] # "good"

\* After any number of restarts and expiries, every delivery is settled:
\* the retries of a refused one come to present a token the consumer takes,
\* and no worker waits forever for a mutex held across a request.
EveryDeliverySettles == \A w \in Workers : <>(left[w] = 0)
=============================================================================
