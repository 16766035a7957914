--------------------------- MODULE PublisherProofs ---------------------------
(***************************************************************************)
(* Proofs about Publisher, for any number of workers, any lifetimes and    *)
(* any leeway: PublisherInv is inductive, a token from the cache has the   *)
(* leeway left of its lifetime, and a refused token is never handed out    *)
(* again.                                                                  *)
(***************************************************************************)
EXTENDS Publisher, TLAPS

\* Most leaves are first-order and go to Zenon; those that need arithmetic or
\* the update of a function cite SMT.
USE PublisherConstants, ZenonT(60)

Places == {"idle", "token", "request", "response", "deliver", "answered"}
Statuses == Answers \union Outcomes \union {"none"}
AnyToken == [at : Nat, life : Nat, epoch : Nat]

\* What PublisherInv says of the state that all workers share.
SharedInv ==
  /\ now \in 0..MaxTime /\ epoch \in 0..MaxRestarts /\ faults \in 0..MaxFaults
  /\ refused \subseteq Token
  /\ cache \in [token : Token \union {NoToken}, expiry : Nat]
  /\ cache.token = NoToken <=> cache = Empty
  /\ mu \in Workers \union {NoWorker}
  /\ cache.token # NoToken =>
        /\ cache.token \notin refused
        /\ cache.token.life # 0 /\ cache.expiry <= Dies(cache.token)
  /\ \A t \in refused : ~Live(t)

\* The types of what each worker has of its own.
OwnTypes ==
  /\ pc \in [Workers -> Places]
  /\ read \in [Workers -> 0..now]
  /\ token \in [Workers -> Token \union {NoToken}]
  /\ envelope \in [Workers -> Envelopes]
  /\ status \in [Workers -> Statuses]
  /\ left \in [Workers -> 0..Deliveries]

\* What PublisherInv says of one worker.
WorkerInv(w) ==
  /\ (mu = w) <=> pc[w] \in {"request", "response"}
  /\ status[w] = "poison" => envelope[w] # "good"
  /\ pc[w] # "idle" => left[w] > 0
  /\ pc[w] \in {"response", "deliver", "answered"} => token[w] # NoToken
  /\ pc[w] = "response" => token[w] \notin refused /\ read[w] <= token[w].at
  /\ pc[w] = "answered" /\ status[w] = "unauthorized" => ~Live(token[w])
  /\ pc[w] = "answered" /\ status[w] = "refused" => envelope[w] # "good"

AllWorkers == \A w \in Workers : WorkerInv(w)

\* The invariant is its three parts.
LEMMA Parts == PublisherInv <=> SharedInv /\ OwnTypes /\ AllWorkers
<1>1. ASSUME PublisherInv PROVE SharedInv /\ OwnTypes /\ AllWorkers
  <2>1. SharedInv
    BY <1>1 DEF PublisherInv, OnlyUnreadableIsPoison, TypeOK, SharedInv
  <2>2. OwnTypes
    BY <1>1 DEF PublisherInv, OnlyUnreadableIsPoison, TypeOK, OwnTypes, Places, Statuses
  <2>3. AllWorkers
    BY <1>1 DEF PublisherInv, OnlyUnreadableIsPoison, TypeOK, WorkerInv, AllWorkers
  <2> QED
    BY <2>1, <2>2, <2>3
<1>2. ASSUME SharedInv, OwnTypes, AllWorkers PROVE PublisherInv
  <2>1. cache.token \in Token \union {NoToken}
    BY <1>2, SMT DEF SharedInv
  <2>2. TypeOK
    BY <1>2, <2>1 DEF SharedInv, OwnTypes, WorkerInv, AllWorkers, TypeOK, Statuses
  <2>3. OnlyUnreadableIsPoison
    BY <1>2, <2>2 DEF WorkerInv, AllWorkers, OnlyUnreadableIsPoison
  <2>4. /\ pc \in [Workers -> {"idle", "token", "request", "response", "deliver", "answered"}]
        /\ read \in [Workers -> 0..now]
        /\ cache \in [token : Token \union {NoToken}, expiry : Nat]
    BY <1>2 DEF SharedInv, OwnTypes, Places
  <2> QED
    BY <1>2, <2>3, <2>4 DEF SharedInv, WorkerInv, AllWorkers, PublisherInv
<1> QED
  BY <1>1, <1>2

\* Tokens are records, and so not the empty token string.
LEMMA TokensAreRecords ==
  ASSUME now \in 0..MaxTime, epoch \in 0..MaxRestarts, NEW t \in Token
  PROVE  t \in AnyToken /\ t # NoToken /\ t.at <= now /\ t.epoch <= epoch /\ t.life \in Lifetimes
<1>1. t.at \in 0..now /\ t.life \in Lifetimes /\ t.epoch \in 0..epoch
  BY SMT DEF Token
<1>n. now \in Nat /\ epoch \in Nat /\ t.life \in Nat
  <2>1. now \in Nat /\ epoch \in Nat
    BY SMT
  <2> QED
    BY <1>1, <2>1
<1>2. t.at \in Nat /\ t.epoch \in Nat /\ t.at <= now /\ t.epoch <= epoch
  BY <1>1, <1>n, SMT
<1>3. t = [at |-> t.at, life |-> t.life, epoch |-> t.epoch]
  BY DEF Token
<1>4. t \in AnyToken
  BY <1>2, <1>n, <1>3 DEF AnyToken
<1> QED
  BY <1>1, <1>2, <1>4, NoTokenIsNone DEF AnyToken

\* A token stays a token, and a dead one dead, when the clock moves or the
\* kernel restarts.
LEMMA Aging ==
  ASSUME now \in 0..MaxTime, epoch \in 0..MaxRestarts, NEW t \in Token,
         \/ now' = now /\ epoch' = epoch
         \/ now' = now + 1 /\ epoch' = epoch
         \/ now' = now /\ epoch' = epoch + 1
  PROVE  t \in Token' /\ (~Live(t) => ~Live(t)')
<1>1. t \in AnyToken /\ t.at <= now /\ t.epoch <= epoch
  BY TokensAreRecords
<1> QED
  BY <1>1, SMT DEF Token, AnyToken, Live, Dies
-----------------------------------------------------------------------------
\* A step of worker w gives its own variables these values.
Sets(w, p, r, t, e, s, l) ==
  /\ pc' = [pc EXCEPT ![w] = p] /\ read' = [read EXCEPT ![w] = r]
  /\ token' = [token EXCEPT ![w] = t] /\ envelope' = [envelope EXCEPT ![w] = e]
  /\ status' = [status EXCEPT ![w] = s] /\ left' = [left EXCEPT ![w] = l]

\* Updating a function at a point, and not updating it.
LEMMA Updated ==
  ASSUME NEW D, NEW R, NEW f \in [D -> R], NEW d \in D, NEW x \in R
  PROVE  /\ [f EXCEPT ![d] = x] \in [D -> R] /\ [f EXCEPT ![d] = x][d] = x
         /\ \A e \in D : e # d => [f EXCEPT ![d] = x][e] = f[e]
         /\ [f EXCEPT ![d] = f[d]] = f
BY SMT

\* What a worker leaves alone.
LEMMA Kept ==
  ASSUME OwnTypes, NEW w \in Workers
  PROVE  /\ read = [read EXCEPT ![w] = read[w]] /\ token = [token EXCEPT ![w] = token[w]]
         /\ envelope = [envelope EXCEPT ![w] = envelope[w]]
         /\ status = [status EXCEPT ![w] = status[w]] /\ left = [left EXCEPT ![w] = left[w]]
         /\ read[w] \in 0..now /\ token[w] \in Token \union {NoToken}
         /\ envelope[w] \in Envelopes /\ status[w] \in Statuses /\ left[w] \in 0..Deliveries
<1>1. /\ read = [read EXCEPT ![w] = read[w]] /\ token = [token EXCEPT ![w] = token[w]]
      /\ envelope = [envelope EXCEPT ![w] = envelope[w]]
      /\ status = [status EXCEPT ![w] = status[w]] /\ left = [left EXCEPT ![w] = left[w]]
  BY SMT DEF OwnTypes
<1> QED
  BY <1>1 DEF OwnTypes

\* Such a step keeps the types and the variables of the other workers.
LEMMA SetsOwn ==
  ASSUME OwnTypes, UNCHANGED <<now, epoch>>, NEW w \in Workers,
         NEW p \in Places, NEW r \in 0..now, NEW t \in Token \union {NoToken},
         NEW e \in Envelopes, NEW s \in Statuses, NEW l \in 0..Deliveries,
         Sets(w, p, r, t, e, s, l)
  PROVE  /\ OwnTypes' /\ Token' = Token
         /\ pc'[w] = p /\ read'[w] = r /\ token'[w] = t
         /\ envelope'[w] = e /\ status'[w] = s /\ left'[w] = l
         /\ \A x \in Workers : x # w =>
               /\ pc'[x] = pc[x] /\ read'[x] = read[x] /\ token'[x] = token[x]
               /\ envelope'[x] = envelope[x] /\ status'[x] = status[x] /\ left'[x] = left[x]
<1>1. Token' = Token /\ (0..now)' = 0..now
  BY DEF Token
<1>2. /\ pc' \in [Workers -> Places] /\ pc'[w] = p
      /\ \A x \in Workers : x # w => pc'[x] = pc[x]
  BY Updated DEF Sets, OwnTypes
<1>3. /\ read' \in [Workers -> 0..now] /\ read'[w] = r
      /\ \A x \in Workers : x # w => read'[x] = read[x]
  BY Updated DEF Sets, OwnTypes
<1>4. /\ token' \in [Workers -> Token \union {NoToken}] /\ token'[w] = t
      /\ \A x \in Workers : x # w => token'[x] = token[x]
  BY Updated DEF Sets, OwnTypes
<1>5. /\ envelope' \in [Workers -> Envelopes] /\ envelope'[w] = e
      /\ \A x \in Workers : x # w => envelope'[x] = envelope[x]
  BY Updated DEF Sets, OwnTypes
<1>6. /\ status' \in [Workers -> Statuses] /\ status'[w] = s
      /\ \A x \in Workers : x # w => status'[x] = status[x]
  BY Updated DEF Sets, OwnTypes
<1>7. /\ left' \in [Workers -> 0..Deliveries] /\ left'[w] = l
      /\ \A x \in Workers : x # w => left'[x] = left[x]
  BY Updated DEF Sets, OwnTypes
<1>8. OwnTypes'
  BY <1>1, <1>2, <1>3, <1>4, <1>5, <1>6, <1>7 DEF OwnTypes
<1> QED
  BY <1>1, <1>2, <1>3, <1>4, <1>5, <1>6, <1>7, <1>8

\* The other workers keep what holds of them: only the holder of the mutex
\* releases it, and a token is dropped only when nobody holds the mutex.
LEMMA Others ==
  ASSUME UNCHANGED <<now, epoch>>, NEW w \in Workers, NEW x \in Workers, WorkerInv(x),
         pc'[x] = pc[x] /\ read'[x] = read[x] /\ token'[x] = token[x],
         envelope'[x] = envelope[x] /\ status'[x] = status[x] /\ left'[x] = left[x],
         (mu' = x) <=> (mu = x),
         refused' = refused \/ mu = NoWorker
  PROVE  WorkerInv(x)'
<1>1. Live(token[x])' <=> Live(token[x])
  BY DEF Live
<1>2. pc[x] = "response" => refused' = refused
  BY DEF WorkerInv
<1> QED
  BY <1>1, <1>2 DEF WorkerInv

\* A step that moves neither the clock nor the cache keeps what is shared.
LEMMA SharedKept ==
  ASSUME SharedInv, UNCHANGED <<now, epoch, cache, refused>>,
         faults' \in 0..MaxFaults, mu' \in Workers \union {NoWorker}
  PROVE  SharedInv'
<1>1. Token' = Token /\ \A t : Live(t)' <=> Live(t)
  BY DEF Token, Live
<1> QED
  BY <1>1 DEF SharedInv

\* The parts of a step of one worker put together.
LEMMA Combine ==
  ASSUME PublisherInv, UNCHANGED <<now, epoch>>, NEW w \in Workers,
         NEW p \in Places, NEW r \in 0..now, NEW t \in Token \union {NoToken},
         NEW e \in Envelopes, NEW s \in Statuses, NEW l \in 0..Deliveries,
         Sets(w, p, r, t, e, s, l),
         SharedInv', WorkerInv(w)',
         \A x \in Workers : x # w => ((mu' = x) <=> (mu = x)),
         refused' = refused \/ mu = NoWorker
  PROVE  PublisherInv'
<1>1. OwnTypes /\ \A x \in Workers : WorkerInv(x)
  BY Parts DEF AllWorkers
<1>2. /\ OwnTypes'
      /\ \A x \in Workers : x # w =>
            /\ pc'[x] = pc[x] /\ read'[x] = read[x] /\ token'[x] = token[x]
            /\ envelope'[x] = envelope[x] /\ status'[x] = status[x] /\ left'[x] = left[x]
  BY <1>1, SetsOwn
<1>3. ASSUME NEW x \in Workers, x # w PROVE WorkerInv(x)'
  BY <1>1, <1>2, <1>3, Others
<1>4. AllWorkers'
  BY <1>3 DEF AllWorkers
<1> QED
  BY <1>2, <1>4, Parts, PTL

\* A worker that is not idle and is not poisoning a readable envelope may
\* return: it keeps or settles its delivery.
LEMMA Returns ==
  ASSUME PublisherInv, UNCHANGED <<now, epoch>>, NEW w \in Workers, left[w] > 0,
         NEW e \in Envelopes, NEW o \in Outcomes, o = "poison" => e # "good",
         envelope' = [envelope EXCEPT ![w] = e], Return(w, o),
         SharedInv', mu' # w,
         \A x \in Workers : x # w => ((mu' = x) <=> (mu = x)),
         refused' = refused \/ mu = NoWorker
  PROVE  PublisherInv'
<1>i. SharedInv /\ OwnTypes
  BY Parts
<1>1. \E l \in 0..Deliveries : Sets(w, "idle", 0, NoToken, e, o, l)
  <2>1. left[w] \in 0..Deliveries
    BY <1>i DEF OwnTypes
  <2>2. left[w] - 1 \in 0..Deliveries
    BY <2>1, SMT
  <2>3. (IF o = "retry" THEN left[w] ELSE left[w] - 1) \in 0..Deliveries
    BY <2>1, <2>2
  <2> QED
    BY <2>3 DEF Return, Sets
<1>2. PICK l \in 0..Deliveries : Sets(w, "idle", 0, NoToken, e, o, l)
  BY <1>1
<1>3. "idle" \in Places /\ o \in Statuses /\ 0 \in 0..now
  <2>1. 0 \in 0..now
    BY <1>i, SMT DEF SharedInv
  <2> QED
    BY <2>1 DEF Places, Statuses
<1>4. pc'[w] = "idle" /\ envelope'[w] = e /\ status'[w] = o
  BY <1>i, <1>2, <1>3, SetsOwn, SMT
<1>5. WorkerInv(w)'
  BY <1>4 DEF WorkerInv
<1> QED
  BY <1>2, <1>3, <1>5, Combine

-----------------------------------------------------------------------------
\* A worker starts an idle publication, or poisons an envelope it cannot encode.
LEMMA PublishKeeps ==
  ASSUME PublisherInv, NEW w \in Workers, NEW e \in Envelopes, Publish(w, e)
  PROVE  PublisherInv'
<1>i. SharedInv /\ OwnTypes /\ WorkerInv(w)
  BY Parts DEF AllWorkers
<1>u. UNCHANGED <<now, epoch, faults, cache, mu, refused>>
  BY DEF Publish
<1>s. SharedInv'
  BY <1>i, <1>u, SharedKept DEF SharedInv
<1>m. mu # w /\ left[w] > 0
  BY <1>i DEF Publish, WorkerInv
<1>1. CASE e = "unencodable"
  BY <1>1, <1>u, <1>s, <1>m, Returns DEF Publish, Outcomes
<1>2. CASE e # "unencodable"
  <2>1. read[w] \in 0..now /\ token[w] \in Token \union {NoToken} /\ left[w] \in 0..Deliveries
    BY <1>i DEF OwnTypes
  <2>2. Sets(w, "token", read[w], token[w], e, "none", left[w])
    BY <1>2, <1>i, Kept DEF Publish, Sets
  <2>3. "token" \in Places /\ "none" \in Statuses
    BY DEF Places, Statuses
  <2>4. pc'[w] = "token" /\ status'[w] = "none" /\ left'[w] = left[w]
    BY <1>i, <1>u, <2>1, <2>2, <2>3, SetsOwn, SMT
  <2>5. WorkerInv(w)'
    BY <1>u, <1>m, <2>4 DEF WorkerInv
  <2> QED
    BY <1>u, <1>s, <2>1, <2>2, <2>3, <2>5, Combine
<1> QED
  BY <1>1, <1>2

\* The cached token is handed out as it is.
LEMMA TokenCachedKeeps ==
  ASSUME PublisherInv, NEW w \in Workers, TokenCached(w)
  PROVE  PublisherInv'
<1>i. SharedInv /\ OwnTypes /\ WorkerInv(w)
  BY Parts DEF AllWorkers
<1>u. UNCHANGED <<now, epoch, faults, cache, mu, envelope, status, left, refused>>
  BY DEF TokenCached
<1>s. SharedInv'
  BY <1>i, <1>u, SharedKept DEF SharedInv
<1>1. /\ cache.token \in Token \union {NoToken} /\ cache.token # NoToken
      /\ envelope[w] \in Envelopes /\ status[w] \in Statuses /\ left[w] \in 0..Deliveries
      /\ "deliver" \in Places
  <2>1. cache.token \in Token \union {NoToken}
    BY <1>i, SMT DEF SharedInv
  <2> QED
    BY <1>i, <2>1 DEF OwnTypes, TokenCached, Fresh, Places
<1>2. 0 \in 0..now
  BY <1>i, SMT DEF SharedInv
<1>3. Sets(w, "deliver", 0, cache.token, envelope[w], status[w], left[w])
  BY <1>i, <1>u, Kept DEF TokenCached, HandOut, Sets
<1>4. /\ pc'[w] = "deliver" /\ token'[w] = cache.token /\ envelope'[w] = envelope[w]
      /\ status'[w] = status[w] /\ left'[w] = left[w]
  BY <1>i, <1>u, <1>1, <1>2, <1>3, SetsOwn, SMT
<1>5. WorkerInv(w)'
  BY <1>i, <1>u, <1>1, <1>4 DEF WorkerInv, TokenCached
<1> QED
  BY <1>u, <1>s, <1>1, <1>2, <1>3, <1>5, Combine

\* The worker that found no fresh token takes the mutex and reads the clock.
LEMMA TokenRequestKeeps ==
  ASSUME PublisherInv, NEW w \in Workers, TokenRequest(w)
  PROVE  PublisherInv'
<1>i. SharedInv /\ OwnTypes /\ WorkerInv(w)
  BY Parts DEF AllWorkers
<1>u. /\ UNCHANGED <<now, epoch, faults, cache, envelope, token, status, left, refused>>
      /\ mu = NoWorker /\ mu' = w
  BY DEF TokenRequest
<1>s. SharedInv'
  BY <1>i, <1>u, SharedKept DEF SharedInv
<1>1. now \in 0..now
  BY <1>i, SMT DEF SharedInv
<1>2. "request" \in Places
  BY DEF Places
<1>3. Sets(w, "request", now, token[w], envelope[w], status[w], left[w])
  BY <1>i, <1>u, Kept DEF TokenRequest, Sets
<1>4. /\ pc'[w] = "request" /\ envelope'[w] = envelope[w]
      /\ status'[w] = status[w] /\ left'[w] = left[w]
  <2>1. /\ read[w] \in 0..now /\ token[w] \in Token \union {NoToken}
        /\ envelope[w] \in Envelopes /\ status[w] \in Statuses /\ left[w] \in 0..Deliveries
    BY <1>i, Kept
  <2>2. OwnTypes
    BY <1>i
  <2> QED
    BY <1>u, <1>1, <1>2, <1>3, <2>1, <2>2, SetsOwn, SMT
<1>5. WorkerInv(w)'
  BY <1>i, <1>u, <1>4 DEF WorkerInv, TokenRequest
<1> QED
  BY <1>i, <1>u, <1>s, <1>1, <1>2, <1>3, <1>5, Kept, Combine

\* A token issued now is alive, so it is none of those refused.
LEMMA IssuedIsNew ==
  ASSUME SharedInv, NEW life \in Lifetimes
  PROVE  LET t == [at |-> now, life |-> life, epoch |-> epoch]
         IN  t \in Token /\ t # NoToken /\ Live(t) /\ t \notin refused
<1> DEFINE t == [at |-> now, life |-> life, epoch |-> epoch]
<1>n. now \in Nat /\ epoch \in Nat /\ life \in Nat
  <2>1. now \in Nat /\ epoch \in Nat
    BY SMT DEF SharedInv
  <2> QED
    BY <2>1
<1>1. t \in Token
  <2>1. now \in 0..now /\ epoch \in 0..epoch
    BY <1>n, SMT
  <2> QED
    BY <2>1 DEF Token
<1>2. t # NoToken
  BY <1>1, TokensAreRecords DEF SharedInv
<1>3. Live(t)
  BY <1>n, SMT DEF Live, Dies
<1>4. t \notin refused
  BY <1>3 DEF SharedInv
<1> QED
  BY <1>1, <1>2, <1>3, <1>4

\* The endpoint issues a token no earlier than the clock was read.
LEMMA TokenIssuedKeeps ==
  ASSUME PublisherInv, NEW w \in Workers, NEW life \in Lifetimes, TokenIssued(w, life)
  PROVE  PublisherInv'
<1> DEFINE t == [at |-> now, life |-> life, epoch |-> epoch]
<1>i. SharedInv /\ OwnTypes /\ WorkerInv(w)
  BY Parts DEF AllWorkers
<1>u. UNCHANGED <<now, epoch, faults, cache, mu, envelope, read, status, left, refused>>
  BY DEF TokenIssued
<1>s. SharedInv'
  BY <1>i, <1>u, SharedKept DEF SharedInv
<1>1. t \in Token /\ t # NoToken /\ t \notin refused /\ t.at = now
  BY <1>i, IssuedIsNew
<1>2. "response" \in Places
  BY DEF Places
<1> HIDE DEF t
<1>3. Sets(w, "response", read[w], t, envelope[w], status[w], left[w])
  BY <1>i, <1>u, Kept DEF TokenIssued, Sets, t
<1>4. /\ pc'[w] = "response" /\ token'[w] = t /\ read'[w] = read[w]
      /\ envelope'[w] = envelope[w] /\ status'[w] = status[w] /\ left'[w] = left[w]
  <2>1. /\ read[w] \in 0..now /\ token[w] \in Token \union {NoToken}
        /\ envelope[w] \in Envelopes /\ status[w] \in Statuses /\ left[w] \in 0..Deliveries
    BY <1>i, Kept
  <2>2. OwnTypes
    BY <1>i
  <2> QED
    BY <1>u, <1>1, <1>2, <1>3, <2>1, <2>2, SetsOwn, SMT
<1>5. read[w] <= now
  BY <1>i, Kept, SMT DEF SharedInv
<1>6. WorkerInv(w)'
  BY <1>i, <1>u, <1>1, <1>4, <1>5 DEF WorkerInv, TokenIssued
<1> QED
  BY <1>i, <1>u, <1>s, <1>1, <1>2, <1>3, <1>6, Kept, Combine

\* What is cached of a response expires no later than the token dies.
LEMMA CachedIsSound ==
  ASSUME SharedInv, NEW w \in Workers, NEW t \in Token, t \notin refused,
         read[w] \in 0..now, read[w] <= t.at
  PROVE  /\ Cached(w, t) \in [token : Token \union {NoToken}, expiry : Nat]
         /\ Cached(w, t).token = NoToken <=> Cached(w, t) = Empty
         /\ Cached(w, t).token # NoToken =>
               /\ Cached(w, t).token \notin refused /\ Cached(w, t).token.life # 0
               /\ Cached(w, t).expiry <= Dies(Cached(w, t).token)
<1>1. t \in AnyToken /\ t # NoToken
  BY TokensAreRecords DEF SharedInv
<1>2. CASE t.life = 0
  <2>1. /\ Cached(w, t) = [token |-> NoToken, expiry |-> 0]
        /\ Empty = [token |-> NoToken, expiry |-> 0]
    BY <1>2 DEF Cached, Empty
  <2> QED
    BY <2>1, SMT
<1>3. CASE t.life # 0
  <2>1. read[w] + t.life \in Nat /\ read[w] + t.life <= Dies(t)
    BY <1>1, <1>3, SMT DEF AnyToken, Dies, SharedInv
  <2>2. Cached(w, t) = [token |-> t, expiry |-> read[w] + t.life]
    BY <1>3 DEF Cached
  <2>3. /\ Cached(w, t).token = t /\ Cached(w, t).expiry = read[w] + t.life
        /\ Cached(w, t) \in [token : Token \union {NoToken}, expiry : Nat]
    <3> DEFINE n == read[w] + t.life
    <3>1. n \in Nat /\ Cached(w, t) = [token |-> t, expiry |-> n]
      BY <2>1, <2>2
    <3> HIDE DEF n
    <3>2. /\ Cached(w, t).token = t /\ Cached(w, t).expiry = n
          /\ Cached(w, t) \in [token : Token \union {NoToken}, expiry : Nat]
      BY <3>1, SMT
    <3> QED
      BY <3>2 DEF n
  <2>4. Cached(w, t) # Empty
    <3>1. Empty.token = NoToken
      BY DEF Empty
    <3> QED
      BY <1>1, <2>3, <3>1
  <2> QED
    BY <1>1, <1>3, <2>1, <2>3, <2>4
<1> QED
  BY <1>2, <1>3

\* The response is cached, and the mutex released.
LEMMA TokenReceivedKeeps ==
  ASSUME PublisherInv, NEW w \in Workers, TokenReceived(w)
  PROVE  PublisherInv'
<1>i. SharedInv /\ OwnTypes /\ WorkerInv(w)
  BY Parts DEF AllWorkers
<1>u. /\ UNCHANGED <<now, epoch, faults, envelope, status, left, refused>>
      /\ mu = w /\ mu' = NoWorker /\ cache' = Cached(w, token[w])
  BY <1>i DEF TokenReceived, WorkerInv
<1>1. /\ token[w] \in Token /\ token[w] # NoToken /\ token[w] \notin refused
      /\ read[w] \in 0..now /\ read[w] <= token[w].at
  BY <1>i, Kept DEF TokenReceived, WorkerInv
<1>s. SharedInv'
  <2>1. /\ cache' \in [token : Token \union {NoToken}, expiry : Nat]
        /\ cache'.token = NoToken <=> cache' = Empty
        /\ cache'.token # NoToken =>
              /\ cache'.token \notin refused
              /\ cache'.token.life # 0 /\ cache'.expiry <= Dies(cache'.token)
    BY <1>i, <1>u, <1>1, CachedIsSound
  <2>2. Token' = Token /\ \A t : Live(t)' <=> Live(t)
    BY <1>u DEF Token, Live
  <2> QED
    BY <1>i, <1>u, <2>1, <2>2 DEF SharedInv, Dies
<1>2. 0 \in 0..now /\ "deliver" \in Places
  <2>1. 0 \in 0..now
    BY <1>i, SMT DEF SharedInv
  <2> QED
    BY <2>1 DEF Places
<1>3. Sets(w, "deliver", 0, token[w], envelope[w], status[w], left[w])
  BY <1>i, <1>u, Kept DEF TokenReceived, HandOut, Sets
<1>4. /\ pc'[w] = "deliver" /\ token'[w] = token[w] /\ envelope'[w] = envelope[w]
      /\ status'[w] = status[w] /\ left'[w] = left[w]
  <2>1. /\ read[w] \in 0..now /\ token[w] \in Token \union {NoToken}
        /\ envelope[w] \in Envelopes /\ status[w] \in Statuses /\ left[w] \in 0..Deliveries
    BY <1>i, Kept
  <2>2. OwnTypes
    BY <1>i
  <2> QED
    BY <1>u, <1>1, <1>2, <1>3, <2>1, <2>2, SetsOwn, SMT
<1>5. WorkerInv(w)'
  BY <1>i, <1>u, <1>1, <1>4 DEF WorkerInv, TokenReceived
<1>6. \A x \in Workers : x # w => ((mu' = x) <=> (mu = x))
  BY <1>u
<1> QED
  BY <1>i, <1>u, <1>s, <1>2, <1>3, <1>5, <1>6, Kept, Combine

\* A failed acquisition releases the mutex and leaves the cache alone.
LEMMA TokenFailsKeeps ==
  ASSUME PublisherInv, NEW w \in Workers, TokenFails(w)
  PROVE  PublisherInv'
<1>i. SharedInv /\ OwnTypes /\ WorkerInv(w)
  BY Parts DEF AllWorkers
<1>u. UNCHANGED <<now, epoch, cache, envelope, refused>> /\ mu = w /\ mu' = NoWorker
  BY <1>i DEF TokenFails, WorkerInv
<1>f. faults' \in 0..MaxFaults
  BY <1>i, SMT DEF TokenFails, Fault, SharedInv
<1>s. SharedInv'
  BY <1>i, <1>u, <1>f, SharedKept
<1>1. left[w] > 0 /\ Return(w, "retry") /\ "retry" \in Outcomes
  BY <1>i DEF TokenFails, WorkerInv, Outcomes
<1>2. envelope' = [envelope EXCEPT ![w] = envelope[w]] /\ envelope[w] \in Envelopes
  BY <1>i, <1>u, Kept
<1>3. mu' # w /\ \A x \in Workers : x # w => ((mu' = x) <=> (mu = x))
  BY <1>u
<1> QED
  BY <1>u, <1>s, <1>1, <1>2, <1>3, Returns

\* The consumer refuses a dead token, and takes a readable envelope otherwise.
LEMMA DeliverKeeps ==
  ASSUME PublisherInv, NEW w \in Workers, Deliver(w)
  PROVE  PublisherInv'
<1>i. SharedInv /\ OwnTypes /\ WorkerInv(w)
  BY Parts DEF AllWorkers
<1>u. /\ UNCHANGED <<now, epoch, faults, cache, mu, envelope, token, read, left, refused>>
      /\ pc[w] = "deliver"
  BY DEF Deliver
<1>s. SharedInv'
  BY <1>i, <1>u, SharedKept DEF SharedInv
<1>1. /\ ConsumerStatus(w) \in {"unauthorized", "accepted", "refused"}
      /\ ConsumerStatus(w) = "unauthorized" => ~Live(token[w])
      /\ ConsumerStatus(w) = "refused" => envelope[w] # "good"
  BY DEF ConsumerStatus
<1>2. ConsumerStatus(w) \in Statuses /\ "answered" \in Places
  BY <1>1 DEF Statuses, Answers, Places
<1>3. Sets(w, "answered", read[w], token[w], envelope[w], ConsumerStatus(w), left[w])
  BY <1>i, <1>u, Kept DEF Deliver, Sets
<1>4. /\ pc'[w] = "answered" /\ token'[w] = token[w] /\ envelope'[w] = envelope[w]
      /\ status'[w] = ConsumerStatus(w) /\ left'[w] = left[w]
  <2>1. /\ read[w] \in 0..now /\ token[w] \in Token \union {NoToken}
        /\ envelope[w] \in Envelopes /\ left[w] \in 0..Deliveries
    BY <1>i, Kept
  <2>2. OwnTypes
    BY <1>i
  <2> QED
    BY <1>u, <1>2, <1>3, <2>1, <2>2, SetsOwn, SMT
<1>5. WorkerInv(w)'
  <2>1. Live(token[w])' <=> Live(token[w])
    BY <1>u, <1>4 DEF Live
  <2> QED
    BY <1>i, <1>u, <1>1, <1>4, <2>1 DEF WorkerInv
<1> QED
  BY <1>i, <1>u, <1>s, <1>2, <1>3, <1>5, Kept, Combine

\* A consumer that is unavailable says nothing of the envelope.
LEMMA ConsumerUnavailableKeeps ==
  ASSUME PublisherInv, NEW w \in Workers, ConsumerUnavailable(w)
  PROVE  PublisherInv'
<1>i. SharedInv /\ OwnTypes /\ WorkerInv(w)
  BY Parts DEF AllWorkers
<1>u. /\ UNCHANGED <<now, epoch, cache, mu, envelope, token, read, left, refused>>
      /\ pc[w] = "deliver"
  BY DEF ConsumerUnavailable
<1>f. faults' \in 0..MaxFaults
  BY <1>i, SMT DEF ConsumerUnavailable, Fault, SharedInv
<1>s. SharedInv'
  BY <1>i, <1>u, <1>f, SharedKept DEF SharedInv
<1>2. "unavailable" \in Statuses /\ "answered" \in Places
  BY DEF Statuses, Answers, Places
<1>3. Sets(w, "answered", read[w], token[w], envelope[w], "unavailable", left[w])
  BY <1>i, <1>u, Kept DEF ConsumerUnavailable, Sets
<1>4. /\ pc'[w] = "answered" /\ token'[w] = token[w] /\ envelope'[w] = envelope[w]
      /\ status'[w] = "unavailable" /\ left'[w] = left[w]
  <2>1. /\ read[w] \in 0..now /\ token[w] \in Token \union {NoToken}
        /\ envelope[w] \in Envelopes /\ left[w] \in 0..Deliveries
    BY <1>i, Kept
  <2>2. OwnTypes
    BY <1>i
  <2> QED
    BY <1>u, <1>2, <1>3, <2>1, <2>2, SetsOwn, SMT
<1>5. WorkerInv(w)'
  BY <1>i, <1>u, <1>4 DEF WorkerInv
<1> QED
  BY <1>i, <1>u, <1>s, <1>2, <1>3, <1>5, Kept, Combine

\* A delivery whose answer is lost is retryable.
LEMMA DeliverFailsKeeps ==
  ASSUME PublisherInv, NEW w \in Workers, DeliverFails(w)
  PROVE  PublisherInv'
<1>i. SharedInv /\ OwnTypes /\ WorkerInv(w)
  BY Parts DEF AllWorkers
<1>u. UNCHANGED <<now, epoch, cache, mu, envelope, refused>> /\ mu # w
  BY <1>i DEF DeliverFails, WorkerInv
<1>f. faults' \in 0..MaxFaults
  BY <1>i, SMT DEF DeliverFails, Fault, SharedInv
<1>s. SharedInv'
  BY <1>i, <1>u, <1>f, SharedKept DEF SharedInv
<1>1. left[w] > 0 /\ Return(w, "retry") /\ "retry" \in Outcomes
  BY <1>i DEF DeliverFails, WorkerInv, Outcomes
<1>2. envelope' = [envelope EXCEPT ![w] = envelope[w]] /\ envelope[w] \in Envelopes
  BY <1>i, <1>u, Kept
<1> QED
  BY <1>u, <1>s, <1>1, <1>2, Returns

\* Publish maps every status to an outcome, and only a refusal to poison.
LEMMA OutcomeOf ==
  ASSUME NEW s PROVE Outcome(s) \in Outcomes /\ (Outcome(s) = "poison" => s = "refused")
BY DEF Outcome, Outcomes

\* Any answer but a 401 settles the publication by its status alone.
LEMMA AnsweredKeeps ==
  ASSUME PublisherInv, NEW w \in Workers, Answered(w)
  PROVE  PublisherInv'
<1>i. SharedInv /\ OwnTypes /\ WorkerInv(w)
  BY Parts DEF AllWorkers
<1>u. UNCHANGED <<now, epoch, faults, cache, mu, envelope, refused>> /\ mu # w
  BY <1>i DEF Answered, WorkerInv
<1>s. SharedInv'
  BY <1>i, <1>u, SharedKept DEF SharedInv
<1> DEFINE o == Outcome(status[w])
<1>1. /\ left[w] > 0 /\ Return(w, o) /\ o \in Outcomes
      /\ o = "poison" => envelope[w] # "good"
  BY <1>i, OutcomeOf DEF Answered, WorkerInv
<1>2. envelope' = [envelope EXCEPT ![w] = envelope[w]] /\ envelope[w] \in Envelopes
  BY <1>i, <1>u, Kept
<1> HIDE DEF o
<1> QED
  BY <1>u, <1>s, <1>1, <1>2, Returns

\* A refused token is dead; it joins those refused and leaves the cache.
LEMMA InvalidateKeeps ==
  ASSUME PublisherInv, NEW w \in Workers, Invalidate(w)
  PROVE  PublisherInv'
<1>i. SharedInv /\ OwnTypes /\ WorkerInv(w)
  BY Parts DEF AllWorkers
<1>u. /\ UNCHANGED <<now, epoch, faults, mu, envelope>> /\ mu = NoWorker /\ mu' # w
      /\ cache' = Empty /\ refused' = refused \union {token[w]}
      /\ pc[w] = "answered" /\ status[w] = "unauthorized"
  BY DEF Invalidate
<1>1. token[w] \in Token /\ ~Live(token[w])
  BY <1>i, <1>u, Kept DEF WorkerInv
<1>s. SharedInv'
  <2>1. Token' = Token /\ \A t : Live(t)' <=> Live(t)
    BY <1>u DEF Token, Live
  <2>2. /\ Empty.token = NoToken
        /\ Empty \in [token : Token \union {NoToken}, expiry : Nat]
    BY SMT DEF Empty
  <2> QED
    BY <1>i, <1>u, <1>1, <2>1, <2>2 DEF SharedInv
<1> DEFINE o == Outcome(status[w])
<1>2. /\ left[w] > 0 /\ Return(w, o) /\ o \in Outcomes
      /\ o = "poison" => envelope[w] # "good"
  BY <1>i, <1>u, OutcomeOf DEF Invalidate, WorkerInv
<1>3. envelope' = [envelope EXCEPT ![w] = envelope[w]] /\ envelope[w] \in Envelopes
  BY <1>i, <1>u, Kept
<1> HIDE DEF o
<1> QED
  BY <1>u, <1>s, <1>2, <1>3, Returns

\* The clock and the kernel leave every worker where it is.
LEMMA EnvironmentKeeps ==
  ASSUME PublisherInv, Tick \/ Restart
  PROVE  PublisherInv'
<1>i. SharedInv /\ OwnTypes /\ \A w \in Workers : WorkerInv(w)
  BY Parts DEF AllWorkers
<1>u. UNCHANGED <<faults, cache, mu, pc, envelope, token, read, status, left, refused>>
  BY DEF Tick, Restart
<1>n. /\ now' \in 0..MaxTime /\ epoch' \in 0..MaxRestarts /\ 0..now \subseteq 0..now'
      /\ \/ now' = now + 1 /\ epoch' = epoch
         \/ now' = now /\ epoch' = epoch + 1
  BY <1>i, SMT DEF Tick, Restart, SharedInv
<1>a. \A t \in Token : t \in Token' /\ (~Live(t) => ~Live(t)')
  <2>1. now \in 0..MaxTime /\ epoch \in 0..MaxRestarts
    BY <1>i DEF SharedInv
  <2> QED
    BY <1>n, <2>1, Aging
<1>1. SharedInv'
  <2>1. cache.token \in Token \union {NoToken} /\ cache.expiry \in Nat
        /\ cache = [token |-> cache.token, expiry |-> cache.expiry]
    BY <1>i, SMT DEF SharedInv
  <2>2. cache' \in [token : Token' \union {NoToken}, expiry : Nat]
    BY <1>u, <1>a, <2>1
  <2> QED
    BY <1>i, <1>u, <1>n, <1>a, <2>2 DEF SharedInv, Dies
<1>2. OwnTypes'
  <2>1. Token \union {NoToken} \subseteq Token' \union {NoToken}
    BY <1>a
  <2>2. token' \in [Workers -> Token' \union {NoToken}] /\ read' \in [Workers -> 0..now']
    BY <1>i, <1>u, <1>n, <2>1 DEF OwnTypes
  <2> QED
    BY <1>i, <1>u, <2>2 DEF OwnTypes
<1>3. AllWorkers'
  <2>1. ASSUME NEW w \in Workers PROVE WorkerInv(w)'
    <3>1. token[w] # NoToken /\ ~Live(token[w]) => ~Live(token[w])'
      <4>1. token[w] # NoToken => token[w] \in Token
        BY <1>i, Kept
      <4>2. token'[w] = token[w]
        BY <1>u
      <4> QED
        BY <1>a, <4>1, <4>2 DEF Live
    <3> QED
      BY <1>i, <1>u, <3>1 DEF WorkerInv
  <2> QED
    BY <2>1 DEF AllWorkers
<1> QED
  BY <1>1, <1>2, <1>3, Parts, PTL

\* NewTokens starts with an empty cache and a free mutex.
LEMMA InitInv == Init => PublisherInv
<1> SUFFICES ASSUME Init PROVE PublisherInv
  OBVIOUS
<1>n. now \in 0..MaxTime /\ epoch \in 0..MaxRestarts /\ faults \in 0..MaxFaults
  BY SMT DEF Init
<1>1. SharedInv
  <2>1. /\ Empty.token = NoToken
        /\ Empty \in [token : Token \union {NoToken}, expiry : Nat]
    BY SMT DEF Empty
  <2> QED
    BY <1>n, <2>1 DEF Init, SharedInv
<1>2. OwnTypes
  <2>1. 0 \in 0..now /\ Deliveries \in 0..Deliveries
    BY SMT DEF Init
  <2> QED
    BY <2>1 DEF Init, OwnTypes, Places, Statuses, Envelopes
<1>3. AllWorkers
  BY DEF Init, AllWorkers, WorkerInv
<1> QED
  BY <1>1, <1>2, <1>3, Parts

\* Every step keeps the invariant.
LEMMA InvStep == PublisherInv /\ [Next]_vars => PublisherInv'
<1> SUFFICES ASSUME PublisherInv, [Next]_vars PROVE PublisherInv'
  OBVIOUS
<1>1. CASE UNCHANGED vars
  <2>1. Token' = Token /\ \A t : Live(t)' <=> Live(t)
    BY <1>1 DEF Token, Live, vars
  <2>2. SharedInv /\ OwnTypes /\ AllWorkers
    BY Parts
  <2>3. SharedInv' /\ OwnTypes'
    BY <1>1, <2>1, <2>2 DEF vars, SharedInv, OwnTypes
  <2>4. AllWorkers'
    BY <1>1, <2>1, <2>2 DEF vars, AllWorkers, WorkerInv
  <2> QED
    BY <2>3, <2>4, Parts, PTL
<1>2. ASSUME NEW w \in Workers, Progress(w) PROVE PublisherInv'
  BY <1>2, PublishKeeps, TokenCachedKeeps, TokenRequestKeeps, TokenIssuedKeeps,
     TokenReceivedKeeps, DeliverKeeps, AnsweredKeeps, InvalidateKeeps DEF Progress
<1> QED
  BY <1>1, <1>2, TokenFailsKeeps, ConsumerUnavailableKeeps, DeliverFailsKeeps,
     EnvironmentKeeps DEF Next

-----------------------------------------------------------------------------
\* No envelope the consumer can read is ever poison, and what the cache, the
\* mutex and the responses on their way hold stays consistent (Publish of
\* publisher.go, Token and Invalidate of tokens.go).
THEOREM PublisherKept == Spec => []PublisherInv
BY InitInv, InvStep, PTL DEF Spec

\* Only TokenCached takes a worker from asking for a token to delivering.
LEMMA HandedFromCache ==
  ASSUME PublisherInv, Next, NEW w \in Workers, pc[w] = "token", pc'[w] = "deliver"
  PROVE  TokenCached(w)
<1>i. OwnTypes /\ SharedInv
  BY Parts
<1>1. ASSUME NEW x \in Workers, x # w,
             \E p \in Places : pc' = [pc EXCEPT ![x] = p]
      PROVE  FALSE
  BY <1>1, <1>i, Updated DEF OwnTypes
<1>2. ASSUME NEW x \in Workers,
             \E p \in Places \ {"deliver"} : pc' = [pc EXCEPT ![x] = p]
      PROVE  FALSE
  BY <1>2, <1>i, Updated DEF OwnTypes
<1>3. ASSUME NEW x \in Workers,
             Progress(x) \/ TokenFails(x) \/ ConsumerUnavailable(x) \/ DeliverFails(x)
      PROVE  \/ TokenCached(x) \/ TokenReceived(x)
             \/ \E p \in Places \ {"deliver"} : pc' = [pc EXCEPT ![x] = p]
  BY <1>3 DEF Progress, TokenFails, ConsumerUnavailable, DeliverFails, Publish, TokenRequest,
              TokenIssued, Deliver, Answered, Invalidate, Return, Places
<1>4. ASSUME NEW x \in Workers, TokenCached(x) \/ TokenReceived(x)
      PROVE  x = w /\ TokenCached(w)
  <2>1. pc' = [pc EXCEPT ![x] = "deliver"] /\ "deliver" \in Places
    BY <1>4 DEF TokenCached, TokenReceived, HandOut, Places
  <2>2. x = w
    BY <1>1, <2>1
  <2> QED
    BY <1>4, <2>2 DEF TokenReceived
<1>5. ~(Tick \/ Restart)
  BY DEF Tick, Restart
<1> QED
  BY <1>2, <1>3, <1>4, <1>5 DEF Next

\* A token from the cache has a stated lifetime and more than the leeway left
\* of it when Token returns it, however slow the response was.
THEOREM LeewayLeft == Spec => CachedTokenHasLeeway
<1>1. ASSUME PublisherInv, [Next]_vars
      PROVE  [\A w \in Workers :
                 pc[w] = "token" /\ pc'[w] = "deliver" =>
                    /\ token'[w].life # 0
                    /\ now + Leeway < Dies(token'[w])]_vars
  <2> SUFFICES ASSUME Next, NEW w \in Workers, pc[w] = "token", pc'[w] = "deliver"
               PROVE  token'[w].life # 0 /\ now + Leeway < Dies(token'[w])
    BY <1>1
  <2>i. SharedInv /\ OwnTypes
    BY <1>1, Parts
  <2>1. TokenCached(w)
    BY <1>1, HandedFromCache
  <2>2. token'[w] = cache.token /\ cache.token # NoToken /\ now + Leeway < cache.expiry
    <3>1. cache.token \in Token \union {NoToken}
      BY <2>i, SMT DEF SharedInv
    <3> QED
      BY <2>1, <2>i, <3>1, Updated DEF TokenCached, HandOut, Fresh, OwnTypes
  <2>3. cache.token.life # 0 /\ cache.expiry <= Dies(cache.token)
    BY <2>i, <2>2 DEF SharedInv
  <2>4. cache.token \in AnyToken /\ now \in Nat /\ cache.expiry \in Nat
    <3>1. cache.token \in Token /\ cache.expiry \in Nat /\ now \in Nat
      BY <2>i, <2>2, SMT DEF SharedInv
    <3> QED
      BY <2>i, <3>1, TokensAreRecords DEF SharedInv
  <2>5. Dies(cache.token) \in Nat
    BY <2>4, SMT DEF Dies, AnyToken
  <2>6. now + Leeway < Dies(cache.token)
    BY <2>2, <2>3, <2>4, <2>5, SMT
  <2> QED
    BY <2>2, <2>3, <2>6
<1> QED
  BY PublisherKept, <1>1, PTL DEF Spec, CachedTokenHasLeeway

\* A worker's token becomes the cached one, a new one or none.
LEMMA TokenComesFrom ==
  ASSUME PublisherInv, NEW x \in Workers,
         Progress(x) \/ TokenFails(x) \/ ConsumerUnavailable(x) \/ DeliverFails(x)
  PROVE  \/ token' = token
         \/ \E t \in Token \union {NoToken} : t \notin refused /\ token' = [token EXCEPT ![x] = t]
         \/ token' = [token EXCEPT ![x] = NoToken]
         \/ token' = [token EXCEPT ![x] = token[x]]
<1>i. SharedInv
  BY Parts
<1>1. CASE TokenCached(x)
  <2>1. cache.token \in Token \union {NoToken}
    BY <1>i, SMT DEF SharedInv
  <2>2. cache.token \notin refused
    BY <1>1, <1>i DEF TokenCached, Fresh, SharedInv
  <2> QED
    BY <1>1, <2>1, <2>2 DEF TokenCached, HandOut
<1>2. ASSUME NEW life \in Lifetimes, TokenIssued(x, life)
      PROVE  \E t \in Token \union {NoToken} :
                t \notin refused /\ token' = [token EXCEPT ![x] = t]
  <2> DEFINE t == [at |-> now, life |-> life, epoch |-> epoch]
  <2>1. t \in Token /\ t \notin refused
    BY <1>i, IssuedIsNew
  <2>2. token' = [token EXCEPT ![x] = t]
    BY <1>2 DEF TokenIssued
  <2> HIDE DEF t
  <2> QED
    BY <2>1, <2>2
<1>3. CASE TokenReceived(x)
  BY <1>3 DEF TokenReceived, HandOut
<1>4. CASE \/ \E e \in Envelopes : Publish(x, e)
           \/ TokenRequest(x) \/ Deliver(x) \/ Answered(x) \/ Invalidate(x)
           \/ TokenFails(x) \/ ConsumerUnavailable(x) \/ DeliverFails(x)
  BY <1>4 DEF Publish, TokenRequest, Deliver, Answered, Invalidate, TokenFails,
              ConsumerUnavailable, DeliverFails, Return
<1> QED
  BY <1>1, <1>2, <1>3, <1>4 DEF Progress

\* A token that a worker was refused and dropped after a 401 is returned by no
\* later call of Token, whatever the workers between them were doing.
THEOREM RefusedStaysDropped == Spec => RefusedNotReturned
<1>1. ASSUME PublisherInv, [Next]_vars
      PROVE  [\A w \in Workers :
                 token'[w] # token[w] /\ token'[w] # NoToken => token'[w] \notin refused]_vars
  <2> SUFFICES ASSUME Next, NEW w \in Workers, token'[w] # token[w], token'[w] # NoToken
               PROVE  token'[w] \notin refused
    BY <1>1
  <2>i. token \in [Workers -> Token \union {NoToken}]
    BY <1>1, Parts DEF OwnTypes
  <2>1. PICK x \in Workers :
           Progress(x) \/ TokenFails(x) \/ ConsumerUnavailable(x) \/ DeliverFails(x)
    BY DEF Next, Tick, Restart
  <2>2. \A t \in Token \union {NoToken} : token' = [token EXCEPT ![x] = t] =>
           token'[x] = t /\ (w # x => token'[w] = token[w])
    BY <2>i, Updated
  <2>3. token[x] \in Token \union {NoToken}
    BY <2>i
  <2>4. w = x /\ \E t \in Token \union {NoToken} :
           t \notin refused /\ token' = [token EXCEPT ![x] = t]
    BY <1>1, <2>1, <2>2, <2>3, TokenComesFrom
  <2> QED
    BY <2>2, <2>4
<1> QED
  BY PublisherKept, <1>1, PTL DEF Spec, RefusedNotReturned
=============================================================================
