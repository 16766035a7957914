--------------------------- MODULE VerifierProofs ---------------------------
(***************************************************************************)
(* Proofs about Verifier, for any number of verifications, any tokens and  *)
(* any rotations of the issuer's keys: CacheInv is inductive, an accepted  *)
(* token is valid, and a cache whose fetches are stored within the refetch *)
(* interval never goes back to an older key set and sees every rotation.   *)
(***************************************************************************)
EXTENDS Verifier, TLAPS

\* Most leaves are first-order and go to Zenon; those that need arithmetic or
\* the update of a function cite SMT.
USE VerifierConstants, ZenonT(60)

CallStep(v) ==
  \/ Verify(v) \/ Key(v) \/ Refetch(v) \/ Answer(v) \/ Fetch(v) \/ FetchFails(v)
  \/ Store(v) \/ CheckClaims(v)

Steps == {"idle", "key", "refetch", "fetch", "store", "again", "claims", "done"}

\* Updating a function at a point.
LEMMA Updated ==
  ASSUME NEW D, NEW R, NEW f \in [D -> R], NEW d \in D, NEW x \in R
  PROVE  /\ [f EXCEPT ![d] = x] \in [D -> R] /\ [f EXCEPT ![d] = x][d] = x
         /\ \A e \in D : e # d => [f EXCEPT ![d] = x][e] = f[e]
OBVIOUS

\* What a verification returns is an error of the package or acceptance.
LEMMA ResultType ==
  ASSUME TypeOK, NEW v \in Calls
  PROVE  /\ ClaimError(token[v]) \in Errors \cup {"none", "accepted"}
         /\ token[v].defect \in Errors \cup {"none", "accepted"}
         /\ {"ErrSignature", "ErrUnknownKey", "ErrKeysUnavailable"} \subseteq Errors
<1>1. token[v] \in Tokens
  BY DEF TypeOK
<1>2. ClaimError(token[v]) \in Errors \cup {"none", "accepted"}
  BY DEF ClaimError, Errors
<1> QED
  BY <1>1, <1>2 DEF Errors

\* Every step of a verification sets its place, and its result when it returns.
LEMMA PlaceType ==
  ASSUME TypeOK, NEW v \in Calls, CallStep(v)
  PROVE  /\ pc' \in [Calls -> Steps] /\ result' \in [Calls -> Errors \cup {"none", "accepted"}]
         /\ \A w \in Calls : w # v => pc'[w] = pc[w] /\ result'[w] = result[w]
<1> DEFINE R == Errors \cup {"none", "accepted"}
<1>t. pc \in [Calls -> Steps] /\ result \in [Calls -> R]
  BY DEF TypeOK, Steps
<1>1. \/ UNCHANGED <<pc, result>>
      \/ \E s \in Steps : To(v, s)
      \/ \E r \in R : Return(v, r)
  BY ResultType DEF CallStep, Verify, Key, CheckSignature, Refetch, Answer, Fetch, FetchFails,
                    Store, CheckClaims, Steps
<1>2. "done" \in Steps
  BY DEF Steps
<1>3. ASSUME NEW s \in Steps, To(v, s)
      PROVE  /\ pc' \in [Calls -> Steps] /\ result' \in [Calls -> R]
             /\ \A w \in Calls : w # v => pc'[w] = pc[w] /\ result'[w] = result[w]
  BY <1>t, <1>3, Updated DEF To
<1>4. ASSUME NEW r \in R, Return(v, r)
      PROVE  /\ pc' \in [Calls -> Steps] /\ result' \in [Calls -> R]
             /\ \A w \in Calls : w # v => pc'[w] = pc[w] /\ result'[w] = result[w]
  <2>1. pc' = [pc EXCEPT ![v] = "done"] /\ result' = [result EXCEPT ![v] = r]
    BY <1>4 DEF Return
  <2>2. pc' \in [Calls -> Steps] /\ \A w \in Calls : w # v => pc'[w] = pc[w]
    BY <1>t, <1>2, <2>1, Updated
  <2>3. result' \in [Calls -> R] /\ \A w \in Calls : w # v => result'[w] = result[w]
    BY <1>t, <2>1, Updated
  <2> QED
    BY <2>2, <2>3
<1>5. ASSUME UNCHANGED <<pc, result>>
      PROVE  /\ pc' \in [Calls -> Steps] /\ result' \in [Calls -> R]
             /\ \A w \in Calls : w # v => pc'[w] = pc[w] /\ result'[w] = result[w]
  BY <1>t, <1>5
<1> QED
  BY <1>1, <1>3, <1>4, <1>5

\* Every step keeps the types.
LEMMA TypeStep == TypeOK /\ [Next]_vars => TypeOK'
<1> SUFFICES ASSUME TypeOK, [Next]_vars PROVE TypeOK'
  OBVIOUS
<1> USE DEF issuer, cache
<1>0. CASE UNCHANGED vars
  BY <1>0 DEF vars, TypeOK
<1>1. CASE Rotate
  <2>1. epoch + 1 \in DOMAIN KeySets /\ since' = [since EXCEPT ![epoch + 1] = now]
    BY <1>1 DEF Rotate
  <2>2. now \in 0..MaxTime
    BY SMT DEF TypeOK
  <2>3. since' \in [DOMAIN KeySets -> 0..MaxTime]
    BY <2>1, <2>2, Updated DEF TypeOK
  <2> QED
    BY <1>1, <2>3 DEF Rotate, TypeOK
<1>2. CASE Tick
  <2>1. now' \in 1..MaxTime
    BY <1>2, SMT DEF Tick, TypeOK
  <2> QED
    BY <1>2, <2>1 DEF Tick, TypeOK
<1>3. ASSUME NEW v \in Calls, CallStep(v) PROVE TypeOK'
  <2>1. /\ pc' \in [Calls -> {"idle", "key", "refetch", "fetch", "store", "again",
                         "claims", "done"}]
        /\ result' \in [Calls -> Errors \cup {"none", "accepted"}]
    BY <1>3, PlaceType DEF Steps
  <2>2. UNCHANGED <<now, issuer, token>>
    BY <1>3 DEF CallStep, Verify, Key, Refetch, Answer, Fetch, FetchFails, Store, CheckClaims
  <2>3. now \in 0..MaxTime
    BY SMT DEF TypeOK
  <2>4. begun' \in [Calls -> 0..MaxTime] /\ lastFetched' \in 0..MaxTime /\ failed' \in 0..MaxTime
    <3>1. /\ begun' = begun \/ begun' = [begun EXCEPT ![v] = now]
          /\ lastFetched' = lastFetched \/ lastFetched' = now
          /\ failed' = failed \/ failed' = now
      BY <1>3 DEF CallStep, Verify, Key, Refetch, Answer, Fetch, FetchFails, Store, CheckClaims
    <3> QED
      BY <2>3, <3>1, SMT DEF TypeOK
  <2>5. answer' \in [Calls -> SUBSET AllKeys] /\ served' \in [Calls -> DOMAIN KeySets \cup {0}]
    <3>1. \/ UNCHANGED <<answer, served>>
          \/ Consumed(v)
          \/ /\ answer' = [answer EXCEPT ![v] = KeySets[epoch]]
             /\ served' = [served EXCEPT ![v] = epoch]
      BY <1>3 DEF CallStep, Verify, Key, Refetch, Answer, Fetch, FetchFails, Store, CheckClaims
    <3>2. KeySets[epoch] \in SUBSET AllKeys /\ epoch \in DOMAIN KeySets
      BY DEF TypeOK, AllKeys
    <3> QED
      BY <3>1, <3>2, SMT DEF Consumed, TypeOK
  <2>6. keys' \subseteq AllKeys \cap Usable /\ source' \in DOMAIN KeySets \cup {0}
    BY <1>3 DEF CallStep, Verify, Key, Refetch, Answer, Fetch, FetchFails, Store, CheckClaims,
                Accepted, TypeOK
  <2>7. late' \in BOOLEAN
    BY <1>3 DEF CallStep, Verify, Key, Refetch, Answer, Fetch, FetchFails, Store, CheckClaims,
                TypeOK
  <2> QED
    BY <2>1, <2>2, <2>4, <2>5, <2>6, <2>7 DEF TypeOK
<1> QED
  BY <1>0, <1>1, <1>2, <1>3 DEF Next, CallStep

-----------------------------------------------------------------------------
\* Only Refetch begins a fetch, and nothing else moves the time of one under way.
LEMMA FetchBegins ==
  ASSUME TypeOK, NEW v \in Calls, CallStep(v)
  PROVE  \/ /\ ~Limited /\ pc[v] = "refetch" /\ pc'[v] = "fetch" /\ lastFetched' = now
            /\ begun'[v] = now /\ \A w \in Calls : w # v => begun'[w] = begun[w]
         \/ /\ lastFetched' = lastFetched
            /\ \A w \in Calls : Fetching(w)' => Fetching(w) /\ begun'[w] = begun[w]
<1>p. \A w \in Calls : w # v => pc'[w] = pc[w]
  BY PlaceType
<1>1. CASE Refetch(v)
  <2>1. CASE Limited
    <3>1. pc'[v] = "again" /\ UNCHANGED <<lastFetched, begun>>
      BY <1>1, <2>1 DEF Refetch, To, TypeOK
    <3> QED
      BY <1>p, <3>1 DEF Fetching
  <2>2. CASE ~Limited
    BY <1>1, <2>2, Updated, SMT DEF Refetch, To, TypeOK
  <2> QED
    BY <2>1, <2>2
<1>2. CASE Verify(v)
  <2>1. lastFetched' = lastFetched /\ pc'[v] \in {"done", "key"}
    BY <1>2, SMT DEF Verify, To, Return, cache, TypeOK
  <2>2. \A w \in Calls : w # v => begun'[w] = begun[w]
    BY <1>2 DEF Verify, TypeOK
  <2> QED
    BY <1>p, <2>1, <2>2 DEF Fetching
<1>3. CASE Fetch(v)
  BY <1>p, <1>3 DEF Fetch, Fetching, cache
<1>4. CASE Key(v) \/ Answer(v) \/ FetchFails(v) \/ Store(v) \/ CheckClaims(v)
  <2>1. UNCHANGED <<lastFetched, begun>>
    BY <1>4 DEF Key, Answer, FetchFails, Store, CheckClaims, cache
  <2>2. pc'[v] \in {pc[v], "done", "refetch", "again", "claims"}
    BY <1>4, SMT DEF Key, CheckSignature, Answer, FetchFails, Store, CheckClaims, To, Return, TypeOK
  <2> QED
    BY <1>p, <2>1, <2>2 DEF Fetching
<1> QED
  BY <1>1, <1>2, <1>3, <1>4 DEF CallStep

\* The stamp is taken before a fetch, so the next one begins an interval later.
LEMMA IntervalStep == CacheInv /\ [Next]_vars => OneFetchPerInterval'
<1> SUFFICES ASSUME CacheInv, [Next]_vars PROVE OneFetchPerInterval'
  OBVIOUS
<1>t. TypeOK /\ OneFetchPerInterval
  BY DEF CacheInv
<1>n. now \in Nat /\ lastFetched \in Nat /\ \A v \in Calls : begun[v] \in Nat
  BY <1>t, SMT DEF TypeOK
<1>0. CASE UNCHANGED <<now, lastFetched, pc, begun>>
  BY <1>t, <1>0 DEF OneFetchPerInterval, Fetching
<1>1. CASE Tick
  <2>1. now' = now + 1 /\ UNCHANGED <<lastFetched, pc, begun>>
    BY <1>1 DEF Tick, cache
  <2> QED
    BY <1>t, <1>n, <2>1, SMT DEF OneFetchPerInterval, Fetching
<1>2. ASSUME NEW v \in Calls, CallStep(v) PROVE OneFetchPerInterval'
  <2>0. now' = now
    BY <1>2 DEF CallStep, Verify, Key, Refetch, Answer, Fetch, FetchFails, Store, CheckClaims
  <2>1. CASE /\ lastFetched' = lastFetched
             /\ \A w \in Calls : Fetching(w)' => Fetching(w) /\ begun'[w] = begun[w]
    BY <1>t, <2>0, <2>1 DEF OneFetchPerInterval
  <2>2. CASE /\ ~Limited /\ pc[v] = "refetch" /\ pc'[v] = "fetch" /\ lastFetched' = now
             /\ begun'[v] = now /\ \A w \in Calls : w # v => begun'[w] = begun[w]
    <3>1. \A w \in Calls : w # v => (Fetching(w)' <=> Fetching(w))
      BY <1>t, <1>2, PlaceType DEF Fetching
    <3>2. \A w \in Calls : w # v /\ Fetching(w) =>
            now - begun[w] >= MinRefetchInterval /\ begun[w] < now
      BY <1>t, <1>n, <2>2, SMT DEF OneFetchPerInterval, Limited
    <3>3. /\ lastFetched' <= now'
          /\ \A w \in Calls : Fetching(w)' => begun'[w] <= lastFetched' /\ lastFetched' # 0
      BY <1>t, <1>n, <2>0, <2>2, <3>1, <3>2, SMT DEF OneFetchPerInterval, TypeOK
    <3>4. ASSUME NEW x \in Calls, NEW y \in Calls, x # y, Fetching(x)', Fetching(y)',
                 begun'[x] <= begun'[y]
          PROVE  begun'[y] - begun'[x] >= MinRefetchInterval
      <4>1. CASE y = v
        BY <2>2, <3>1, <3>2, <3>4, <4>1, SMT
      <4>2. CASE x = v
        BY <1>n, <2>2, <3>1, <3>2, <3>4, <4>2, SMT
      <4>3. CASE x # v /\ y # v
        BY <1>t, <2>2, <3>1, <3>4, <4>3 DEF OneFetchPerInterval
      <4> QED
        BY <4>1, <4>2, <4>3
    <3> QED
      BY <3>3, <3>4 DEF OneFetchPerInterval
  <2> QED
    BY <1>t, <1>2, <2>1, <2>2, FetchBegins
<1> QED
  BY <1>0, <1>1, <1>2 DEF Next, CallStep, vars, cache, Rotate

\* Of two fetches under way, one has been under way for an interval.
LEMMA OneIsLate ==
  ASSUME CacheInv, NEW v \in Calls, NEW w \in Calls, v # w, Fetching(v), Fetching(w)
  PROVE  now - begun[v] >= MinRefetchInterval \/ now - begun[w] >= MinRefetchInterval
<1>1. /\ begun[v] <= lastFetched /\ begun[w] <= lastFetched /\ lastFetched <= now
      /\ begun[v] <= begun[w] => begun[w] - begun[v] >= MinRefetchInterval
      /\ begun[w] <= begun[v] => begun[v] - begun[w] >= MinRefetchInterval
  BY DEF CacheInv, OneFetchPerInterval
<1>2. now \in Nat /\ lastFetched \in Nat /\ begun[v] \in Nat /\ begun[w] \in Nat
  BY SMT DEF CacheInv, TypeOK
<1> QED
  BY <1>1, <1>2, SMT

-----------------------------------------------------------------------------
\* The steps that read or write an answer or the cache, and the others.
LEMMA AnswerCases ==
  ASSUME TypeOK, NEW v \in Calls, CallStep(v)
  PROVE  \/ /\ pc[v] = "fetch" /\ UNCHANGED <<pc, keys, source, late, epoch>>
            /\ answer'[v] = KeySets[epoch] /\ served'[v] = epoch
            /\ \A w \in Calls : w # v => answer'[w] = answer[w] /\ served'[w] = served[w]
         \/ /\ Fetching(v) /\ answer'[v] = {} /\ served'[v] = 0 /\ pc'[v] \in {"again", "done"}
            /\ \A w \in Calls : w # v => answer'[w] = answer[w] /\ served'[w] = served[w]
            /\ \/ UNCHANGED <<keys, source, late>>
               \/ /\ pc[v] = "store" /\ keys' = Accepted(answer[v]) /\ source' = served[v]
                  /\ late' = (late \/ now - begun[v] >= MinRefetchInterval)
            /\ UNCHANGED epoch
         \/ /\ UNCHANGED <<answer, served, keys, source, late, epoch>>
            /\ \/ ~Fetching(v) /\ pc'[v] # "store"
               \/ pc[v] = "fetch" /\ pc'[v] = "store" /\ Accepted(answer[v]) # {}
<1> USE DEF cache, issuer, Fetching
<1>1. CASE Answer(v)
  BY <1>1, SMT DEF Answer, TypeOK
<1>2. CASE FetchFails(v) \/ Store(v)
  <2>1. answer'[v] = {} /\ served'[v] = 0 /\ pc'[v] \in {"again", "done"}
    BY <1>2, SMT DEF FetchFails, Store, Consumed, To, Return, TypeOK
  <2>2. \A w \in Calls : w # v => answer'[w] = answer[w] /\ served'[w] = served[w]
    BY <1>2, SMT DEF FetchFails, Store, Consumed, TypeOK
  <2> QED
    BY <1>2, <2>1, <2>2 DEF FetchFails, Store
<1>3. CASE Fetch(v)
  BY <1>3, SMT DEF Fetch, To, TypeOK
<1>4. CASE Verify(v) \/ Key(v) \/ Refetch(v) \/ CheckClaims(v)
  <2>1. UNCHANGED <<answer, served, keys, source, late, epoch>> /\ ~Fetching(v)
    BY <1>4 DEF Verify, Key, Refetch, CheckClaims
  <2>2. pc'[v] \in {"key", "done", "claims", "refetch", "again", "fetch"}
    BY <1>4, SMT DEF Verify, Key, CheckSignature, Refetch, CheckClaims, To, Return, TypeOK
  <2> QED
    BY <2>1, <2>2
<1> QED
  BY <1>1, <1>2, <1>3, <1>4 DEF CallStep

\* An answer is stored whole, and only when it has a usable key.
LEMMA KeySetStep == CacheInv /\ [Next]_vars => CacheIsOneKeySet'
<1> SUFFICES ASSUME CacheInv, [Next]_vars PROVE CacheIsOneKeySet'
  OBVIOUS
<1>t. TypeOK /\ CacheIsOneKeySet
  BY DEF CacheInv
<1>0. CASE UNCHANGED <<keys, source, served, answer, pc>>
  BY <1>t, <1>0 DEF CacheIsOneKeySet, Answered, Fetching
<1>1. ASSUME NEW v \in Calls, CallStep(v) PROVE CacheIsOneKeySet'
  <2>0. \A w \in Calls : w # v => pc'[w] = pc[w]
    BY <1>t, <1>1, PlaceType
  <2>1. CASE /\ pc[v] = "fetch" /\ UNCHANGED <<pc, keys, source, epoch>>
             /\ answer'[v] = KeySets[epoch] /\ served'[v] = epoch
             /\ \A w \in Calls : w # v => answer'[w] = answer[w] /\ served'[w] = served[w]
    <3>1. epoch # 0
      BY <1>t DEF TypeOK
    <3> QED
      BY <1>t, <2>1, <3>1 DEF CacheIsOneKeySet, Fetching, Answered
  <2>2. CASE /\ Fetching(v) /\ answer'[v] = {} /\ served'[v] = 0 /\ pc'[v] \in {"again", "done"}
             /\ \A w \in Calls : w # v => answer'[w] = answer[w] /\ served'[w] = served[w]
             /\ \/ UNCHANGED <<keys, source>>
                \/ pc[v] = "store" /\ keys' = Accepted(answer[v]) /\ source' = served[v]
    <3>1. source' # 0 => keys' = KeySets[source'] \cap Usable /\ keys' # {}
      <4>1. Answered(v)
        BY <1>t DEF CacheIsOneKeySet
      <4>2. CASE UNCHANGED <<keys, source>>
        BY <1>t, <4>2 DEF CacheIsOneKeySet
      <4>3. CASE pc[v] = "store" /\ keys' = Accepted(answer[v]) /\ source' = served[v]
        BY <4>1, <4>3 DEF Answered, Accepted
      <4> QED
        BY <2>2, <4>2, <4>3
    <3>2. Answered(v)'
      BY <2>2 DEF Answered
    <3>3. ASSUME NEW w \in Calls, w # v PROVE Answered(w)'
      <4>1. pc'[w] = pc[w] /\ answer'[w] = answer[w] /\ served'[w] = served[w]
        BY <2>0, <2>2, <3>3
      <4>2. Answered(w)
        BY <1>t DEF CacheIsOneKeySet
      <4> QED
        BY <4>1, <4>2 DEF Answered, Fetching
    <3> QED
      BY <3>1, <3>2, <3>3 DEF CacheIsOneKeySet
  <2>3. CASE /\ UNCHANGED <<answer, served, keys, source>>
             /\ \/ ~Fetching(v) /\ pc'[v] # "store"
                \/ pc[v] = "fetch" /\ pc'[v] = "store" /\ Accepted(answer[v]) # {}
    <3>1. \A w \in Calls : Answered(w)'
      BY <1>t, <2>0, <2>3 DEF CacheIsOneKeySet, Answered, Fetching
    <3> QED
      BY <1>t, <2>3, <3>1 DEF CacheIsOneKeySet
  <2> QED
    BY <1>t, <1>1, <2>1, <2>2, <2>3, AnswerCases
<1> QED
  BY <1>0, <1>1 DEF Next, CallStep, vars, cache, Rotate, Tick

\* Until something is stored late, an answer that is not late itself is not
\* older than the cache.
LEMMA NewerStep == CacheInv /\ [Next]_vars => FetchedIsNewer' /\ (source' >= source \/ late')
<1> SUFFICES ASSUME CacheInv, [Next]_vars PROVE FetchedIsNewer' /\ (source' >= source \/ late')
  OBVIOUS
<1> DEFINE InTime(v) == source <= served[v] \/ now - begun[v] >= MinRefetchInterval
           Begun == \A w \in Calls : served'[w] # 0 => begun'[w] = begun[w] /\ Fetching(w)
<1>t. TypeOK /\ OneFetchPerInterval /\ CacheIsOneKeySet /\ FetchedIsNewer
  BY DEF CacheInv
<1>n. /\ epoch \in Nat /\ source \in Nat /\ now \in Nat
      /\ \A v \in Calls : served[v] \in Nat /\ begun[v] \in Nat
  BY <1>t, SMT DEF TypeOK
<1>s. source <= epoch /\ \A v \in Calls : served[v] <= epoch
  BY <1>t DEF FetchedIsNewer
<1>i. ~late => \A v \in Calls : served[v] # 0 => InTime(v)
  BY <1>t DEF FetchedIsNewer
<1>0. CASE UNCHANGED <<source, served, epoch, now, begun, late>>
  BY <1>t, <1>n, <1>0, SMT DEF FetchedIsNewer
<1>1. CASE Rotate
  BY <1>t, <1>n, <1>1, SMT DEF Rotate, cache, FetchedIsNewer
<1>2. CASE Tick
  <2>1. now' = now + 1 /\ UNCHANGED <<source, served, epoch, begun, late>>
    BY <1>2 DEF Tick, cache, issuer
  <2> QED
    BY <1>t, <1>n, <2>1, SMT DEF FetchedIsNewer
<1>3. ASSUME NEW v \in Calls, CallStep(v) PROVE FetchedIsNewer' /\ (source' >= source \/ late')
  <2>0. now' = now
    BY <1>3 DEF CallStep, Verify, Key, Refetch, Answer, Fetch, FetchFails, Store, CheckClaims
  <2>f. \A w \in Calls : served[w] # 0 => Fetching(w)
    BY <1>t DEF CacheIsOneKeySet, Answered
  <2>b. \A w \in Calls : Fetching(w) /\ Fetching(w)' => begun'[w] = begun[w]
    BY <1>t, <1>3, FetchBegins DEF Fetching
  <2>g. \A w \in Calls : served'[w] # 0 => Fetching(w)'
    <3>1. CacheIsOneKeySet'
      BY KeySetStep
    <3> QED
      BY <3>1 DEF CacheIsOneKeySet, Answered
  <2>1. CASE /\ pc[v] = "fetch" /\ UNCHANGED <<pc, keys, source, late, epoch>>
             /\ served'[v] = epoch
             /\ \A w \in Calls : w # v => served'[w] = served[w]
    <3>1. \A w \in Calls : served'[w] # 0 /\ w # v => begun'[w] = begun[w]
      BY <2>1, <2>f, <2>g, <2>b
    <3> QED
      BY <1>n, <1>s, <1>i, <2>0, <2>1, <3>1, SMT DEF FetchedIsNewer
  <2>2. CASE /\ Fetching(v) /\ served'[v] = 0
             /\ \A w \in Calls : w # v => served'[w] = served[w]
             /\ UNCHANGED <<source, late, epoch>>
    <3>1. \A w \in Calls : served'[w] # 0 => begun'[w] = begun[w] /\ served'[w] = served[w]
      BY <2>2, <2>f, <2>g, <2>b
    <3> QED
      BY <1>n, <1>s, <1>i, <2>0, <2>2, <3>1, SMT DEF FetchedIsNewer
  <2>3. CASE /\ served'[v] = 0
             /\ \A w \in Calls : w # v => served'[w] = served[w]
             /\ pc[v] = "store" /\ source' = served[v]
             /\ late' = (late \/ now - begun[v] >= MinRefetchInterval)
             /\ UNCHANGED epoch
    <3>1. served[v] # 0 /\ Fetching(v)
      BY <1>t, <2>3 DEF CacheIsOneKeySet, Answered, Accepted, Fetching
    <3>2. \A w \in Calls : served'[w] # 0 =>
            w # v /\ begun'[w] = begun[w] /\ served'[w] = served[w] /\ Fetching(w)
      BY <2>3, <2>f, <2>g, <2>b
    <3>3. source' <= epoch' /\ \A w \in Calls : served'[w] <= epoch'
      BY <1>n, <1>s, <2>3, SMT
    <3>4. ASSUME ~late' PROVE ~late /\ ~(now - begun[v] >= MinRefetchInterval)
      BY <2>3, <3>4
    <3>5. source' >= source \/ late'
      <4>1. ASSUME ~late' PROVE source <= served[v]
        BY <1>i, <3>1, <3>4, <4>1
      <4> QED
        BY <1>n, <2>3, <4>1, SMT
    <3>6. ASSUME ~late', NEW w \in Calls, served'[w] # 0
          PROVE  now' - begun'[w] >= MinRefetchInterval
      <4>1. w # v /\ Fetching(w) /\ begun'[w] = begun[w]
        BY <3>2, <3>6
      <4>2. now - begun[w] >= MinRefetchInterval
        BY <3>1, <3>4, <3>6, <4>1, OneIsLate
      <4> QED
        BY <2>0, <4>1, <4>2
    <3> QED
      BY <3>3, <3>5, <3>6 DEF FetchedIsNewer
  <2>4. CASE UNCHANGED <<served, source, late, epoch>>
    <3>1. \A w \in Calls : served'[w] # 0 => begun'[w] = begun[w]
      BY <2>4, <2>f, <2>g, <2>b
    <3> QED
      BY <1>n, <1>s, <1>i, <2>0, <2>4, <3>1, SMT DEF FetchedIsNewer
  <2> QED
    BY <1>t, <1>3, <2>1, <2>2, <2>3, <2>4, AnswerCases
<1> QED
  BY <1>0, <1>1, <1>2, <1>3 DEF Next, CallStep, vars, cache, issuer

-----------------------------------------------------------------------------
\* A verification reaches the claims only with a key of the cache that signed.
LEMMA SignatureStep == CacheInv /\ [Next]_vars => SignatureChecked'
<1> SUFFICES ASSUME CacheInv, [Next]_vars PROVE SignatureChecked'
  OBVIOUS
<1>t. TypeOK /\ SignatureChecked
  BY DEF CacheInv
<1>0. CASE UNCHANGED <<pc, token>>
  BY <1>t, <1>0 DEF SignatureChecked
<1>1. ASSUME NEW v \in Calls, CallStep(v) PROVE SignatureChecked'
  <2>0. \A w \in Calls : w # v => pc'[w] = pc[w]
    BY <1>t, <1>1, PlaceType
  <2>1. token' = token
    BY <1>1 DEF CallStep, Verify, Key, Refetch, Answer, Fetch, FetchFails, Store, CheckClaims
  <2>2. CASE Key(v)
    <3>1. pc'[v] = "claims" => token[v].kid \in keys /\ token[v].signer = token[v].kid
      BY <1>t, <2>2, SMT DEF Key, CheckSignature, To, Return, TypeOK
    <3>2. keys \subseteq AllKeys \cap Usable
      BY <1>t DEF TypeOK
    <3> QED
      BY <1>t, <2>0, <2>1, <3>1, <3>2 DEF SignatureChecked
  <2>3. CASE ~Key(v)
    <3>1. pc'[v] \in {"key", "done", "refetch", "fetch", "store", "again"}
      BY <1>t, <1>1, <2>3, SMT DEF CallStep, Verify, Refetch, Answer, Fetch, FetchFails, Store,
                              CheckClaims, To, Return, TypeOK
    <3> QED
      BY <1>t, <2>0, <2>1, <3>1 DEF SignatureChecked
  <2> QED
    BY <2>2, <2>3
<1> QED
  BY <1>0, <1>1 DEF Next, CallStep, vars, Rotate, Tick

\* CacheInv holds of the empty cache and is kept by verifications, fetches,
\* rotations and the clock.
THEOREM CacheKept == Spec => []CacheInv
<1>1. Init => CacheInv
  <2> SUFFICES ASSUME Init PROVE CacheInv
    OBVIOUS
  <2>l. late \in BOOLEAN
    BY DEF Init
  <2>1. TypeOK
    BY <2>l, SMT DEF Init, TypeOK
  <2>2. OneFetchPerInterval /\ FetchedIsNewer
    BY SMT DEF Init, OneFetchPerInterval, FetchedIsNewer, Fetching
  <2>3. CacheIsOneKeySet /\ SignatureChecked
    BY DEF Init, CacheIsOneKeySet, Answered, SignatureChecked
  <2> QED
    BY <2>1, <2>2, <2>3 DEF CacheInv
<1>2. CacheInv /\ [Next]_vars => CacheInv'
  BY TypeStep, IntervalStep, KeySetStep, NewerStep, SignatureStep DEF CacheInv
<1> QED
  BY <1>1, <1>2, PTL DEF Spec

\* Whatever the timeout, and for any number of verifications, an older key set
\* replaces a newer one only when some fetch was stored an interval or more after
\* its stamp was taken.
THEOREM NoOlderKeySet == Spec => OlderOnlyWhenLate
<1>1. CacheInv /\ [Next]_vars => [source' >= source \/ late']_vars
  BY NewerStep
<1> QED
  BY CacheKept, <1>1, PTL DEF Spec, OlderOnlyWhenLate

\* Whatever waits between the signature and the claims, a token is accepted only
\* within its bounds, and only when a key of the issuer signed it.
THEOREM OnlyValidAccepted == Spec => AcceptedIsValid
<1> DEFINE Valid == \A v \in Calls : result'[v] = "accepted" /\ result[v] # "accepted" =>
       LET t == token[v] IN
       /\ t.signer = t.kid /\ t.kid \in AllKeys \cap Usable
       /\ t.issuer /\ t.audience /\ t.required
       /\ t.exp # 0 /\ t.nbf - MaxSkew <= now /\ now <= t.exp + MaxSkew
<1>1. CacheInv /\ [Next]_vars => [Valid]_vars
  <2> SUFFICES ASSUME CacheInv, Next, NEW v \in Calls,
                      result'[v] = "accepted", result[v] # "accepted"
               PROVE  LET t == token[v] IN
                      /\ t.signer = t.kid /\ t.kid \in AllKeys \cap Usable
                      /\ t.issuer /\ t.audience /\ t.required
                      /\ t.exp # 0 /\ t.nbf - MaxSkew <= now /\ now <= t.exp + MaxSkew
    OBVIOUS
  <2>t. TypeOK /\ SignatureChecked
    BY DEF CacheInv
  <2>1. CallStep(v)
    <3>1. PICK w \in Calls : CallStep(w)
      BY DEF Next, CallStep, Rotate, Tick
    <3> QED
      BY <2>t, <3>1, PlaceType
  <2>2. CheckClaims(v)
    <3>1. ~(Refetch(v) \/ Answer(v) \/ Fetch(v) \/ Store(v))
      BY DEF Refetch, Answer, Fetch, Store, To
    <3>2. ~FetchFails(v)
      BY <2>t, SMT DEF FetchFails, Return, TypeOK
    <3>3. ~Key(v)
      BY <2>t, SMT DEF Key, CheckSignature, To, Return, TypeOK
    <3>4. ~Verify(v)
      <4>1. token[v].defect # "accepted"
        BY <2>t DEF TypeOK, Errors
      <4> QED
        BY <2>t, <4>1, SMT DEF Verify, To, Return, TypeOK
    <3> QED
      BY <2>1, <3>1, <3>2, <3>3, <3>4 DEF CallStep
  <2>3. ClaimError(token[v]) = "accepted" /\ pc[v] = "claims"
    BY <2>t, <2>2 DEF CheckClaims, Return, TypeOK
  <2>4. /\ token[v].issuer # FALSE /\ token[v].audience # FALSE /\ token[v].required # FALSE
        /\ token[v].exp # 0 /\ ~(now > token[v].exp + MaxSkew)
        /\ ~(token[v].nbf # 0 /\ token[v].nbf - MaxSkew > now)
    BY <2>3 DEF ClaimError
  <2>5. /\ token[v].exp \in Nat /\ token[v].nbf \in Nat
        /\ token[v].issuer \in BOOLEAN /\ token[v].audience \in BOOLEAN
        /\ token[v].required \in BOOLEAN
    BY <2>t DEF TypeOK
  <2>6. now \in Nat
    BY <2>t, SMT DEF TypeOK
  <2>7. token[v].nbf - MaxSkew <= now /\ now <= token[v].exp + MaxSkew
    BY <2>4, <2>5, <2>6, SMT
  <2>8. token[v].issuer /\ token[v].audience /\ token[v].required
    BY <2>4, <2>5
  <2> QED
    BY <2>t, <2>3, <2>4, <2>7, <2>8 DEF SignatureChecked
<1> QED
  BY CacheKept, <1>1, PTL DEF Spec, AcceptedIsValid

-----------------------------------------------------------------------------
\* When a verification or its fetch began: a fetch under way is the last one
\* stamped or was stamped an interval before it, and a second lookup follows a
\* stamp of less than an interval before the verification began.
Stamps ==
  /\ 1..epoch \subseteq DOMAIN KeySets
  /\ \A v \in Calls :
       /\ begun[v] <= now
       /\ pc[v] = "idle" => begun[v] = 0
       /\ Fetching(v) => begun[v] = lastFetched \/ lastFetched - begun[v] >= MinRefetchInterval
       /\ pc[v] = "again" => lastFetched > begun[v] - MinRefetchInterval

\* Key set n is not older than any that was published before the last stamp.
NotBehind(n) == \A i \in 1..epoch : since[i] < lastFetched => i <= n

\* The last stamp's fetch answers with what was published before the stamp, and
\* the cache holds it once that fetch is over, unless it failed or something was
\* stored late.
Sight ==
  /\ \A v \in Calls : served[v] # 0 /\ begun[v] = lastFetched => NotBehind(served[v])
  /\ failed = 0 /\ ~late /\ (\A w \in Calls : Fetching(w) => begun[w] # lastFetched)
       => NotBehind(source)

\* A call's step leaves the others where they are, and sets begun for itself only.
LEMMA StampCases ==
  ASSUME TypeOK, NEW v \in Calls, CallStep(v)
  PROVE  /\ UNCHANGED <<now, issuer>>
         /\ \A w \in Calls : w # v => pc'[w] = pc[w] /\ begun'[w] = begun[w]
         /\ \/ /\ ~Limited /\ pc'[v] = "fetch" /\ lastFetched' = now /\ begun'[v] = now
            \/ /\ lastFetched' = lastFetched /\ begun'[v] = now
               /\ pc'[v] \in {"key", "done"}
            \/ /\ UNCHANGED <<lastFetched, begun>>
               /\ \/ pc'[v] \in {"claims", "done", "refetch"}
                  \/ Limited /\ pc'[v] = "again"
                  \/ Fetching(v) /\ pc'[v] \in {"fetch", "store", "again"}
<1>p. \A w \in Calls : w # v => pc'[w] = pc[w]
  BY PlaceType
<1>0. UNCHANGED <<now, issuer>>
  BY DEF CallStep, Verify, Key, Refetch, Answer, Fetch, FetchFails, Store, CheckClaims
<1> USE DEF cache, Fetching
<1>1. CASE Refetch(v)
  BY <1>0, <1>p, <1>1, SMT DEF Refetch, To, TypeOK
<1>2. CASE Verify(v)
  BY <1>0, <1>p, <1>2, SMT DEF Verify, To, Return, TypeOK
<1>3. CASE Key(v) \/ CheckClaims(v)
  <2>1. UNCHANGED <<lastFetched, begun>>
    BY <1>3 DEF Key, CheckClaims
  <2>2. pc'[v] \in {"claims", "done", "refetch"}
    BY <1>3, SMT DEF Key, CheckSignature, CheckClaims, To, Return, TypeOK
  <2> QED
    BY <1>0, <1>p, <2>1, <2>2
<1>4. CASE Answer(v) \/ Fetch(v) \/ FetchFails(v) \/ Store(v)
  <2>1. UNCHANGED <<lastFetched, begun>> /\ Fetching(v)
    BY <1>4 DEF Answer, Fetch, FetchFails, Store
  <2>2. pc'[v] \in {"fetch", "store", "again", "done"}
    BY <1>4, SMT DEF Answer, Fetch, FetchFails, Store, To, Return, TypeOK
  <2> QED
    BY <1>0, <1>p, <2>1, <2>2
<1> QED
  BY <1>1, <1>2, <1>3, <1>4 DEF CallStep

\* A fetch under way when the next one begins was stamped an interval before.
LEMMA EarlierStamp ==
  ASSUME CacheInv, ~Limited, NEW w \in Calls, Fetching(w)
  PROVE  now - begun[w] >= MinRefetchInterval
<1>1. now \in Nat /\ lastFetched \in Nat /\ begun[w] \in Nat
  BY SMT DEF CacheInv, TypeOK
<1>2. begun[w] <= lastFetched /\ lastFetched # 0
  BY DEF CacheInv, OneFetchPerInterval
<1> QED
  BY <1>1, <1>2, SMT DEF Limited

\* The stamps are kept.
LEMMA StampStep == CacheInv /\ Stamps /\ [Next]_vars => Stamps'
<1> SUFFICES ASSUME CacheInv, Stamps, [Next]_vars PROVE Stamps'
  OBVIOUS
<1>t. TypeOK /\ lastFetched <= now
  BY DEF CacheInv, OneFetchPerInterval
<1>n. /\ now \in Nat /\ lastFetched \in Nat /\ epoch \in Nat
      /\ \A v \in Calls : begun[v] \in Nat
  BY <1>t, SMT DEF TypeOK
<1>0. CASE UNCHANGED vars
  BY <1>0 DEF vars, issuer, cache, Stamps, Fetching
<1>1. CASE Rotate
  <2>1. 1..epoch' \subseteq DOMAIN KeySets
    BY <1>n, <1>1, SMT DEF Rotate, Stamps
  <2> QED
    BY <1>1, <2>1 DEF Rotate, Stamps, cache, Fetching
<1>2. CASE Tick
  <2>1. now' = now + 1 /\ UNCHANGED <<epoch, lastFetched, pc, begun>>
    BY <1>2 DEF Tick, cache, issuer
  <2> QED
    BY <1>n, <2>1, SMT DEF Stamps, Fetching
<1>3. ASSUME NEW v \in Calls, CallStep(v) PROVE Stamps'
  <2>1. now' = now /\ epoch' = epoch
    BY <1>t, <1>3, StampCases DEF issuer
  <2>2. \A w \in Calls : w # v => pc'[w] = pc[w] /\ begun'[w] = begun[w]
    BY <1>t, <1>3, StampCases
  <2>3. CASE ~Limited /\ pc'[v] = "fetch" /\ lastFetched' = now /\ begun'[v] = now
    <3>1. \A w \in Calls : Fetching(w) => now - begun[w] >= MinRefetchInterval
      BY <2>3, EarlierStamp
    <3> QED
      BY <1>t, <1>n, <2>1, <2>2, <2>3, <3>1, SMT DEF Stamps, Fetching
  <2>4. CASE /\ lastFetched' = lastFetched /\ begun'[v] = now /\ pc'[v] \in {"key", "done"}
    BY <1>n, <2>1, <2>2, <2>4, SMT DEF Stamps, Fetching
  <2>5. CASE /\ UNCHANGED <<lastFetched, begun>>
             /\ \/ pc'[v] \in {"claims", "done", "refetch"}
                \/ Limited /\ pc'[v] = "again"
                \/ Fetching(v) /\ pc'[v] \in {"fetch", "store", "again"}
    BY <1>n, <2>1, <2>2, <2>5, SMT DEF Stamps, Fetching, Limited
  <2> QED
    BY <1>t, <1>3, <2>3, <2>4, <2>5, StampCases
<1> QED
  BY <1>0, <1>1, <1>2, <1>3 DEF Next, CallStep

\* The steps of a call, by what they do to the fetch it may be in.
LEMMA SightCases ==
  ASSUME TypeOK, NEW v \in Calls, CallStep(v)
  PROVE  \/ /\ ~Limited /\ pc[v] = "refetch" /\ pc'[v] = "fetch" /\ served' = served
            /\ lastFetched' = now /\ begun'[v] = now
         \/ /\ pc[v] = "fetch" /\ UNCHANGED <<pc, lastFetched, source, failed, late>>
            /\ served'[v] = epoch /\ \A w \in Calls : w # v => served'[w] = served[w]
         \/ /\ UNCHANGED lastFetched /\ failed' # 0
            /\ \A w \in Calls : served'[w] \in {0, served[w]}
         \/ /\ pc[v] = "store" /\ source' = served[v] /\ UNCHANGED <<lastFetched, failed>>
            /\ late' = (late \/ now - begun[v] >= MinRefetchInterval)
            /\ \A w \in Calls : served'[w] \in {0, served[w]}
         \/ /\ UNCHANGED <<lastFetched, source, served, failed, late>>
            /\ Fetching(v) <=> Fetching(v)'
<1> USE DEF cache, Fetching
<1>1. CASE Refetch(v)
  BY <1>1, SMT DEF Refetch, To, TypeOK
<1>2. CASE Answer(v)
  BY <1>2, SMT DEF Answer, TypeOK
<1>3. CASE FetchFails(v)
  <2>1. now # 0
    BY SMT DEF TypeOK
  <2>2. \A w \in Calls : served'[w] \in {0, served[w]}
    BY <1>3, SMT DEF FetchFails, Consumed, TypeOK
  <2> QED
    BY <1>3, <2>1, <2>2 DEF FetchFails
<1>4. CASE Store(v)
  <2>1. \A w \in Calls : served'[w] \in {0, served[w]}
    BY <1>4, SMT DEF Store, Consumed, TypeOK
  <2> QED
    BY <1>4, <2>1 DEF Store
<1>5. CASE Verify(v) \/ Key(v) \/ CheckClaims(v) \/ Fetch(v)
  <2>1. UNCHANGED <<lastFetched, source, served, failed, late>>
    BY <1>5 DEF Verify, Key, CheckClaims, Fetch
  <2>2. \/ pc[v] \in {"idle", "key", "again", "claims"}
           /\ pc'[v] \in {"key", "claims", "done", "refetch"}
        \/ pc[v] = "fetch" /\ pc'[v] = "store"
    BY <1>5, SMT DEF Verify, Key, CheckSignature, CheckClaims, Fetch, To, Return, TypeOK
  <2> QED
    BY <2>1, <2>2
<1> QED
  BY <1>1, <1>2, <1>3, <1>4, <1>5 DEF CallStep

\* What was published before a stamp reaches the answer, and from it the cache.
LEMMA SightStep == CacheInv /\ Stamps /\ Sight /\ [Next]_vars => Sight'
<1> SUFFICES ASSUME CacheInv, Stamps, Sight, [Next]_vars PROVE Sight'
  OBVIOUS
<1>t. TypeOK /\ CacheIsOneKeySet /\ lastFetched <= now
  BY DEF CacheInv, OneFetchPerInterval
<1>n. /\ now \in Nat /\ lastFetched \in Nat /\ epoch \in Nat /\ source \in Nat
      /\ \A v \in Calls : served[v] \in Nat /\ begun[v] \in Nat
  BY <1>t, SMT DEF TypeOK
<1>f. \A w \in Calls : served[w] # 0 => Fetching(w)
  BY <1>t DEF CacheIsOneKeySet, Answered
<1>0. CASE UNCHANGED <<epoch, since, lastFetched, pc, begun, served, source, failed, late>>
  BY <1>0 DEF Sight, NotBehind, Fetching
<1>1. CASE Rotate
  <2>1. /\ epoch' = epoch + 1 /\ epoch + 1 \in DOMAIN KeySets
        /\ since' = [since EXCEPT ![epoch + 1] = now]
        /\ UNCHANGED <<lastFetched, pc, begun, served, source, failed, late>>
    BY <1>1 DEF Rotate, cache
  <2>2. since'[epoch + 1] = now
    BY <1>t, <2>1, SMT DEF TypeOK
  <2>3. \A i \in 1..epoch : since'[i] = since[i]
    BY <1>t, <1>n, <2>1, SMT DEF TypeOK, Stamps
  <2>4. ASSUME NEW n \in Nat, NotBehind(n) PROVE NotBehind(n)'
    BY <1>t, <1>n, <2>1, <2>2, <2>3, <2>4, SMT DEF NotBehind
  <2>5. \A w \in Calls : served'[w] # 0 /\ begun'[w] = lastFetched' => NotBehind(served[w])'
    BY <1>n, <2>1, <2>4 DEF Sight
  <2> QED
    BY <1>n, <2>1, <2>4, <2>5 DEF Sight, NotBehind, Fetching
<1>2. ASSUME NEW v \in Calls, CallStep(v) PROVE Sight'
  <2>0. /\ UNCHANGED <<epoch, since>>
        /\ \A w \in Calls : w # v => pc'[w] = pc[w] /\ begun'[w] = begun[w]
    BY <1>t, <1>2, StampCases DEF issuer
  <2>g. \A w \in Calls : served'[w] # 0 => Fetching(w)'
    <3>1. CacheIsOneKeySet'
      BY KeySetStep
    <3> QED
      BY <3>1 DEF CacheIsOneKeySet, Answered
  <2>b. \A w \in Calls : Fetching(w) /\ Fetching(w)' => begun'[w] = begun[w]
    BY <1>t, <1>2, FetchBegins DEF Fetching
  <2>h. ASSUME UNCHANGED lastFetched, \A w \in Calls : served'[w] \in {0, served[w]}
        PROVE  \A w \in Calls :
                 served'[w] # 0 /\ begun'[w] = lastFetched' => NotBehind(served[w])'
    <3>1. \A w \in Calls : served'[w] # 0 => served'[w] = served[w] /\ begun'[w] = begun[w]
      BY <1>f, <2>g, <2>b, <2>h
    <3> QED
      BY <2>0, <2>h, <3>1 DEF Sight, NotBehind
  <2>1. CASE /\ ~Limited /\ pc[v] = "refetch" /\ pc'[v] = "fetch" /\ served' = served
             /\ lastFetched' = now /\ begun'[v] = now
    <3>1. served'[v] = 0
      BY <1>f, <2>1 DEF Fetching
    <3>2. \A w \in Calls : w # v /\ served'[w] # 0 => now - begun[w] >= MinRefetchInterval
      BY <1>f, <2>1, EarlierStamp
    <3>3. \A w \in Calls : w # v /\ served'[w] # 0 => begun'[w] # lastFetched'
      BY <1>n, <2>0, <2>1, <3>2, SMT
    <3> QED
      BY <2>1, <3>1, <3>3 DEF Sight, Fetching
  <2>2. CASE /\ pc[v] = "fetch" /\ UNCHANGED <<pc, lastFetched, source, failed, late>>
             /\ served'[v] = epoch /\ \A w \in Calls : w # v => served'[w] = served[w]
    <3>1. NotBehind(served[v])'
      BY <1>n, <2>0, <2>2, SMT DEF NotBehind
    <3>2. \A w \in Calls :
            w # v /\ served'[w] # 0 /\ begun'[w] = lastFetched' => NotBehind(served[w])'
      BY <2>0, <2>2 DEF Sight, NotBehind
    <3>3. \A w \in Calls : Fetching(w) => begun'[w] = begun[w] /\ Fetching(w)'
      BY <2>2, <2>b DEF Fetching
    <3> QED
      BY <2>0, <2>2, <3>1, <3>2, <3>3 DEF Sight, NotBehind
  <2>3. CASE /\ UNCHANGED lastFetched /\ failed' # 0
             /\ \A w \in Calls : served'[w] \in {0, served[w]}
    BY <2>h, <2>3 DEF Sight
  <2>4. CASE /\ pc[v] = "store" /\ source' = served[v] /\ UNCHANGED <<lastFetched, failed>>
             /\ late' = (late \/ now - begun[v] >= MinRefetchInterval)
             /\ \A w \in Calls : served'[w] \in {0, served[w]}
    <3>1. served[v] # 0 /\ Fetching(v)
      BY <1>t, <2>4 DEF CacheIsOneKeySet, Answered, Accepted, Fetching
    <3>2. begun[v] = lastFetched \/ now - begun[v] >= MinRefetchInterval
      <4>1. begun[v] = lastFetched \/ lastFetched - begun[v] >= MinRefetchInterval
        BY <3>1 DEF Stamps
      <4> QED
        BY <1>t, <1>n, <4>1, SMT
    <3>3. late' \/ NotBehind(source)'
      BY <2>0, <2>4, <3>1, <3>2 DEF Sight, NotBehind
    <3> QED
      BY <2>h, <2>4, <3>3 DEF Sight
  <2>5. CASE /\ UNCHANGED <<lastFetched, source, served, failed, late>>
             /\ Fetching(v) <=> Fetching(v)'
    <3>1. \A w \in Calls : Fetching(w) => Fetching(w)' /\ begun'[w] = begun[w]
      BY <2>0, <2>5, <2>b DEF Fetching
    <3> QED
      BY <2>0, <2>5, <2>h, <3>1 DEF Sight, NotBehind
  <2> QED
    BY <1>t, <1>2, <2>1, <2>2, <2>3, <2>4, <2>5, SightCases
<1> QED
  BY <1>0, <1>1, <1>2 DEF Next, CallStep, vars, cache, issuer, Tick

\* A rotation is seen while no fetch fails or is stored late: a call rejects a key
\* published an interval before it began only while the fetch of the last stamp is
\* under way.  Refetch stamps before it fetches, so what an earlier stamp refuses
\* to fetch again is already in the cache.
THEOREM RotationSeen == Spec => RotationIsSeen
<1> DEFINE Seen == \A v \in Calls :
       /\ result'[v] = "ErrUnknownKey" /\ result[v] # "ErrUnknownKey"
       /\ failed = 0 /\ ~late
       /\ Published(token[v].kid, begun[v] - MinRefetchInterval)
       => \E w \in Calls : pc[w] \in {"fetch", "store"} /\ begun[w] = lastFetched
<1>1. Init => Stamps /\ Sight
  <2> SUFFICES ASSUME Init PROVE Stamps /\ Sight
    OBVIOUS
  <2>1. Stamps
    BY SMT DEF Init, Stamps, Fetching
  <2>2. NotBehind(source)
    BY SMT DEF Init, NotBehind
  <2> QED
    BY <2>1, <2>2 DEF Init, Sight
<1>2. CacheInv /\ Stamps /\ Sight /\ [Next]_vars => Stamps' /\ Sight'
  BY StampStep, SightStep
<1>3. CacheInv /\ Stamps /\ Sight /\ [Next]_vars => [Seen]_vars
  <2> SUFFICES ASSUME CacheInv, Stamps, Sight, Next, NEW v \in Calls,
                      result'[v] = "ErrUnknownKey", result[v] # "ErrUnknownKey", failed = 0, ~late,
                      Published(token[v].kid, begun[v] - MinRefetchInterval),
                      \A w \in Calls : Fetching(w) => begun[w] # lastFetched
               PROVE  FALSE
    BY DEF Fetching
  <2>t. TypeOK /\ CacheIsOneKeySet /\ FetchedIsNewer
    BY DEF CacheInv
  <2>n. /\ lastFetched \in Nat /\ begun[v] \in Nat /\ source \in Nat /\ epoch \in Nat
        /\ \A i \in 1..epoch : since[i] \in Nat
    BY <2>t, SMT DEF TypeOK, Stamps
  <2>p. PICK i \in 1..epoch : /\ since[i] <= begun[v] - MinRefetchInterval
                              /\ \A j \in i..epoch : token[v].kid \in KeySets[j] \cap Usable
    BY DEF Published
  <2>1. CallStep(v)
    <3>1. PICK w \in Calls : CallStep(w)
      BY DEF Next, CallStep, Rotate, Tick
    <3> QED
      BY <2>t, <3>1, PlaceType
  <2>2. pc[v] = "again" /\ token[v].kid \notin keys
    <3>1. ~(Refetch(v) \/ Answer(v) \/ Fetch(v) \/ Store(v))
      BY DEF Refetch, Answer, Fetch, Store, To
    <3>2. ~FetchFails(v)
      BY <2>t, SMT DEF FetchFails, Return, TypeOK
    <3>3. ~CheckClaims(v)
      <4>1. ClaimError(token[v]) # "ErrUnknownKey"
        BY DEF ClaimError
      <4> QED
        BY <2>t, <4>1, SMT DEF CheckClaims, Return, TypeOK
    <3>4. ~Verify(v)
      BY <2>n, <2>p, SMT DEF Verify, Stamps
    <3>5. Key(v)
      BY <2>1, <3>1, <3>2, <3>3, <3>4 DEF CallStep
    <3> QED
      BY <2>t, <3>5, SMT DEF Key, CheckSignature, To, Return, TypeOK
  <2>3. since[i] < lastFetched
    BY <2>n, <2>p, <2>2, SMT DEF Stamps
  <2>4. i <= source /\ source <= epoch
    BY <2>t, <2>3 DEF Sight, NotBehind, FetchedIsNewer
  <2>5. source # 0 /\ source \in i..epoch
    BY <2>n, <2>4, SMT
  <2> QED
    BY <2>t, <2>p, <2>2, <2>5 DEF CacheIsOneKeySet
<1> QED
  BY CacheKept, <1>1, <1>2, <1>3, PTL DEF Spec, RotationIsSeen

=============================================================================
