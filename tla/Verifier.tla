------------------------------ MODULE Verifier ------------------------------
(***************************************************************************)
(* Package verify: concurrent verifications over the cached key set of one *)
(* issuer that rotates its keys (JWKS.Key, JWKS.Refetch, JWKS.fetch and    *)
(* Verifier.Verify).                                                       *)
(*                                                                         *)
(* A token is what Verify can tell of it: the first defect of its form and *)
(* header, the key that signed it, the key identifier it carries, its time *)
(* bounds and which of the checks of its claims it meets.                  *)
(***************************************************************************)
EXTENDS Integers

CONSTANTS Calls,               \* verifications, one goroutine each
          Tokens,              \* token records
          KeySets,             \* the key sets the issuer publishes, in order
          Usable,              \* keys fetch accepts: kty, use, alg and size
          MinRefetchInterval, Timeout, MaxSkew,
          MaxTime              \* bound: instants

Errors == {"ErrMalformed", "ErrAlgorithm", "ErrTokenType", "ErrKeysUnavailable", "ErrUnknownKey",
           "ErrSignature", "ErrIssuer", "ErrAudience", "ErrExpired", "ErrNotYetValid",
           "ErrClaimRequirement"}

ASSUME VerifierConstants ==
  /\ MinRefetchInterval \in Nat \ {0} /\ Timeout \in Nat
  /\ MaxSkew \in Nat /\ MaxTime \in Nat \ {0}
  /\ 1 \in DOMAIN KeySets /\ DOMAIN KeySets \subseteq Nat \ {0}
  /\ \A t \in Tokens : /\ {t.exp, t.nbf} \subseteq Nat
                       /\ {t.issuer, t.audience, t.required} \subseteq BOOLEAN
                       /\ t.defect \in Errors \cup {"none"}

VARIABLES
  now,
  epoch,               \* index of the key set the issuer publishes
  since,               \* since when, for every key set of the issuer
  keys, lastFetched,   \* of JWKS; lastFetched is 0 for the zero time
  pc, token, result,
  begun,               \* when the verification, and then its fetch, began
  answer,              \* the keys a fetch was answered with
  \* history
  source,              \* the epoch of the cached keys, 0 for none
  served,              \* the epoch a fetch was answered from
  failed,              \* when a fetch last failed, 0 for never
  late                 \* whether keys were stored an interval or more after
                       \* their fetch began

issuer == <<epoch, since>>
cache  == <<keys, lastFetched, source, late>>
vars   == <<now, issuer, cache, pc, token, result, begun, answer, served, failed>>

AllKeys == UNION {KeySets[i] : i \in DOMAIN KeySets}

TypeOK ==
  /\ now \in 1..MaxTime
  /\ epoch \in DOMAIN KeySets
  /\ since \in [DOMAIN KeySets -> 0..MaxTime]
  /\ keys \subseteq AllKeys \cap Usable
  /\ lastFetched \in 0..MaxTime
  /\ pc \in [Calls -> {"idle", "key", "refetch", "fetch", "store", "again", "claims", "done"}]
  /\ token \in [Calls -> Tokens]
  /\ result \in [Calls -> Errors \cup {"none", "accepted"}]
  /\ begun \in [Calls -> 0..MaxTime]
  /\ answer \in [Calls -> SUBSET AllKeys]
  /\ source \in DOMAIN KeySets \cup {0}
  /\ served \in [Calls -> DOMAIN KeySets \cup {0}]
  /\ failed \in 0..MaxTime
  /\ late \in BOOLEAN

Init ==
  /\ now = 1
  /\ epoch = 1
  /\ since = [i \in DOMAIN KeySets |-> IF i = 1 THEN 1 ELSE 0]
  /\ keys = {} /\ lastFetched = 0 /\ source = 0 /\ late = FALSE
  /\ pc = [v \in Calls |-> "idle"]
  /\ token \in [Calls -> Tokens]
  /\ result = [v \in Calls |-> "none"]
  /\ begun = [v \in Calls |-> 0]
  /\ answer = [v \in Calls |-> {}]
  /\ served = [v \in Calls |-> 0]
  /\ failed = 0

To(v, step) == pc' = [pc EXCEPT ![v] = step] /\ UNCHANGED result

Return(v, r) == pc' = [pc EXCEPT ![v] = "done"] /\ result' = [result EXCEPT ![v] = r]

-----------------------------------------------------------------------------
(* Verify *)

\* Segments, header, algorithm, type and kid, in that order.
Verify(v) ==
  /\ pc[v] = "idle"
  /\ IF token[v].defect # "none" THEN Return(v, token[v].defect) ELSE To(v, "key")
  /\ begun' = [begun EXCEPT ![v] = now]
  /\ UNCHANGED <<now, issuer, cache, token, answer, served, failed>>

\* checkSignature with the key its first or second lookup found.
CheckSignature(v) ==
  IF token[v].signer = token[v].kid THEN To(v, "claims") ELSE Return(v, "ErrSignature")

\* JWKS.Key: a cached key, or one refetch and a second lookup.
Key(v) ==
  /\ pc[v] \in {"key", "again"}
  /\ \/ token[v].kid \in keys /\ CheckSignature(v)
     \/ token[v].kid \notin keys /\ pc[v] = "key" /\ To(v, "refetch")
     \/ token[v].kid \notin keys /\ pc[v] = "again" /\ Return(v, "ErrUnknownKey")
  /\ UNCHANGED <<now, issuer, cache, token, begun, answer, served, failed>>

\* Mutant: nbf is not looked at.
ClaimErrorEarly(t) ==
  IF t.issuer = FALSE THEN "ErrIssuer"
  ELSE IF t.audience = FALSE THEN "ErrAudience"
  ELSE IF t.exp = 0 THEN "ErrMalformed"
  ELSE IF now > t.exp + MaxSkew THEN "ErrExpired"
  ELSE IF t.required = FALSE THEN "ErrClaimRequirement"
  ELSE "accepted"

\* decodeClaims, checkRegistered and the consumer's requirement.  An instant
\* of 0 is an absent claim; iat is checked as nbf is.
ClaimError(t) ==
  IF t.issuer = FALSE THEN "ErrIssuer"
  ELSE IF t.audience = FALSE THEN "ErrAudience"
  ELSE IF t.exp = 0 THEN "ErrMalformed"
  ELSE IF now > t.exp + MaxSkew THEN "ErrExpired"
  ELSE IF t.nbf # 0 /\ t.nbf - MaxSkew > now THEN "ErrNotYetValid"
  ELSE IF t.required = FALSE THEN "ErrClaimRequirement"
  ELSE "accepted"

CheckClaims(v) ==
  /\ pc[v] = "claims"
  /\ Return(v, ClaimError(token[v]))
  /\ UNCHANGED <<now, issuer, cache, token, begun, answer, served, failed>>

-----------------------------------------------------------------------------
(* JWKS.Refetch *)

Limited == lastFetched # 0 /\ now - lastFetched < MinRefetchInterval

\* Mutant: a refused refetch also counts.
RefetchSliding(v) ==
  /\ pc[v] = "refetch"
  /\ To(v, IF Limited THEN "again" ELSE "fetch")
  /\ begun' = IF Limited THEN begun ELSE [begun EXCEPT ![v] = now]
  /\ lastFetched' = now
  /\ UNCHANGED <<now, issuer, keys, source, late, token, answer, served, failed>>

\* Mutant: the timestamp is not taken before the fetch.
RefetchUnstamped(v) ==
  /\ pc[v] = "refetch"
  /\ To(v, IF Limited THEN "again" ELSE "fetch")
  /\ begun' = IF Limited THEN begun ELSE [begun EXCEPT ![v] = now]
  /\ UNCHANGED <<now, issuer, cache, token, answer, served, failed>>

\* The timestamp is recorded before the fetch, under the lock.
Refetch(v) ==
  /\ pc[v] = "refetch"
  /\ \/ Limited /\ To(v, "again") /\ UNCHANGED <<lastFetched, begun>>
     \/ /\ ~Limited
        /\ lastFetched' = now
        /\ begun' = [begun EXCEPT ![v] = now]
        /\ To(v, "fetch")
  /\ UNCHANGED <<now, issuer, keys, source, late, token, answer, served, failed>>

\* The issuer answers with what it publishes at that moment.
Answer(v) ==
  /\ pc[v] = "fetch"
  /\ answer[v] = {}
  /\ answer' = [answer EXCEPT ![v] = KeySets[epoch]]
  /\ served' = [served EXCEPT ![v] = epoch]
  /\ UNCHANGED <<now, issuer, cache, pc, token, result, begun, failed>>

\* fetch skips the entries it does not trust.
Accepted(ks) == ks \cap Usable

\* fetch reads the answer.  One without a usable key is an error.
Fetch(v) ==
  /\ pc[v] = "fetch"
  /\ Accepted(answer[v]) # {}
  /\ To(v, "store")
  /\ UNCHANGED <<now, issuer, cache, token, begun, answer, served, failed>>

\* The answer of a fetch that is over is forgotten.
Consumed(v) ==
  /\ answer' = [answer EXCEPT ![v] = {}]
  /\ served' = [served EXCEPT ![v] = 0]

\* An unreachable issuer, an error status, a timeout or an unusable answer.
FetchFails(v) ==
  /\ pc[v] = "fetch"
  /\ Return(v, "ErrKeysUnavailable")
  /\ failed' = now
  /\ Consumed(v)
  /\ UNCHANGED <<now, issuer, cache, token, begun>>

\* Mutant: the fetched keys are merged into the cached ones.
StoreMerged(v) ==
  /\ pc[v] = "store"
  /\ keys' = keys \cup Accepted(answer[v])
  /\ source' = served[v]
  /\ late' = (late \/ now - begun[v] >= MinRefetchInterval)
  /\ To(v, "again")
  /\ Consumed(v)
  /\ UNCHANGED <<now, issuer, lastFetched, token, begun, failed>>

\* The key set is replaced wholesale, whenever the goroutine gets the lock.
Store(v) ==
  /\ pc[v] = "store"
  /\ keys' = Accepted(answer[v])
  /\ source' = served[v]
  /\ late' = (late \/ now - begun[v] >= MinRefetchInterval)
  /\ To(v, "again")
  /\ Consumed(v)
  /\ UNCHANGED <<now, issuer, lastFetched, token, begun, failed>>

-----------------------------------------------------------------------------
(* The issuer and the clock *)

Rotate ==
  /\ epoch + 1 \in DOMAIN KeySets
  /\ epoch' = epoch + 1
  /\ since' = [since EXCEPT ![epoch + 1] = now]
  /\ UNCHANGED <<now, cache, pc, token, result, begun, answer, served, failed>>

\* A fetch is over when its timeout elapses.  Nothing bounds the wait for the
\* lock under which its keys are stored.
Tick ==
  /\ now < MaxTime
  /\ \A v \in Calls : pc[v] = "fetch" => now + 1 - begun[v] <= Timeout
  /\ now' = now + 1
  /\ UNCHANGED <<issuer, cache, pc, token, result, begun, answer, served, failed>>

Next ==
  \/ \E v \in Calls :
       \/ Verify(v) \/ Key(v) \/ Refetch(v) \/ Answer(v) \/ Fetch(v) \/ FetchFails(v)
       \/ Store(v) \/ CheckClaims(v)
  \/ Rotate
  \/ Tick

Spec == Init /\ [][Next]_vars
-----------------------------------------------------------------------------
(* Properties *)

Fetching(v) == pc[v] \in {"fetch", "store"}

\* However many verifications meet an unknown key at once, the issuer is asked
\* once per interval.
OneFetchPerInterval ==
  /\ lastFetched <= now
  /\ \A v \in Calls : Fetching(v) => begun[v] <= lastFetched /\ lastFetched # 0
  /\ \A v, w \in Calls :
       v # w /\ Fetching(v) /\ Fetching(w) /\ begun[v] <= begun[w] =>
         begun[w] - begun[v] >= MinRefetchInterval

\* An answer is what the issuer published, and is stored with a usable key only.
Answered(v) ==
  /\ IF served[v] = 0 THEN answer[v] = {} ELSE Fetching(v) /\ answer[v] = KeySets[served[v]]
  /\ pc[v] = "store" => Accepted(answer[v]) # {}

\* The cache is one key set of the issuer as it was published, never a mixture
\* that keeps a retired key and never an empty answer in place of a working one.
CacheIsOneKeySet ==
  /\ source # 0 => keys = KeySets[source] \cap Usable /\ keys # {}
  /\ \A v \in Calls : Answered(v)

\* What is fetched is not older than what is cached, unless it will be stored
\* late or something was.
FetchedIsNewer ==
  /\ source <= epoch
  /\ \A v \in Calls :
       /\ served[v] <= epoch
       /\ ~late /\ served[v] # 0 =>
            source <= served[v] \/ now - begun[v] >= MinRefetchInterval

\* A token whose claims are checked was signed by a key of the issuer.
SignatureChecked ==
  \A v \in Calls : pc[v] = "claims" =>
    token[v].signer = token[v].kid /\ token[v].kid \in AllKeys \cap Usable

\* What the cache keeps, under verifications that race for a fetch.
CacheInv ==
  TypeOK /\ OneFetchPerInterval /\ CacheIsOneKeySet /\ FetchedIsNewer /\ SignatureChecked

\* A newer key set is replaced by an older one, and a retired key returns, only
\* when some fetch was stored an interval or more after it began, whatever the
\* timeout: the stamp keeps fetches that are stored in time in order.
OlderOnlyWhenLate == [][source' >= source \/ late']_vars

\* For how long the issuer has published a key.
Published(k, at) ==
  \E i \in 1..epoch : since[i] <= at /\ \A j \in i..epoch : k \in KeySets[j] \cap Usable

\* A rotation is seen: as long as every fetch is answered and stored within an
\* interval, a token whose key was published an interval before its verification
\* began is rejected as unknown only while the last fetch, which adopts the key,
\* is under way.
RotationIsSeen ==
  [][\A v \in Calls :
       /\ result'[v] = "ErrUnknownKey" /\ result[v] # "ErrUnknownKey"
       /\ failed = 0 /\ ~late
       /\ Published(token[v].kid, begun[v] - MinRefetchInterval)
       => \E w \in Calls : pc[w] \in {"fetch", "store"} /\ begun[w] = lastFetched]_vars

\* "A rotation does not reject valid tokens": a key published for an interval is
\* adopted by the verification that meets it.  Not so for one that meets it while
\* another one is fetching it.
RotationRejectsNoValidToken ==
  \A v \in Calls :
    failed = 0 /\ Published(token[v].kid, begun[v] - MinRefetchInterval) =>
      result[v] # "ErrUnknownKey"

\* An accepted token was signed by a key of the issuer and is within its bounds
\* when it is accepted, although its verification waited for a fetch.
AcceptedIsValid ==
  [][\A v \in Calls : result'[v] = "accepted" /\ result[v] # "accepted" =>
       LET t == token[v] IN
       /\ t.signer = t.kid /\ t.kid \in AllKeys \cap Usable
       /\ t.issuer /\ t.audience /\ t.required
       /\ t.exp # 0 /\ t.nbf - MaxSkew <= now /\ now <= t.exp + MaxSkew]_vars

=============================================================================
