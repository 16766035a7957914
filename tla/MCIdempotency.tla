---------------------------- MODULE MCIdempotency ----------------------------
(* Model-checking instance of Idempotency. *)
EXTENDS Idempotency, TLC

CONSTANTS a1, a2, a3, k1

\* Three attempts at one key, two of them at one request and the last one with
\* another.
OneKey  == a1 :> k1 @@ a2 :> k1 @@ a3 :> k1
Digests == a1 :> "d1" @@ a2 :> "d1" @@ a3 :> "d2"

=============================================================================
