----------------------------- MODULE MCVerifier -----------------------------
(* Model-checking instances of Verifier. *)
EXTENDS Verifier, TLC

CONSTANTS v1, v2, v3, k1, k2, weak

\* k1 is replaced by k2, published beside a key this verifier does not use, and
\* then only such keys are left.
Rotation == <<{k1}, {k2, weak}, {weak}>>

Good(k) == [defect |-> "none", kid |-> k, signer |-> k, exp |-> 4, nbf |-> 0,
            issuer |-> TRUE, audience |-> TRUE, required |-> TRUE]

\* Among them one that expires early, one not yet valid, one that another key
\* signed and one of the wrong form.
RotatedTokens ==
  {[Good(k1) EXCEPT !.exp = 1], Good(k2), [Good(k2) EXCEPT !.nbf = 3],
   [Good(k1) EXCEPT !.signer = weak],
   [Good(k1) EXCEPT !.defect = "ErrAlgorithm"]}

CallSymmetry == Permutations(Calls)

=============================================================================
