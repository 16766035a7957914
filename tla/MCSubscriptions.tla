--------------------------- MODULE MCSubscriptions ---------------------------
(* Model-checking instances of Subscriptions. *)
EXTENDS Subscriptions, TLC

\* Transactions, consumers and types are only compared with each other.
Symmetry == Permutations(Txs) \cup Permutations(Consumers) \cup Permutations(Types)

=============================================================================
