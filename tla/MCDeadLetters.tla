---------------------------- MODULE MCDeadLetters ----------------------------
(* Model-checking instances of DeadLetters. *)
EXTENDS DeadLetters, TLC

\* Events are only compared with each other.
Symmetry == Permutations(Events)

=============================================================================
