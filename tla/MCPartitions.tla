---------------------------- MODULE MCPartitions ----------------------------
(* Model-checking instances of Partitions. *)
EXTENDS Partitions, TLC

CONSTANTS e1, e2

\* Events are interchangeable.
EventSymmetry == Permutations(Events)

=============================================================================
