---------------------------- MODULE MCDispatcher ----------------------------
(* Model-checking instances of Dispatcher. *)
EXTENDS DispatcherInvariants, TLC

CONSTANTS e1, e2, w1, w2, p1, p2, l1, l2, l3, h1, h2

OneEvent     == 1 :> e1
RowEvents    == 1 :> e1 @@ 2 :> e2
TwoEvents    == RowEvents @@ 3 :> e1     \* row 3 replays row 1

OneLane      == 1 :> PriorityStandard
TwoLanes     == 1 :> PriorityStandard @@ 2 :> PriorityHigh
ThreeLanes   == TwoLanes @@ 3 :> PriorityStandard

OneProcess   == w1 :> p1 @@ w2 :> p1
TwoProcesses == w1 :> p1 @@ w2 :> p2

\* A lease is a fresh identifier: only equality of leases matters, and the
\* consumer's handlers are alike.
Symmetry == Permutations(Leases) \cup Permutations(Handlers)

=============================================================================
