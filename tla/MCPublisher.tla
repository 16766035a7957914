----------------------------- MODULE MCPublisher -----------------------------
(* The publisher, with two workers, for TLC. *)
EXTENDS Publisher, TLC

=============================================================================
