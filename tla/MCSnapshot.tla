----------------------------- MODULE MCSnapshot -----------------------------
(* Instances of Snapshot for TLC. *)
EXTENDS Snapshot, TLC

CONSTANTS x, y, w1, w2

\* Two contents of one size.
OneSize == [c \in Content |-> 1]

\* The workers of the pool are interchangeable.
Pool == Permutations(Worker)
=============================================================================
