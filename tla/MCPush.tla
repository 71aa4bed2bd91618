------------------------------- MODULE MCPush -------------------------------
(* Instances of Push for TLC. *)
EXTENDS Push, TLC

CONSTANTS d1, d2, c1, c2

\* Every selection of two paths.
AnyTree == [Path -> {d1, d2, None}] \ {NoFiles}

\* A source whose files never change: each run selects some of them.
OneTree == {[p \in Path |-> IF p \in S THEN (IF p = 1 THEN d1 ELSE d2) ELSE None]
               : S \in SUBSET Path \ {{}}}

\* The same, selected up to some path.
Growing == {[p \in Path |-> IF p <= n THEN (IF p = 1 THEN d1 ELSE d2) ELSE None]
               : n \in Path}

\* A source whose files are all selected by every run.
WholeTree == {[p \in Path |-> IF p = 1 THEN d1 ELSE d2]}

\* The phases in which nothing is placed that is not committed.
BeforePlacing == Phase \ {"place", "commit"}

\* The slots of the receiver are interchangeable.
Slots == Permutations(Call)
=============================================================================
