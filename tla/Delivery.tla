------------------------------ MODULE Delivery ------------------------------
(***************************************************************************)
(* What one run after another of apply promises whoever looks at the       *)
(* destination tree, and nothing of how: while a run asks and uploads the  *)
(* tree stands still; then each selected path is emptied at most and takes *)
(* its content in one piece, in any order; the run is done only with every *)
(* selected path in place; and a run that fails disturbs no path it did    *)
(* not select.                                                             *)
(***************************************************************************)
CONSTANTS
    Path, Digest, Foreign, None,
    Goals   \* what a run may be asked for: functions from Path to a digest or None

VARIABLES
    tree,   \* what the destination holds at each path
    goal,   \* what the run is to leave at each path it selected
    state

dvars == <<tree, goal, state>>

TypeOK ==
    /\ tree \in [Path -> Digest \cup {Foreign, None}]
    /\ goal \in [Path -> Digest \cup {None}]
    /\ state \in {"ready", "asking", "placing", "done", "failed"}

Wanted(p)  == goal[p] # None
Resting    == state \in {"ready", "done", "failed"}

Begin(g) ==
    /\ Resting
    /\ goal' = g
    /\ state' = "asking"
    /\ UNCHANGED tree

DryRun == state = "asking" /\ state' = "ready" /\ UNCHANGED <<tree, goal>>

Place == state = "asking" /\ state' = "placing" /\ UNCHANGED <<tree, goal>>

\* A receiver may still be at work on the last call of a sender that gave up.
Writing == state \in {"placing", "failed"}

Empty(p) ==
    /\ Writing
    /\ Wanted(p)
    /\ tree' = [tree EXCEPT ![p] = None]
    /\ UNCHANGED <<goal, state>>

Deliver(p) ==
    /\ Writing
    /\ Wanted(p)
    /\ tree' = [tree EXCEPT ![p] = goal[p]]
    /\ UNCHANGED <<goal, state>>

Finish ==
    /\ state = "placing"
    /\ \A p \in Path : Wanted(p) => tree[p] = goal[p]
    /\ state' = "done"
    /\ UNCHANGED <<tree, goal>>

Fail == ~Resting /\ state' = "failed" /\ UNCHANGED <<tree, goal>>

\* Somebody changes the destination between runs.
Change(p) ==
    /\ Resting
    /\ tree' \in {[tree EXCEPT ![p] = x] : x \in {Foreign, None}}
    /\ UNCHANGED <<goal, state>>

Init ==
    /\ tree = [p \in Path |-> None]
    /\ goal = [p \in Path |-> None]
    /\ state = "ready"

Next ==
    \/ \E g \in Goals : Begin(g)
    \/ DryRun \/ Place \/ Finish \/ Fail
    \/ \E p \in Path : Empty(p) \/ Deliver(p) \/ Change(p)

Spec == Init /\ [][Next]_dvars
=============================================================================
