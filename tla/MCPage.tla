------------------------------- MODULE MCPage -------------------------------
(* Instances of Page for TLC. *)
EXTENDS Page, TLC

CONSTANTS here, there, oneshot, maps, nas

\* A module to update and one that was bought.
Packages == {
    [id |-> "dice", premium |-> FALSE, source |-> "manifest",
     recommend |-> "required", widens |-> FALSE],
    [id |-> "art", premium |-> TRUE, source |-> "upload",
     recommend |-> "none", widens |-> FALSE]}

\* The world that both have lacks its system in one of them.
Installed    == (here :> ({oneshot} \cup Packages)) @@ (there :> {oneshot, maps})
NotInstalled == (here :> {oneshot}) @@ (there :> {})
=============================================================================
