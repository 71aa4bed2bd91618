---------------------------- MODULE PanelSession ----------------------------
(***************************************************************************)
(* The panel on the sending machine: session.Session, the one reading of   *)
(* an installation it keeps, and the api.Local handlers over it, as served *)
(* by servePanel.  net/http handles each request on a goroutine of its own.*)
(* Who asks, and what is done with an answer, is for the module that       *)
(* extends this one.                                                       *)
(*                                                                         *)
(* Of a reading no more is kept than whose it is, and whether the files it *)
(* describes have changed since the disk was walked.                       *)
(***************************************************************************)
EXTENDS Integers

CONSTANTS
    Root,       \* installations that can be opened on this machine
    Startup,    \* the root the panel was started with, None if without one
    Request,    \* slots for the requests in flight
    Changing,   \* bound: installations whose files change meanwhile
    None

ASSUME PanelSessionAssumption ==
    /\ Startup \in Root \cup {None}
    /\ Changing \subseteq Root
    /\ None \notin Root \cup Request

VARIABLES
    root,     \* Session.root
    last,     \* Session.last
    scanLock, \* Session.scan: the request that holds it
    runLock,  \* Local.mu: the request that holds it
    req       \* the requests in flight, with their answers

Reading == [root : Root, old : BOOLEAN]

\* What a verification answers: the worlds it compared, or null for a list
\* when there was none to compare.
Verdict == {"worlds", "null"}

Op == {"none", "open", "inventory", "scan", "state", "plan", "run", "verify"}

\* What a request that is not refused is answered with.
Answers(op) == IF op \in {"open", "run"} THEN {None}
               ELSE IF op = "verify" THEN Verdict ELSE Root

\* The handler's next step, a run that waits for its context, the events of a
\* run that hold its lock a little longer, and how a request ended.
Pc == {"none", "sent", "root", "lock", "read", "store", "copy", "blocked",
       "copied", "broken", "answered", "refused"}

\* root: the one asked for, or the one the handler works on; answer: the
\* reading being made, then whose reading is sent, or a verdict; from: what
\* the caller remembers of its call.
Call(op, chosen, from) ==
    [op |-> op, pc |-> "sent", root |-> chosen, answer |-> None, from |-> from]
Blank == [op |-> "none", pc |-> "none", root |-> None, answer |-> None, from |-> None]

SessionTypeOK ==
    /\ root \in Root \cup {None}
    /\ last \in Reading \cup {None}
    /\ scanLock \in Request \cup {None}
    /\ runLock \in Request \cup {None}
    /\ \A r \in Request :
          /\ req[r].op \in Op /\ req[r].pc \in Pc
          /\ req[r].root \in Root \cup {None}
          /\ req[r].answer \in IF req[r].pc = "store" THEN Reading
                              ELSE IF req[r].pc # "answered" THEN {None}
                              ELSE Answers(req[r].op)

At(r, op, pc) == req[r].op = op /\ req[r].pc = pc
Goto(r, pc)   == req' = [req EXCEPT ![r].pc = pc]
Answer(r, answer) ==
    req' = [req EXCEPT ![r] = [@ EXCEPT !.pc = "answered", !.root = None, !.answer = answer]]
Refuse(r) ==
    req' = [req EXCEPT ![r] = [@ EXCEPT !.pc = "refused", !.root = None, !.answer = None]]

-----------------------------------------------------------------------------
(* POST /api/open: Session.Open, under Session.mu as a whole.              *)

HandleOpen(r) ==
    /\ At(r, "open", "sent")
    /\ \/ /\ root' = req[r].root
          /\ last' = IF root # req[r].root THEN None ELSE last
          /\ Answer(r, None)
       \/ Refuse(r) /\ UNCHANGED <<root, last>>
    /\ UNCHANGED <<scanLock, runLock>>

-----------------------------------------------------------------------------
(* GET /api/inventory and POST /api/plan answer from the reading in        *)
(* memory; GET /api/state reads the disk when there is none.               *)

HandleSnapshotNone(r) == \* mutant: there being no reading is not looked at
    /\ At(r, "inventory", "sent") \/ At(r, "plan", "sent")
    /\ Answer(r, IF last = None THEN None ELSE last.root)
    /\ UNCHANGED <<root, last, scanLock, runLock>>

HandleSnapshot(r) ==
    /\ At(r, "inventory", "sent") \/ At(r, "plan", "sent")
    /\ IF last = None THEN Refuse(r) ELSE Answer(r, last.root)
    /\ UNCHANGED <<root, last, scanLock, runLock>>

HandleState(r) ==
    /\ At(r, "state", "sent")
    /\ IF last = None THEN Goto(r, "root") ELSE Answer(r, last.root)
    /\ UNCHANGED <<root, last, scanLock, runLock>>

-----------------------------------------------------------------------------
(* Session.Read, behind POST /api/scan and GET /api/state.                 *)

ReadRoot(r) ==
    /\ At(r, "scan", "sent") \/ req[r].pc = "root"
    /\ IF root = None
       THEN Refuse(r)
       ELSE req' = [req EXCEPT ![r] = [@ EXCEPT !.pc = "lock", !.root = root]]
    /\ UNCHANGED <<root, last, scanLock, runLock>>

TryScanLockLate(r) ==    \* mutant: a second reading is let in
    /\ req[r].pc = "lock"
    /\ scanLock' = r
    /\ Goto(r, "read")
    /\ UNCHANGED <<root, last, runLock>>

TryScanLock(r) ==
    /\ req[r].pc = "lock"
    /\ IF scanLock = None
       THEN scanLock' = r /\ Goto(r, "read")
       ELSE Refuse(r) /\ UNCHANGED scanLock
    /\ UNCHANGED <<root, last, runLock>>

\* The walk of the disk; it may fail.
ReadDisk(r) ==
    /\ req[r].pc = "read"
    /\ \/ /\ LET reading == [root |-> req[r].root, old |-> FALSE]
             IN  req' = [req EXCEPT ![r] = [@ EXCEPT !.pc = "store", !.answer = reading]]
          /\ UNCHANGED scanLock
       \/ Refuse(r) /\ scanLock' = None
    /\ UNCHANGED <<root, last, runLock>>

StoreReadingAlways(r) == \* mutant: the root is not looked at again
    /\ req[r].pc = "store"
    /\ last' = req[r].answer
    /\ scanLock' = None
    /\ Answer(r, req[r].answer.root)
    /\ UNCHANGED <<root, runLock>>

\* The deferred unlocks run in reverse, mu before scan; a reading that is
\* refused in between could have been refused just before.
StoreReading(r) ==
    /\ req[r].pc = "store"
    /\ last' = IF root = req[r].root THEN req[r].answer ELSE last
    /\ scanLock' = None
    /\ Answer(r, req[r].answer.root)
    /\ UNCHANGED <<root, runLock>>

-----------------------------------------------------------------------------
(* POST /api/run and POST /api/verify.                                     *)

HandleRunSecond(r) ==    \* mutant: a run is let in beside another
    /\ At(r, "run", "sent")
    /\ runLock' = r
    /\ Goto(r, "copy")
    /\ UNCHANGED <<root, last, scanLock>>

HandleRun(r) ==
    /\ At(r, "run", "sent")
    /\ IF runLock = None
       THEN runLock' = r /\ Goto(r, "copy")
       ELSE Refuse(r) /\ UNCHANGED runLock
    /\ UNCHANGED <<root, last, scanLock>>

\* panelRun analyses the root the panel was started with; without one it
\* fails.  The last event is written before the lock is released.
Copy(r) ==
    /\ req[r].pc = "copy"
    /\ \/ Startup # None /\ req' = [req EXCEPT ![r] = [@ EXCEPT !.pc = "copied", !.root = Startup]]
       \/ Goto(r, "broken")
    /\ UNCHANGED <<root, last, scanLock, runLock>>

\* uploadAll has a digest to hand over, and every worker has met an error and
\* is gone: only the context of the request ends that.
Block(r) ==
    /\ req[r].pc = "copy" /\ Startup # None
    /\ Goto(r, "blocked")
    /\ UNCHANGED <<root, last, scanLock, runLock>>

UnblockNever(r) ==       \* mutant: the run has a context of its own
    /\ req[r].pc = "blocked"
    /\ Goto(r, "blocked")
    /\ UNCHANGED <<root, last, scanLock, runLock>>

\* The context is cancelled, and Apply returns an error.
Unblock(r) ==
    /\ req[r].pc = "blocked"
    /\ Goto(r, "broken")
    /\ UNCHANGED <<root, last, scanLock, runLock>>

EndRun(r) ==
    /\ \/ req[r].pc = "copied" /\ Answer(r, None)
       \/ req[r].pc = "broken" /\ Refuse(r)
    /\ runLock' = None
    /\ UNCHANGED <<root, last, scanLock>>

HandleVerify(r) ==
    /\ At(r, "verify", "sent")
    /\ (\E v \in Verdict : Answer(r, v)) \/ Refuse(r)
    /\ UNCHANGED <<root, last, scanLock, runLock>>

-----------------------------------------------------------------------------

\* Somebody changes an installation: what was read of it before is old, the
\* reading that is kept and one that is about to be.
Change(r) ==
    /\ r \in Changing
    /\ last' = IF last # None /\ last.root = r THEN [last EXCEPT !.old = TRUE] ELSE last
    /\ req' = [s \in Request |->
                 IF req[s].pc = "store" /\ req[s].root = r
                 THEN [req[s] EXCEPT !.answer = [root |-> r, old |-> TRUE]] ELSE req[s]]
    /\ UNCHANGED <<root, scanLock, runLock>>

Serve(r) ==
    /\ req[r].pc \notin {"none", "answered", "refused"}
    /\ \/ HandleOpen(r) \/ HandleSnapshot(r) \/ HandleState(r)
       \/ ReadRoot(r) \/ TryScanLock(r) \/ ReadDisk(r) \/ StoreReading(r)
       \/ HandleRun(r) \/ Copy(r) \/ EndRun(r) \/ HandleVerify(r)

SessionInit ==
    /\ root = Startup
    /\ last = None
    /\ scanLock = None
    /\ runLock = None

-----------------------------------------------------------------------------

\* The reading the panel answers from is of the installation chosen now, also
\* when another one was chosen while the disk was being walked (session.go:51).
ReadingOfChosen == last # None => last.root = root

\* One transfer at a time (local.go:209), and the lock has an owner at work.
OneTransfer ==
    \A r \in Request : req[r].pc \in {"copy", "blocked", "copied", "broken"} <=> runLock = r
=============================================================================
