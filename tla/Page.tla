-------------------------------- MODULE Page --------------------------------
(***************************************************************************)
(* The page of the panel: App and its screens, over PanelSession.  What    *)
(* App keeps between renders is page, what the screen that is mounted      *)
(* keeps is local.  A click and an answer that comes in are each one       *)
(* step, up to the render and the effects it causes; an answer may come    *)
(* in any time later, in any order, and finds the page as it then is.      *)
(*                                                                         *)
(* What a plan decides is the set it takes: the worlds that go along, the  *)
(* folders nothing refers to, and the packages that are to be updated.     *)
(***************************************************************************)
EXTENDS PanelSession, FiniteSets

CONSTANTS
    World,     \* ids of worlds, which two installations may share
    Folder,    \* folders no world refers to
    Package,   \* packages, records
    Holds,     \* those of them that each installation has
    Blocked,   \* worlds of each installation whose system is not installed there
    Stale,     \* folders into which broken references lead
    Dest,      \* destinations that can be typed in
    MaxSwitched \* bound: decisions of a plan that the user has changed

PackageSource  == {"server-cache", "manifest", "upload"}
Recommendation == {"none", "keep", "upgrade", "required", "blocked"}

\* Of a package, what decides whether it has a switch.
PackageRecord == [id : STRING, premium : BOOLEAN, source : PackageSource,
                  recommend : Recommendation, widens : BOOLEAN]

VARIABLES
    page,    \* the state of App
    local,   \* the state of the screen that is mounted
    pressed  \* history: was the transfer that is shown started as a preview?

sessionVars == <<root, last, scanLock, runLock>>
vars == <<sessionVars, req, page, local, pressed>>

\* of: whose plan; other: React compares objects, and a plan built anew is
\* another one though it may decide the same.
Plan == [of : Root, taken : SUBSET (World \cup Folder \cup Package), other : BOOLEAN]

ASSUME PageAssumption ==
    /\ Package \subseteq PackageRecord
    /\ Holds \in [Root -> SUBSET (World \cup Folder \cup Package)]
    /\ Blocked \in [Root -> SUBSET World]
    /\ Stale \subseteq Folder
    /\ World \cap Folder = {} /\ World \cap Package = {}
    /\ None \notin Dest \cup Plan
    /\ MaxSwitched \in Nat

Stage == {"welcome", "scanning", "plan", "transfer", "verify"}

\* A destination with what Start makes of it; to is None while it is empty.
Destination == [to : Dest \cup {None}, dryRun : BOOLEAN]

\* State, of which only the list of versions is used, comes before the plan
\* and never goes: it is left out.
App == [stage : Stage, inventory : Root \cup {None}, plan : Plan \cup {None},
        dest : Destination, result : Verdict \cup {None}, error : BOOLEAN]

\* busy: of the picker or the plan; tab: of the plan; failed: of the reading or
\* the transfer; done: a transfer has shown a result; stopped: it was stopped.
Local == [busy : BOOLEAN, tab : {"worlds", "assets"},
          failed : BOOLEAN, done : BOOLEAN, stopped : BOOLEAN]

\* Who called, whether the screen or the controller that called is still there,
\* and what a run was sent.
From == [by : {"nobody", "welcome", "choose", "scanning", "scanned", "rebuild",
               "transfer", "verifying"},
         own : BOOLEAN, plan : Plan \cup {None}, dest : Destination \cup {None}]

TypeOK ==
    /\ SessionTypeOK
    /\ \A r \in Request : req[r].from \in From \cup {None}
    /\ page \in App
    /\ local \in Local
    /\ pressed \in BOOLEAN

-----------------------------------------------------------------------------
(* Calls of the page (api.ts).  q stands for req as a step leaves it.      *)

Free(q) == {r \in Request : q[r] = Blank}

Caller(by) == [by |-> by, own |-> TRUE, plan |-> None, dest |-> None]

Fetch(op, by)   == Call(op, None, Caller(by))
RunCall(p)      == Call("run", None, [by |-> "transfer", own |-> TRUE,
                                      plan |-> p.plan, dest |-> p.dest])
OpenCall(r)     == Call("open", r, Caller("choose"))

Sent(q, call) == [q EXCEPT ![CHOOSE r \in Free(q) : TRUE] = call]

Answered(r) == req[r].pc = "answered"
Refused(r)  == req[r].pc = "refused"
Asked(r, by) == req[r].op # "none" /\ req[r].from.by = by

By(q, r, who) == q[r].op # "none" /\ q[r].from.by \in who

\* Calls whose screen is gone: its setters do nothing, App's still do.
Disowned(q, who) ==
    [r \in Request |-> IF By(q, r, who) THEN [q[r] EXCEPT !.from.own = FALSE] ELSE q[r]]

\* Calls whose answer nobody takes, a stream that was aborted or any call of a
\* page that is gone.  The panel carries them out all the same; those that only
\* look at it need not be followed further.
Abandoned(q, who) ==
    [r \in Request |-> IF ~By(q, r, who) THEN q[r]
                       ELSE IF q[r].op \in {"inventory", "plan", "verify"}
                               \/ q[r].pc \in {"answered", "refused"} THEN Blank
                       ELSE [q[r] EXCEPT !.from = Caller("nobody")]]

Anybody == {"welcome", "choose", "scanning", "scanned", "rebuild", "transfer", "verifying"}

-----------------------------------------------------------------------------
(* What is rendered, and the effects of a render.                          *)

\* VerifyScreen asks every world of a list that may be null: React then
\* unmounts the page and leaves nothing.
Mounted(p) ==
    IF p.error THEN "error"
    ELSE IF p.stage \in {"welcome", "scanning"} THEN p.stage
    ELSE IF None \in {p.inventory, p.plan} THEN "waiting"
    ELSE IF Holds[p.inventory] \cap World = {} THEN "no worlds"
    ELSE IF p.stage = "verify" /\ p.result = "null" THEN "nothing"
    ELSE p.stage

NewLocal == [busy |-> FALSE, tab |-> "worlds", failed |-> FALSE, done |-> FALSE,
             stopped |-> FALSE]

Moved(p) == Mounted(p) # Mounted(page)

\* The effect of TransferScreen has plan and dest as its dependencies.
Again(p) == /\ Mounted(p) = "transfer" /\ ~Moved(p)
            /\ <<p.plan, p.dest>> # <<page.plan, page.dest>>

CleanedUpNot(p, q) ==    \* mutant: nothing is aborted when the screen is left
    IF Mounted(p) = "nothing" THEN Abandoned(q, Anybody)
    ELSE IF Moved(p) THEN Disowned(q, {"choose", "scanning", "rebuild"})
    ELSE IF Again(p) THEN Abandoned(q, {"transfer"})
    ELSE q

\* The cleanups: TransferScreen aborts its stream.
CleanedUp(p, q) ==
    IF Mounted(p) = "nothing" THEN Abandoned(q, Anybody)
    ELSE IF Moved(p) THEN Abandoned(Disowned(q, {"choose", "scanning", "rebuild"}), {"transfer"})
    ELSE IF Again(p) THEN Abandoned(q, {"transfer"})
    ELSE q

\* The effects: App asks for an inventory when the picker is entered, a screen
\* for its stream when it is mounted.
Effects(p) ==
    {call \in {Fetch("inventory", "welcome"), Fetch("scan", "scanning"), RunCall(p)} :
        CASE call.op = "inventory" -> p.stage = "welcome" /\ page.stage # "welcome"
          [] call.op = "scan"      -> Mounted(p) = "scanning" /\ Moved(p)
          [] call.op = "run"       -> Mounted(p) = "transfer" /\ (Moved(p) \/ Again(p))}

\* A result, whether the last transfer was a preview, and which of two equal
\* plans this is, are not looked at outside the screen that shows them.
Trimmed(p) ==
    [p EXCEPT !.result      = IF p.stage = "verify" THEN @ ELSE None,
              !.dest.dryRun = @ /\ p.stage = "transfer",
              !.plan        = IF @ = None \/ p.stage = "transfer" THEN @
                              ELSE [@ EXCEPT !.other = FALSE]]

\* App's state becomes p, and a screen that stays has the state l.
Render(p, l, q) ==
    LET cleaned == CleanedUp(p, q)
        calls   == Effects(p)
    IN  /\ page' = Trimmed(p)
        /\ local' = IF Moved(p) THEN NewLocal
                    ELSE IF Again(p) THEN [l EXCEPT !.stopped = FALSE] ELSE l
        /\ \/ calls = {} /\ req' = cleaned
           \/ /\ Free(cleaned) # {}
              /\ \E call \in calls : req' = Sent(cleaned, call)
        /\ UNCHANGED sessionVars

StillPressed == pressed' = (pressed /\ page'.stage = "transfer")

Show(p, q) == Render(p, local, q)
Keep(l, q) == Render(page, l, q)

-----------------------------------------------------------------------------
(* WelcomeScreen.                                                          *)

\* Only the buttons look at busy: Enter and the list of folders do not.
Choose(r) ==
    /\ Mounted(page) = "welcome"
    /\ Free(req) # {}
    /\ Keep([local EXCEPT !.busy = TRUE], Sent(req, OpenCall(r)))
    /\ StillPressed

\* onOpen is App's, and works when the picker is gone.
TakeOpen(r) ==
    /\ Asked(r, "choose")
    /\ \/ Answered(r) /\ Show([page EXCEPT !.stage = "scanning"], [req EXCEPT ![r] = Blank])
       \/ /\ Refused(r)
          /\ Keep(IF req[r].from.own THEN [local EXCEPT !.busy = FALSE] ELSE local,
                  [req EXCEPT ![r] = Blank])
    /\ StillPressed

-----------------------------------------------------------------------------
(* App: an inventory is followed by the state, and the state by a plan.    *)

Default(r) == Holds[r] \cap ((World \ Blocked[r]) \cup Stale)
NewPlan(r) == [of |-> r, taken |-> Default(r),
               other |-> IF page.plan = None THEN FALSE ELSE ~page.plan.other]

Scanned(r) ==
    Show([page EXCEPT !.inventory = req[r].answer],
         [req EXCEPT ![r] = Fetch("state", "scanned")])

TakeInventory(r) ==
    /\ Asked(r, "welcome")
    /\ \/ Answered(r) /\ Scanned(r)
       \/ Refused(r) /\ Keep(local, [req EXCEPT ![r] = Blank])
    /\ StillPressed

\* The stream of a reading is never aborted; only its error needs the screen.
TakeScan(r) ==
    /\ Asked(r, "scanning")
    /\ \/ Answered(r) /\ Scanned(r)
       \/ /\ Refused(r)
          /\ Keep(IF req[r].from.own THEN [local EXCEPT !.failed = TRUE] ELSE local,
                  [req EXCEPT ![r] = Blank])
    /\ StillPressed

TakeState(r) ==
    /\ Asked(r, "scanned") /\ req[r].op = "state"
    /\ \/ /\ Answered(r)
          /\ Show(page, [req EXCEPT ![r] = Fetch("plan", "scanned")])
       \/ Refused(r) /\ Show([page EXCEPT !.error = TRUE], [req EXCEPT ![r] = Blank])
    /\ StillPressed

TakeFirstPlan(r) ==
    /\ Asked(r, "scanned") /\ req[r].op = "plan"
    /\ \/ /\ Answered(r)
          /\ Show([page EXCEPT !.plan = NewPlan(req[r].answer), !.stage = "plan"],
                  [req EXCEPT ![r] = Blank])
       \/ Refused(r) /\ Show([page EXCEPT !.error = TRUE], [req EXCEPT ![r] = Blank])
    /\ StillPressed

\* The buttons back to the picker: of the error, of an installation without
\* worlds, and of the bar above every other screen.
AnotherFolder ==
    /\ Mounted(page) \in {"error", "no worlds", "plan", "transfer", "verify"}
    /\ Show([page EXCEPT !.error = FALSE, !.stage = "welcome"], req)
    /\ StillPressed

-----------------------------------------------------------------------------
(* TabsScreen, WorldsTab and PlanScreen.                                   *)

InTab(tab) == local.tab = tab /\ Mounted(page) = "plan"

\* PlanScreen lives while its tab is shown.
SelectTab(tab) ==
    /\ Mounted(page) = "plan"
    /\ tab # local.tab
    /\ Keep([local EXCEPT !.tab = tab, !.busy = FALSE], Disowned(req, {"rebuild"}))
    /\ StillPressed

Decide(things, take) ==
    LET taken   == page.plan.taken
        next    == IF take THEN taken \cup things ELSE taken \ things
        default == Default(page.plan.of)
    IN  /\ Cardinality((next \ default) \cup (default \ next)) <= MaxSwitched
        /\ Show([page EXCEPT !.plan.taken = next], req)
        /\ StillPressed

\* What the plan on the page has a decision about.
Listed == Holds[page.plan.of]

\* A world has a switch in each of two tabs.  The cards are drawn from the
\* inventory, which another installation's may have replaced: what blocks a
\* world is looked up in the plan by its id, and setWorld changes the plan's
\* worlds only.
SwitchCardOfInventory(w, take) ==   \* mutant: what blocks it is the inventory's
    /\ InTab("worlds")
    /\ w \in Holds[page.inventory] \ Blocked[page.inventory]
    /\ Decide({w} \cap Listed, take)

SwitchCard(w, take) ==
    /\ InTab("worlds")
    /\ w \in Holds[page.inventory] \ Blocked[page.plan.of]
    /\ Decide({w} \cap Listed, take)

SwitchWorld(w, take) ==
    /\ InTab("assets")
    /\ w \in Listed \ Blocked[page.plan.of]
    /\ Decide({w}, take)

SwitchFolder(f, take) ==
    /\ InTab("assets")
    /\ f \in Listed
    /\ Decide({f}, take)

\* The groups in which split puts a package and that have a switch.
Offered(p) ==
    /\ ~p.premium
    /\ p.source # "upload"
    /\ p.recommend = "required" \/ (p.recommend = "upgrade" /\ p.widens)

\* setPolicy goes by id, which a system may share with a module.
SwitchPackage(p, take) ==
    /\ InTab("assets")
    /\ p \in Listed /\ Offered(p)
    /\ Decide({same \in Listed \cap Package : same.id = p.id}, take)

\* Clearing the field again would only disable the buttons.
TypeDestination(to) ==
    /\ InTab("assets")
    /\ Show([page EXCEPT !.dest.to = to], req)
    /\ StillPressed

\* Another target version, or a look for updates.
Rebuild ==
    /\ InTab("assets")
    /\ ~local.busy
    /\ Free(req) # {}
    /\ Keep([local EXCEPT !.busy = TRUE], Sent(req, Fetch("plan", "rebuild")))
    /\ StillPressed

TakePlanStuck(r) ==      \* mutant: no finally, busy stays when a plan fails
    /\ Asked(r, "rebuild")
    /\ LET idle == IF req[r].from.own THEN [local EXCEPT !.busy = FALSE] ELSE local
       IN  \/ /\ Answered(r)
              /\ Render([page EXCEPT !.plan = NewPlan(req[r].answer)], idle,
                        [req EXCEPT ![r] = Blank])
           \/ Refused(r) /\ Keep(local, [req EXCEPT ![r] = Blank])
    /\ StillPressed

TakePlan(r) ==
    /\ Asked(r, "rebuild")
    /\ LET idle == IF req[r].from.own THEN [local EXCEPT !.busy = FALSE] ELSE local
       IN  \/ /\ Answered(r)
              /\ Render([page EXCEPT !.plan = NewPlan(req[r].answer)], idle,
                        [req EXCEPT ![r] = Blank])
           \/ Refused(r) /\ Keep(idle, [req EXCEPT ![r] = Blank])
    /\ StillPressed

PressCopies(dryRun) ==   \* mutant: the button of the preview does not ask for one
    /\ InTab("assets")
    /\ page.dest.to # None /\ ~local.busy
    /\ pressed' = dryRun
    /\ Show([page EXCEPT !.dest.dryRun = FALSE, !.stage = "transfer"], req)

Press(dryRun) ==
    /\ InTab("assets")
    /\ page.dest.to # None /\ ~local.busy
    /\ pressed' = dryRun
    /\ Show([page EXCEPT !.dest.dryRun = dryRun, !.stage = "transfer"], req)

-----------------------------------------------------------------------------
(* TransferScreen and VerifyScreen.                                        *)

Running(r) == Asked(r, "transfer")

TakeRunDeaf(r) ==        \* mutant: an answer that is not a stream is ignored
    /\ Running(r)
    /\ LET heard == IF req[r].pc \in {"copied", "broken"}
                    THEN Abandoned(req, {"transfer"})
                    ELSE [req EXCEPT ![r] = Blank]
       IN  \/ req[r].pc \in {"copied", "answered"} /\ Keep([local EXCEPT !.done = TRUE], heard)
           \/ req[r].pc = "broken" /\ Keep([local EXCEPT !.failed = TRUE], heard)
           \/ req[r].pc = "refused" /\ Keep(local, heard)
    /\ StillPressed

\* The last event of the stream, or an answer that is none, such as that a
\* transfer is running already.  A run that still holds its lock stays in its
\* slot, with nobody to hear of it.
TakeRun(r) ==
    /\ Running(r)
    /\ LET heard == IF req[r].pc \in {"copied", "broken"}
                    THEN Abandoned(req, {"transfer"})
                    ELSE [req EXCEPT ![r] = Blank]
       IN  \/ req[r].pc \in {"copied", "answered"} /\ Keep([local EXCEPT !.done = TRUE], heard)
           \/ req[r].pc \in {"broken", "refused"} /\ Keep([local EXCEPT !.failed = TRUE], heard)
    /\ StillPressed

Going == Mounted(page) = "transfer" /\ ~local.failed /\ ~local.done

Stop ==
    /\ Going
    /\ Keep([local EXCEPT !.stopped = TRUE], Abandoned(req, {"transfer"}))
    /\ StillPressed

BackToPlan ==
    /\ Mounted(page) \in {"transfer", "verify"} /\ ~Going
    /\ Show([page EXCEPT !.stage = "plan"], req)
    /\ StillPressed

CheckResult ==
    /\ Mounted(page) = "transfer" /\ local.done /\ ~local.failed
    /\ ~page.dest.dryRun
    /\ Free(req) # {}
    /\ Keep(local, Sent(req, Fetch("verify", "verifying")))
    /\ StillPressed

TakeVerify(r) ==
    /\ Asked(r, "verifying")
    /\ \/ /\ Answered(r)
          /\ Show([page EXCEPT !.result = req[r].answer, !.stage = "verify"],
                  [req EXCEPT ![r] = Blank])
       \/ Refused(r) /\ Show([page EXCEPT !.error = TRUE], [req EXCEPT ![r] = Blank])
    /\ StillPressed

-----------------------------------------------------------------------------

\* The end of a call nobody waits for.
Drop(r) ==
    /\ Asked(r, "nobody")
    /\ Answered(r) \/ Refused(r)
    /\ req' = [req EXCEPT ![r] = Blank]
    /\ UNCHANGED <<sessionVars, page, local, pressed>>

Take(r) ==
    /\ req[r].pc \in {"answered", "refused", "copied", "broken"}
    /\ \/ TakeOpen(r) \/ TakeInventory(r) \/ TakeScan(r) \/ TakeState(r) \/ TakeFirstPlan(r)
       \/ TakePlan(r) \/ TakeRun(r) \/ TakeVerify(r) \/ Drop(r)

\* A transfer that copies comes to a stop in the panel, or the browser has ended
\* the one that stands still: the run has the context of its request.
Stall(r)  == Running(r) /\ ~req[r].from.dest.dryRun /\ Block(r)
Cancel(r) == Asked(r, "nobody") /\ Unblock(r)

Panel(r) == (Serve(r) \/ Stall(r) \/ Cancel(r)) /\ UNCHANGED <<page, local, pressed>>

NewApp == [stage |-> "welcome", inventory |-> None, plan |-> None,
           dest |-> [to |-> None, dryRun |-> FALSE], result |-> None, error |-> FALSE]

\* The page is loaded again; what it asked for goes on in the panel.
Reload ==
    /\ Free(Abandoned(req, Anybody)) # {}
    /\ page' = NewApp
    /\ local' = NewLocal
    /\ pressed' = FALSE
    /\ req' = Sent(Abandoned(req, Anybody), Fetch("inventory", "welcome"))
    /\ UNCHANGED sessionVars

User ==
    \/ \E r \in Root : Choose(r)
    \/ AnotherFolder
    \/ \E tab \in {"worlds", "assets"} : SelectTab(tab)
    \/ \E take \in BOOLEAN :
          \/ \E w \in World : SwitchCard(w, take) \/ SwitchWorld(w, take)
          \/ \E f \in Folder : SwitchFolder(f, take)
          \/ \E p \in Package : SwitchPackage(p, take)
    \/ \E to \in Dest : TypeDestination(to)
    \/ Rebuild
    \/ \E dryRun \in BOOLEAN : Press(dryRun)
    \/ Stop \/ BackToPlan \/ CheckResult \/ Reload

Init ==
    /\ SessionInit
    /\ page = NewApp
    /\ local = NewLocal
    /\ pressed = FALSE
    /\ req = Sent([r \in Request |-> Blank], Fetch("inventory", "welcome"))

Next ==
    \/ User
    \/ \E r \in Request : Take(r) \/ Panel(r)
    \/ \E r \in Root : Change(r) /\ UNCHANGED <<page, local, pressed>>

Spec == Init /\ [][Next]_vars

\* net/http gives each request a goroutine, and an answer comes in some time: a
\* request goes on as long as there is one, and so does the run that holds the
\* lock.  A run that stands still is moved by the end of its request only; no
\* click is ever forced.
Progress ==
    \/ \E r \in Request : (Serve(r) \/ Cancel(r)) /\ UNCHANGED <<page, local, pressed>>
    \/ \E r \in Request : Take(r)

RunProgress ==
    \E r \in Request : /\ runLock = r
                       /\ Copy(r) \/ Cancel(r) \/ EndRun(r)
                       /\ UNCHANGED <<page, local, pressed>>

FairSpec == Spec /\ WF_vars(Progress) /\ WF_vars(RunProgress)

-----------------------------------------------------------------------------

\* A reading is never replaced by an older one of the same installation, for
\* which Session.Read lets in one reader at a time (session.go:85): one that is
\* up to date becomes old by a change of the files, never by what is stored.
ReadingsAdvance ==
    [][last # None /\ ~last.old /\ last' # None /\ last'.root = last.root /\ last'.old
          => \E r \in Root : Change(r)]_vars

\* A transfer copies the installation its plan was made for: panelRun and
\* panelPlan work on the same root (panel.go:46).
PlanOfCopied ==
    \A r \in Request : req[r].pc = "copied" /\ Running(r)
                          => req[r].root = req[r].from.plan.of

\* The page listens to one transfer at most, shows it, and what that transfer
\* was sent is the plan and the destination on the page; whatever becomes of
\* them, late plans and verdicts included, aborts it (Transfer.tsx:50).
RunIsShown ==
    /\ \A r \in Request : Running(r) =>
          /\ Mounted(page) = "transfer"
          /\ req[r].from.plan = page.plan
          /\ req[r].from.dest = page.dest
    /\ \A r, s \in Request : Running(r) /\ Running(s) => r = s

\* A preview never copies, and a transfer that was asked for is no preview,
\* also when it is started again by a plan that came late (Plan.tsx:274-287).
AsPressed ==
    \A r \in Request : Running(r) => req[r].from.dest.dryRun = pressed

\* No transfer is sent a world whose system is not installed, by whichever of
\* the two tabs its switches were used (Plan.tsx:97, Worlds.tsx:68).
BlockedStays ==
    \A r \in Request : Running(r) =>
        req[r].from.plan.taken \cap Blocked[req[r].from.plan.of] = {}

\* A screen that says something is under way is right: there is a call that it
\* will hear of.  Only Stop leaves a transfer on the screen that is none.
Awaited ==
    /\ Going => local.stopped \/ \E r \in Request : Running(r)
    /\ Mounted(page) = "scanning" /\ ~local.failed
          => \E r \in Request : Asked(r, "scanning") \/ Asked(r, "scanned")
    /\ local.busy
          => \E r \in Request : (Asked(r, "choose") \/ Asked(r, "rebuild")) /\ req[r].from.own

\* A copy whose upload workers have all met an error with digests left.
Stalled == \E r \in Request : Running(r) /\ req[r].pc = "blocked"

Waiting ==
    \/ Mounted(page) = "scanning" /\ ~local.failed
    \/ Going /\ ~local.stopped /\ ~Stalled
    \/ local.busy

\* Whatever the user does and the panel refuses, a reading ends in a plan or in
\* a message, a transfer in a result, a message or being left, and buttons that
\* were switched off come back (Scanning.tsx:46, Transfer.tsx:46, Plan.tsx:27).
\* Only the screen of a stalled copy may wait for ever (apply.go:163).
WaitsEnd == []<>~Waiting

\* A transfer nobody hears of any more, because it was stopped or left or the
\* page was loaded again, lets the next one in at last: also a stalled one, for
\* the run has the context of its request (local.go:223).
LockFreed == []<>~(\E r \in Request : runLock = r /\ Asked(r, "nobody"))
=============================================================================
