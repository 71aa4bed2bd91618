--------------------------- MODULE PageShownProof ---------------------------
(***************************************************************************)
(* What the page shows of a transfer is what the panel was sent: for any   *)
(* plans and destinations, whatever comes late and whatever is clicked.    *)
(* The inductive invariant adds to RunIsShown what the page itself holds:  *)
(* how the transfer was asked for, and no blocked world in the plan.       *)
(***************************************************************************)
EXTENDS PageProof

AskedAs == page.stage = "transfer" => page.dest.dryRun = pressed

Unblocked(plan) == plan # None => plan.taken \cap Blocked[plan.of] = {}

NoneBlocked == Unblocked(page.plan)

Shown == RunIsShown /\ AskedAs /\ NoneBlocked

\* Slots of the page's transfer, and q's among those of req.
Runs(q) == {r \in Request : By(q, r, {"transfer"})}

Fewer(q) ==
    \A r \in Runs(q) : /\ r \in Runs(req)
                       /\ q[r].from.plan = req[r].from.plan
                       /\ q[r].from.dest = req[r].from.dest

LEMMA RunningRuns == \A r \in Request : Running(r) <=> r \in Runs(req)
BY DEF Running, Asked, Runs, By

LEMMA RunningRunsNext == \A r \in Request : Running(r)' <=> r \in Runs(req')
BY DEF Running, Asked, Runs, By

LEMMA NobodyRuns ==
    ASSUME NEW q, Slots(q), NEW who, "transfer" \in who
    PROVE  Runs(Abandoned(q, who)) = {}
<1> SUFFICES ASSUME NEW r \in Request, By(Abandoned(q, who), r, {"transfer"}) PROVE FALSE
  BY DEF Runs
<1>1. SlotOK(q[r])
  BY DEF Slots
<1>2. CASE ~By(q, r, who)
  BY <1>2 DEF Abandoned, By
<1>3. CASE By(q, r, who) /\ Abandoned(q, who)[r] = Blank
  BY <1>3 DEF By, Blank
<1>4. CASE By(q, r, who) /\ Abandoned(q, who)[r] = [q[r] EXCEPT !.from = Caller("nobody")]
  <2>1. q[r] \in Made
    BY <1>1, <1>4 DEF By, SlotOK, Blank
  <2>2. Abandoned(q, who)[r].from.by = "nobody"
    BY <1>4, <2>1 DEF Made, Caller
  <2> QED BY <2>2 DEF By
<1> QED BY <1>2, <1>3, <1>4 DEF Abandoned

LEMMA DisownedRuns ==
    ASSUME NEW q, Slots(q), NEW who, "transfer" \notin who, Fewer(q)
    PROVE  Fewer(Disowned(q, who))
<1> SUFFICES ASSUME NEW r \in Request, By(Disowned(q, who), r, {"transfer"})
             PROVE  By(q, r, {"transfer"}) /\ Disowned(q, who)[r].from = q[r].from
  BY DEF Runs, Fewer
<1>1. SlotOK(q[r])
  BY DEF Slots
<1>2. CASE By(q, r, who)
  <2>1. q[r] \in Made /\ q[r].from \in From
    BY <1>1, <1>2 DEF By, SlotOK, Blank, Made
  <2>2. Disowned(q, who)[r].from.by = q[r].from.by
    BY <1>2, <2>1 DEF Disowned, Made, From
  <2> QED BY <1>2, <2>2 DEF By
<1>3. CASE ~By(q, r, who)
  BY <1>3 DEF Disowned, By
<1> QED BY <1>2, <1>3

LEMMA SentRuns ==
    ASSUME NEW q, Slots(q), NEW call, Free(q) # {}
    PROVE  /\ call.from.by # "transfer" /\ Fewer(q) => Fewer(Sent(q, call))
           /\ \A r \in Runs(Sent(q, call)) : r \in Runs(q) \/ Sent(q, call)[r] = call
           /\ \A r, s \in Runs(Sent(q, call)) : Runs(q) = {} => r = s
<1> DEFINE f == CHOOSE r \in Free(q) : TRUE
<1>1. f \in Request /\ q[f] = Blank
  BY DEF Free
<1> HIDE DEF f
<1>2. Sent(q, call) = [q EXCEPT ![f] = call]
  BY DEF Sent, f
<1>3. Sent(q, call)[f] = call /\ \A r \in Request : r # f => Sent(q, call)[r] = q[r]
  BY <1>1, <1>2 DEF Slots
<1>4. \A r \in Runs(Sent(q, call)) : r # f => r \in Runs(q)
  BY <1>3 DEF Runs, By
<1>5. call.from.by # "transfer" => f \notin Runs(Sent(q, call))
  BY <1>3 DEF Runs, By
<1> QED BY <1>3, <1>4, <1>5 DEF Fewer, Runs

LEMMA MountedTrimmed == \A p \in App : Mounted(Trimmed(p)) = Mounted(p)
<1> SUFFICES ASSUME NEW p \in App PROVE Mounted(Trimmed(p)) = Mounted(p)
  OBVIOUS
<1>1. None \in {p.inventory, p.plan} <=> None \in {Trimmed(p).inventory, Trimmed(p).plan}
  BY TrimmedApp
<1> QED BY <1>1, TrimmedApp DEF Mounted

LEMMA CleanedRuns ==
    ASSUME NEW p, NEW q, Slots(q)
    PROVE  \/ Runs(CleanedUp(p, q)) = {}
           \/ CleanedUp(p, q) = q /\ ~Moved(p) /\ ~Again(p)
<1>1. Slots(Disowned(q, {"choose", "scanning", "rebuild"}))
  BY DisownedSlots
<1>2. Runs(Abandoned(q, {"transfer"})) = {}
  BY NobodyRuns
<1>3. Runs(Abandoned(q, Anybody)) = {}
  BY NobodyRuns DEF Anybody
<1>4. Runs(Abandoned(Disowned(q, {"choose", "scanning", "rebuild"}), {"transfer"})) = {}
  BY <1>1, NobodyRuns
<1>5. CASE Mounted(p) = "nothing"
  BY <1>3, <1>5 DEF CleanedUp
<1>6. CASE Mounted(p) # "nothing" /\ Moved(p)
  BY <1>4, <1>6 DEF CleanedUp
<1>7. CASE Mounted(p) # "nothing" /\ ~Moved(p) /\ Again(p)
  BY <1>2, <1>7 DEF CleanedUp
<1>8. CASE Mounted(p) # "nothing" /\ ~Moved(p) /\ ~Again(p)
  BY <1>8 DEF CleanedUp
<1> QED BY <1>5, <1>6, <1>7, <1>8

LEMMA RenderShown ==
    ASSUME Typed, Shown, NEW p \in App, NEW l, NEW q, Slots(q), Fewer(q), Render(p, l, q)
    PROVE  RunIsShown'
<1> DEFINE cleaned == CleanedUp(p, q)
           held(x) == \A r \in Runs(x) : /\ Mounted(p) = "transfer"
                                         /\ x[r].from.plan = p.plan /\ x[r].from.dest = p.dest
           single(x) == \A r, s \in Runs(x) : r = s
<1>1. Slots(cleaned)
  BY CleanedSlots
<1>2. held(cleaned) /\ single(cleaned)
  <2>1. CASE Runs(cleaned) = {}
    BY <2>1
  <2>2. CASE cleaned = q /\ ~Moved(p) /\ ~Again(p)
    <3>1. \A r \in Runs(q) : r \in Runs(req) /\ q[r].from.plan = req[r].from.plan
                             /\ q[r].from.dest = req[r].from.dest
      BY DEF Fewer
    <3>2. \A r \in Runs(q) : /\ Mounted(page) = "transfer"
                             /\ q[r].from.plan = page.plan /\ q[r].from.dest = page.dest
      BY <3>1, RunningRuns DEF Shown, RunIsShown, Runs
    <3>3. \A r \in Runs(q) : Mounted(p) = "transfer" /\ p.plan = page.plan /\ p.dest = page.dest
      BY <2>2, <3>2 DEF Moved, Again
    <3>4. single(q)
      BY <3>1, RunningRuns DEF Shown, RunIsShown, Runs
    <3> QED BY <2>2, <3>2, <3>3, <3>4
  <2> QED BY <2>1, <2>2, CleanedRuns
<1>3. held(req') /\ single(req')
  <2>1. CASE req' = cleaned
    BY <1>2, <2>1
  <2>2. ASSUME NEW call \in Effects(p), Free(cleaned) # {}, req' = Sent(cleaned, call)
        PROVE  held(req') /\ single(req')
    <3>1. CASE call.from.by # "transfer"
      <4> DEFINE f == CHOOSE r \in Free(cleaned) : TRUE
      <4>1. f \in Request
        BY <2>2 DEF Free
      <4> HIDE DEF f
      <4>2. req' = [cleaned EXCEPT ![f] = call]
        BY <2>2 DEF Sent, f
      <4> HIDE DEF cleaned
      <4>3. \A r \in Request : IF r = f THEN req'[r] = call ELSE req'[r] = cleaned[r]
        BY <1>1, <4>1, <4>2 DEF Slots
      <4>4. \A r \in Runs(req') : r \in Runs(cleaned) /\ req'[r] = cleaned[r]
        BY <3>1, <4>3 DEF Runs, By
      <4> QED BY <1>2, <4>4
    <3>2. CASE call.from.by = "transfer"
      <4>1. call = RunCall(p)
        BY <2>2, <3>2 DEF Effects, Fetch, Call, Caller
      <4>2. Mounted(p) = "transfer" /\ (Moved(p) \/ Again(p))
        BY <2>2, <4>1 DEF Effects, RunCall, Call
      <4>3. Runs(cleaned) = {}
        BY <4>2, CleanedRuns
      <4>4. call.from.plan = p.plan /\ call.from.dest = p.dest
        BY <4>1 DEF RunCall, Call
      <4> HIDE DEF cleaned
      <4> QED BY <1>1, <2>2, <4>2, <4>3, <4>4, SentRuns
    <3> QED BY <3>1, <3>2
  <2> QED BY <2>1, <2>2 DEF Render
<1>4. Mounted(page') = Mounted(p)
      /\ (Mounted(p) = "transfer" => page'.plan = p.plan /\ page'.dest = p.dest)
  BY MountedTrimmed, TrimmedApp DEF Render, Mounted
<1> QED BY <1>3, <1>4, RunningRunsNext DEF RunIsShown, Runs, Mounted

\* A step that renders p, when the transfer p shows is as it was asked for.
LEMMA RenderInv ==
    ASSUME Typed, Shown, NEW p \in App, NEW l, NEW q, Slots(q), Fewer(q), Render(p, l, q),
           Unblocked(p.plan),
           p.stage = "transfer" => pressed' = p.dest.dryRun
    PROVE  Shown'
<1>1. page' = Trimmed(p)
  BY DEF Render
<1>2. AskedAs'
  BY <1>1, TrimmedApp DEF AskedAs
<1>3. NoneBlocked'
  <2>1. p.plan # None => p.plan \in Plan
    BY DEF App
  <2> QED BY <1>1, <2>1, TrimmedApp DEF NoneBlocked, Unblocked
<1> QED BY <1>2, <1>3, RenderShown DEF Shown

\* The same, when the page stays on its screen or leaves it for another one
\* than the transfer.
LEMMA StillInv ==
    ASSUME Typed, Shown, NEW p \in App, NEW l, NEW q, Slots(q), Fewer(q), Render(p, l, q),
           StillPressed, Unblocked(p.plan),
           p.stage = "transfer" => page.stage = "transfer" /\ p.dest = page.dest
    PROVE  Shown'
<1>1. page'.stage = p.stage
  BY TrimmedApp DEF Render
<1>2. p.stage = "transfer" => pressed' = p.dest.dryRun
  <2>1. ASSUME p.stage = "transfer" PROVE pressed' = pressed
    BY <1>1, <2>1 DEF StillPressed, Typed
  <2> QED BY <2>1 DEF Shown, AskedAs
<1> QED BY <1>2, RenderInv

LEMMA KeptRuns == Fewer(req)
BY DEF Fewer

LEMMA ReplacedRuns ==
    ASSUME Slots(req), NEW r \in Request, NEW c, c.from.by # "transfer" \/ c = Blank
    PROVE  Fewer([req EXCEPT ![r] = c])
BY DEF Slots, Fewer, Runs, By, Blank

LEMMA AbandonedRuns ==
    ASSUME NEW q, Slots(q), NEW who, "transfer" \in who
    PROVE  Fewer(Abandoned(q, who))
BY NobodyRuns DEF Fewer

LEMMA UserShown == ASSUME Typed, Shown, User PROVE Shown'
<1> USE PageAssumption
<1>1. /\ page \in App /\ Slots(req) /\ Fewer(req)
      /\ Unblocked(page.plan)
  BY KeptRuns DEF Typed, Shown, NoneBlocked
\* A call that is sent, and nothing else.
<1>2. ASSUME NEW call, SlotOK(call), Fresh(call), call.from.by # "transfer", Free(req) # {},
             NEW l, Keep(l, Sent(req, call)), StillPressed
      PROVE  Shown'
  <2> DEFINE q == Sent(req, call)
  <2>1. Slots(q) /\ Fewer(q)
    BY <1>1, <1>2, SentSlots, SentRuns
  <2>2. Render(page, l, q)
    BY <1>2 DEF Keep
  <2> HIDE DEF q
  <2> QED BY <1>1, <1>2, <2>1, <2>2, StillInv
\* A change of the page, and nothing else.
<1>3. ASSUME NEW p \in App, Show(p, req), StillPressed, p.stage # "transfer",
             Unblocked(p.plan)
      PROVE  Shown'
  BY <1>1, <1>3, StillInv DEF Show
<1>4. ASSUME NEW r \in Root, Choose(r) PROVE Shown'
  <2>1. OpenCall(r).from.by # "transfer"
    BY DEF OpenCall, Call, Caller
  <2> QED BY <1>2, <1>4, <2>1, CallSlot, FreshSlot DEF Choose
<1>5. CASE AnotherFolder
  <2> DEFINE p == [page EXCEPT !.error = FALSE, !.stage = "welcome"]
  <2>1. p \in App /\ p.stage = "welcome" /\ p.plan = page.plan
    BY <1>1 DEF App, Stage
  <2>2. Show(p, req) /\ StillPressed
    BY <1>5 DEF AnotherFolder
  <2> HIDE DEF p
  <2> QED BY <1>1, <1>3, <2>1, <2>2
<1>6. ASSUME NEW tab \in {"worlds", "assets"}, SelectTab(tab) PROVE Shown'
  <2> DEFINE q == Disowned(req, {"rebuild"})
             l == [local EXCEPT !.tab = tab, !.busy = FALSE]
  <2>1. Slots(q) /\ Fewer(q)
    BY <1>1, DisownedSlots, DisownedRuns
  <2>2. Render(page, l, q) /\ StillPressed
    BY <1>6 DEF SelectTab, Keep
  <2> HIDE DEF q, l
  <2> QED BY <1>1, <2>1, <2>2, StillInv
<1>7. ASSUME NEW things \in SUBSET (World \cup Folder \cup Package), things \cap Blocked[page.plan.of] = {},
             NEW take \in BOOLEAN, InTab("worlds") \/ InTab("assets"), Decide(things, take)
      PROVE  Shown'
  <2> DEFINE next == IF take THEN page.plan.taken \cup things ELSE page.plan.taken \ things
             plan == [page.plan EXCEPT !.taken = next]
             p == [page EXCEPT !.plan = plan]
  <2>1. page.plan \in Plan /\ page.plan # None /\ Mounted(page) = "plan"
    BY <1>7, PageType, PageAssumption DEF InTab
  <2>2. next \in SUBSET (World \cup Folder \cup Package) /\ next \cap Blocked[page.plan.of] = {}
    BY <1>1, <1>7, <2>1 DEF Plan, Unblocked
  <2>3. plan \in Plan /\ Unblocked(plan)
    BY <2>1, <2>2 DEF Plan, Unblocked
  <2> HIDE DEF next
  <2>4. p \in App /\ p.stage = page.stage /\ p.plan = plan
    BY <1>1, <2>3 DEF App
  <2>5. p.stage # "transfer"
    BY <2>1, <2>4 DEF Mounted
  <2>6. Show(p, req) /\ StillPressed
    BY <1>7 DEF Decide, next
  <2> HIDE DEF p, plan
  <2> QED BY <1>3, <2>2, <2>3, <2>4, <2>5, <2>6
<1>8. ASSUME NEW w \in World, NEW take \in BOOLEAN, SwitchCard(w, take) \/ SwitchWorld(w, take)
      PROVE  Shown'
  BY <1>7, <1>8 DEF SwitchCard, SwitchWorld, Listed
<1>a. InTab("assets") => Blocked[page.plan.of] \subseteq World
  <2>1. InTab("assets") => page.plan \in Plan
    BY PageType DEF InTab
  <2> QED BY <2>1 DEF Plan
<1>9. ASSUME NEW f \in Folder, NEW take \in BOOLEAN, SwitchFolder(f, take) PROVE Shown'
  BY <1>7, <1>9, <1>a DEF SwitchFolder
<1>10. ASSUME NEW x \in Package, NEW take \in BOOLEAN, SwitchPackage(x, take) PROVE Shown'
  <2> DEFINE things == {same \in Listed \cap Package : same.id = x.id}
  <2>1. InTab("assets") /\ Decide(things, take)
    BY <1>10 DEF SwitchPackage
  <2>2. things \subseteq Package
    OBVIOUS
  <2> HIDE DEF things
  <2> QED BY <1>7, <1>a, <2>1, <2>2
<1>11. ASSUME NEW to \in Dest, TypeDestination(to) PROVE Shown'
  <2> DEFINE p == [page EXCEPT !.dest.to = to]
  <2>1. [page.dest EXCEPT !.to = to] \in Destination
    BY PageType DEF Destination
  <2>2. p \in App /\ p.plan = page.plan /\ p.stage = page.stage
    BY <1>1, <2>1 DEF App
  <2>3. page.stage # "transfer" /\ Show(p, req) /\ StillPressed
    BY <1>11 DEF TypeDestination, InTab, Mounted
  <2> HIDE DEF p
  <2> QED BY <1>1, <1>3, <2>2, <2>3
<1>12. CASE Rebuild
  <2>1. Fetch("plan", "rebuild").from.by # "transfer"
    BY DEF Fetch, Call, Caller
  <2> QED BY <1>2, <1>12, <2>1, CallSlot, FreshSlot DEF Rebuild
<1>13. ASSUME NEW dryRun \in BOOLEAN, Press(dryRun) PROVE Shown'
  <2> DEFINE dest == [page.dest EXCEPT !.dryRun = dryRun]
             p == [page EXCEPT !.dest = dest, !.stage = "transfer"]
  <2>1. dest \in Destination /\ dest.dryRun = dryRun
    BY PageType DEF Destination
  <2> HIDE DEF dest
  <2>2. p \in App /\ p.plan = page.plan /\ p.dest = dest
    BY <1>1, <2>1 DEF App, Stage
  <2>3. Render(p, local, req) /\ pressed' = dryRun
    BY <1>13 DEF Press, Show, dest
  <2> HIDE DEF p
  <2> QED BY <1>1, <2>1, <2>2, <2>3, RenderInv
<1>14. CASE Stop
  <2>1. Slots(Abandoned(req, {"transfer"})) /\ Fewer(Abandoned(req, {"transfer"}))
    BY <1>1, AbandonedSlots, AbandonedRuns
  <2>2. Render(page, [local EXCEPT !.stopped = TRUE], Abandoned(req, {"transfer"}))
        /\ StillPressed
    BY <1>14 DEF Stop, Keep
  <2> QED BY <1>1, <2>1, <2>2, StillInv
<1>15. CASE BackToPlan
  <2> DEFINE p == [page EXCEPT !.stage = "plan"]
  <2>1. p \in App /\ p.plan = page.plan /\ p.stage = "plan"
    BY <1>1 DEF App, Stage
  <2>2. Show(p, req) /\ StillPressed
    BY <1>15 DEF BackToPlan
  <2> HIDE DEF p
  <2> QED BY <1>1, <1>3, <2>1, <2>2
<1>16. CASE CheckResult
  <2>1. Fetch("verify", "verifying").from.by # "transfer"
    BY DEF Fetch, Call, Caller
  <2> QED BY <1>2, <1>16, <2>1, CallSlot, FreshSlot DEF CheckResult
<1>17. CASE Reload
  <2> DEFINE q == Abandoned(req, Anybody)
             call == Fetch("inventory", "welcome")
  <2>1. Slots(q) /\ Runs(q) = {}
    BY <1>1, AbandonedSlots, NobodyRuns DEF Anybody
  <2>2. Free(q) # {} /\ req' = Sent(q, call) /\ call.from.by # "transfer"
    BY <1>17 DEF Reload, Fetch, Call, Caller
  <2> HIDE DEF q, call
  <2>3. Fewer(q)
    BY <2>1 DEF Fewer
  <2>4. Runs(req') = {}
    BY <2>1, <2>2, SentRuns DEF Runs, By
  <2>5. page'.stage = "welcome" /\ page'.plan = None
    BY <1>17 DEF Reload, NewApp
  <2> QED BY <2>4, <2>5, RunningRunsNext DEF Shown, RunIsShown, AskedAs, NoneBlocked,
       Unblocked
<1> QED
  BY <1>4, <1>5, <1>6, <1>8, <1>9, <1>10, <1>11, <1>12, <1>13, <1>14, <1>15, <1>16, <1>17 DEF User

LEMMA TakeShown == ASSUME Typed, Shown, NEW r \in Request, Take(r) PROVE Shown'
<1> USE PageAssumption
<1> DEFINE with(c) == [req EXCEPT ![r] = c]
<1>1. /\ page \in App /\ Slots(req)
      /\ Unblocked(page.plan)
  BY DEF Typed, Shown, NoneBlocked
\* The call has ended, and another one may follow it.
<1>2. ASSUME Answered(r) \/ Refused(r), NEW c, SlotOK(c), Fresh(c),
             c.from.by # "transfer" \/ c = Blank, NEW l, NEW p \in App, Render(p, l, with(c)),
             StillPressed, Unblocked(p.plan),
             p.stage = "transfer" => page.stage = "transfer" /\ p.dest = page.dest
      PROVE  Shown'
  <2>1. Slots(with(c)) /\ Fewer(with(c))
    BY <1>1, <1>2, IdleSlot, ReplacedSlots, ReplacedRuns
  <2> HIDE DEF with
  <2> QED BY <1>2, <2>1, StillInv
<1>3. ASSUME Answered(r) \/ Refused(r), NEW l, NEW p \in App,
             Render(p, l, [req EXCEPT ![r] = Blank]),
             StillPressed, Unblocked(p.plan),
             p.stage = "transfer" => page.stage = "transfer" /\ p.dest = page.dest
      PROVE  Shown'
  BY <1>2, <1>3, CallSlot, FreshSlot
<1> HIDE DEF with
<1>4. ASSUME Answered(r) \/ Refused(r), NEW l, Keep(l, [req EXCEPT ![r] = Blank]), StillPressed
      PROVE  Shown'
  BY <1>1, <1>3, <1>4 DEF Keep
<1>5. ASSUME Refused(r), Show([page EXCEPT !.error = TRUE], [req EXCEPT ![r] = Blank]),
             StillPressed
      PROVE  Shown'
  <2> DEFINE p == [page EXCEPT !.error = TRUE]
  <2>1. p \in App /\ p.plan = page.plan /\ p.stage = page.stage /\ p.dest = page.dest
    BY <1>1 DEF App
  <2>2. Render(p, local, [req EXCEPT ![r] = Blank])
    BY <1>5 DEF Show
  <2> HIDE DEF p
  <2> QED BY <1>1, <1>3, <1>5, <2>1, <2>2
<1>6. CASE TakeOpen(r)
  <2> DEFINE p == [page EXCEPT !.stage = "scanning"]
  <2>1. p \in App /\ p.plan = page.plan /\ p.stage = "scanning"
    BY <1>1 DEF App, Stage
  <2>2. \/ Answered(r) /\ Render(p, local, [req EXCEPT ![r] = Blank])
        \/ Refused(r) /\ \E l : Keep(l, [req EXCEPT ![r] = Blank])
    BY <1>6 DEF TakeOpen, Show
  <2>3. StillPressed
    BY <1>6 DEF TakeOpen
  <2> HIDE DEF p
  <2> QED BY <1>1, <1>3, <1>4, <2>1, <2>2, <2>3
<1>7. ASSUME Answered(r), Asked(r, "welcome") \/ Asked(r, "scanning"), Scanned(r), StillPressed
      PROVE  Shown'
  <2> DEFINE p == [page EXCEPT !.inventory = req[r].answer]
             c == Fetch("state", "scanned")
  <2>1. req[r].answer \in Root
    BY <1>7, AskedSlot DEF Answered, CallerOK, HandlerOK
  <2>2. p \in App /\ p.plan = page.plan /\ p.stage = page.stage /\ p.dest = page.dest
    BY <1>1, <2>1 DEF App
  <2>3. Render(p, local, with(c))
    BY <1>7 DEF Scanned, Show, with
  <2>4. SlotOK(c) /\ Fresh(c) /\ c.from.by # "transfer"
    BY CallSlot, FreshSlot DEF Fetch, Call, Caller
  <2> HIDE DEF p, c
  <2> QED BY <1>1, <1>2, <1>7, <2>2, <2>3, <2>4
<1>8. CASE TakeInventory(r)
  BY <1>4, <1>7, <1>8 DEF TakeInventory
<1>9. CASE TakeScan(r)
  BY <1>4, <1>7, <1>9 DEF TakeScan
<1>10. CASE TakeState(r)
  <2> DEFINE c == Fetch("plan", "scanned")
  <2>1. SlotOK(c) /\ Fresh(c) /\ c.from.by # "transfer"
    BY CallSlot, FreshSlot DEF Fetch, Call, Caller
  <2>2. CASE Answered(r) /\ Show(page, [req EXCEPT ![r] = c])
    <3>1. Render(page, local, with(c)) /\ StillPressed
      BY <1>10, <2>2 DEF Show, with, TakeState
    <3> HIDE DEF c
    <3> QED BY <1>1, <1>2, <2>1, <2>2, <3>1
  <2> QED BY <1>5, <1>10, <2>2 DEF TakeState
<1>11. ASSUME Answered(r), req[r].op = "plan", Asked(r, "scanned") \/ Asked(r, "rebuild")
       PROVE  /\ NewPlan(req[r].answer) \in Plan
              /\ Unblocked(NewPlan(req[r].answer))
  <2>1. req[r].answer \in Root
    BY <1>11, AskedSlot DEF Answered, HandlerOK
  <2>2. Default(req[r].answer) \cap Blocked[req[r].answer] = {}
    BY <2>1 DEF Default
  <2> QED BY <2>1, <2>2, DefaultPlan DEF Unblocked
<1>12. CASE TakeFirstPlan(r)
  <2> DEFINE plan == NewPlan(req[r].answer)
             p == [page EXCEPT !.plan = plan, !.stage = "plan"]
  <2>1. CASE Answered(r) /\ Show(p, [req EXCEPT ![r] = Blank])
    <3>1. plan \in Plan /\ Unblocked(plan)
      BY <1>11, <1>12, <2>1 DEF TakeFirstPlan
    <3> HIDE DEF plan
    <3>2. p \in App /\ p.plan = plan /\ p.stage = "plan"
      BY <1>1, <3>1 DEF App, Stage
    <3>3. Render(p, local, [req EXCEPT ![r] = Blank]) /\ StillPressed
      BY <1>12, <2>1 DEF Show, TakeFirstPlan
    <3> HIDE DEF p
    <3> QED BY <1>3, <2>1, <3>1, <3>2, <3>3
  <2> QED BY <1>5, <1>12, <2>1 DEF TakeFirstPlan
<1>13. CASE TakePlan(r)
  <2> DEFINE plan == NewPlan(req[r].answer)
             p == [page EXCEPT !.plan = plan]
             idle == IF req[r].from.own THEN [local EXCEPT !.busy = FALSE] ELSE local
  <2>1. StillPressed /\ req[r].op = "plan"
    BY <1>13, AskedSlot DEF TakePlan, CallerOK
  <2>2. CASE Answered(r) /\ Render(p, idle, [req EXCEPT ![r] = Blank])
    <3>1. plan \in Plan /\ Unblocked(plan)
      BY <1>11, <1>13, <2>1, <2>2 DEF TakePlan
    <3> HIDE DEF plan, idle
    <3>2. p \in App /\ p.plan = plan /\ p.stage = page.stage /\ p.dest = page.dest
      BY <1>1, <3>1 DEF App
    <3> HIDE DEF p
    <3> QED BY <1>3, <2>1, <2>2, <3>1, <3>2
  <2>3. CASE Refused(r) /\ Keep(idle, [req EXCEPT ![r] = Blank])
    BY <1>4, <2>1, <2>3
  <2> QED BY <1>13, <2>2, <2>3 DEF TakePlan
<1>14. CASE TakeRun(r)
  <2>1. ASSUME req[r].pc \in {"copied", "broken"}, NEW l, Keep(l, Abandoned(req, {"transfer"}))
        PROVE  Shown'
    <3>1. Slots(Abandoned(req, {"transfer"})) /\ Fewer(Abandoned(req, {"transfer"}))
      BY <1>1, AbandonedSlots, AbandonedRuns
    <3>2. Render(page, l, Abandoned(req, {"transfer"})) /\ StillPressed
      BY <1>14, <2>1 DEF Keep, TakeRun
    <3> QED BY <1>1, <3>1, <3>2, StillInv
  <2>2. ASSUME req[r].pc \in {"answered", "refused"}, NEW l, Keep(l, [req EXCEPT ![r] = Blank])
        PROVE  Shown'
    BY <1>4, <1>14, <2>2 DEF Answered, Refused, TakeRun
  <2> QED BY <1>14, <2>1, <2>2 DEF TakeRun
<1>15. CASE TakeVerify(r)
  <2> DEFINE p == [page EXCEPT !.result = req[r].answer, !.stage = "verify"]
  <2>1. CASE Answered(r) /\ Show(p, [req EXCEPT ![r] = Blank])
    <3>1. req[r].answer \in Verdict
      BY <1>15, <2>1, AskedSlot DEF TakeVerify, Answered, CallerOK, HandlerOK
    <3>2. p \in App /\ p.plan = page.plan /\ p.stage = "verify"
      BY <1>1, <3>1 DEF App, Stage
    <3>3. Render(p, local, [req EXCEPT ![r] = Blank]) /\ StillPressed
      BY <1>15, <2>1 DEF Show, TakeVerify
    <3> HIDE DEF p
    <3> QED BY <1>1, <1>3, <2>1, <3>2, <3>3
  <2> QED BY <1>5, <1>15, <2>1 DEF TakeVerify
<1>16. CASE Drop(r)
  <2>1. Fewer(req')
    BY <1>1, <1>16, ReplacedRuns DEF Drop
  <2> QED
    BY <1>16, <2>1, RunningRuns, RunningRunsNext DEF Drop, Fewer, Runs, Shown, RunIsShown,
       AskedAs, NoneBlocked, Mounted
<1> QED
  BY <1>6, <1>8, <1>9, <1>10, <1>12, <1>13, <1>14, <1>15, <1>16 DEF Take

\* The panel does not touch what a caller remembers of its call.
LEMMA PanelFrom ==
    ASSUME Typed, NEW r \in Request, Panel(r)
    PROVE  \A s \in Request : req'[s].op = req[s].op /\ req'[s].from = req[s].from
<1> DEFINE Same == \A s \in Request : req'[s].op = req[s].op /\ req'[s].from = req[s].from
<1>0. req[r].pc \notin {"none", "answered", "refused"}
  BY DEF Panel, Stall, Cancel, Block, Unblock, Serve, HandleOpen, HandleSnapshot, HandleState,
     ReadRoot, TryScanLock, ReadDisk, StoreReading, HandleRun, Copy, EndRun, HandleVerify, At
<1>1. req[r] \in Made /\ req = [s \in Request |-> req[s]]
  BY <1>0, HandledSlot DEF Typed, Slots
<1>2. ASSUME NEW t, t.op = req[r].op, t.from = req[r].from, req' = [req EXCEPT ![r] = t]
      PROVE  Same
  BY <1>1, <1>2
<1> HIDE DEF Same
<1>3. \A answer : Answer(r, answer) => Same
  BY <1>1, <1>2 DEF Answer, Made
<1>4. Refuse(r) => Same
  BY <1>1, <1>2 DEF Refuse, Made
<1>5. \A pc : Goto(r, pc) => Same
  BY <1>1, <1>2 DEF Goto, Made
<1>6. ReadRoot(r) => Same
  BY <1>1, <1>2, <1>4 DEF ReadRoot, Made
<1>7. ReadDisk(r) => Same
  BY <1>1, <1>2, <1>4 DEF ReadDisk, Made
<1>8. Copy(r) => Same
  BY <1>1, <1>2, <1>5 DEF Copy, Made
<1>9. Same
  BY <1>3, <1>4, <1>5, <1>6, <1>7, <1>8 DEF Panel, Stall, Cancel, Block, Unblock, Serve,
     HandleOpen, HandleSnapshot, HandleState, TryScanLock, StoreReading, HandleRun, EndRun,
     HandleVerify
<1> QED BY <1>9 DEF Same

LEMMA PanelRuns == ASSUME Typed, NEW r \in Request, Panel(r) PROVE Fewer(req')
BY PanelFrom DEF Fewer, Runs, By

LEMMA SameShown ==
    ASSUME Shown, UNCHANGED <<page, pressed>>, Fewer(req')
    PROVE  Shown'
<1>1. /\ AskedAs' /\ NoneBlocked' /\ Mounted(page') = Mounted(page)
      /\ page'.plan = page.plan /\ page'.dest = page.dest
  BY DEF Shown, AskedAs, NoneBlocked
<1> QED
  BY <1>1, RunningRuns, RunningRunsNext DEF Shown, RunIsShown, Fewer, Runs, Mounted

LEMMA InitShown == Init => Shown
<1> SUFFICES ASSUME Init PROVE Shown
  OBVIOUS
<1>1. \A r \in Request : ~Running(r)
  BY DEF Init, Sent, Blank, Fetch, Call, Caller, Running, Asked
<1> QED BY <1>1 DEF Init, NewApp, Shown, RunIsShown, AskedAs, NoneBlocked,
       Unblocked

LEMMA AlwaysShown == Spec => [](Typed /\ Shown)
<1>1. Typed /\ Shown /\ [Next]_vars => Shown'
  <2> SUFFICES ASSUME Typed, Shown, [Next]_vars PROVE Shown'
    OBVIOUS
  <2>1. CASE UNCHANGED vars
    BY <2>1, KeptRuns, SameShown DEF vars, Fewer
  <2>2. ASSUME NEW r \in Request, Panel(r) PROVE Shown'
    BY <2>2, PanelRuns, SameShown DEF Panel
  <2>3. ASSUME NEW r \in Root, Change(r) /\ UNCHANGED <<page, local, pressed>> PROVE Shown'
    BY <2>3, ChangeSlots, SameShown DEF Fewer, Runs, By
  <2> QED BY <2>1, <2>2, <2>3, UserShown, TakeShown DEF Next
<1> QED BY <1>1, InitShown, AlwaysTyped, PTL DEF Spec

-----------------------------------------------------------------------------

\* The page listens to one transfer at most, shows it, and what the panel was
\* sent for it is the plan and the destination the page has now: whatever comes
\* in late and changes one of them aborts the transfer (Transfer.tsx:50).
THEOREM ShownRunIsShown == Spec => []RunIsShown
<1>1. Shown => RunIsShown
  BY DEF Shown
<1> QED BY <1>1, AlwaysShown, PTL

\* The transfer under way is the preview or the copy that was asked for, also
\* when a late plan has started it again (Plan.tsx:274-287).
THEOREM ShownAsPressed == Spec => []AsPressed
<1>1. Typed /\ Shown => AsPressed
  <2> SUFFICES ASSUME Typed, Shown, NEW r \in Request, Running(r)
               PROVE  req[r].from.dest.dryRun = pressed
    BY DEF AsPressed
  <2>1. Mounted(page) = "transfer" /\ req[r].from.dest = page.dest
    BY DEF Shown, RunIsShown
  <2>2. page.stage = "transfer"
    BY <2>1 DEF Mounted
  <2> QED BY <2>1, <2>2 DEF Shown, AskedAs
<1> QED BY <1>1, AlwaysShown, PTL

\* No transfer is sent a world whose system is not installed (Plan.tsx:97,
\* Worlds.tsx:68): no switch of either tab, and no new plan, brings one in.
THEOREM ShownBlockedStays == Spec => []BlockedStays
<1>1. Typed /\ Shown => BlockedStays
  <2> SUFFICES ASSUME Typed, Shown, NEW r \in Request, Running(r)
               PROVE  req[r].from.plan.taken \cap Blocked[req[r].from.plan.of] = {}
    BY DEF BlockedStays
  <2>1. Mounted(page) = "transfer" /\ req[r].from.plan = page.plan
    BY DEF Shown, RunIsShown
  <2>2. page.plan # None
    BY <2>1 DEF Mounted
  <2> QED BY <2>1, <2>2 DEF Shown, NoneBlocked, Unblocked
<1> QED BY <1>1, AlwaysShown, PTL
=============================================================================
