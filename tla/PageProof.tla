------------------------------ MODULE PageProof ------------------------------
(***************************************************************************)
(* The types of the page and the panel under it, and what the panel's two  *)
(* locks are for, for any installations, plans, destinations and number of *)
(* requests.  The page is a caller among others here: all that the panel   *)
(* sees of a step of the page is PageStep.                                 *)
(***************************************************************************)
EXTENDS Page, TLAPS

-----------------------------------------------------------------------------
(* What a slot can hold.                                                   *)

\* Who makes which call, and what is remembered of it.
CallerOK(op, from) ==
    /\ from.by = "choose"    => op = "open"
    /\ from.by = "welcome"   => op = "inventory"
    /\ from.by = "scanning"  => op = "scan"
    /\ from.by = "scanned"   => op \in {"state", "plan"}
    /\ from.by = "rebuild"   => op = "plan"
    /\ from.by = "verifying" => op = "verify"
    /\ from.by = "transfer"  => op = "run" /\ from.plan \in Plan /\ from.dest \in Destination

\* Which steps a handler has, and what it has in hand at each.
HandlerOK(s) ==
    /\ s.pc \in {"root", "lock", "read", "store"} => s.op \in {"scan", "state"}
    /\ s.pc \in {"copy", "blocked", "copied", "broken"} => s.op = "run"
    /\ s.op = "open" /\ s.pc = "sent" => s.root \in Root
    /\ s.pc \in {"lock", "read", "store"} => s.root \in Root
    /\ s.pc = "store" => s.answer \in Reading /\ s.answer.root = s.root
    /\ s.pc \notin {"store", "answered"} => s.answer = None
    /\ s.pc = "answered" =>
          IF s.op \in {"open", "run"} THEN s.answer = None
          ELSE IF s.op = "verify" THEN s.answer \in Verdict
          ELSE s.answer \in Root

Made == [op : Op \ {"none"}, pc : Pc \ {"none"}, root : Root \cup {None},
         answer : Reading \cup Verdict \cup Root \cup {None}, from : From]

SlotOK(s) == s = Blank \/ (s \in Made /\ CallerOK(s.op, s.from) /\ HandlerOK(s))

Slots(q) == q = [r \in Request |-> q[r]] /\ \A r \in Request : SlotOK(q[r])

Served == /\ root \in Root \cup {None}
          /\ last \in Reading \cup {None}
          /\ scanLock \in Request \cup {None}
          /\ runLock \in Request \cup {None}

Typed == Served /\ Slots(req) /\ page \in App /\ local \in Local /\ pressed \in BOOLEAN

LEMMA BlankSlot ==
    ASSUME NEW s, SlotOK(s)
    PROVE  /\ s.op = "none" <=> s = Blank
           /\ s.pc = "none" <=> s = Blank
BY DEF SlotOK, Made, Blank

LEMMA CallSlot ==
    /\ \A r \in Root : SlotOK(OpenCall(r))
    /\ SlotOK(Fetch("inventory", "welcome")) /\ SlotOK(Fetch("scan", "scanning"))
    /\ SlotOK(Fetch("state", "scanned")) /\ SlotOK(Fetch("plan", "scanned"))
    /\ SlotOK(Fetch("plan", "rebuild")) /\ SlotOK(Fetch("verify", "verifying"))
    /\ SlotOK(Blank)
BY DEF SlotOK, OpenCall, Fetch, Call, Caller, Made, CallerOK, HandlerOK, Op, Pc, From

LEMMA RunSlot ==
    ASSUME NEW p \in App, p.plan \in Plan
    PROVE  SlotOK(RunCall(p))
<1>1. p.dest \in Destination
  BY DEF App
<1> QED BY <1>1 DEF SlotOK, RunCall, Call, Made, CallerOK, HandlerOK, Op, Pc, From

LEMMA DisownedSlot ==
    ASSUME NEW s, SlotOK(s), s.op # "none"
    PROVE  SlotOK([s EXCEPT !.from.own = FALSE])
<1>1. s \in Made /\ CallerOK(s.op, s.from) /\ HandlerOK(s)
  BY DEF SlotOK, Blank
<1> DEFINE f == [s.from EXCEPT !.own = FALSE]
           t == [s EXCEPT !.from = f]
<1>2. s.from \in From
  BY <1>1 DEF Made
<1>3. f \in From /\ f.by = s.from.by /\ f.plan = s.from.plan /\ f.dest = s.from.dest
  BY <1>2 DEF From
<1>4. t \in Made /\ t.op = s.op /\ t.pc = s.pc /\ t.root = s.root /\ t.answer = s.answer
      /\ t.from = f
  BY <1>1, <1>3 DEF Made
<1>5. CallerOK(t.op, t.from) /\ HandlerOK(t)
  BY <1>1, <1>3, <1>4 DEF CallerOK, HandlerOK
<1>6. [s EXCEPT !.from.own = FALSE] = t
  OBVIOUS
<1> QED BY <1>4, <1>5, <1>6 DEF SlotOK

LEMMA AbandonedSlot ==
    ASSUME NEW s, SlotOK(s), s.op # "none"
    PROVE  SlotOK([s EXCEPT !.from = Caller("nobody")])
<1>1. s \in Made /\ CallerOK(s.op, s.from) /\ HandlerOK(s)
  BY DEF SlotOK, Blank
<1> DEFINE f == Caller("nobody")
           t == [s EXCEPT !.from = f]
<1>3. f \in From /\ f.by = "nobody"
  BY DEF From, Caller
<1>4. t \in Made /\ t.op = s.op /\ t.pc = s.pc /\ t.root = s.root /\ t.answer = s.answer
      /\ t.from = f
  BY <1>1, <1>3 DEF Made
<1>5. CallerOK(t.op, t.from) /\ HandlerOK(t)
  BY <1>1, <1>3, <1>4 DEF CallerOK, HandlerOK
<1> QED BY <1>4, <1>5 DEF SlotOK

\* What the page does to a slot: its caller is forgotten, or a call that has
\* ended, or that only looks, makes room for a new one.
Untouched(a, b) == b.op = a.op /\ b.pc = a.pc /\ b.root = a.root /\ b.answer = a.answer
Idle(a)  == a = Blank \/ a.pc \in {"answered", "refused"} \/ a.op \in {"inventory", "plan", "verify"}
Fresh(b) == b = Blank \/ b.pc = "sent"
Alike(a, b) == Untouched(a, b) \/ (Idle(a) /\ Fresh(b))

LEMMA AlikeTwice ==
    ASSUME NEW a, NEW b, NEW c, SlotOK(a), SlotOK(b), SlotOK(c), Alike(a, b), Alike(b, c)
    PROVE  Alike(a, c)
BY BlankSlot DEF Alike, Untouched, Idle, Fresh

LEMMA DisownedSlots ==
    ASSUME NEW x, Slots(x), NEW who
    PROVE  /\ Slots(Disowned(x, who))
           /\ \A r \in Request : Alike(x[r], Disowned(x, who)[r])
<1> SUFFICES ASSUME NEW r \in Request
             PROVE  SlotOK(Disowned(x, who)[r]) /\ Alike(x[r], Disowned(x, who)[r])
  BY DEF Slots, Disowned
<1>1. SlotOK(x[r])
  BY DEF Slots
<1>2. CASE By(x, r, who)
  <2>1. x[r].op # "none" /\ x[r] \in Made
    BY <1>1, <1>2 DEF By, SlotOK, Blank
  <2>2. Untouched(x[r], [x[r] EXCEPT !.from.own = FALSE])
    BY <2>1 DEF Untouched, Made
  <2> QED BY <1>1, <1>2, <2>1, <2>2, DisownedSlot DEF Disowned, Alike
<1>3. CASE ~By(x, r, who)
  BY <1>1, <1>3 DEF Disowned, Alike, Untouched
<1> QED BY <1>2, <1>3

LEMMA AbandonedSlots ==
    ASSUME NEW x, Slots(x), NEW who
    PROVE  /\ Slots(Abandoned(x, who))
           /\ \A r \in Request : Alike(x[r], Abandoned(x, who)[r])
<1> SUFFICES ASSUME NEW r \in Request
             PROVE  SlotOK(Abandoned(x, who)[r]) /\ Alike(x[r], Abandoned(x, who)[r])
  BY DEF Slots, Abandoned
<1>1. SlotOK(x[r])
  BY DEF Slots
<1>2. CASE ~By(x, r, who)
  BY <1>1, <1>2 DEF Abandoned, Alike, Untouched
<1>3. CASE By(x, r, who) /\ Abandoned(x, who)[r] = Blank /\ Idle(x[r])
  BY <1>3, CallSlot DEF Alike, Fresh
<1>4. CASE By(x, r, who) /\ Abandoned(x, who)[r] = [x[r] EXCEPT !.from = Caller("nobody")]
  <2>1. x[r].op # "none" /\ x[r] \in Made
    BY <1>1, <1>4 DEF By, SlotOK, Blank
  <2>2. Untouched(x[r], [x[r] EXCEPT !.from = Caller("nobody")])
    BY <2>1 DEF Untouched, Made
  <2> QED BY <1>1, <1>4, <2>1, <2>2, AbandonedSlot DEF Alike
<1> QED BY <1>2, <1>3, <1>4 DEF Abandoned, Idle

LEMMA CleanedSlots ==
    ASSUME NEW p, NEW q, Slots(q)
    PROVE  /\ Slots(CleanedUp(p, q))
           /\ \A r \in Request : Alike(q[r], CleanedUp(p, q)[r])
<1>1. \A r \in Request : Alike(q[r], q[r])
  BY DEF Alike, Untouched
<1>2. CASE CleanedUp(p, q) = q
  BY <1>1, <1>2
<1>3. CASE \E who : CleanedUp(p, q) = Abandoned(q, who)
  BY <1>3, AbandonedSlots
<1>4. CASE CleanedUp(p, q)
             = Abandoned(Disowned(q, {"choose", "scanning", "rebuild"}), {"transfer"})
  <2> DEFINE x == Disowned(q, {"choose", "scanning", "rebuild"})
             y == Abandoned(x, {"transfer"})
  <2>1. Slots(x) /\ \A r \in Request : Alike(q[r], x[r])
    BY DisownedSlots
  <2>2. Slots(y) /\ \A r \in Request : Alike(x[r], y[r])
    BY <2>1, AbandonedSlots
  <2> HIDE DEF x, y
  <2>3. \A r \in Request : Alike(q[r], y[r])
    BY <2>1, <2>2, AlikeTwice DEF Slots
  <2> QED BY <1>4, <2>2, <2>3 DEF x, y
<1> QED BY <1>2, <1>3, <1>4 DEF CleanedUp

LEMMA SentSlots ==
    ASSUME NEW q, Slots(q), NEW call, SlotOK(call), Fresh(call), Free(q) # {}
    PROVE  /\ Slots(Sent(q, call))
           /\ \A r \in Request : Alike(q[r], Sent(q, call)[r])
<1> DEFINE f == CHOOSE r \in Free(q) : TRUE
<1>1. f \in Request /\ q[f] = Blank
  BY DEF Free
<1> HIDE DEF f
<1>2. Sent(q, call) = [q EXCEPT ![f] = call]
  BY DEF Sent, f
<1> QED BY <1>1, <1>2 DEF Slots, Alike, Untouched, Idle

LEMMA TrimmedApp ==
    ASSUME NEW p \in App
    PROVE  /\ Trimmed(p) \in App
           /\ Trimmed(p).stage = p.stage /\ Trimmed(p).error = p.error
           /\ Trimmed(p).inventory = p.inventory
           /\ Trimmed(p).plan = None <=> p.plan = None
           /\ p.plan \in Plan /\ p.plan # None => /\ Trimmed(p).plan.taken = p.plan.taken
                                                /\ Trimmed(p).plan.of = p.plan.of
           /\ p.stage = "verify" => Trimmed(p).result = p.result
           /\ p.stage = "transfer" => Trimmed(p).plan = p.plan /\ Trimmed(p).dest = p.dest
<1> DEFINE result == IF p.stage = "verify" THEN p.result ELSE None
           dest   == [p.dest EXCEPT !.dryRun = @ /\ p.stage = "transfer"]
           plan   == IF p.plan = None \/ p.stage = "transfer" THEN p.plan
                     ELSE [p.plan EXCEPT !.other = FALSE]
<1>1. result \in Verdict \cup {None}
  BY DEF App
<1>2. dest \in Destination /\ (p.stage = "transfer" => dest = p.dest)
  <2>1. p.dest \in Destination
    BY DEF App
  <2>2. (p.dest.dryRun /\ p.stage = "transfer") \in BOOLEAN
    OBVIOUS
  <2>3. dest \in Destination
    BY <2>1, <2>2 DEF Destination
  <2>4. ASSUME p.stage = "transfer" PROVE dest = p.dest
    BY <2>1, <2>4 DEF Destination
  <2> QED BY <2>3, <2>4
<1>3. plan \in Plan \cup {None} /\ (plan = None <=> p.plan = None)
  <2>1. p.plan \in Plan => [p.plan EXCEPT !.other = FALSE] \in Plan
    BY DEF Plan
  <2> QED BY <2>1, PageAssumption DEF App
<1>4. p.plan \in Plan /\ p.plan # None => plan.taken = p.plan.taken /\ plan.of = p.plan.of
  BY DEF Plan
<1> HIDE DEF result, dest, plan
<1>5. Trimmed(p) = [p EXCEPT !.result = result, !.dest = dest, !.plan = plan]
  BY DEF Trimmed, result, dest, plan
<1>6. p = [stage |-> p.stage, inventory |-> p.inventory, plan |-> p.plan, dest |-> p.dest,
           result |-> p.result, error |-> p.error]
  BY DEF App
<1>7. Trimmed(p) = [stage |-> p.stage, inventory |-> p.inventory, plan |-> plan,
                    dest |-> dest, result |-> result, error |-> p.error]
  BY <1>5, <1>6
<1> QED BY <1>1, <1>2, <1>3, <1>4, <1>7 DEF App, result, plan

PageStep ==
    /\ UNCHANGED sessionVars
    /\ page' \in App /\ local' \in Local
    /\ Slots(req') /\ \A r \in Request : Alike(req[r], req'[r])

LEMMA RenderStep ==
    ASSUME Typed, NEW p \in App, NEW l \in Local,
           NEW q, Slots(q), \A r \in Request : Alike(req[r], q[r]), Render(p, l, q)
    PROVE  PageStep
<1> DEFINE cleaned == CleanedUp(p, q)
<1>1. Slots(cleaned) /\ \A r \in Request : Alike(q[r], cleaned[r])
  BY CleanedSlots
<1>2. page' \in App
  BY TrimmedApp DEF Render
<1>3. local' \in Local
  <2>1. NewLocal \in Local /\ [l EXCEPT !.stopped = FALSE] \in Local
    BY DEF NewLocal, Local
  <2> QED BY <2>1 DEF Render
<1>4. Slots(req') /\ \A r \in Request : Alike(q[r], req'[r])
  <2>1. CASE req' = cleaned
    BY <1>1, <2>1
  <2>2. ASSUME NEW call \in Effects(p), Free(cleaned) # {}, req' = Sent(cleaned, call)
        PROVE  Slots(req') /\ \A r \in Request : Alike(q[r], req'[r])
    <3>1. SlotOK(call) /\ Fresh(call)
      <4>1. CASE call = Fetch("inventory", "welcome")
        BY <4>1, CallSlot DEF Fresh, Fetch, Call
      <4>2. CASE call = Fetch("scan", "scanning")
        BY <4>2, CallSlot DEF Fresh, Fetch, Call
      <4>3. CASE call = RunCall(p) /\ Mounted(p) = "transfer"
        <5>1. p.plan \in Plan
          BY <4>3 DEF Mounted, App
        <5> QED BY <4>3, <5>1, RunSlot DEF Fresh, RunCall, Call
      <4>4. call = RunCall(p) => Mounted(p) = "transfer"
        BY <2>2 DEF Effects, RunCall, Call
      <4> QED BY <2>2, <4>1, <4>2, <4>3, <4>4 DEF Effects
    <3> HIDE DEF cleaned
    <3>2. Slots(req') /\ \A r \in Request : Alike(cleaned[r], req'[r])
      BY <1>1, <2>2, <3>1, SentSlots
    <3> QED BY <1>1, <3>2, AlikeTwice DEF Slots
  <2> QED BY <2>1, <2>2 DEF Render
<1>5. \A r \in Request : Alike(req[r], req'[r])
  BY <1>4, AlikeTwice DEF Slots, Typed
<1> QED BY <1>2, <1>3, <1>4, <1>5 DEF PageStep, Render

LEMMA KeptSlots == Slots(req) => \A r \in Request : Alike(req[r], req[r])
BY DEF Alike, Untouched

LEMMA ReplacedSlots ==
    ASSUME Slots(req), NEW r \in Request, Idle(req[r]), NEW c, SlotOK(c), Fresh(c)
    PROVE  /\ Slots([req EXCEPT ![r] = c])
           /\ \A s \in Request : Alike(req[s], [req EXCEPT ![r] = c][s])
BY DEF Slots, Alike, Untouched

LEMMA DefaultPlan ==
    ASSUME NEW r \in Root
    PROVE  NewPlan(r) \in Plan /\ NewPlan(r).taken = Default(r) /\ NewPlan(r).of = r
<1>1. Default(r) \in SUBSET (World \cup Folder \cup Package)
  BY PageAssumption DEF Default
<1>2. (IF page.plan = None THEN FALSE ELSE ~page.plan.other) \in BOOLEAN
  OBVIOUS
<1> QED BY <1>1, <1>2 DEF NewPlan, Plan

-----------------------------------------------------------------------------
(* Each step of the page.                                                  *)

LEMMA PageType ==
    ASSUME Typed
    PROVE  /\ page.stage \in Stage /\ page.inventory \in Root \cup {None}
           /\ page.plan \in Plan \cup {None} /\ page.dest \in Destination
           /\ page.result \in Verdict \cup {None} /\ page.error \in BOOLEAN
           /\ Mounted(page) \in {"plan", "transfer"} => page.plan \in Plan
BY DEF Typed, App, Mounted

LEMMA LocalType ==
    ASSUME Typed
    PROVE  /\ \A b \in BOOLEAN : /\ [local EXCEPT !.busy = b] \in Local
                                 /\ [local EXCEPT !.failed = b] \in Local
                                 /\ [local EXCEPT !.done = b] \in Local
                                 /\ [local EXCEPT !.stopped = b] \in Local
           /\ \A tab \in {"worlds", "assets"} :
                 [local EXCEPT !.tab = tab, !.busy = FALSE] \in Local
BY DEF Typed, Local

\* What a caller can know of its call.
LEMMA AskedSlot ==
    ASSUME Typed, NEW r \in Request, NEW by, Asked(r, by)
    PROVE  /\ req[r] \in Made /\ req[r].from.by = by
           /\ CallerOK(req[r].op, req[r].from) /\ HandlerOK(req[r])
BY DEF Typed, Slots, Asked, SlotOK, Blank

LEMMA FreshSlot ==
    /\ \A r \in Root : Fresh(OpenCall(r))
    /\ \A op, by : Fresh(Fetch(op, by))
    /\ Fresh(Blank)
BY DEF Fresh, OpenCall, Fetch, Call

LEMMA IdleSlot ==
    /\ \A r \in Request : Answered(r) \/ Refused(r) => Idle(req[r])
    /\ Idle(Blank)
BY DEF Answered, Refused, Idle

LEMMA UserStep == ASSUME Typed, User PROVE PageStep
<1> USE PageAssumption
<1>1. ASSUME NEW q, Free(req) # {}, NEW l \in Local, NEW call, SlotOK(call), Fresh(call),
             q = Sent(req, call), Keep(l, q)
      PROVE  PageStep
  <2>1. Slots(q) /\ \A r \in Request : Alike(req[r], q[r])
    BY <1>1, SentSlots DEF Typed
  <2> QED BY <1>1, <2>1, RenderStep DEF Keep, Typed
<1>2. ASSUME NEW p \in App, Show(p, req) PROVE PageStep
  BY <1>2, RenderStep, KeptSlots DEF Show, Typed
<1>3. ASSUME NEW r \in Root, Choose(r) PROVE PageStep
  BY <1>1, <1>3, CallSlot, FreshSlot, LocalType DEF Choose
<1>4. CASE AnotherFolder
  <2>1. [page EXCEPT !.error = FALSE, !.stage = "welcome"] \in App
    BY DEF Typed, App, Stage
  <2> QED BY <1>2, <1>4, <2>1 DEF AnotherFolder
<1>5. ASSUME NEW tab \in {"worlds", "assets"}, SelectTab(tab) PROVE PageStep
  <2> DEFINE q == Disowned(req, {"rebuild"})
             l == [local EXCEPT !.tab = tab, !.busy = FALSE]
  <2>1. Slots(q) /\ \A r \in Request : Alike(req[r], q[r])
    BY DisownedSlots DEF Typed
  <2>2. l \in Local
    BY LocalType
  <2>3. Render(page, l, q)
    BY <1>5 DEF SelectTab, Keep
  <2> HIDE DEF q, l
  <2> QED BY <2>1, <2>2, <2>3, RenderStep DEF Typed
<1>6. ASSUME NEW things \in SUBSET (World \cup Folder \cup Package), NEW take \in BOOLEAN,
             InTab("worlds") \/ InTab("assets"), Decide(things, take)
      PROVE  PageStep
  <2> DEFINE next == IF take THEN page.plan.taken \cup things ELSE page.plan.taken \ things
  <2>1. page.plan \in Plan
    BY <1>6, PageType DEF InTab
  <2>2. next \in SUBSET (World \cup Folder \cup Package)
    BY <2>1 DEF Plan
  <2>3. [page.plan EXCEPT !.taken = next] \in Plan
    BY <2>1, <2>2 DEF Plan
  <2>4. [page EXCEPT !.plan.taken = next] \in App
    BY <2>3 DEF Typed, App
  <2>5. Show([page EXCEPT !.plan.taken = next], req)
    BY <1>6 DEF Decide
  <2> QED BY <1>2, <2>4, <2>5
<1>7. ASSUME NEW w \in World, NEW take \in BOOLEAN, SwitchCard(w, take) \/ SwitchWorld(w, take)
      PROVE  PageStep
  BY <1>6, <1>7 DEF SwitchCard, SwitchWorld
<1>8. ASSUME NEW f \in Folder, NEW take \in BOOLEAN, SwitchFolder(f, take) PROVE PageStep
  BY <1>6, <1>8 DEF SwitchFolder
<1>9. ASSUME NEW p \in Package, NEW take \in BOOLEAN, SwitchPackage(p, take) PROVE PageStep
  BY <1>6, <1>9 DEF SwitchPackage
<1>10. ASSUME NEW to \in Dest, TypeDestination(to) PROVE PageStep
  <2>1. [page.dest EXCEPT !.to = to] \in Destination
    BY PageType DEF Destination
  <2>2. [page EXCEPT !.dest.to = to] \in App
    BY <2>1 DEF Typed, App
  <2> QED BY <1>2, <1>10, <2>2 DEF TypeDestination
<1>11. CASE Rebuild
  BY <1>1, <1>11, CallSlot, FreshSlot, LocalType DEF Rebuild
<1>12. ASSUME NEW dryRun \in BOOLEAN, Press(dryRun) PROVE PageStep
  <2>1. [page.dest EXCEPT !.dryRun = dryRun] \in Destination
    BY PageType DEF Destination
  <2>2. [page EXCEPT !.dest = [page.dest EXCEPT !.dryRun = dryRun], !.stage = "transfer"] \in App
    BY <2>1 DEF Typed, App, Stage
  <2> QED BY <1>2, <1>12, <2>2 DEF Press
<1>13. CASE Stop
  <2>1. Slots(Abandoned(req, {"transfer"}))
        /\ \A r \in Request : Alike(req[r], Abandoned(req, {"transfer"})[r])
    BY AbandonedSlots DEF Typed
  <2>2. Render(page, [local EXCEPT !.stopped = TRUE], Abandoned(req, {"transfer"}))
    BY <1>13 DEF Stop, Keep
  <2> QED BY <2>1, <2>2, RenderStep, LocalType DEF Typed
<1>14. CASE BackToPlan
  <2>1. [page EXCEPT !.stage = "plan"] \in App
    BY DEF Typed, App, Stage
  <2> QED BY <1>2, <1>14, <2>1 DEF BackToPlan
<1>15. CASE CheckResult
  BY <1>1, <1>15, CallSlot, FreshSlot DEF CheckResult, Typed
<1>16. CASE Reload
  <2> DEFINE q == Abandoned(req, Anybody)
  <2>1. Slots(q) /\ \A r \in Request : Alike(req[r], q[r])
    BY AbandonedSlots DEF Typed
  <2>2. Free(q) # {} /\ req' = Sent(q, Fetch("inventory", "welcome"))
    BY <1>16 DEF Reload
  <2> HIDE DEF q
  <2>3. Slots(req') /\ \A r \in Request : Alike(q[r], req'[r])
    BY <2>1, <2>2, SentSlots, CallSlot, FreshSlot
  <2>4. \A r \in Request : Alike(req[r], req'[r])
    BY <2>1, <2>3, AlikeTwice DEF Slots, Typed
  <2>5. NewApp \in App /\ NewLocal \in Local
    BY DEF NewApp, App, Stage, Destination, NewLocal, Local
  <2> QED BY <1>16, <2>3, <2>4, <2>5 DEF Reload, PageStep
<1> QED
  BY <1>3, <1>4, <1>5, <1>7, <1>8, <1>9, <1>10, <1>11, <1>12, <1>13, <1>14, <1>15, <1>16 DEF User

LEMMA TakeStep == ASSUME Typed, NEW r \in Request, Take(r) PROVE PageStep
<1> DEFINE without  == [req EXCEPT ![r] = Blank]
           with(c)  == [req EXCEPT ![r] = c]
<1>1. ASSUME Idle(req[r]), NEW p \in App, NEW l \in Local, NEW c, SlotOK(c), Fresh(c),
             Render(p, l, with(c))
      PROVE  PageStep
  <2>1. Slots(with(c)) /\ \A s \in Request : Alike(req[s], with(c)[s])
    BY <1>1, ReplacedSlots DEF Typed
  <2> HIDE DEF with
  <2> QED BY <1>1, <2>1, RenderStep
<1>2. ASSUME Idle(req[r]), NEW p \in App, NEW l \in Local, Render(p, l, without) PROVE PageStep
  BY <1>1, <1>2, CallSlot, FreshSlot
<1> HIDE DEF without, with
<1>3. page \in App /\ local \in Local
  BY DEF Typed
<1>4. CASE TakeOpen(r)
  <2>1. [page EXCEPT !.stage = "scanning"] \in App
    BY DEF Typed, App, Stage
  <2>2. CASE Answered(r)
             /\ Show([page EXCEPT !.stage = "scanning"], [req EXCEPT ![r] = Blank])
    BY <1>2, <1>3, <2>1, <2>2, IdleSlot DEF Show, without
  <2>3. CASE Refused(r)
             /\ Keep(IF req[r].from.own THEN [local EXCEPT !.busy = FALSE] ELSE local,
                     [req EXCEPT ![r] = Blank])
    BY <1>2, <1>3, <2>3, IdleSlot, LocalType DEF Keep, without
  <2> QED BY <1>4, <2>2, <2>3 DEF TakeOpen
<1>5. ASSUME Answered(r), Asked(r, "welcome") \/ Asked(r, "scanning"), Scanned(r) PROVE PageStep
  <2>1. req[r].answer \in Root
    BY <1>5, AskedSlot DEF Answered, CallerOK, HandlerOK
  <2>2. [page EXCEPT !.inventory = req[r].answer] \in App
    BY <2>1 DEF Typed, App
  <2>3. Render([page EXCEPT !.inventory = req[r].answer], local, with(Fetch("state", "scanned")))
    BY <1>5 DEF Scanned, Show, with
  <2> QED BY <1>1, <1>3, <1>5, <2>2, <2>3, IdleSlot, CallSlot, FreshSlot
<1>6. CASE TakeInventory(r)
  <2>1. CASE Refused(r) /\ Keep(local, [req EXCEPT ![r] = Blank])
    BY <1>2, <1>3, <2>1, IdleSlot DEF Keep, without
  <2> QED BY <1>5, <1>6, <2>1 DEF TakeInventory
<1>7. CASE TakeScan(r)
  <2>1. CASE Refused(r)
             /\ Keep(IF req[r].from.own THEN [local EXCEPT !.failed = TRUE] ELSE local,
                     [req EXCEPT ![r] = Blank])
    BY <1>2, <1>3, <2>1, IdleSlot, LocalType DEF Keep, without
  <2> QED BY <1>5, <1>7, <2>1 DEF TakeScan
<1>8. [page EXCEPT !.error = TRUE] \in App
  BY DEF Typed, App
<1>9. CASE TakeState(r)
  <2>1. CASE Answered(r) /\ Show(page, [req EXCEPT ![r] = Fetch("plan", "scanned")])
    BY <1>1, <1>3, <2>1, IdleSlot, CallSlot, FreshSlot DEF Show, with
  <2>2. CASE Refused(r) /\ Show([page EXCEPT !.error = TRUE], [req EXCEPT ![r] = Blank])
    BY <1>2, <1>3, <1>8, <2>2, IdleSlot DEF Show, without
  <2> QED BY <1>9, <2>1, <2>2 DEF TakeState
<1>10. ASSUME Answered(r), req[r].op = "plan", Asked(r, "scanned") \/ Asked(r, "rebuild")
       PROVE  NewPlan(req[r].answer) \in Plan
  BY <1>10, AskedSlot, DefaultPlan DEF Answered, HandlerOK
<1>11. CASE TakeFirstPlan(r)
  <2>1. CASE Answered(r)
             /\ Show([page EXCEPT !.plan = NewPlan(req[r].answer), !.stage = "plan"],
                     [req EXCEPT ![r] = Blank])
    <3>1. [page EXCEPT !.plan = NewPlan(req[r].answer), !.stage = "plan"] \in App
      BY <1>10, <1>11, <2>1 DEF TakeFirstPlan, Typed, App, Stage
    <3> QED BY <1>2, <1>3, <2>1, <3>1, IdleSlot DEF Show, without
  <2>2. CASE Refused(r) /\ Show([page EXCEPT !.error = TRUE], [req EXCEPT ![r] = Blank])
    BY <1>2, <1>3, <1>8, <2>2, IdleSlot DEF Show, without
  <2> QED BY <1>11, <2>1, <2>2 DEF TakeFirstPlan
<1>12. CASE TakePlan(r)
  <2> DEFINE idle == IF req[r].from.own THEN [local EXCEPT !.busy = FALSE] ELSE local
  <2>1. idle \in Local
    BY <1>3, LocalType
  <2>2. CASE Answered(r)
             /\ Render([page EXCEPT !.plan = NewPlan(req[r].answer)], idle,
                       [req EXCEPT ![r] = Blank])
    <3>1. req[r].op = "plan"
      BY <1>12, AskedSlot DEF TakePlan, CallerOK
    <3>2. [page EXCEPT !.plan = NewPlan(req[r].answer)] \in App
      BY <1>10, <1>12, <2>2, <3>1 DEF TakePlan, Typed, App
    <3> HIDE DEF idle
    <3> QED BY <1>2, <2>1, <2>2, <3>2, IdleSlot DEF without
  <2>3. CASE Refused(r) /\ Keep(idle, [req EXCEPT ![r] = Blank])
    <3> HIDE DEF idle
    <3> QED BY <1>2, <1>3, <2>1, <2>3, IdleSlot DEF Keep, without
  <2> QED BY <1>12, <2>2, <2>3 DEF TakePlan
<1>13. CASE TakeRun(r)
  <2> DEFINE heard == IF req[r].pc \in {"copied", "broken"} THEN Abandoned(req, {"transfer"})
                      ELSE [req EXCEPT ![r] = Blank]
  <2>1. ASSUME req[r].pc \in {"copied", "broken", "answered", "refused"}, NEW l \in Local,
               Keep(l, heard)
        PROVE  PageStep
    <3>1. Slots(heard) /\ \A s \in Request : Alike(req[s], heard[s])
      <4>1. CASE req[r].pc \in {"copied", "broken"}
        BY <4>1, AbandonedSlots DEF Typed
      <4>2. CASE req[r].pc \in {"answered", "refused"}
        BY <4>2, ReplacedSlots, CallSlot, FreshSlot DEF Idle, Typed
      <4> QED BY <2>1, <4>1, <4>2
    <3> HIDE DEF heard
    <3> QED BY <1>3, <2>1, <3>1, RenderStep DEF Keep
  <2> QED BY <1>13, <2>1, LocalType DEF TakeRun
<1>14. CASE TakeVerify(r)
  <2>1. CASE Answered(r)
             /\ Show([page EXCEPT !.result = req[r].answer, !.stage = "verify"],
                     [req EXCEPT ![r] = Blank])
    <3>1. req[r].answer \in Verdict
      BY <1>14, <2>1, AskedSlot DEF TakeVerify, Answered, CallerOK, HandlerOK
    <3>2. [page EXCEPT !.result = req[r].answer, !.stage = "verify"] \in App
      BY <3>1 DEF Typed, App, Stage
    <3> QED BY <1>2, <1>3, <2>1, <3>2, IdleSlot DEF Show, without
  <2>2. CASE Refused(r) /\ Show([page EXCEPT !.error = TRUE], [req EXCEPT ![r] = Blank])
    BY <1>2, <1>3, <1>8, <2>2, IdleSlot DEF Show, without
  <2> QED BY <1>14, <2>1, <2>2 DEF TakeVerify
<1>15. CASE Drop(r)
  <2>1. Slots([req EXCEPT ![r] = Blank])
        /\ \A s \in Request : Alike(req[s], [req EXCEPT ![r] = Blank][s])
    BY <1>15, ReplacedSlots, IdleSlot, CallSlot, FreshSlot DEF Drop, Typed
  <2> QED BY <1>3, <1>15, <2>1 DEF Drop, PageStep
<1> QED
  BY <1>4, <1>6, <1>7, <1>9, <1>11, <1>12, <1>13, <1>14, <1>15 DEF Take

-----------------------------------------------------------------------------
(* Each step of the panel, and types.                                      *)

LEMMA ChangedSlots ==
    ASSUME Slots(req), NEW r \in Request, NEW t, SlotOK(t), req' = [req EXCEPT ![r] = t]
    PROVE  Slots(req')
BY DEF Slots

LEMMA HandledSlot ==
    ASSUME Typed, NEW r \in Request, req[r].pc \notin {"none", "answered", "refused"}
    PROVE  req[r] \in Made /\ HandlerOK(req[r]) /\ CallerOK(req[r].op, req[r].from)
BY DEF Typed, Slots, SlotOK, Blank

LEMMA SteppedSlots ==
    ASSUME Typed, NEW r \in Request, req[r] \in Made, CallerOK(req[r].op, req[r].from),
           NEW t \in Made, t.op = req[r].op, t.from = req[r].from, HandlerOK(t),
           req' = [req EXCEPT ![r] = t]
    PROVE  Slots(req')
<1>1. SlotOK(t)
  BY DEF SlotOK
<1> QED BY <1>1, ChangedSlots DEF Typed

LEMMA RefusedSlots ==
    ASSUME Typed, NEW r \in Request, req[r].pc \notin {"none", "answered", "refused"}, Refuse(r)
    PROVE  Slots(req')
<1> DEFINE t == [req[r] EXCEPT !.pc = "refused", !.root = None, !.answer = None]
<1>1. req[r] \in Made /\ CallerOK(req[r].op, req[r].from)
  BY HandledSlot
<1>2. t \in Made /\ t.op = req[r].op /\ t.from = req[r].from
      /\ t.pc = "refused" /\ t.answer = None
  BY <1>1 DEF Made, Pc
<1>3. req' = [req EXCEPT ![r] = t]
  BY DEF Refuse
<1> HIDE DEF t
<1>4. HandlerOK(t)
  BY <1>2 DEF HandlerOK
<1> QED BY <1>1, <1>2, <1>3, <1>4, SteppedSlots

LEMMA AnsweredSlots ==
    ASSUME Typed, NEW r \in Request, req[r].pc \notin {"none", "answered", "refused"},
           NEW answer,
           IF req[r].op \in {"open", "run"} THEN answer = None
           ELSE IF req[r].op = "verify" THEN answer \in Verdict ELSE answer \in Root,
           Answer(r, answer)
    PROVE  Slots(req')
<1> DEFINE t == [req[r] EXCEPT !.pc = "answered", !.root = None, !.answer = answer]
<1>1. req[r] \in Made /\ CallerOK(req[r].op, req[r].from)
  BY HandledSlot
<1>2. answer \in Reading \cup Verdict \cup Root \cup {None}
  OBVIOUS
<1>3. t \in Made /\ t.op = req[r].op /\ t.from = req[r].from
      /\ t.pc = "answered" /\ t.answer = answer
  BY <1>1, <1>2 DEF Made, Pc
<1>4. req' = [req EXCEPT ![r] = t]
  BY DEF Answer
<1> HIDE DEF t
<1>5. HandlerOK(t)
  BY <1>3 DEF HandlerOK
<1> QED BY <1>1, <1>3, <1>4, <1>5, SteppedSlots

\* A reading at work, and a run.
LEMMA ReadingSlots ==
    ASSUME Typed, NEW r \in Request, req[r].pc \notin {"none", "answered", "refused"},
           req[r].op \in {"scan", "state"},
           NEW t, NEW pc \in {"root", "lock", "read", "store"}, NEW x \in Root \cup {None},
           NEW answer \in Reading \cup {None},
           t = [req[r] EXCEPT !.pc = pc, !.root = x, !.answer = answer],
           pc # "root" => x \in Root,
           IF pc = "store" THEN answer \in Reading /\ answer.root = x ELSE answer = None,
           req' = [req EXCEPT ![r] = t]
    PROVE  Slots(req')
<1>1. req[r] \in Made /\ CallerOK(req[r].op, req[r].from)
  BY HandledSlot
<1>2. t \in Made /\ t.op = req[r].op /\ t.from = req[r].from
      /\ t.pc = pc /\ t.root = x /\ t.answer = answer
  BY <1>1 DEF Made, Pc
<1>3. HandlerOK(t)
  BY <1>2 DEF HandlerOK
<1> QED BY <1>1, <1>2, <1>3, SteppedSlots

LEMMA RunSlots ==
    ASSUME Typed, NEW r \in Request, req[r].pc \notin {"none", "answered", "refused"},
           req[r].op = "run",
           NEW t, NEW pc \in {"copy", "blocked", "copied", "broken"}, NEW x \in Root \cup {None},
           t = [req[r] EXCEPT !.pc = pc, !.root = x],
           req' = [req EXCEPT ![r] = t]
    PROVE  Slots(req')
<1>1. req[r] \in Made /\ CallerOK(req[r].op, req[r].from) /\ req[r].answer = None
  BY HandledSlot DEF HandlerOK
<1>2. t \in Made /\ t.op = req[r].op /\ t.from = req[r].from
      /\ t.pc = pc /\ t.root = x /\ t.answer = None
  BY <1>1 DEF Made, Pc
<1>3. HandlerOK(t)
  BY <1>2 DEF HandlerOK
<1> QED BY <1>1, <1>2, <1>3, SteppedSlots

LEMMA ServeStep == ASSUME Typed, NEW r \in Request, Serve(r) PROVE Served' /\ Slots(req')
<1> USE PanelSessionAssumption
<1>a. req[r].pc \notin {"none", "answered", "refused"}
      => /\ req[r] \in Made /\ HandlerOK(req[r])
         /\ [req[r] EXCEPT !.pc = "root"]
               = [req[r] EXCEPT !.pc = "root", !.root = req[r].root, !.answer = req[r].answer]
         /\ [req[r] EXCEPT !.pc = "read"]
               = [req[r] EXCEPT !.pc = "read", !.root = req[r].root, !.answer = req[r].answer]
         /\ \A x : [req[r] EXCEPT !.pc = "lock", !.root = x]
               = [req[r] EXCEPT !.pc = "lock", !.root = x, !.answer = req[r].answer]
         /\ \A y : [req[r] EXCEPT !.pc = "store", !.answer = y]
               = [req[r] EXCEPT !.pc = "store", !.root = req[r].root, !.answer = y]
         /\ [req[r] EXCEPT !.pc = "copy"] = [req[r] EXCEPT !.pc = "copy", !.root = req[r].root]
         /\ [req[r] EXCEPT !.pc = "broken"]
               = [req[r] EXCEPT !.pc = "broken", !.root = req[r].root]
  BY HandledSlot DEF Made
<1>1. CASE HandleOpen(r)
  <2>1. req[r].root \in Root
    BY <1>1, <1>a DEF HandleOpen, At, HandlerOK
  <2>2. Slots(req')
    BY <1>1, AnsweredSlots, RefusedSlots DEF HandleOpen, At
  <2> QED BY <1>1, <2>1, <2>2 DEF HandleOpen, Served, Typed
<1>2. CASE HandleSnapshot(r)
  <2>1. last # None => last.root \in Root
    BY DEF Typed, Served, Reading
  <2>2. Slots(req')
    BY <1>2, <2>1, AnsweredSlots, RefusedSlots DEF HandleSnapshot, At
  <2> QED BY <1>2, <2>2 DEF HandleSnapshot, Served, Typed
<1>3. CASE HandleState(r)
  <2>1. last # None => last.root \in Root
    BY DEF Typed, Served, Reading
  <2>2. ASSUME Goto(r, "root") PROVE Slots(req')
    <3>1. req[r].root \in Root \cup {None} /\ req[r].answer = None
      BY <1>3, <1>a DEF HandleState, At, HandlerOK, Made
    <3>2. req' = [req EXCEPT ![r] = [req[r] EXCEPT !.pc = "root"]]
      BY <2>2 DEF Goto
    <3> DEFINE t == [req[r] EXCEPT !.pc = "root"]
    <3>3. t = [req[r] EXCEPT !.pc = "root", !.root = req[r].root, !.answer = req[r].answer]
      BY <1>3, <1>a DEF HandleState, At
    <3>4. req' = [req EXCEPT ![r] = t] /\ req[r].op = "state" /\ req[r].pc = "sent"
      BY <1>3, <3>2 DEF HandleState, At
    <3> HIDE DEF t
    <3> QED BY <3>1, <3>3, <3>4, ReadingSlots
  <2>3. Slots(req')
    BY <1>3, <2>1, <2>2, AnsweredSlots DEF HandleState, At
  <2> QED BY <1>3, <2>3 DEF HandleState, Served, Typed
<1>4. CASE ReadRoot(r)
  <2>1. req[r].pc \in {"sent", "root"} /\ req[r].op \in {"scan", "state"}
    BY <1>4, <1>a DEF ReadRoot, At, HandlerOK
  <2>2. ASSUME root # None, req' = [req EXCEPT ![r] = [req[r] EXCEPT !.pc = "lock", !.root = root]]
        PROVE  Slots(req')
    <3>1. req[r].answer = None /\ root \in Root
      BY <1>a, <2>1, <2>2 DEF HandlerOK, Typed, Served
    <3> QED BY <1>a, <2>1, <2>2, <3>1, ReadingSlots
  <2>3. Slots(req')
    BY <1>4, <2>1, <2>2, RefusedSlots DEF ReadRoot
  <2> QED BY <1>4, <2>3 DEF ReadRoot, Served, Typed
<1>5. CASE TryScanLock(r)
  <2>1. ASSUME Goto(r, "read") PROVE Slots(req')
    <3>1. req[r].root \in Root /\ req[r].answer = None /\ req[r].op \in {"scan", "state"}
      BY <1>5, <1>a DEF TryScanLock, HandlerOK
    <3>2. req' = [req EXCEPT ![r] = [req[r] EXCEPT !.pc = "read"]]
      BY <2>1 DEF Goto
    <3> QED BY <1>5, <1>a, <3>1, <3>2, ReadingSlots DEF TryScanLock
  <2>2. Slots(req')
    BY <1>5, <2>1, RefusedSlots DEF TryScanLock
  <2> QED BY <1>5, <2>2 DEF TryScanLock, Served, Typed
<1>6. CASE ReadDisk(r)
  <2> DEFINE reading == [root |-> req[r].root, old |-> FALSE]
  <2>1. req[r].root \in Root /\ req[r].op \in {"scan", "state"}
    BY <1>6, <1>a DEF ReadDisk, HandlerOK
  <2>2. reading \in Reading /\ reading.root = req[r].root
    BY <2>1 DEF Reading, Typed, Served
  <2>3. ASSUME req' = [req EXCEPT ![r] = [req[r] EXCEPT !.pc = "store", !.answer = reading]]
        PROVE  Slots(req')
    <3>1. req[r].pc = "read" /\ req[r].root \in Root \cup {None}
      BY <1>6, <2>1 DEF ReadDisk
    <3> HIDE DEF reading
    <3>2. [req[r] EXCEPT !.pc = "store", !.answer = reading]
             = [req[r] EXCEPT !.pc = "store", !.root = req[r].root, !.answer = reading]
      BY <1>a, <3>1
    <3> DEFINE t == [req[r] EXCEPT !.pc = "store", !.answer = reading]
    <3>3. req' = [req EXCEPT ![r] = t]
      BY <2>3
    <3>4. t = [req[r] EXCEPT !.pc = "store", !.root = req[r].root, !.answer = reading]
      BY <3>2
    <3> HIDE DEF t
    <3> QED BY <3>1, <3>3, <3>4, <2>1, <2>2, ReadingSlots
  <2>4. Slots(req')
    BY <1>6, <2>3, RefusedSlots DEF ReadDisk
  <2> QED BY <1>6, <2>4 DEF ReadDisk, Served, Typed
<1>7. CASE StoreReading(r)
  <2>1. req[r].answer \in Reading /\ req[r].answer.root \in Root /\ req[r].op \in {"scan", "state"}
    BY <1>7, <1>a DEF StoreReading, HandlerOK, Reading
  <2>2. Slots(req')
    BY <1>7, <2>1, AnsweredSlots DEF StoreReading
  <2> QED BY <1>7, <2>1, <2>2 DEF StoreReading, Served, Typed
<1>8. CASE HandleRun(r)
  <2>1. ASSUME Goto(r, "copy") PROVE Slots(req')
    <3>1. req[r].root \in Root \cup {None} /\ req[r].op = "run"
      BY <1>8, <1>a DEF HandleRun, At, Made
    <3>2. req' = [req EXCEPT ![r] = [req[r] EXCEPT !.pc = "copy"]]
      BY <2>1 DEF Goto
    <3> QED BY <1>8, <1>a, <3>1, <3>2, RunSlots DEF HandleRun, At
  <2>2. Slots(req')
    BY <1>8, <2>1, RefusedSlots DEF HandleRun, At
  <2> QED BY <1>8, <2>2 DEF HandleRun, Served, Typed
<1>9. CASE Copy(r)
  <2>1. req[r].op = "run" /\ req[r].root \in Root \cup {None}
    BY <1>9, <1>a DEF Copy, HandlerOK, Made
  <2>2. ASSUME Startup # None,
               req' = [req EXCEPT ![r] = [req[r] EXCEPT !.pc = "copied", !.root = Startup]]
        PROVE  Slots(req')
    BY <1>9, <2>1, <2>2, RunSlots DEF Copy
  <2>3. ASSUME Goto(r, "broken") PROVE Slots(req')
    <3>1. req' = [req EXCEPT ![r] = [req[r] EXCEPT !.pc = "broken"]]
      BY <2>3 DEF Goto
    <3> QED BY <1>9, <1>a, <2>1, <3>1, RunSlots DEF Copy
  <2> QED BY <1>9, <2>2, <2>3 DEF Copy, Served, Typed
<1>10. CASE EndRun(r)
  <2>1. req[r].op = "run"
    BY <1>10, <1>a DEF EndRun, HandlerOK
  <2>2. Slots(req')
    BY <1>10, <2>1, AnsweredSlots, RefusedSlots DEF EndRun
  <2> QED BY <1>10, <2>2 DEF EndRun, Served, Typed
<1>11. CASE HandleVerify(r)
  <2>1. Slots(req')
    BY <1>11, AnsweredSlots, RefusedSlots DEF HandleVerify, At
  <2> QED BY <1>11, <2>1 DEF HandleVerify, Served, Typed
<1> QED
  BY <1>1, <1>2, <1>3, <1>4, <1>5, <1>6, <1>7, <1>8, <1>9, <1>10, <1>11 DEF Serve

\* The same, also of a run that comes to a stop or is ended.
LEMMA PanelStep == ASSUME Typed, NEW r \in Request, Panel(r) PROVE Served' /\ Slots(req')
<1>1. ASSUME NEW pc \in {"blocked", "broken"}, req[r].pc \in {"copy", "blocked"}, Goto(r, pc)
      PROVE  Slots(req')
  <2>1. req[r] \in Made /\ req[r].op = "run"
    BY <1>1, HandledSlot DEF HandlerOK
  <2> DEFINE t == [req[r] EXCEPT !.pc = pc]
  <2>2. t = [req[r] EXCEPT !.pc = pc, !.root = req[r].root] /\ req[r].root \in Root \cup {None}
    BY <2>1 DEF Made
  <2>3. req' = [req EXCEPT ![r] = t]
    BY <1>1 DEF Goto
  <2> HIDE DEF t
  <2> QED BY <1>1, <2>1, <2>2, <2>3, RunSlots
<1>2. CASE Block(r)
  BY <1>1, <1>2 DEF Block, Served, Typed
<1>3. CASE Unblock(r)
  BY <1>1, <1>3 DEF Unblock, Served, Typed
<1> QED BY <1>2, <1>3, ServeStep DEF Panel, Stall, Cancel

LEMMA InitTyped == Init => Typed
<1> SUFFICES ASSUME Init PROVE Typed
  OBVIOUS
<1> USE PanelSessionAssumption
<1> DEFINE blank == [r \in Request |-> Blank]
<1>1. Slots(blank)
  BY CallSlot DEF Slots
<1>2. Slots(req)
  <2>1. CASE Request = {}
    BY <2>1 DEF Init, Sent, Slots
  <2>2. CASE Request # {}
    <3>1. Free(blank) # {} /\ req = Sent(blank, Fetch("inventory", "welcome"))
      BY <2>2 DEF Free, Init
    <3> HIDE DEF blank
    <3> QED BY <1>1, <3>1, SentSlots, CallSlot, FreshSlot
  <2> QED BY <2>1, <2>2
<1>3. Served
  BY DEF Init, SessionInit, Served
<1>4. NewApp \in App /\ NewLocal \in Local
  BY DEF NewApp, App, Stage, Destination, NewLocal, Local
<1> QED BY <1>2, <1>3, <1>4 DEF Init, Typed

\* A change of the files makes the readings under way old, and nothing else.
LEMMA ChangeSlots ==
    ASSUME Typed, NEW x \in Root, Change(x)
    PROVE  /\ Slots(req') /\ Served'
           /\ \A s \in Request : /\ req'[s].op = req[s].op /\ req'[s].from = req[s].from
                                 /\ req'[s].pc = req[s].pc /\ req'[s].root = req[s].root
<1> DEFINE Old(s) == [req[s] EXCEPT !.answer = [root |-> x, old |-> TRUE]]
<1>1. req' = [s \in Request |-> IF req[s].pc = "store" /\ req[s].root = x
                               THEN Old(s) ELSE req[s]]
  BY DEF Change
<1>2. ASSUME NEW s \in Request
      PROVE  /\ SlotOK(req'[s])
             /\ req'[s].op = req[s].op /\ req'[s].from = req[s].from
             /\ req'[s].pc = req[s].pc /\ req'[s].root = req[s].root
  <2>1. SlotOK(req[s])
    BY DEF Typed, Slots
  <2>2. CASE req[s].pc = "store" /\ req[s].root = x
    <3>1. req[s] \in Made /\ CallerOK(req[s].op, req[s].from) /\ HandlerOK(req[s])
      BY <2>2, HandledSlot
    <3>2. [root |-> x, old |-> TRUE] \in Reading
      BY DEF Reading
    <3>3. /\ Old(s) \in Made /\ Old(s).op = req[s].op /\ Old(s).from = req[s].from
          /\ Old(s).pc = "store" /\ Old(s).root = x
          /\ Old(s).answer = [root |-> x, old |-> TRUE]
      BY <2>2, <3>1, <3>2 DEF Made
    <3>4. req'[s] = Old(s)
      BY <1>1, <2>2
    <3> HIDE DEF Old
    <3>5. HandlerOK(Old(s))
      BY <2>2, <3>1, <3>2, <3>3 DEF HandlerOK
    <3> QED BY <2>2, <3>1, <3>3, <3>4, <3>5 DEF SlotOK
  <2>3. CASE ~(req[s].pc = "store" /\ req[s].root = x)
    BY <1>1, <2>1, <2>3
  <2> QED BY <2>2, <2>3
<1>3. Slots(req')
  BY <1>1, <1>2 DEF Slots
<1>4. last' \in Reading \cup {None}
  BY DEF Change, Typed, Served, Reading
<1> QED BY <1>2, <1>3, <1>4 DEF Change, Typed, Served

\* What a step of anybody is, to the panel: one of its own, one of the page,
\* which leaves the session alone, or a change of the files.
LEMMA StepCases ==
    ASSUME Typed, [Next]_vars
    PROVE  \/ \E r \in Request : Panel(r)
           \/ PageStep
           \/ \E r \in Root : Change(r) /\ UNCHANGED <<page, local, pressed>>
<1>1. CASE UNCHANGED vars
  BY <1>1, KeptSlots DEF vars, sessionVars, PageStep, Typed
<1>2. CASE User
  BY <1>2, UserStep
<1>3. ASSUME NEW r \in Request, Take(r) PROVE PageStep
  BY <1>3, TakeStep
<1> QED BY <1>1, <1>2, <1>3 DEF Next

LEMMA NextTyped == Typed /\ [Next]_vars => Typed'
<1> SUFFICES ASSUME Typed, [Next]_vars PROVE Typed'
  OBVIOUS
<1>1. pressed' \in BOOLEAN
  <2>1. ASSUME StillPressed PROVE pressed' \in BOOLEAN
    BY <2>1 DEF StillPressed
  <2>2. CASE User
    BY <2>1, <2>2 DEF User, Choose, AnotherFolder, SelectTab, SwitchCard, SwitchWorld,
       SwitchFolder, SwitchPackage, Decide, TypeDestination, Rebuild, Press, Stop,
       BackToPlan, CheckResult, Reload
  <2>3. ASSUME NEW r \in Request, Take(r) PROVE pressed' \in BOOLEAN
    BY <2>1, <2>3 DEF Take, TakeOpen, TakeInventory, TakeScan, TakeState, TakeFirstPlan,
       TakePlan, TakeRun, TakeVerify, Drop, Typed
  <2> QED BY <2>2, <2>3 DEF Next, Panel, vars, Typed
<1>2. ASSUME NEW r \in Request, Panel(r) PROVE Typed'
  BY <1>2, PanelStep DEF Panel, Typed
<1>3. CASE PageStep
  BY <1>1, <1>3 DEF PageStep, sessionVars, Typed, Served
<1>4. ASSUME NEW r \in Root, Change(r), UNCHANGED <<page, local, pressed>> PROVE Typed'
  BY <1>4, ChangeSlots DEF Typed
<1> QED BY <1>2, <1>3, <1>4, StepCases

LEMMA AlwaysTyped == Spec => []Typed
BY InitTyped, NextTyped, PTL DEF Spec

LEMMA TypedOK == Typed => TypeOK
<1> SUFFICES ASSUME Typed PROVE TypeOK
  OBVIOUS
<1>1. ASSUME NEW r \in Request
      PROVE  /\ req[r].op \in Op /\ req[r].pc \in Pc
             /\ req[r].root \in Root \cup {None}
             /\ req[r].answer \in IF req[r].pc = "store" THEN Reading
                                 ELSE IF req[r].pc # "answered" THEN {None}
                                 ELSE Answers(req[r].op)
             /\ req[r].from \in From \cup {None}
  <2>1. CASE req[r] = Blank
    BY <2>1 DEF Blank, Op, Pc
  <2>2. CASE req[r] \in Made /\ HandlerOK(req[r])
    BY <2>2 DEF Made, HandlerOK, Answers
  <2> QED BY <2>1, <2>2 DEF Typed, Slots, SlotOK
<1> QED BY <1>1 DEF Typed, Served, TypeOK, SessionTypeOK

-----------------------------------------------------------------------------
(* The locks of the panel, whatever the page does.                         *)

ScanHeld == \A r \in Request : req[r].pc \in {"read", "store"} <=> scanLock = r

\* A reading that is about to be stored is not older than the one it replaces.
Newer ==
    \A r \in Request :
        req[r].pc = "store" /\ last # None /\ last.root = req[r].root /\ req[r].answer.old
            => last.old

SessionInv == ReadingOfChosen /\ OneTransfer /\ ScanHeld /\ Newer

AtWork == {"read", "store", "copy", "blocked", "copied", "broken"}

\* The page touches no slot in which a reading or a run is at work.
LEMMA PageLeavesWork ==
    ASSUME Typed, PageStep, NEW r \in Request
    PROVE  /\ req[r].pc \in AtWork <=> req'[r].pc \in AtWork
           /\ req[r].pc \in AtWork => Untouched(req[r], req'[r])
<1>1. Alike(req[r], req'[r]) /\ SlotOK(req[r])
  BY DEF PageStep, Typed, Slots
<1>2. CASE Untouched(req[r], req'[r])
  BY <1>2 DEF Untouched
<1>3. CASE Idle(req[r]) /\ Fresh(req'[r])
  BY <1>1, <1>3 DEF Idle, Fresh, SlotOK, HandlerOK, Blank, AtWork
<1> QED BY <1>1, <1>2, <1>3 DEF Alike

LEMMA PageSession == ASSUME Typed, PageStep, SessionInv PROVE SessionInv'
<1>1. UNCHANGED sessionVars
  BY DEF PageStep
<1>2. \A r \in Request : req[r].pc \in AtWork \/ req'[r].pc \in AtWork
         => Untouched(req[r], req'[r])
  BY PageLeavesWork
<1>3. ReadingOfChosen'
  BY <1>1 DEF sessionVars, SessionInv, ReadingOfChosen
<1>4. OneTransfer'
  BY <1>1, <1>2 DEF sessionVars, SessionInv, OneTransfer, AtWork, Untouched
<1>5. ScanHeld'
  BY <1>1, <1>2 DEF sessionVars, SessionInv, ScanHeld, AtWork, Untouched
<1>6. Newer'
  BY <1>1, <1>2 DEF sessionVars, SessionInv, Newer, AtWork, Untouched
<1> QED BY <1>3, <1>4, <1>5, <1>6 DEF SessionInv

\* A step of a handler, in its slot.
LEMMA SlotStep ==
    ASSUME Typed, NEW r \in Request, req[r].pc \notin {"none", "answered", "refused"},
           Serve(r) \/ Block(r) \/ Unblock(r)
    PROVE  /\ \A s \in Request : s # r => req'[s] = req[s]
           /\ \A answer : Answer(r, answer) => req'[r].pc = "answered"
           /\ Refuse(r) => req'[r].pc = "refused"
           /\ \A pc : Goto(r, pc) => req'[r].pc = pc
<1>1. req[r] \in Made /\ DOMAIN req = Request /\ req = [s \in Request |-> req[s]]
  BY HandledSlot DEF Typed, Slots
<1>2. ASSUME NEW t, req' = [req EXCEPT ![r] = t]
      PROVE  req'[r] = t /\ \A s \in Request : s # r => req'[s] = req[s]
  BY <1>1, <1>2
<1>3. \A answer : Answer(r, answer)
         => /\ req'[r].pc = "answered"
            /\ \A s \in Request : s # r => req'[s] = req[s]
  BY <1>1, <1>2 DEF Answer, Made
<1>4. Refuse(r) => req'[r].pc = "refused" /\ \A s \in Request : s # r => req'[s] = req[s]
  BY <1>1, <1>2 DEF Refuse, Made
<1>5. \A pc : Goto(r, pc)
         => req'[r].pc = pc /\ \A s \in Request : s # r => req'[s] = req[s]
  BY <1>1, <1>2 DEF Goto, Made
<1>6. ReadRoot(r) => \A s \in Request : s # r => req'[s] = req[s]
  BY <1>1, <1>2, <1>4 DEF ReadRoot
<1>7. ReadDisk(r) => \A s \in Request : s # r => req'[s] = req[s]
  BY <1>1, <1>2, <1>4 DEF ReadDisk
<1>8. Copy(r) => \A s \in Request : s # r => req'[s] = req[s]
  BY <1>1, <1>2, <1>5 DEF Copy
<1> QED
  BY <1>3, <1>4, <1>5, <1>6, <1>7, <1>8 DEF Serve, HandleOpen, HandleSnapshot, HandleState,
     TryScanLock, StoreReading, HandleRun, EndRun, HandleVerify, Block, Unblock

LEMMA ServeSession == ASSUME Typed, SessionInv, NEW r \in Request, Serve(r) PROVE SessionInv'
<1> USE PanelSessionAssumption
<1>0. req[r].pc \notin {"none", "answered", "refused"}
  BY DEF Serve, HandleOpen, HandleSnapshot, HandleState, ReadRoot, TryScanLock, ReadDisk,
     StoreReading, HandleRun, Copy, EndRun, HandleVerify, At
<1>1. /\ req[r] \in Made /\ HandlerOK(req[r]) /\ DOMAIN req = Request
      /\ req = [s \in Request |-> req[s]]
  BY <1>0, HandledSlot DEF Typed, Slots
<1>2. \A s \in Request : s # r => req'[s] = req[s]
  BY <1>0, SlotStep
\* A step that takes no lock and stores nothing.
<1>3. ASSUME UNCHANGED <<root, last, scanLock, runLock>>,
             req[r].pc \notin AtWork, req'[r].pc \notin AtWork
      PROVE  SessionInv'
  BY <1>2, <1>3 DEF SessionInv, ReadingOfChosen, OneTransfer, ScanHeld, Newer, AtWork
<1>4. CASE HandleOpen(r)
  <2>1. req[r].pc = "sent" /\ req'[r].pc \in {"answered", "refused"}
    BY <1>0, <1>4, SlotStep DEF HandleOpen, At
  <2>2. ReadingOfChosen'
    BY <1>4 DEF HandleOpen, SessionInv, ReadingOfChosen
  <2>3. UNCHANGED <<scanLock, runLock>> /\ (last' = last \/ last' = None)
    BY <1>4 DEF HandleOpen
  <2> QED BY <1>2, <2>1, <2>2, <2>3 DEF SessionInv, OneTransfer, ScanHeld, Newer, AtWork
<1>5. CASE HandleSnapshot(r) \/ HandleState(r) \/ HandleVerify(r)
  <2>1. req[r].pc = "sent" /\ req'[r].pc \in {"answered", "refused", "root"}
    BY <1>0, <1>5, SlotStep DEF HandleSnapshot, HandleState, HandleVerify, At
  <2>2. UNCHANGED <<root, last, scanLock, runLock>>
    BY <1>5 DEF HandleSnapshot, HandleState, HandleVerify
  <2> QED BY <1>3, <2>1, <2>2 DEF AtWork
<1>6. CASE ReadRoot(r)
  <2>1. req[r].pc \in {"sent", "root"}
    BY <1>6 DEF ReadRoot, At
  <2>2. req'[r].pc \in {"lock", "refused"}
    <3>1. CASE req' = [req EXCEPT ![r] = [req[r] EXCEPT !.pc = "lock", !.root = root]]
      BY <1>1, <3>1 DEF Made
    <3>2. CASE Refuse(r)
      BY <1>0, <3>2, SlotStep
    <3> QED BY <1>6, <3>1, <3>2 DEF ReadRoot
  <2>3. UNCHANGED <<root, last, scanLock, runLock>>
    BY <1>6 DEF ReadRoot
  <2> QED BY <1>3, <2>1, <2>2, <2>3 DEF AtWork
<1>7. CASE TryScanLock(r)
  <2>1. UNCHANGED <<root, last, runLock>> /\ req[r].pc = "lock"
    BY <1>7 DEF TryScanLock
  <2>2. \/ scanLock = None /\ scanLock' = r /\ req'[r].pc = "read"
        \/ scanLock' = scanLock /\ req'[r].pc = "refused"
    BY <1>0, <1>7, SlotStep DEF TryScanLock
  <2>3. scanLock = r \/ runLock = r => req[r].pc \in AtWork
    BY DEF SessionInv, ScanHeld, OneTransfer, AtWork
  <2>4. ScanHeld'
    BY <1>2, <2>1, <2>2 DEF SessionInv, ScanHeld
  <2> QED BY <1>2, <2>1, <2>2, <2>4 DEF SessionInv, OneTransfer, Newer, ReadingOfChosen
<1>8. CASE ReadDisk(r)
  <2> DEFINE reading == [root |-> req[r].root, old |-> FALSE]
  <2>1. /\ UNCHANGED <<root, last, runLock>>
        /\ req[r].pc = "read" /\ scanLock = r /\ req[r].root \in Root
    BY <1>1, <1>8 DEF ReadDisk, SessionInv, ScanHeld, HandlerOK
  <2>2. \/ /\ scanLock' = r /\ req'[r].pc = "store"
           /\ req'[r].root = req[r].root /\ req'[r].answer = reading
        \/ scanLock' = None /\ req'[r].pc = "refused"
    <3>1. CASE req' = [req EXCEPT ![r] = [req[r] EXCEPT !.pc = "store", !.answer = reading]]
               /\ UNCHANGED scanLock
      BY <1>1, <2>1, <3>1 DEF Made
    <3>2. CASE Refuse(r) /\ scanLock' = None
      BY <1>0, <3>2, SlotStep
    <3> QED BY <1>8, <3>1, <3>2 DEF ReadDisk
  <2>3. ScanHeld'
    BY <1>2, <2>1, <2>2 DEF SessionInv, ScanHeld
  <2>4. Newer'
    BY <1>2, <2>1, <2>2 DEF SessionInv, Newer
  <2> QED BY <1>2, <2>1, <2>2, <2>3, <2>4 DEF SessionInv, OneTransfer, ReadingOfChosen
<1>9. CASE StoreReading(r)
  <2>1. /\ UNCHANGED <<root, runLock>> /\ scanLock' = None
        /\ req[r].pc = "store" /\ scanLock = r /\ req'[r].pc = "answered"
        /\ req[r].answer.root = req[r].root
        /\ last' = IF root = req[r].root THEN req[r].answer ELSE last
    BY <1>0, <1>1, <1>9, SlotStep DEF StoreReading, SessionInv, ScanHeld, HandlerOK
  <2>2. ScanHeld'
    BY <1>2, <2>1 DEF SessionInv, ScanHeld
  <2>3. \A s \in Request : req'[s].pc # "store"
    BY <2>1, <2>2 DEF ScanHeld
  <2>4. Newer'
    BY <2>1, <2>3 DEF SessionInv, Newer
  <2> QED BY <1>2, <2>1, <2>2, <2>4 DEF SessionInv, OneTransfer, ReadingOfChosen
<1>10. CASE HandleRun(r)
  <2>1. UNCHANGED <<root, last, scanLock>> /\ req[r].pc = "sent"
    BY <1>10 DEF HandleRun, At
  <2>2. \/ runLock = None /\ runLock' = r /\ req'[r].pc = "copy"
        \/ runLock' = runLock /\ req'[r].pc = "refused"
    BY <1>0, <1>10, SlotStep DEF HandleRun
  <2>3. OneTransfer'
    BY <1>2, <2>1, <2>2 DEF SessionInv, OneTransfer
  <2> QED BY <1>2, <2>1, <2>2, <2>3 DEF SessionInv, ScanHeld, Newer, ReadingOfChosen
<1>11. CASE Copy(r)
  <2>1. UNCHANGED <<root, last, scanLock, runLock>> /\ req[r].pc = "copy"
    BY <1>11 DEF Copy
  <2>2. req'[r].pc \in {"copied", "broken"}
    <3>1. CASE req' = [req EXCEPT ![r] = [req[r] EXCEPT !.pc = "copied", !.root = Startup]]
      BY <1>1, <3>1 DEF Made
    <3>2. CASE Goto(r, "broken")
      BY <1>0, <3>2, SlotStep
    <3> QED BY <1>11, <3>1, <3>2 DEF Copy
  <2> QED BY <1>2, <2>1, <2>2 DEF SessionInv, OneTransfer, ScanHeld, Newer, ReadingOfChosen
<1>12. CASE EndRun(r)
  <2>1. /\ UNCHANGED <<root, last, scanLock>> /\ runLock' = None
        /\ req[r].pc \in {"copied", "broken"} /\ req'[r].pc \in {"answered", "refused"}
    BY <1>0, <1>12, SlotStep DEF EndRun
  <2>2. OneTransfer'
    BY <1>2, <2>1 DEF SessionInv, OneTransfer
  <2> QED BY <1>2, <2>1, <2>2 DEF SessionInv, ScanHeld, Newer, ReadingOfChosen
<1> QED BY <1>4, <1>5, <1>6, <1>7, <1>8, <1>9, <1>10, <1>11, <1>12 DEF Serve

LEMMA PanelSessionKept ==
    ASSUME Typed, SessionInv, NEW r \in Request, Panel(r)
    PROVE  SessionInv'
<1>1. ASSUME Block(r) \/ Unblock(r) PROVE SessionInv'
  <2>1. /\ UNCHANGED <<root, last, scanLock, runLock>>
        /\ req[r].pc \in {"copy", "blocked"}
    BY <1>1 DEF Block, Unblock
  <2>2. req'[r].pc \in {"blocked", "broken"} /\ \A s \in Request : s # r => req'[s] = req[s]
    BY <1>1, <2>1, SlotStep DEF Block, Unblock
  <2> QED BY <2>1, <2>2 DEF SessionInv, OneTransfer, ScanHeld, Newer, ReadingOfChosen
<1> QED BY <1>1, ServeSession DEF Panel, Stall, Cancel

LEMMA ChangeSession == ASSUME Typed, SessionInv, NEW x \in Root, Change(x) PROVE SessionInv'
<1>1. /\ UNCHANGED <<root, scanLock, runLock>>
      /\ \A s \in Request : req'[s].pc = req[s].pc /\ req'[s].root = req[s].root
  BY ChangeSlots DEF Change
<1>2. last' # None => last # None
  BY DEF Change
<1>3. last # None => /\ last'.root = last.root
                     /\ last'.old = (last.old \/ last.root = x)
  BY DEF Change, Typed, Served, Reading
<1>4. ASSUME NEW s \in Request, req[s].pc = "store"
      PROVE  req'[s].answer.old = (req[s].answer.old \/ req[s].root = x)
  <2>1. req[s] \in Made /\ req[s].answer \in Reading
    BY <1>4, HandledSlot DEF HandlerOK
  <2> QED BY <1>4, <2>1 DEF Change, Made, Reading
<1>5. Newer'
  BY <1>1, <1>2, <1>3, <1>4 DEF SessionInv, Newer
<1> QED BY <1>1, <1>2, <1>3, <1>5 DEF SessionInv, ReadingOfChosen, OneTransfer, ScanHeld

LEMMA InitSession == Init => SessionInv
<1> SUFFICES ASSUME Init PROVE SessionInv
  OBVIOUS
<1>1. \A r \in Request : req[r].pc \in {"none", "sent"}
  BY DEF Init, Sent, Blank, Fetch, Call
<1> QED
  BY <1>1, PanelSessionAssumption DEF Init, SessionInit, SessionInv, ReadingOfChosen,
     OneTransfer, ScanHeld, Newer

LEMMA AlwaysSession == Spec => [](Typed /\ SessionInv)
<1>1. Typed /\ SessionInv /\ [Next]_vars => SessionInv'
  <2> SUFFICES ASSUME Typed, SessionInv, [Next]_vars PROVE SessionInv'
    OBVIOUS
  <2> QED BY StepCases, PageSession, PanelSessionKept, ChangeSession
<1> QED BY <1>1, InitSession, AlwaysTyped, PTL DEF Spec

LEMMA LastAdvances ==
    ASSUME Typed, SessionInv, [Next]_vars, last # None, ~last.old,
           last' # None, last'.root = last.root, last'.old
    PROVE  \E r \in Root : Change(r)
<1>1. last' # last
  OBVIOUS
<1>2. ASSUME NEW r \in Request, Serve(r) PROVE FALSE
  <2>1. CASE StoreReading(r)
    <3>1. req[r].pc = "store" /\ last' = req[r].answer /\ last'.root = req[r].root
      BY <1>1, <2>1, HandledSlot DEF StoreReading, HandlerOK
    <3> QED BY <3>1 DEF SessionInv, Newer
  <2>2. CASE HandleOpen(r)
    BY <1>1, <2>2 DEF HandleOpen
  <2> QED
    BY <1>1, <1>2, <2>1, <2>2 DEF Serve, HandleSnapshot, HandleState, ReadRoot, TryScanLock,
       ReadDisk, HandleRun, Copy, EndRun, HandleVerify
<1>3. ASSUME NEW r \in Request, Block(r) \/ Unblock(r) PROVE FALSE
  BY <1>1, <1>3 DEF Block, Unblock
<1>4. CASE PageStep
  BY <1>1, <1>4 DEF PageStep, sessionVars
<1> QED BY <1>2, <1>3, <1>4, StepCases DEF Panel, Stall, Cancel

-----------------------------------------------------------------------------

\* Whatever is clicked, in whatever order the answers come in and however many
\* requests are in flight, panel and page keep their types.
THEOREM PageTypeOK == Spec => []TypeOK
BY AlwaysTyped, TypedOK, PTL

\* The reading the panel answers from is of the installation chosen now
\* (session.go:100), for any number of pages and readings under way.
THEOREM PageReadingOfChosen == Spec => []ReadingOfChosen
<1>1. SessionInv => ReadingOfChosen
  BY DEF SessionInv
<1> QED BY <1>1, AlwaysSession, PTL

\* At most one transfer is under way, and the lock that lets it in is held
\* exactly as long (local.go:209).
THEOREM PageOneTransfer == Spec => []OneTransfer
<1>1. SessionInv => OneTransfer
  BY DEF SessionInv
<1> QED BY <1>1, AlwaysSession, PTL

\* A reading is never replaced by an older one of the same installation
\* (session.go:85).
THEOREM PageReadingsAdvance == Spec => ReadingsAdvance
<1>1. Typed /\ SessionInv /\ [Next]_vars
        => [last # None /\ ~last.old /\ last' # None /\ last'.root = last.root /\ last'.old
               => \E r \in Root : Change(r)]_vars
  BY LastAdvances
<1> QED BY <1>1, AlwaysSession, PTL DEF Spec, ReadingsAdvance
=============================================================================
