-------------------------- MODULE PageAwaitedProof --------------------------
(***************************************************************************)
(* A screen that says something is under way has a call it will hear of.   *)
(* Awaited alone is not inductive: the call a screen waits for must be its *)
(* own, which a call of an earlier visit to that screen is not, so the     *)
(* invariant also says where the owner of a call can be.                   *)
(***************************************************************************)
EXTENDS PageShownProof

Owns(q, r, who) == By(q, r, who) /\ q[r].from.own

\* Where the screen is that made a call and can still be told of it, when m is
\* mounted and tab is open.
Placed(q, m, tab) ==
    \A r \in Request :
        /\ Owns(q, r, {"choose"})   => m = "welcome"
        /\ Owns(q, r, {"scanning"}) => m = "scanning"
        /\ Owns(q, r, {"rebuild"})  => m = "plan" /\ tab = "assets"

Hears(q, m, l) ==
    /\ m = "transfer" /\ ~l.failed /\ ~l.done
          => l.stopped \/ \E r \in Request : By(q, r, {"transfer"})
    /\ m = "scanning" /\ ~l.failed
          => \E r \in Request : Owns(q, r, {"scanning"}) \/ By(q, r, {"scanned"})
    /\ l.busy => \E r \in Request : Owns(q, r, {"choose", "rebuild"})

Waited == Placed(req, Mounted(page), local.tab) /\ Hears(req, Mounted(page), local)

\* Only the picker and the plan have buttons to switch off.
LEMMA BusyPlaces ==
    ASSUME NEW q, NEW m, NEW l, Placed(q, m, l.tab), Hears(q, m, l), l.busy
    PROVE  m \in {"welcome", "plan"}
BY DEF Placed, Hears, Owns, By

LEMMA SentWaits ==
    ASSUME NEW q, Slots(q), NEW call, Free(q) # {}
    PROVE  \E f \in Request :
              /\ Sent(q, call)[f] = call /\ q[f] = Blank
              /\ \A r \in Request : r # f => Sent(q, call)[r] = q[r]
<1> DEFINE f == CHOOSE r \in Free(q) : TRUE
<1>1. f \in Request /\ q[f] = Blank
  BY DEF Free
<1> HIDE DEF f
<1>2. Sent(q, call) = [q EXCEPT ![f] = call]
  BY DEF Sent, f
<1> QED BY <1>1, <1>2 DEF Slots

\* A call more takes nothing away.
LEMMA SentKeeps ==
    ASSUME NEW q, Slots(q), NEW call, Free(q) # {}, NEW m, NEW l,
           Placed(q, m, l.tab), Hears(q, m, l),
           call.from.by \notin {"choose", "scanning", "rebuild"}
    PROVE  Placed(Sent(q, call), m, l.tab) /\ Hears(Sent(q, call), m, l)
<1> DEFINE x == Sent(q, call)
<1>1. PICK f \in Request : /\ x[f] = call /\ q[f] = Blank
                           /\ \A r \in Request : r # f => x[r] = q[r]
  BY SentWaits
<1> HIDE DEF x
<1>2. \A who : \A r \in Request : By(q, r, who) => By(x, r, who) /\ x[r] = q[r]
  BY <1>1 DEF By, Blank
<1>3. \A who : \A r \in Request : Owns(q, r, who) => Owns(x, r, who)
  BY <1>2 DEF Owns
<1>4. Hears(x, m, l)
  BY <1>2, <1>3 DEF Hears
<1>5. \A r \in Request : /\ Owns(x, r, {"choose"})   => Owns(q, r, {"choose"})
                         /\ Owns(x, r, {"scanning"}) => Owns(q, r, {"scanning"})
                         /\ Owns(x, r, {"rebuild"})  => Owns(q, r, {"rebuild"})
  BY <1>1 DEF Owns, By
<1>6. Placed(x, m, l.tab)
  BY <1>5 DEF Placed
<1> QED BY <1>4, <1>6 DEF x

\* After an abort nobody owns a call that was aborted; the other calls stay.
LEMMA AbandonedKeeps ==
    ASSUME NEW q, Slots(q), NEW who, NEW r \in Request
    PROVE  /\ ~By(q, r, who) => Abandoned(q, who)[r] = q[r]
           /\ By(q, r, who) => \A by \in Anybody : ~By(Abandoned(q, who), r, {by})
<1>1. SlotOK(q[r])
  BY DEF Slots
<1>2. CASE ~By(q, r, who)
  BY <1>2 DEF Abandoned
<1>3. CASE By(q, r, who) /\ Abandoned(q, who)[r] = Blank
  BY <1>3 DEF By, Blank
<1>4. CASE By(q, r, who) /\ Abandoned(q, who)[r] = [q[r] EXCEPT !.from = Caller("nobody")]
  <2>1. q[r] \in Made
    BY <1>1, <1>4 DEF By, SlotOK, Blank
  <2>2. Abandoned(q, who)[r].from.by = "nobody"
    BY <1>4, <2>1 DEF Made, Caller
  <2> QED BY <1>4, <2>2 DEF By, Anybody
<1> QED BY <1>2, <1>3, <1>4 DEF Abandoned

LEMMA DisownedKeeps ==
    ASSUME NEW q, Slots(q), NEW who, NEW r \in Request
    PROVE  /\ ~By(q, r, who) => Disowned(q, who)[r] = q[r]
           /\ By(q, r, who) => ~Disowned(q, who)[r].from.own
           /\ \A x : By(Disowned(q, who), r, x) <=> By(q, r, x)
<1>1. SlotOK(q[r])
  BY DEF Slots
<1>2. CASE ~By(q, r, who)
  BY <1>2 DEF Disowned, By
<1>3. CASE By(q, r, who)
  <2>1. q[r] \in Made /\ q[r].from \in From
    BY <1>1, <1>3 DEF By, SlotOK, Blank, Made
  <2>2. Disowned(q, who)[r] = [q[r] EXCEPT !.from.own = FALSE]
    BY <1>3 DEF Disowned
  <2>3. Disowned(q, who)[r].op = q[r].op /\ Disowned(q, who)[r].from.by = q[r].from.by
        /\ ~Disowned(q, who)[r].from.own
    BY <2>1, <2>2 DEF Made, From
  <2> QED BY <1>3, <2>3 DEF By
<1> QED BY <1>2, <1>3

\* When another screen is shown, the one that was left owns nothing any more.
LEMMA MovedNobody ==
    ASSUME NEW p, NEW q, Slots(q), Moved(p), NEW r \in Request
    PROVE  ~Owns(CleanedUp(p, q), r, {"choose", "scanning", "rebuild"})
<1> DEFINE who == {"choose", "scanning", "rebuild"}
           x == Disowned(q, who)
<1>1. Slots(x)
  BY DisownedSlots
<1>2. ~Owns(x, r, who)
  BY DisownedKeeps DEF Owns
<1>3. ~Owns(Abandoned(x, {"transfer"}), r, who)
  <2> HIDE DEF x
  <2>1. CASE By(x, r, {"transfer"})
    BY <1>1, <2>1, AbandonedKeeps DEF Owns, By, Anybody
  <2>2. CASE ~By(x, r, {"transfer"})
    BY <1>1, <1>2, <2>2, AbandonedKeeps DEF Owns, By
  <2> QED BY <2>1, <2>2
<1>4. ~Owns(Abandoned(q, Anybody), r, who)
  <2>1. CASE By(q, r, Anybody)
    BY <2>1, AbandonedKeeps DEF Owns, By, Anybody
  <2>2. CASE ~By(q, r, Anybody)
    BY <2>2, AbandonedKeeps DEF Owns, By, Anybody
  <2> QED BY <2>1, <2>2
<1> QED BY <1>3, <1>4 DEF CleanedUp

LEMMA EffectCalls ==
    ASSUME NEW p \in App
    PROVE  /\ \A call \in Effects(p) :
                 /\ call.op # "none" /\ call.from.own
                 /\ call.from.by \in {"welcome", "scanning", "transfer"}
                 /\ call.from.by = "scanning" => Mounted(p) = "scanning" /\ Moved(p)
                 /\ call.from.by = "transfer"
                       => Mounted(p) = "transfer" /\ (Moved(p) \/ Again(p))
           /\ Mounted(p) = "scanning" /\ Moved(p)
                 => Effects(p) = {Fetch("scan", "scanning")}
           /\ Mounted(p) = "transfer" /\ (Moved(p) \/ Again(p)) => Effects(p) = {RunCall(p)}
<1>1. /\ Fetch("inventory", "welcome").op = "inventory" /\ Fetch("scan", "scanning").op = "scan"
      /\ RunCall(p).op = "run"
      /\ Fetch("inventory", "welcome").from.by = "welcome"
      /\ Fetch("scan", "scanning").from.by = "scanning" /\ RunCall(p).from.by = "transfer"
      /\ Fetch("inventory", "welcome").from.own /\ Fetch("scan", "scanning").from.own
      /\ RunCall(p).from.own
  BY DEF Fetch, RunCall, Call, Caller
<1>2. Mounted(p) \in {"scanning", "transfer"} => p.stage = Mounted(p)
  BY DEF Mounted
<1>3. \A call : call \in Effects(p) <=>
         \/ /\ call = Fetch("inventory", "welcome")
            /\ p.stage = "welcome" /\ page.stage # "welcome"
         \/ call = Fetch("scan", "scanning") /\ Mounted(p) = "scanning" /\ Moved(p)
         \/ call = RunCall(p) /\ Mounted(p) = "transfer" /\ (Moved(p) \/ Again(p))
  BY <1>1 DEF Effects
<1> HIDE DEF Effects
<1> QED BY <1>1, <1>2, <1>3

LEMMA RenderWaits ==
    ASSUME Typed, NEW p \in App, NEW l \in Local, NEW q, Slots(q), Render(p, l, q),
           ~Moved(p) => Placed(q, Mounted(p), l.tab) /\ Hears(q, Mounted(p), l)
    PROVE  Waited'
<1> DEFINE cleaned == CleanedUp(p, q)
           m == Mounted(p)
           who == {"choose", "scanning", "rebuild"}
<1>1. Mounted(page') = m
  BY MountedTrimmed DEF Render
<1>2. Slots(cleaned)
  BY CleanedSlots
<1>3. SUFFICES Placed(req', m, local'.tab) /\ Hears(req', m, local')
  BY <1>1 DEF Waited
<1>4. \/ req' = cleaned /\ Effects(p) = {}
      \/ \E call \in Effects(p) : Free(cleaned) # {} /\ req' = Sent(cleaned, call)
  BY DEF Render
<1>5. CASE Moved(p)
  <2>1. /\ local' = NewLocal /\ ~NewLocal.busy
        /\ \A r \in Request : ~Owns(cleaned, r, who)
    BY <1>5, MovedNobody DEF Render, NewLocal
  <2>2. CASE req' = cleaned /\ Effects(p) = {}
    <3>1. m \notin {"scanning", "transfer"}
      BY <1>5, <2>2, EffectCalls
    <3> HIDE DEF cleaned, m
    <3> QED BY <2>1, <2>2, <3>1 DEF Placed, Hears, Owns, By
  <2>3. ASSUME NEW call \in Effects(p), Free(cleaned) # {}, req' = Sent(cleaned, call)
        PROVE  Placed(req', m, local'.tab) /\ Hears(req', m, local')
    <3>1. PICK f \in Request : /\ req'[f] = call
                               /\ \A r \in Request : r # f => req'[r] = cleaned[r]
      BY <1>2, <2>3, SentWaits
    <3>2. /\ call.op # "none" /\ call.from.own
          /\ call.from.by \in {"welcome", "scanning", "transfer"}
          /\ call.from.by = "scanning" => m = "scanning"
      BY <2>3, EffectCalls
    <3>3. /\ m = "scanning" => call.from.by = "scanning"
          /\ m = "transfer" => call.from.by = "transfer"
      BY <1>5, <2>3, EffectCalls DEF Fetch, RunCall, Call, Caller
    <3> HIDE DEF cleaned, m
    <3>4. Placed(req', m, local'.tab)
      BY <2>1, <3>1, <3>2 DEF Placed, Owns, By
    <3>5. Hears(req', m, local')
      BY <2>1, <3>1, <3>2, <3>3 DEF Hears, Owns, By
    <3> QED BY <3>4, <3>5
  <2> QED BY <1>4, <2>2, <2>3
<1>6. CASE ~Moved(p) /\ Again(p)
  <2>1. m = "transfer" /\ Effects(p) = {RunCall(p)}
    BY <1>6, EffectCalls DEF Again
  <2>2. ~l.busy /\ \A r \in Request : ~Owns(q, r, who)
    BY <1>6, <2>1, BusyPlaces DEF Placed, Owns, By
  <2>3. local' = [l EXCEPT !.stopped = FALSE] /\ local'.busy = l.busy
    BY <1>6 DEF Render, Local
  <2>4. cleaned = Abandoned(q, {"transfer"})
    BY <1>6, <2>1 DEF CleanedUp
  <2>5. \A r \in Request : ~Owns(cleaned, r, who)
    <3> SUFFICES ASSUME NEW r \in Request PROVE ~Owns(cleaned, r, who)
      OBVIOUS
    <3>1. CASE By(q, r, {"transfer"})
      BY <2>4, <3>1, AbandonedKeeps DEF Owns, By, Anybody
    <3>2. CASE ~By(q, r, {"transfer"})
      BY <2>2, <2>4, <3>2, AbandonedKeeps DEF Owns, By
    <3> QED BY <3>1, <3>2
  <2>6. Free(cleaned) # {} /\ req' = Sent(cleaned, RunCall(p))
    BY <1>4, <2>1
  <2>7. PICK f \in Request : /\ req'[f] = RunCall(p)
                             /\ \A r \in Request : r # f => req'[r] = cleaned[r]
    BY <1>2, <2>6, SentWaits
  <2>8. RunCall(p).op = "run" /\ RunCall(p).from.by = "transfer"
    BY DEF RunCall, Call
  <2> HIDE DEF cleaned, m
  <2>9. Placed(req', m, local'.tab)
    BY <2>5, <2>7, <2>8 DEF Placed, Owns, By
  <2>10. Hears(req', m, local')
    BY <2>1, <2>2, <2>3, <2>7, <2>8 DEF Hears, By
  <2> QED BY <2>9, <2>10
<1>7. CASE ~Moved(p) /\ ~Again(p)
  <2>1. local' = l
    BY <1>7 DEF Render
  <2>2. Placed(cleaned, m, l.tab) /\ Hears(cleaned, m, l)
    <3>1. CASE m = "nothing"
      <4>1. ~l.busy
        BY <1>7, <3>1, BusyPlaces
      <4>2. \A r \in Request : ~Owns(cleaned, r, who)
        <5> SUFFICES ASSUME NEW r \in Request PROVE ~Owns(cleaned, r, who)
          OBVIOUS
        <5>1. cleaned = Abandoned(q, Anybody)
          BY <3>1 DEF CleanedUp
        <5>2. CASE By(q, r, Anybody)
          BY <5>1, <5>2, AbandonedKeeps DEF Owns, By, Anybody
        <5>3. CASE ~By(q, r, Anybody)
          BY <5>1, <5>3, AbandonedKeeps DEF Owns, By, Anybody
        <5> QED BY <5>2, <5>3
      <4> HIDE DEF cleaned, m
      <4> QED BY <3>1, <4>1, <4>2 DEF Placed, Hears, Owns, By
    <3>2. CASE m # "nothing"
      BY <1>7, <3>2 DEF CleanedUp
    <3> QED BY <3>1, <3>2
  <2>3. ASSUME NEW call \in Effects(p), Free(cleaned) # {}, req' = Sent(cleaned, call)
        PROVE  Placed(req', m, local'.tab) /\ Hears(req', m, local')
    <3>1. call.from.by \notin {"choose", "scanning", "rebuild"}
      BY <1>7, <2>3, EffectCalls
    <3> HIDE DEF cleaned, m
    <3> QED BY <1>2, <2>1, <2>2, <2>3, <3>1, SentKeeps
  <2> QED BY <1>4, <2>1, <2>2, <2>3
<1> QED BY <1>5, <1>6, <1>7

LEMMA ShowWaits ==
    ASSUME Typed, Waited, NEW p \in App, Show(p, req)
    PROVE  Waited'
<1>1. ~Moved(p) => Placed(req, Mounted(p), local.tab) /\ Hears(req, Mounted(p), local)
  BY DEF Moved, Waited
<1> QED BY <1>1, RenderWaits DEF Show, Typed

\* A call that has ended, of which l is what its screen made, and c what
\* follows it.
LEMMA EndedWaits ==
    ASSUME Typed, Waited, NEW r \in Request, Answered(r) \/ Refused(r),
           NEW c, SlotOK(c), Fresh(c), c = Blank \/ c.from.by = "scanned",
           NEW p \in App, NEW l \in Local, Render(p, l, [req EXCEPT ![r] = c]),
           l.tab = local.tab,
           ~Moved(p) /\ l.busy => local.busy /\ ~Owns(req, r, {"choose", "rebuild"}),
           ~Moved(p) /\ Mounted(p) = "transfer"
              => \/ l.failed \/ l.done
                 \/ /\ ~By(req, r, {"transfer"}) /\ l.failed = local.failed
                    /\ l.done = local.done /\ l.stopped = local.stopped,
           ~Moved(p) /\ Mounted(p) = "scanning"
              => \/ l.failed \/ c # Blank
                 \/ /\ ~Owns(req, r, {"scanning"}) /\ ~By(req, r, {"scanned"})
                    /\ l.failed = local.failed
    PROVE  Waited'
<1> DEFINE q == [req EXCEPT ![r] = c]
           m == Mounted(page)
<1>1. Slots(q)
  BY ReplacedSlots, IdleSlot DEF Typed
<1>2. q[r] = c /\ \A s \in Request : s # r => q[s] = req[s]
  BY DEF Typed, Slots
<1>3. c # Blank => c.op # "none"
  BY BlankSlot
<1>4. Placed(req, m, local.tab) /\ Hears(req, m, local)
  BY DEF Waited
<1> HIDE DEF q, m
<1>5. \A who : \A s \in Request : s # r =>
         (By(q, s, who) <=> By(req, s, who)) /\ (Owns(q, s, who) <=> Owns(req, s, who))
  BY <1>2 DEF By, Owns
<1>6. /\ \A who \in SUBSET {"choose", "scanning", "rebuild"} : ~Owns(q, r, who)
      /\ c # Blank => By(q, r, {"scanned"})
  BY <1>2, <1>3 DEF By, Owns, Blank
<1>7. Placed(q, m, l.tab)
  BY <1>4, <1>5, <1>6 DEF Placed
<1>8. ASSUME ~Moved(p) PROVE Hears(q, m, l)
  <2>1. m = Mounted(p)
    BY <1>8 DEF Moved, m
  <2>2. ASSUME m = "transfer", ~l.failed, ~l.done
        PROVE  l.stopped \/ \E s \in Request : By(q, s, {"transfer"})
    BY <1>4, <1>5, <1>8, <2>1, <2>2 DEF Hears
  <2>3. ASSUME m = "scanning", ~l.failed
        PROVE  \E s \in Request : Owns(q, s, {"scanning"}) \/ By(q, s, {"scanned"})
    BY <1>4, <1>5, <1>6, <1>8, <2>1, <2>3 DEF Hears
  <2>4. ASSUME l.busy PROVE \E s \in Request : Owns(q, s, {"choose", "rebuild"})
    BY <1>4, <1>5, <1>8, <2>4 DEF Hears
  <2> QED BY <2>2, <2>3, <2>4 DEF Hears
<1>9. ~Moved(p) => Placed(q, Mounted(p), l.tab) /\ Hears(q, Mounted(p), l)
  BY <1>7, <1>8 DEF Moved, m
<1>10. Render(p, l, q)
  BY DEF q
<1> QED BY <1>1, <1>9, <1>10, RenderWaits

\* A call that is sent, l being what the screen made of it.
LEMMA SentRender ==
    ASSUME Typed, Waited, NEW call, SlotOK(call), Fresh(call), Free(req) # {}, NEW l \in Local,
           Keep(l, Sent(req, call)),
           Placed(Sent(req, call), Mounted(page), l.tab),
           Hears(Sent(req, call), Mounted(page), l)
    PROVE  Waited'
<1> DEFINE q == Sent(req, call)
<1>1. Slots(q) /\ Render(page, l, q)
  BY SentSlots DEF Typed, Keep
<1>2. page \in App
  BY DEF Typed
<1> HIDE DEF q
<1>3. Placed(q, Mounted(page), l.tab) /\ Hears(q, Mounted(page), l)
  BY DEF q
<1> QED BY <1>1, <1>2, <1>3, RenderWaits

\* A button that is switched off until its call has ended.
LEMMA PressedWaits ==
    ASSUME Typed, Waited, NEW call, Free(req) # {}, call.op # "none", call.from.own,
           \/ call.from.by = "choose" /\ Mounted(page) = "welcome"
           \/ call.from.by = "rebuild" /\ Mounted(page) = "plan" /\ local.tab = "assets"
    PROVE  /\ Placed(Sent(req, call), Mounted(page), [local EXCEPT !.busy = TRUE].tab)
           /\ Hears(Sent(req, call), Mounted(page), [local EXCEPT !.busy = TRUE])
<1> DEFINE q == Sent(req, call)
           l == [local EXCEPT !.busy = TRUE]
           m == Mounted(page)
<1>1. PICK f \in Request : q[f] = call /\ \A r \in Request : r # f => q[r] = req[r]
  BY SentWaits DEF Typed
<1>2. l.busy /\ l.tab = local.tab
  BY DEF Typed, Local
<1>3. Placed(req, m, local.tab)
  BY DEF Waited
<1>4. m \in {"welcome", "plan"}
  OBVIOUS
<1> HIDE DEF q, l
<1>5. Placed(q, m, l.tab)
  BY <1>1, <1>2, <1>3 DEF Placed, Owns, By
<1>6. Owns(q, f, {"choose", "rebuild"})
  BY <1>1 DEF Owns, By
<1>7. Hears(q, m, l)
  BY <1>4, <1>6 DEF Hears
<1> QED BY <1>5, <1>7 DEF q, l

\* A screen that ends its transfer, by its button or by what it heard, and says
\* so; it has nothing else to wait for.
LEMMA TransferEnds ==
    ASSUME Typed, Waited, Mounted(page) = "transfer",
           NEW l \in Local, l.failed \/ l.done \/ l.stopped, l.busy = local.busy,
           NEW who, Render(page, l, Abandoned(req, who))
    PROVE  Waited'
<1> DEFINE q == Abandoned(req, who)
<1>1. ~local.busy /\ \A r \in Request : ~Owns(req, r, {"choose", "scanning", "rebuild"})
  BY BusyPlaces DEF Waited, Placed, Owns, By
<1>2. Slots(q)
  BY AbandonedSlots DEF Typed
<1>3. \A r \in Request : ~Owns(q, r, {"choose", "scanning", "rebuild"})
  <2> SUFFICES ASSUME NEW r \in Request PROVE ~Owns(q, r, {"choose", "scanning", "rebuild"})
    OBVIOUS
  <2>1. CASE By(req, r, who)
    BY <2>1, AbandonedKeeps DEF Owns, By, Anybody, Typed
  <2>2. CASE ~By(req, r, who)
    BY <1>1, <2>2, AbandonedKeeps DEF Owns, By, Typed
  <2> QED BY <2>1, <2>2
<1> HIDE DEF q
<1>4. Placed(q, Mounted(page), l.tab) /\ Hears(q, Mounted(page), l)
  BY <1>1, <1>3 DEF Placed, Hears, Owns, By
<1>5. page \in App /\ Render(page, l, q)
  BY DEF Typed, q
<1> QED BY <1>2, <1>4, <1>5, RenderWaits

LEMMA UserWaits == ASSUME Typed, Waited, User PROVE Waited'
<1>1. page \in App /\ local \in Local /\ Slots(req) /\ page.dest \in Destination
  BY PageType DEF Typed
<1>2. ASSUME NEW r \in Root, Choose(r) PROVE Waited'
  <2> DEFINE call == OpenCall(r)
             l == [local EXCEPT !.busy = TRUE]
  <2>1. call.op # "none" /\ call.from.own /\ call.from.by = "choose"
    BY DEF OpenCall, Call, Caller
  <2>2. Free(req) # {} /\ Mounted(page) = "welcome" /\ Keep(l, Sent(req, call))
    BY <1>2 DEF Choose
  <2>3. l \in Local /\ SlotOK(call) /\ Fresh(call)
    BY LocalType, CallSlot, FreshSlot
  <2> HIDE DEF call
  <2>4. Placed(Sent(req, call), Mounted(page), l.tab)
        /\ Hears(Sent(req, call), Mounted(page), l)
    BY <2>1, <2>2, PressedWaits
  <2> HIDE DEF l
  <2> QED BY <2>2, <2>3, <2>4, SentRender
<1>3. CASE AnotherFolder
  <2>1. [page EXCEPT !.error = FALSE, !.stage = "welcome"] \in App
    BY <1>1 DEF App, Stage
  <2> QED BY <1>3, <2>1, ShowWaits DEF AnotherFolder
<1>4. ASSUME NEW tab \in {"worlds", "assets"}, SelectTab(tab) PROVE Waited'
  <2> DEFINE q == Disowned(req, {"rebuild"})
             l == [local EXCEPT !.tab = tab, !.busy = FALSE]
  <2>1. Slots(q) /\ l \in Local /\ ~l.busy
    BY <1>1, DisownedSlots, LocalType DEF Local
  <2>2. Render(page, l, q) /\ Mounted(page) = "plan"
    BY <1>4 DEF SelectTab, Keep
  <2>3. ASSUME NEW r \in Request PROVE ~Owns(q, r, {"choose", "scanning", "rebuild"})
    <3>1. By(q, r, {"rebuild"}) => ~q[r].from.own
      BY <1>1, DisownedKeeps
    <3>2. ~By(req, r, {"rebuild"}) => q[r] = req[r]
      BY <1>1, DisownedKeeps
    <3>3. By(q, r, {"rebuild"}) <=> By(req, r, {"rebuild"})
      BY <1>1, DisownedKeeps
    <3> HIDE DEF q
    <3> QED BY <2>2, <3>1, <3>2, <3>3 DEF Waited, Placed, Owns, By
  <2> HIDE DEF q, l
  <2>4. Placed(q, Mounted(page), l.tab) /\ Hears(q, Mounted(page), l)
    BY <2>1, <2>2, <2>3 DEF Placed, Hears, Owns, By
  <2> QED BY <1>1, <2>1, <2>2, <2>4, RenderWaits
<1>5. ASSUME NEW things \in SUBSET (World \cup Folder \cup Package), NEW take \in BOOLEAN,
             InTab("worlds") \/ InTab("assets"), Decide(things, take)
      PROVE  Waited'
  <2> DEFINE next == IF take THEN page.plan.taken \cup things ELSE page.plan.taken \ things
  <2>1. page.plan \in Plan
    BY <1>5, PageType DEF InTab
  <2>2. next \in SUBSET (World \cup Folder \cup Package)
    BY <2>1 DEF Plan
  <2>3. [page.plan EXCEPT !.taken = next] \in Plan
    BY <2>1, <2>2 DEF Plan
  <2>4. [page EXCEPT !.plan.taken = next] \in App
    BY <1>1, <2>3 DEF App
  <2>5. Show([page EXCEPT !.plan.taken = next], req)
    BY <1>5 DEF Decide
  <2> QED BY <2>4, <2>5, ShowWaits
<1>6. ASSUME NEW w \in World, NEW take \in BOOLEAN, SwitchCard(w, take) \/ SwitchWorld(w, take)
      PROVE  Waited'
  BY <1>5, <1>6 DEF SwitchCard, SwitchWorld
<1>7. ASSUME NEW f \in Folder, NEW take \in BOOLEAN, SwitchFolder(f, take) PROVE Waited'
  BY <1>5, <1>7 DEF SwitchFolder
<1>8. ASSUME NEW x \in Package, NEW take \in BOOLEAN, SwitchPackage(x, take) PROVE Waited'
  BY <1>5, <1>8 DEF SwitchPackage
<1>9. ASSUME NEW to \in Dest, TypeDestination(to) PROVE Waited'
  <2>1. [page.dest EXCEPT !.to = to] \in Destination
    BY <1>1 DEF Destination
  <2>2. [page EXCEPT !.dest.to = to] \in App
    BY <1>1, <2>1 DEF App
  <2> QED BY <1>9, <2>2, ShowWaits DEF TypeDestination
<1>10. CASE Rebuild
  <2> DEFINE call == Fetch("plan", "rebuild")
             l == [local EXCEPT !.busy = TRUE]
  <2>1. call.op # "none" /\ call.from.own /\ call.from.by = "rebuild"
    BY DEF Fetch, Call, Caller
  <2>2. /\ Free(req) # {} /\ Mounted(page) = "plan" /\ local.tab = "assets"
        /\ Keep(l, Sent(req, call))
    BY <1>10 DEF Rebuild, InTab
  <2>3. l \in Local /\ SlotOK(call) /\ Fresh(call)
    BY LocalType, CallSlot, FreshSlot
  <2> HIDE DEF call
  <2>4. Placed(Sent(req, call), Mounted(page), l.tab)
        /\ Hears(Sent(req, call), Mounted(page), l)
    BY <2>1, <2>2, PressedWaits
  <2> HIDE DEF l
  <2> QED BY <2>2, <2>3, <2>4, SentRender
<1>11. ASSUME NEW dryRun \in BOOLEAN, Press(dryRun) PROVE Waited'
  <2>1. [page.dest EXCEPT !.dryRun = dryRun] \in Destination
    BY <1>1 DEF Destination
  <2>2. [page EXCEPT !.dest = [page.dest EXCEPT !.dryRun = dryRun], !.stage = "transfer"] \in App
    BY <1>1, <2>1 DEF App, Stage
  <2> QED BY <1>11, <2>2, ShowWaits DEF Press
<1>12. CASE Stop
  <2> DEFINE l == [local EXCEPT !.stopped = TRUE]
  <2>1. l \in Local /\ l.stopped /\ l.busy = local.busy
    BY <1>1, LocalType DEF Local
  <2>2. Render(page, l, Abandoned(req, {"transfer"})) /\ Mounted(page) = "transfer"
    BY <1>12 DEF Stop, Keep, Going
  <2> HIDE DEF l
  <2> QED BY <2>1, <2>2, TransferEnds
<1>13. CASE BackToPlan
  <2>1. [page EXCEPT !.stage = "plan"] \in App
    BY <1>1 DEF App, Stage
  <2> QED BY <1>13, <2>1, ShowWaits DEF BackToPlan
<1>14. CASE CheckResult
  <2> DEFINE call == Fetch("verify", "verifying")
  <2>1. call.from.by \notin {"choose", "scanning", "rebuild"}
    BY DEF Fetch, Call, Caller
  <2>2. Free(req) # {} /\ Keep(local, Sent(req, call)) /\ SlotOK(call) /\ Fresh(call)
    BY <1>14, CallSlot, FreshSlot DEF CheckResult
  <2> HIDE DEF call
  <2>3. Placed(Sent(req, call), Mounted(page), local.tab)
        /\ Hears(Sent(req, call), Mounted(page), local)
    BY <1>1, <2>1, <2>2, SentKeeps DEF Waited
  <2> QED BY <1>1, <2>2, <2>3, SentRender
<1>15. CASE Reload
  <2> DEFINE q == Abandoned(req, Anybody)
             call == Fetch("inventory", "welcome")
  <2>1. Slots(q) /\ \A r \in Request : ~By(q, r, {"choose", "scanning", "rebuild"})
    <3>1. ASSUME NEW r \in Request PROVE ~By(q, r, {"choose", "scanning", "rebuild"})
      <4>1. CASE By(req, r, Anybody)
        BY <1>1, <4>1, AbandonedKeeps DEF By, Anybody
      <4>2. CASE ~By(req, r, Anybody)
        BY <1>1, <4>2, AbandonedKeeps DEF By, Anybody
      <4> QED BY <4>1, <4>2
    <3> QED BY <1>1, <3>1, AbandonedSlots
  <2>2. Free(q) # {} /\ req' = Sent(q, call) /\ call.from.by = "welcome"
    BY <1>15 DEF Reload, Fetch, Call, Caller
  <2> HIDE DEF q, call
  <2>3. PICK f \in Request : req'[f] = call /\ \A r \in Request : r # f => req'[r] = q[r]
    BY <2>1, <2>2, SentWaits
  <2>4. \A r \in Request : ~Owns(req', r, {"choose", "scanning", "rebuild"})
    BY <2>1, <2>2, <2>3 DEF Owns, By
  <2>5. Mounted(page') = "welcome" /\ ~local'.busy
    BY <1>15 DEF Reload, NewApp, NewLocal, Mounted
  <2>6. Placed(req', Mounted(page'), local'.tab) /\ Hears(req', Mounted(page'), local')
    BY <2>4, <2>5 DEF Placed, Hears, Owns, By
  <2> QED BY <2>6 DEF Waited
<1> QED
  BY <1>2, <1>3, <1>4, <1>6, <1>7, <1>8, <1>9, <1>10, <1>11, <1>12, <1>13, <1>14, <1>15 DEF User

LEMMA TakeWaits == ASSUME Typed, Shown, Waited, NEW r \in Request, Take(r) PROVE Waited'
<1> DEFINE without == [req EXCEPT ![r] = Blank]
           idle == IF req[r].from.own THEN [local EXCEPT !.busy = FALSE] ELSE local
           chained == Fetch("state", "scanned")
<1>1. page \in App /\ local \in Local /\ Slots(req)
  BY DEF Typed
<1>2. /\ SlotOK(Blank) /\ Fresh(Blank)
      /\ \A op \in {"state", "plan"} : /\ SlotOK(Fetch(op, "scanned")) /\ Fresh(Fetch(op, "scanned"))
                                       /\ Fetch(op, "scanned").from.by = "scanned"
                                       /\ Fetch(op, "scanned") # Blank
  BY CallSlot, FreshSlot DEF Fetch, Call, Caller, Blank
\* Who may have been waiting for the call.
<1>3. ASSUME NEW by, Asked(r, by)
      PROVE  /\ \A who : By(req, r, who) <=> by \in who
             /\ \A who : Owns(req, r, who) <=> by \in who /\ req[r].from.own
  BY <1>3 DEF Asked, By, Owns
\* Only a part of what is on the screen changes.
<1>4. ASSUME Answered(r) \/ Refused(r), Render(page, local, without),
             ~By(req, r, {"choose", "scanning", "rebuild", "transfer", "scanned"})
      PROVE  Waited'
  BY <1>1, <1>2, <1>4, EndedWaits DEF By, Owns
<1>5. ASSUME Refused(r), Show([page EXCEPT !.error = TRUE], without),
             ~By(req, r, {"choose", "rebuild"})
      PROVE  Waited'
  <2> DEFINE p == [page EXCEPT !.error = TRUE]
  <2>1. p \in App /\ Mounted(p) = "error"
    BY <1>1 DEF App, Mounted
  <2>2. Render(p, local, without)
    BY <1>5 DEF Show
  <2> HIDE DEF p, without
  <2>3. without = [req EXCEPT ![r] = Blank]
    BY DEF without
  <2> QED BY <1>1, <1>2, <1>5, <2>1, <2>2, <2>3, EndedWaits DEF Owns, By
<1>6. /\ idle \in Local /\ idle.tab = local.tab /\ idle.failed = local.failed
      /\ idle.done = local.done /\ idle.stopped = local.stopped
      /\ idle.busy => local.busy /\ ~req[r].from.own
  BY <1>1, LocalType DEF Local
<1>7. CASE TakeOpen(r)
  <2> DEFINE p == [page EXCEPT !.stage = "scanning"]
  <2>1. p \in App /\ Mounted(p) \in {"error", "scanning"}
    BY <1>1 DEF App, Stage, Mounted
  <2>2. CASE Answered(r) /\ Render(p, local, without)
    <3>1. ~Moved(p) => ~Owns(req, r, {"choose", "rebuild"})
      BY <1>3, <1>7, <2>1 DEF TakeOpen, Moved, Waited, Placed, Owns, By
    <3>2. ~By(req, r, {"scanning"}) /\ ~By(req, r, {"scanned"})
      BY <1>3, <1>7 DEF TakeOpen
    <3> HIDE DEF p
    <3> QED BY <1>1, <1>2, <2>1, <2>2, <3>1, <3>2, EndedWaits DEF Owns
  <2>3. CASE Refused(r) /\ Keep(idle, without)
    <3>1. ~By(req, r, {"scanning"}) /\ ~By(req, r, {"scanned"}) /\ ~By(req, r, {"transfer"})
      BY <1>3, <1>7 DEF TakeOpen
    <3> HIDE DEF idle
    <3> QED BY <1>1, <1>2, <1>6, <2>3, <3>1, EndedWaits DEF Keep, Owns
  <2> QED BY <1>7, <2>2, <2>3 DEF TakeOpen, Show
<1>8. ASSUME Answered(r), Asked(r, "welcome") \/ Asked(r, "scanning"), Scanned(r) PROVE Waited'
  <2> DEFINE p == [page EXCEPT !.inventory = req[r].answer]
  <2>1. req[r].answer \in Root
    BY <1>8, AskedSlot DEF Answered, CallerOK, HandlerOK
  <2>2. p \in App
    BY <1>1, <2>1 DEF App
  <2>3. Render(p, local, [req EXCEPT ![r] = chained])
    BY <1>8 DEF Scanned, Show
  <2>4. ~By(req, r, {"transfer"}) /\ ~Owns(req, r, {"choose", "rebuild"})
    BY <1>3, <1>8
  <2>5. SlotOK(chained) /\ Fresh(chained) /\ chained.from.by = "scanned" /\ chained # Blank
    BY <1>2
  <2> HIDE DEF p, chained
  <2> QED BY <1>1, <1>8, <2>2, <2>3, <2>4, <2>5, EndedWaits
<1>9. CASE TakeInventory(r)
  <2>1. ~By(req, r, {"choose", "scanning", "rebuild", "transfer", "scanned"})
    BY <1>3, <1>9 DEF TakeInventory
  <2> QED BY <1>4, <1>8, <1>9, <2>1 DEF TakeInventory, Keep
<1>10. CASE TakeScan(r)
  <2> DEFINE l == IF req[r].from.own THEN [local EXCEPT !.failed = TRUE] ELSE local
  <2>1. CASE Refused(r) /\ Keep(l, without)
    <3>1. /\ l \in Local /\ l.tab = local.tab /\ l.busy = local.busy /\ l.done = local.done
          /\ l.stopped = local.stopped
          /\ IF req[r].from.own THEN l.failed ELSE l.failed = local.failed
      BY <1>1, LocalType DEF Local
    <3>2. /\ ~By(req, r, {"transfer"}) /\ ~Owns(req, r, {"choose", "rebuild"})
          /\ ~By(req, r, {"scanned"}) /\ (Owns(req, r, {"scanning"}) <=> req[r].from.own)
      BY <1>3, <1>10 DEF TakeScan
    <3>3. req[r].from.own => Mounted(page) = "scanning"
      BY <3>2 DEF Waited, Placed
    <3> HIDE DEF l
    <3> QED BY <1>1, <1>2, <2>1, <3>1, <3>2, <3>3, EndedWaits DEF Keep
  <2> QED BY <1>8, <1>10, <2>1 DEF TakeScan
<1>11. CASE TakeState(r)
  <2> DEFINE c == Fetch("plan", "scanned")
  <2>1. By(req, r, {"scanned"})
        /\ ~By(req, r, {"transfer"}) /\ ~By(req, r, {"choose", "rebuild"})
    BY <1>3, <1>11 DEF TakeState
  <2>2. CASE Answered(r) /\ Show(page, [req EXCEPT ![r] = c])
    <3>1. SlotOK(c) /\ Fresh(c) /\ c.from.by = "scanned" /\ c # Blank
      BY <1>2
    <3>2. Render(page, local, [req EXCEPT ![r] = c])
      BY <2>2 DEF Show
    <3> HIDE DEF c
    <3> QED BY <1>1, <2>1, <2>2, <3>1, <3>2, EndedWaits DEF Owns
  <2> QED BY <1>5, <1>11, <2>1, <2>2 DEF TakeState
<1>12. ASSUME Answered(r), req[r].op = "plan", Asked(r, "scanned") \/ Asked(r, "rebuild")
       PROVE  NewPlan(req[r].answer) \in Plan
  BY <1>12, AskedSlot, DefaultPlan DEF Answered, HandlerOK
<1>13. CASE TakeFirstPlan(r)
  <2> DEFINE plan == NewPlan(req[r].answer)
             p == [page EXCEPT !.plan = plan, !.stage = "plan"]
  <2>1. ~By(req, r, {"transfer"}) /\ ~By(req, r, {"choose", "rebuild"})
    BY <1>3, <1>13 DEF TakeFirstPlan
  <2>2. CASE Answered(r) /\ Show(p, without)
    <3>1. plan \in Plan
      BY <1>12, <1>13, <2>2 DEF TakeFirstPlan
    <3> HIDE DEF plan
    <3>2. p \in App /\ Mounted(p) \notin {"scanning", "transfer"}
      BY <1>1, <3>1 DEF App, Stage, Mounted
    <3>3. Render(p, local, without)
      BY <2>2 DEF Show
    <3> HIDE DEF p
    <3> QED BY <1>1, <1>2, <2>1, <2>2, <3>2, <3>3, EndedWaits DEF Owns, By
  <2> QED BY <1>5, <1>13, <2>1, <2>2 DEF TakeFirstPlan
<1>14. CASE TakePlan(r)
  <2> DEFINE plan == NewPlan(req[r].answer)
             p == [page EXCEPT !.plan = plan]
  <2>1. ~By(req, r, {"transfer"}) /\ ~By(req, r, {"scanning"}) /\ ~By(req, r, {"scanned"})
    BY <1>3, <1>14 DEF TakePlan
  <2>2. ASSUME Answered(r) \/ Refused(r), NEW x \in App, Render(x, idle, without) PROVE Waited'
    <3> HIDE DEF idle
    <3> QED BY <1>2, <1>6, <2>1, <2>2, EndedWaits DEF Owns
  <2>3. CASE Answered(r) /\ Render(p, idle, without)
    <3>1. req[r].op = "plan"
      BY <1>14, AskedSlot DEF TakePlan, CallerOK
    <3>2. plan \in Plan
      BY <1>12, <1>14, <2>3, <3>1 DEF TakePlan
    <3> HIDE DEF plan
    <3>3. p \in App
      BY <1>1, <3>2 DEF App
    <3> HIDE DEF p, idle, without
    <3> QED BY <2>2, <2>3, <3>3
  <2>4. CASE Refused(r) /\ Keep(idle, without)
    <3> HIDE DEF idle, without
    <3> QED BY <1>1, <2>2, <2>4 DEF Keep
  <2> QED BY <1>14, <2>3, <2>4 DEF TakePlan
<1>15. CASE TakeRun(r)
  <2>1. Mounted(page) = "transfer"
    BY <1>15 DEF TakeRun, Shown, RunIsShown
  <2>2. PICK l \in {[local EXCEPT !.done = TRUE], [local EXCEPT !.failed = TRUE]} :
           IF req[r].pc \in {"copied", "broken"} THEN Keep(l, Abandoned(req, {"transfer"}))
           ELSE Keep(l, without) /\ (Answered(r) \/ Refused(r))
    BY <1>15 DEF TakeRun, Answered, Refused
  <2>3. l \in Local /\ (l.failed \/ l.done) /\ l.busy = local.busy /\ l.tab = local.tab
    BY <1>1, LocalType DEF Local
  <2>4. CASE Keep(l, Abandoned(req, {"transfer"}))
    BY <2>1, <2>3, <2>4, TransferEnds DEF Keep
  <2>5. CASE Keep(l, without) /\ (Answered(r) \/ Refused(r))
    <3>1. ~local.busy
      BY <2>1, BusyPlaces DEF Waited
    <3> QED BY <1>1, <1>2, <2>1, <2>3, <2>5, <3>1, EndedWaits DEF Keep, Moved
  <2> QED BY <2>2, <2>4, <2>5
<1>16. CASE TakeVerify(r)
  <2> DEFINE p == [page EXCEPT !.result = req[r].answer, !.stage = "verify"]
  <2>1. ~By(req, r, {"choose", "rebuild"})
    BY <1>3, <1>16 DEF TakeVerify
  <2>2. CASE Answered(r) /\ Show(p, without)
    <3>1. req[r].answer \in Verdict
      BY <1>16, <2>2, AskedSlot DEF TakeVerify, Answered, CallerOK, HandlerOK
    <3>2. p \in App /\ Mounted(p) \notin {"scanning", "transfer"}
      BY <1>1, <3>1 DEF App, Stage, Mounted
    <3>3. Render(p, local, without)
      BY <2>2 DEF Show
    <3> HIDE DEF p
    <3> QED BY <1>1, <1>2, <2>1, <2>2, <3>2, <3>3, EndedWaits DEF Owns, By
  <2> QED BY <1>5, <1>16, <2>1, <2>2 DEF TakeVerify
<1>17. CASE Drop(r)
  <2>1. \A s \in Request : IF s = r THEN req'[s] = Blank ELSE req'[s] = req[s]
    BY <1>1, <1>17 DEF Drop, Slots
  <2>2. ~By(req, r, Anybody)
    BY <1>3, <1>17 DEF Drop, Anybody
  <2>3. \A who \in SUBSET Anybody : \A s \in Request :
           (By(req', s, who) <=> By(req, s, who)) /\ (Owns(req', s, who) <=> Owns(req, s, who))
    BY <2>1, <2>2 DEF By, Owns, Blank
  <2>4. Mounted(page') = Mounted(page) /\ local' = local
    BY <1>17 DEF Drop
  <2>5. Placed(req', Mounted(page'), local'.tab) /\ Hears(req', Mounted(page'), local')
    BY <2>3, <2>4 DEF Waited, Placed, Hears, Anybody
  <2> QED BY <2>5 DEF Waited
<1> QED
  BY <1>7, <1>9, <1>10, <1>11, <1>13, <1>14, <1>15, <1>16, <1>17 DEF Take

LEMMA SameWaits ==
    ASSUME Waited, UNCHANGED <<page, local>>,
           \A s \in Request : req'[s].op = req[s].op /\ req'[s].from = req[s].from
    PROVE  Waited'
<1>1. \A who : \A s \in Request :
         (By(req', s, who) <=> By(req, s, who)) /\ (Owns(req', s, who) <=> Owns(req, s, who))
  BY DEF By, Owns
<1>2. Mounted(page') = Mounted(page)
  OBVIOUS
<1>3. Placed(req', Mounted(page'), local'.tab) /\ Hears(req', Mounted(page'), local')
  BY <1>1, <1>2 DEF Waited, Placed, Hears
<1> QED BY <1>3 DEF Waited

LEMMA InitWaits == Init => Waited
<1> SUFFICES ASSUME Init PROVE Waited
  OBVIOUS
<1>1. \A r \in Request : ~By(req, r, {"choose", "scanning", "rebuild"})
  BY DEF Init, Sent, Blank, Fetch, Call, Caller, By
<1>2. Mounted(page) = "welcome" /\ ~local.busy
  BY DEF Init, NewApp, NewLocal, Mounted
<1> QED BY <1>1, <1>2 DEF Waited, Placed, Hears, Owns, By

\* A screen that says something is under way is right: whatever was asked for
\* before, answered late or refused, there is a call it will hear of; only Stop
\* leaves a transfer on the screen that is none (Transfer.tsx:46, Plan.tsx:27).
THEOREM PageAwaited == Spec => []Awaited
<1>1. Typed /\ Shown /\ Waited /\ [Next]_vars => Waited'
  <2> SUFFICES ASSUME Typed, Shown, Waited, [Next]_vars PROVE Waited'
    OBVIOUS
  <2>1. CASE UNCHANGED vars
    BY <2>1, SameWaits DEF vars
  <2>2. ASSUME NEW r \in Request, Panel(r) PROVE Waited'
    BY <2>2, PanelFrom, SameWaits DEF Panel
  <2>3. ASSUME NEW r \in Root, Change(r) /\ UNCHANGED <<page, local, pressed>> PROVE Waited'
    BY <2>3, ChangeSlots, SameWaits
  <2> QED BY <2>1, <2>2, <2>3, UserWaits, TakeWaits DEF Next
<1>2. Waited => Awaited
  <2> SUFFICES ASSUME Waited PROVE Awaited
    OBVIOUS
  <2>1. \A r \in Request : /\ Running(r) <=> By(req, r, {"transfer"})
                           /\ \A by : Asked(r, by) <=> By(req, r, {by})
    BY DEF Running, Asked, By
  <2>2. \A r \in Request : Owns(req, r, {"choose", "rebuild"})
           => (Asked(r, "choose") \/ Asked(r, "rebuild")) /\ req[r].from.own
    BY DEF Owns, By, Asked
  <2>3. \A r \in Request : Owns(req, r, {"scanning"}) => Asked(r, "scanning")
    BY DEF Owns, By, Asked
  <2> QED BY <2>1, <2>2, <2>3 DEF Waited, Hears, Awaited, Going
<1> QED BY <1>1, <1>2, InitWaits, AlwaysShown, PTL DEF Spec
=============================================================================
